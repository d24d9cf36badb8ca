SPECIFICATION PolicySpec
CONSTANTS
    Sensor = {0, 1, 2}
    Configured = {0, 1, 2}
    MaxTracked = 3
    DgtEnabled = TRUE
    ActionCount = 3
    Mask <- DefaultMask
    ActionId <- ReversedId
    Scenario = {"nominal", "position_dropout", "inertial_bias", "processing_delay"}
    Table <- Tables
    Margin = 50
    FreshWindow = 0
INVARIANT NoActionIsInvalid
