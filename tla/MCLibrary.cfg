SPECIFICATION LibrarySpec
CONSTANTS
    Junk = Junk
    ApiBuffer = 1200
    Storage = 512
    Number = {2}
    StringCap = 2
    NumberCap = 3
    ListCap = 4
    Document <- Documents
    MaxRecords = 4
    MaxRestarts = 2
    Sensor = {0, 1, 2}
    Configured = {0, 1}
    MaxTracked = 2
    DgtEnabled = TRUE
    ActionCount = 3
    Mask <- DefaultMask
    ActionId <- ReversedId
    Scenario = {"nominal", "position_dropout", "inertial_bias", "processing_delay"}
    Table <- Tables
    Margin = 50
    FreshWindow = 0
    File <- Files
    Request <- Requests
    Slot = {"gnss"}
    Host = "host"
    AbiMajor = 1
    AbiMinor = 0
    OutCap = 2
    MaxManifests = 3
INVARIANTS
    DecodesWhatWasSent StaysInBounds ScanningIsParsing
    ReplayIsGenuine ReplayMatchesLive DurableUnlessTorn
    WithinArrays PlanIsLoadOrder RefusesExactly RankingIsRight
PROPERTIES DecisionIsNearMinimax NoFlapping
CHECK_DEADLOCK FALSE
