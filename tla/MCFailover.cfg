SPECIFICATION Spec
CONSTANTS
    Pipe = p1
    ReplayGap = 0
    ConfirmTimeout = 1
    BeatPeriod = 1
    MaxRestarts = 1
    BrokerSlots = 3
    MaxWindow = 2
    MaxEpoch = 4
    MaxFaults = 2
    MaxRuns = 2
    MaxDemoFaults = 1
INVARIANTS DemoVerdictIsTrue
PROPERTIES Takeover DemoPasses
CHECK_DEADLOCK FALSE
