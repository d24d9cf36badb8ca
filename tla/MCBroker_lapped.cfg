SPECIFICATION Spec
CONSTANTS
    QueueCap = 3
    RingCapacity = 2
    MaxWindow = 3
    MaxLosses = 0
    MaxSkip = 0
    MaxEpoch = 0
    MaxTimeouts = 0
INVARIANT IncreasingByConstruction
