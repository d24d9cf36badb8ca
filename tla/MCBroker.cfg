SPECIFICATION Spec
CONSTANTS
    QueueCap = 3
    RingCapacity = 2
    MaxWindow = 3
    MaxLosses = 2
    MaxSkip = 1
    MaxEpoch = 1
    MaxTimeouts = 1
INVARIANTS OneLossNeverMispairs ProcessedInOrder
PROPERTIES BeliefNeverRegresses QueuedIsProcessed LinkSpec
