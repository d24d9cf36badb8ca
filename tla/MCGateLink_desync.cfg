SPECIFICATION Spec
CONSTANTS
    MaxBatch = 2
    MaxSkip = 1
    MaxEpoch = 1
    MaxTimeouts = 1
PROPERTIES BeliefCatchesUp
