SPECIFICATION Spec
CONSTANTS
    wA = wA
    wB = wB
    s = s
    Worker = {wA, wB}
    SensorOf <- OneSensor
    Period = 1
    DelayBy = 2
    Gap = 1
    ReorderWindow = 0
    MaxLateness = 0
    MaxPending = 1
    MaxTime = 3
    MaxBoot = 2
    MaxFlight = 2
INVARIANTS NoReadingTwice NothingAfterTear UsedInOrder
SYMMETRY Workers
CHECK_DEADLOCK FALSE
