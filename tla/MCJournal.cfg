SPECIFICATION FairSpec
CONSTANTS
    s1 = s1
    s2 = s2
    b1 = b1
    b2 = b2
    Boot = {b1, b2}
    SensorOf <- Sensors
    MaxTracks = 1
    RingCapacity = 2
    MaxConnections = 2
    ReorderWindow = 0
    MaxLateness = 0
    MaxPending = 2
    MaxSequence = 1
    MaxTime = 1
    MaxWindow = 3
INVARIANTS AdmittedInOrder InOrderUnlessLapped
PROPERTIES AdmissionNeverLaps NoCursorIsStuck
