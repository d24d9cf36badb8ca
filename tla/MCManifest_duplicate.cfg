SPECIFICATION Spec
CONSTANTS
    File <- Files
    Request <- Requests
    Slot = {"gnss"}
    Host = "host"
    AbiMajor = 1
    AbiMinor = 0
    OutCap = 2
    MaxManifests = 3
INVARIANTS RefusesAsDocumented
