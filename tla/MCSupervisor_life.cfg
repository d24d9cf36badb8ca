SPECIFICATION FairSpec
CONSTANTS
    journal = journal
    worker = worker
    Order <- StartOrder
    Server = {journal}
    Worker = {worker}
    Grace = 1
    StaleAfter = 0
    RestartWindow = 1
    MaxRestarts = 2
    MaxResumes = 1
INVARIANTS RestartRateBounded HungIsPastGrace NoOrphans
PROPERTIES HungWorkerIsRemoved StartTerminates
CHECK_DEADLOCK FALSE
