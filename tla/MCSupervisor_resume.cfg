SPECIFICATION FairSpec
CONSTANTS
    journal = journal
    worker = worker
    Order <- WorkerOnly
    Server = {}
    Worker = {worker}
    Grace = 0
    StaleAfter = 0
    RestartWindow = 0
    MaxRestarts = 1
    MaxResumes = 1
PROPERTIES ResumedRejoins
CHECK_DEADLOCK FALSE
