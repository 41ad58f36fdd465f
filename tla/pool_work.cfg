CONSTANTS
    MaxConn = 2
    MaxJob = 2
    MaxDiff = 2
    MaxShares = 0
    MaxRequests = 0
    RequestIDs = {}
SPECIFICATION FairSpec
CHECK_DEADLOCK FALSE
PROPERTIES
    CleanWorkArrives
    DifficultyApplied
