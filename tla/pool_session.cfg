CONSTANTS
    MaxConn = 2
    MaxJob = 1
    MaxDiff = 1
    MaxShares = 2
    MaxRequests = 1
    RequestIDs = {2, 9}
SPECIFICATION Spec
CHECK_DEADLOCK FALSE
INVARIANT TypeOK
PROPERTY LoginNotCounted
