CONSTANTS
    Owner = owner
    Users = {}
    MaxConn = 2
    Unreliable <- FirstMayBreak
    SendBuffer = 1
SPECIFICATION FairSpec
CHECK_DEADLOCK FALSE
INVARIANTS
    TypeOK
    OneAnswer
    NothingWaitsAfterShutdown
PROPERTIES
    ShutdownEndsAll
