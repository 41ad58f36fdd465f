CONSTANTS
    Owner = owner
    Users = {u1}
    MaxConn = 1
    Unreliable <- Reliable
    SendBuffer = 1
SPECIFICATION FairSpec
CHECK_DEADLOCK FALSE
PROPERTIES
    RequestsAnswered
