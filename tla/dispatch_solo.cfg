CONSTANTS
    h1 = h1
    NumDevices = 1
    Handlers = {h1}
    Pool = FALSE
    TaskForceStop = TRUE
    EmptyTemplates <- SomeTemplates
    Undecodable = TRUE
    MaxTip = 2
    MaxShares = 2
SPECIFICATION Spec
CHECK_DEADLOCK FALSE
INVARIANTS
    TypeOK
    SubmitLockGuards
