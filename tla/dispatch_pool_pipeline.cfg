CONSTANTS
    NumDevices = 1
    Handlers = {}
    Pool = TRUE
    TaskForceStop = FALSE
    EmptyTemplates <- NoTemplates
    Undecodable = FALSE
    MaxTip = 2
    MaxShares = 5
SPECIFICATION FairSpec
CHECK_DEADLOCK FALSE
INVARIANTS
    ShareOrder
PROPERTIES
    ImplementsStream
    SharesSettled
    NewWorkStopsCalc
    QuitStopsDevices
