CONSTANTS
    h1 = h1
    NumDevices = 1
    Handlers = {h1}
    Pool = FALSE
    TaskForceStop = FALSE
    EmptyTemplates <- NoTemplates
    Undecodable = FALSE
    MaxTip = 2
    MaxShares = 4
SPECIFICATION FairSoloSpec
CHECK_DEADLOCK FALSE
PROPERTIES
    NewWorkStopsCalc
