CONSTANTS
    NumDevices = 2
    Handlers = {}
    Pool = TRUE
    TaskForceStop = FALSE
    EmptyTemplates <- NoTemplates
    Undecodable = FALSE
    MaxTip = 2
    MaxShares = 1
SPECIFICATION Spec
CHECK_DEADLOCK FALSE
INVARIANTS
    EveryDeviceGetsTheJob
PROPERTIES
    JobsMoveForward
