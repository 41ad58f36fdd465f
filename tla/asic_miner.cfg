CONSTANTS
    NumOfChips = 2
    Pool = FALSE
    RejectLimit = 2
    FreqsParse = TRUE
    MaxHeight = 2
    EmptyAt = {2}
    Nonces = {1}
    MaxResults = 1
SPECIFICATION FairSpec
CHECK_DEADLOCK FALSE
INVARIANTS
    TypeOK
    PortPaired
    OnlySolutions
    NoShareTwice
    EmptyOnce
    EndedInvalid
PROPERTIES
    NewWorkStopsCalc
    StaleWorkStops
    QuitEndsMine
