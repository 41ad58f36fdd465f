CONSTANTS
    MaxTemplates = 2
    MaxShares = 2
    NotConfirmHeight = 0
    MaxInbox = 1
    MaxUint = 7
SPECIFICATION FairSpec
INVARIANTS
    TypeOK
    Balanced
    PendingCovers
    TotalNotInflated
PROPERTIES
    NeverWraps
    ImplementsLedger
    ReaderProceeds
    OutgrownLeaves
