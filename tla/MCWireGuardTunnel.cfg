CONSTANTS
    MaxTroubles = 4
SPECIFICATION FairSpec
INVARIANTS
    RecordsAgree
PROPERTIES
    LeavesOthers
    LinkGoesLast
    ImplementsLedger
    DeadIsResolved
