CONSTANTS
    MaxTroubles = 3
    MaxQueue = 5
SPECIFICATION FairSpec
INVARIANTS
    RecordsAgree
    FollowsSession
    OneFull
PROPERTIES
    ImplementsLedger
    DeadIsResolved
    FlushedComesBack
