CONSTANTS
    s1 = s1
    s2 = s2
    Slots = {s1, s2}
    MaxList = 3
    MaxTroubles = 3
SPECIFICATION FairSpec
INVARIANTS
    PutBack
    RecordsAgree
PROPERTIES
    OverrideReturns
