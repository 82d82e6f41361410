SPECIFICATION Spec
CONSTANTS
    n1 = n1
    n2 = n2
    Candidates <- MCCandidates
    MaxSups = 2
INVARIANT
    TypeOK
PROPERTIES
    StaleNeverLands
    FlipsNeedTwo
    Settles
    StoppedEnds
