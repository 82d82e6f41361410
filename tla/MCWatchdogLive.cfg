SPECIFICATION Spec
CONSTANTS
    StallLimit = 1
    HasProbeUrl = FALSE
    Leaks = FALSE
    MaxRespawns = 1
PROPERTY
    ChangeAnswered
CHECK_DEADLOCK FALSE
