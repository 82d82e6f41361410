SPECIFICATION Restless
CONSTANTS
    StallLimit = 2
    HasProbeUrl = TRUE
    Leaks = TRUE
    MaxRespawns = 1
INVARIANTS
    EvidenceSound
PROPERTIES
    RestartsSpaced
CHECK_DEADLOCK FALSE
VIEW SafetyView
