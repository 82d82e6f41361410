CONSTANTS
    Uplinks <- MCUplinks
    Configs <- MCConfigs
    MaxRespawns = 1
    MaxTroubles = 3
SPECIFICATION FairSpec
INVARIANTS
    RecordsCover
    RunningAgrees
PROPERTIES
    DeadIsResolved
