SPECIFICATION Spec
CONSTANTS
    Events <- AllEvents
    Bases <- TwoBases
    MaxBurst = 15
    MaxPackets = 4
INVARIANTS
    LossesCounted
    RecoveryExact
    CleanMeansClean
CHECK_DEADLOCK FALSE
