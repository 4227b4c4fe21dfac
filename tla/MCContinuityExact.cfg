SPECIFICATION Spec
CONSTANTS
    Events <- LossOnly
    Bases <- TwoBases
    MaxBurst = 3
    MaxPackets = 4
INVARIANTS
    MissingIsLost
CHECK_DEADLOCK FALSE
