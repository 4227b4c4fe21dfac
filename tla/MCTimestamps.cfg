SPECIFICATION Spec
CONSTANTS
    Wrap = 8
    Tick = 1
    MaxJump = 2
    Starts <- NearWrap
    Steps <- Frames
    Reorder <- Reorders
    MaxPackets = 3
INVARIANTS
    Healed
PROPERTIES
    RunsForward
CHECK_DEADLOCK FALSE
