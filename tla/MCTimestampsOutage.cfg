SPECIFICATION Spec
CONSTANTS
    Wrap = 8
    Tick = 1
    MaxJump = 2
    Starts <- NearWrap
    Steps <- Outages
    Reorder <- Reorders
    MaxPackets = 4
INVARIANTS
    SteadyStampsPass
CHECK_DEADLOCK FALSE
