SPECIFICATION Spec
CONSTANTS
    NoPacket = NoPacket
    Pids <- MCPids
    CcMod = 3
    Inputs <- LockInputs
    Configs <- LockConfigs
    MaxPackets = 6
INVARIANTS
    InjectedPmtPassesFilter
