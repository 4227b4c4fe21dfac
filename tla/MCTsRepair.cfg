SPECIFICATION Spec
CONSTANTS
    NoPacket = NoPacket
    Pids <- MCPids
    CcMod = 3
    Inputs <- AllInputs
    Configs <- AllConfigs
    MaxPackets = 4
INVARIANTS
    TypeOK
    TeiFree
    CadenceKept
    WrittenWasReceived
    PsiCcContiguous
    VideoCcContiguous
