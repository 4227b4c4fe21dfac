SPECIFICATION Spec
CONSTANTS
    Streams <- TwoStreams
    Packets <- AnyPackets
    Configs <- AtOnce
    HalfBudget = 3
    Capacity = 2
    HeaderLimit = 2
    NoStream = NoStream
    NoPacket = NoPacket
    Nothing = Nothing
INVARIANTS
    FinishTriesAll
