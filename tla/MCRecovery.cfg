SPECIFICATION Spec
CONSTANTS
    Streams <- TwoStreams
    Packets <- AnyPackets
    Configs <- Together
    HalfBudget = 4
    Capacity = 3
    HeaderLimit = 2
    NoStream = NoStream
    NoPacket = NoPacket
    Nothing = Nothing
INVARIANTS
    BudgetRespected
    PreviewSuperseded
    OneStream
PROPERTIES
    BestFirst
    ImagesImprove
    CallsReturn
