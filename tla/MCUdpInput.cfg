SPECIFICATION UdpSpec
CONSTANTS
    PacketSize = 3
    Sync = Sync
    Other = Other
    MaxChunk = 5
    MaxBytes = 9
    MaxDatagram = 6
    MaxReceived = 7
INVARIANTS
    TypeOK
    HandedIsPrefix
    ChunksDoNotMatter
    BytesAccounted
    DatagramsInOrder
    WholePacketsSurvive
PROPERTIES
    FeedReturns
    KeepsUp
