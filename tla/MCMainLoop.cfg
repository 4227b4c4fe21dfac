SPECIFICATION Spec
CONSTANTS
    Configs <- AllConfigs
    Batch = 3
    MaxWrites = 4
    MaxPackets = 5
INVARIANTS
    ClosedOnce
    RoomToWrite
    InOrderOnce
    SuccessIsDelivery
PROPERTIES
    EndsWithInput
