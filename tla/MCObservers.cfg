SPECIFICATION Spec
CONSTANTS
    PidCount = 4
    Pids = {1, 2, 3}
    NullPid = 3
    Capacity = 2
    Top = 2
    Hashes = {0, 1, 2}
    LongWindow = 3
    ShortWindow = 2
    LongPayload = 2
    Configs <- AllConfigs
    HeardInContest = 4
    HeardForRepeats = 5
    HeardForRoles = 2
INVARIANTS
    RingIsRecent
    BytesStored
    HottestListed
    RepeatsSeen
    LoadedWasSaved
    KnowledgeLasts
