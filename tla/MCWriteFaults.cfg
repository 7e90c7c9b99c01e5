CONSTANTS
    l0 = l0
    l1 = l1
    Lanes = {l0, l1}
    Lane0 = l0
    MaxRequests = 4
    GroupCommitBudget = 2
    DrainLimit = 1
    SyncEvery = 3
    SegmentFrames = 2
    MaxFaults = 1
    MaxPanics = 0
    MaxRestarts = 1
    Clients = {c1}
    ChannelCapacity = 2
    Batches <- MCBatches
    Uses = {"append", "batch", "fence", "sync", "close"}
SPECIFICATION Spec
INVARIANTS
    FenceHides
    LanesAgree
    AckedBatchSurvives
    WatermarksSound
PROPERTIES
    SeenForever
    SyncCovers
    RefinesJournal
CHECK_DEADLOCK FALSE
