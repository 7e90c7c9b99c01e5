CONSTANTS
    l0 = l0
    l1 = l1
    Lanes = {l0, l1}
    Lane0 = l0
    MaxRequests = 4
    GroupCommitBudget = 1
    DrainLimit = 1
    SyncEvery = 3
    SegmentFrames = 100
    MaxFaults = 0
    MaxPanics = 2
    MaxRestarts = 1
    Clients = {c1, c2}
    ChannelCapacity = 1
    Batches <- MCPair
    Uses = {"append", "batch", "fence"}
SPECIFICATION Spec
INVARIANTS
    CancelledHidden
    BatchAtomic
    WriterOwnsGate
SYMMETRY Symmetry
CHECK_DEADLOCK FALSE
