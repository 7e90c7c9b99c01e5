SPECIFICATION IdempotencySpec
CONSTANTS
    Keys = {"k1", "k2", "k3"}
    MaxSnapshots = 1
    retention = "hybrid"
    keep_sequences = 3
    max_keys = 2
    overflow = "fail_closed"
    SegmentFrames = 2
    BatchSizes = {2}
    MaxEvents = 8
    MaxCrashes = 1
    MaxFailures = 0
    MaxFences = 0
    MaxCloses = 1
    Tears = {}
    FastStarts = {FALSE}
    Strategies = {"rewrite"}
    MaxCompactions = 1
    MinSegments = 1
    FaultSteps = {"copy", "rebuild", "remove", "clear", "artifact"}
    CrashSteps = {"rebuild", "swap", "remove", "clear", "artifact"}
    MaxFaults = 1
    MaxReads = 0
INVARIANTS
    
    
    KeyOnce
    SidecarHonest
    
CHECK_DEADLOCK FALSE
