SPECIFICATION CompactionSpec
CONSTANTS
    SegmentFrames = 2
    BatchSizes = {}
    MaxEvents = 8
    MaxCrashes = 2
    MaxFailures = 0
    MaxFences = 0
    MaxCloses = 0
    Tears = {"short"}
    FastStarts = {TRUE, FALSE}
    Strategies = {"merge"}
    MaxCompactions = 1
    MinSegments = 1
    FaultSteps = {"create", "copy", "sync", "rebuild", "remove", "clear", "artifact"}
    CrashSteps = {"rebuild", "swap", "remove", "clear", "artifact"}
    MaxFaults = 1
    MaxReads = 1
INVARIANTS
    
    SequencesStable
    ColdStartsAgree
    ReadsRight
CHECK_DEADLOCK FALSE
