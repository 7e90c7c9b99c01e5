SPECIFICATION Spec
CONSTANTS
    SegmentFrames = 2
    BatchSizes = {2}
    MaxEvents = 8
    MaxCrashes = 0
    MaxFailures = 1
    MaxFences = 1
    MaxCloses = 1
    Tears = {}
    FastStarts = {TRUE, FALSE}
INVARIANTS
    OrderKept
    FencedHidden
CHECK_DEADLOCK FALSE
