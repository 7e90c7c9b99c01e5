SPECIFICATION Spec
CONSTANTS
    SegmentFrames = 2
    BatchSizes = {2}
    MaxEvents = 6
    MaxCrashes = 1
    MaxFailures = 0
    MaxFences = 0
    MaxCloses = 1
    Tears = {}
    FastStarts = {TRUE, FALSE}
INVARIANTS
    DurableSurvives
CHECK_DEADLOCK FALSE
