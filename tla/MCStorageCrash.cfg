SPECIFICATION Spec
CONSTANTS
    SegmentFrames = 2
    BatchSizes = {2}
    MaxEvents = 8
    MaxCrashes = 1
    MaxFailures = 0
    MaxFences = 1
    MaxCloses = 0
    Tears = {"torn", "short"}
    FastStarts = {TRUE, FALSE}
INVARIANTS
    DurableSurvives
    OnlyOlderRefused
    BatchesAtomic
    RevokedHidden
    IndexReadable
CHECK_DEADLOCK FALSE
