CONSTANTS
    Lanes = {l0, l1}
    MaxSequence = 2
    MaxToken = 2
SPECIFICATION GateSpec
INVARIANTS
    GateSound
PROPERTIES
    VisibleMonotone
    HiddenForGood
CHECK_DEADLOCK FALSE
