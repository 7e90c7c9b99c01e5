SPECIFICATION FairSpec
CONSTANTS
    Kinds = {"event", "entity", "receipt"}
    Window = 2
    PageSize = 2
    WakeCapacity = 1
    MaxEvents = 2
    MaxControls = 1
    MaxDeliveries = 2
    MaxIncidents = 1
INVARIANTS
    StreamNoGaps
PROPERTIES
    EventuallyStreamed
    SessionEnds
CHECK_DEADLOCK FALSE
