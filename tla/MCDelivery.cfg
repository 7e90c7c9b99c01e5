SPECIFICATION FairSpec
CONSTANTS
    batch_size = 2
    policy = "bounded"
    max_restarts = 1
    Capacity = 1
    MaxEvents = 3
    MaxFences = 1
    MaxIncidents = 1
    MaxSpawns = 1
    LostTail = 0
INVARIANTS
    
    InOrder
    SubscriberNoGaps
CHECK_DEADLOCK FALSE
PROPERTIES
    EventuallyDelivered
