SPECIFICATION FairEventsSpec
CONSTANTS
    Clients = {c1, c2}
    Capacity = 2
    MaxRevision = 2
    MaxFailures = 1
INVARIANTS
    StreamInv
PROPERTIES
    EveryMovementIsSeen
CHECK_DEADLOCK FALSE
