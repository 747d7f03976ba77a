SPECIFICATION FairQueueSpec
CONSTANTS
    Items = {i1}
    Workers = {w1, w2}
    MaxAttempts = 2
    MaxLost = 2
    MaxDefers = 1
    MaxStamp = 1
    None = None
INVARIANTS
    DeliveryInv
PROPERTIES
    AnswersAreCurrent
    EveryItemEnds
CHECK_DEADLOCK FALSE
