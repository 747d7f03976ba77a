SPECIFICATION FairSpec
CONSTANTS
    Requests = {q1, q2}
    MaxKeys = 3
    Prices = {1, 2}
    FirstPrice = 1
INVARIANTS
    SubscriptionInv
    NoForgottenPlan
PROPERTIES
    CancelledStays
    BillsThePriceInForce
    EverythingSettles
CHECK_DEADLOCK FALSE
