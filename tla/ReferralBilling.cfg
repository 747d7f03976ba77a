SPECIFICATION Spec
CONSTANTS
    Requests = {q1, q2}
    Keys = {k1, k2}
    DiscountCharges = 2
    RewardCharges = 1
    OwnPayments = {p1}
    Capacity = 1
    MaxInvoices = 3
    MaxPrice = 1
    MaxChanges = 2
    MaxEvents = 4
    None = None
SYMMETRY Symmetry
INVARIANTS
    ReferralInv
    RewardFollowsCharge
    CreditIsCovered
CHECK_DEADLOCK FALSE
