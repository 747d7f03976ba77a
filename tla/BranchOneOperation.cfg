SPECIFICATION FairSpec
CONSTANTS
    Operations = {o1}
    MaxPayments = 2
    MaxCycle = 1
    None = None
INVARIANTS
    RefundedMeansRefunded
PROPERTIES
    BranchKeepsItsPayment
    WaitsAndRefundsEnd
CHECK_DEADLOCK FALSE
