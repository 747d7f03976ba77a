SPECIFICATION Spec
CONSTANTS
    Operations = {o1, o2}
    MaxPayments = 1
    MaxCycle = 1
    None = None
SYMMETRY Symmetry
INVARIANTS
    BranchInv
PROPERTIES
    ActivatedOnQuotedTerms
CHECK_DEADLOCK FALSE
