SPECIFICATION Spec
CONSTANTS
    Customers = {c1}
    Staff = {owner, partner, clerk}
    Managers = {owner, partner}
    Benefits = {b1}
    Previews = {p1}
    Keys = {k1, k2}
    Transactions = {t1, t2}
    CreditAmounts = {2}
    Requirements = {1}
    Closable = TRUE
    None = None
    MaxDelta = 2
SYMMETRY OwnersSymmetry
INVARIANTS
    NoOrphanBrand
    OneMovementPerPreview
PROPERTIES
    ConfirmedOnCurrentTerms
    WrittenByLiveOperator
CHECK_DEADLOCK FALSE
