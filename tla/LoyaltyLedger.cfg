SPECIFICATION Spec
CONSTANTS
    Customers = {c1, c2}
    Staff = {owner}
    Managers = {owner}
    Benefits = {b1}
    Previews = {p1, p2}
    Keys = {k1}
    Transactions = {t1, t2}
    CreditAmounts = {2}
    Requirements = {1, 2}
    Closable = FALSE
    None = None
    MaxDelta = 2
SYMMETRY CrossedSymmetry
INVARIANTS
    BooksBalance
    KeyReplaysItsMovement
    DeletedCustomerLeavesNothing
PROPERTIES
    ConfirmedOnCurrentTerms
    ImplementsIdealLedger
CHECK_DEADLOCK FALSE
