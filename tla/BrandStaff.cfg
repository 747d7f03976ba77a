SPECIFICATION Spec
CONSTANTS
    Owner = o
    Staff = {s1, s2}
    Branches = {b1, b2}
    First = b1
    Invites = {i1}
    Requests = {q1, q2}
    MaxLinks = 2
    MaxChanges = 3
    None = None
SYMMETRY Symmetric
INVARIANTS
    StaffInv
    ClosedBrandIsEmpty
    NoMutualRemoval
CHECK_DEADLOCK FALSE
