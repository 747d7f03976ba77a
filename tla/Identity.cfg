SPECIFICATION Spec
CONSTANTS
    Requests = {q1, q2}
    MaxAttempts = 2
    MaxSessions = 3
    MaxTokens = 3
    MaxVersion = 2
    MaxEvents = 5
    None = None
SYMMETRY Symmetry
INVARIANTS
    IdentityInv
    OneLivePerFamily
    SessionsAreCurrent
PROPERTIES
    LastAddressWins
CHECK_DEADLOCK FALSE
