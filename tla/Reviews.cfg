SPECIFICATION Spec
CONSTANTS
    Devices = {d1, d2}
    MaxVersion = 4
    MaxPurchases = 2
    MaxTokens = 2
INVARIANTS
    ReviewInv
PROPERTIES
    ShownWhileOffered
CHECK_DEADLOCK FALSE
