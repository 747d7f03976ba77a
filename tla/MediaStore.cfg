SPECIFICATION FairSpec
CONSTANTS
    Files = {f1, f2}
    Uploads = {u1, u2}
    Workers = {w1, w2}
    MaxVersion = 3
    MaxLost = 2
    None = None
INVARIANTS
    MediaInv
    PublishedHasObject
PROPERTIES
    NothingReplacedUnseen
    LeftoversAreErased
CHECK_DEADLOCK FALSE
