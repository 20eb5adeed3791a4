SPECIFICATION FreshSpec
CONSTANTS
    FindingIds = {f1}
    Writers = {w1, w2}
    Emits <- EmitsAll
    MaxTime = 1
    Lifetime = 1
    Window = 2
    TTL = 2
    MaxSights = 3

INVARIANT OneRowPerFinding
CHECK_DEADLOCK FALSE
