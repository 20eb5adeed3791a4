SPECIFICATION BoundedSerialSpec
CONSTANTS
    FindingIds = {f1}
    Writers = {w1, w2}
    Emits <- EmitsAll
    MaxTime = 4
    Lifetime = 1
    Window = 1
    TTL = 1
    MaxSights = 3
INVARIANTS
    OneRowPerFinding
PROPERTIES
    ImplementsLedger
CHECK_DEADLOCK FALSE
