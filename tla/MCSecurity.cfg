SPECIFICATION BoundedSpec
CONSTANTS
    g1 = g1
    b1 = b1
    u1 = u1
    k1 = k1
    k2 = k2
    v1 = v1
    r1 = r1
    r2 = r2
    noId = noId
    Groups = {g1}
    Buckets = {b1}
    Users = {u1}
    Keys = {k1, k2}
    Volumes = {v1}
    KeyOwner <- MCKeyOwner
    Rules <- MCRules
    Policies <- MCPolicies
    ConfigRules = {r1, r2}
    CriticalRules = {r1}
    HighRules = {}
    Evaluated <- MCEvaluated
    NoId = noId
    MaxChanges = 1
    MaxExcused = 3
INVARIANTS
    ScannerTypeOK
    NothingInvented
    OnlyFailedCallsHide
    IdsTellFindingsApart
    LadderIsFollowed
CHECK_DEADLOCK FALSE
