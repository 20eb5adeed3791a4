\* The deletion of a list of two, with crashes and one retry, while owners
\* tag and attach resources.
CONSTANTS
    Executions = {e1}
    Resources = {r1, r2}
    Clicks = {c1}
    EnvArmed = TRUE
    MaxAttempts = 1
SPECIFICATION SafetySpec
SYMMETRY Symmetry
CHECK_DEADLOCK FALSE
INVARIANTS
    OnlyApprovedIsRemoved
    CleanTerminalsAreClean
    AuditIsHonest
    KeepForever
