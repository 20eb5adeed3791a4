SPECIFICATION ScanSpec
CONSTANTS
    FindingIds = {f1}
    Scans = {s1}
    Scanners = {cleanup, security}
    Cleanup = cleanup
    Detects = {d1}
    Writers <- ScanWriters
    Emits <- EmitsCleanup
    MaxAttempts = 1
    MaxTime = 0
    Lifetime = 1
    Window = 1
    TTL = 1
INVARIANTS
    ScanTypeOK
    CountsAreInvocations
    FailureIsIsolated
PROPERTIES
    EveryScanEnds
CHECK_DEADLOCK FALSE
