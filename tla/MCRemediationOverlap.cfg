\* One execution of the remediation workflow overlaps with another one or with
\* a scan: one resource, two clicks, one retry of the scan.
CONSTANTS
    Executions = {e1, e2}
    Late = e2
    Resources = {r1}
    Clicks = {c1, c2}
    Scans = {s1}
    EnvArmed = TRUE
    MaxAttempts = 0
    MaxScanAttempts = 1
SPECIFICATION OverlapSpec
SYMMETRY Symmetry
CHECK_DEADLOCK FALSE
INVARIANTS
    CleanupTypeOK
    ScanAuditIsHonest
PROPERTIES
    ScansDeleteInTheOpen
    ImplementsGateSafety
