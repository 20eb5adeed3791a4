\* Callbacks racing each other, the timeout, the expiry and the purge:
\* one execution, two clicks on any of its three links.
CONSTANTS
    Executions = {e1}
    Resources = {r1}
    Clicks = {c1, c2}
    EnvArmed = TRUE
    MaxAttempts = 1
SPECIFICATION SafetySpec
SYMMETRY Symmetry
CHECK_DEADLOCK FALSE
INVARIANTS
    TypeOK
    PagesTellTheOutcome
    OneClickDecides
    RowsFollowTheOutcome
    WaitingIsAnswerable
