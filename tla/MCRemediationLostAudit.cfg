\* A deletion whose records die with the invocation.
CONSTANTS
    Executions = {e1}
    Resources = {r1}
    Clicks = {c1}
    EnvArmed = TRUE
    MaxAttempts = 1
SPECIFICATION SafetySpec
SYMMETRY Symmetry
CHECK_DEADLOCK FALSE
INVARIANTS
    EveryRemovalIsLogged
