\* AUTO_REMEDIATE is off: every execution ends and no
\* decision is awaited forever, whatever dies.
\* No symmetry: the properties are temporal.
CONSTANTS
    Executions = {e1}
    Resources = {r1}
    Clicks = {c1}
    EnvArmed = FALSE
    MaxAttempts = 1
SPECIFICATION Spec
CHECK_DEADLOCK FALSE
PROPERTIES
    EveryExecutionEnds
    ImplementsGate
