\* Two clicks race: the loser overwrites the decision in the row.
CONSTANTS
    Executions = {e1}
    Resources = {r1}
    Clicks = {c1, c2}
    EnvArmed = TRUE
    MaxAttempts = 1
SPECIFICATION SafetySpec
SYMMETRY Symmetry
CHECK_DEADLOCK FALSE
PROPERTIES
    SingleUseGuard
