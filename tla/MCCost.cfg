SPECIFICATION BoundedSpec
CONSTANTS
    s1 = s1
    s2 = s2
    i1 = i1
    i2 = i2
    Slots = {i1, i2}
    Services = {s1, s2}
    Amounts <- MCAmounts
    Slack = 1
    LastDay = 3
    History = 3
    MinAnomaly = 10000
    Retention = 0
    MaxScans = 2
    MaxBills = 1
SYMMETRY Symmetry
INVARIANTS
    CostTypeOK
    SpikesAndNothingElse
    SeverityFitsTheStory
    BackedByTheTable
    LatestSpendIsTheBill
PROPERTIES
    DayNeverGoesBack
CHECK_DEADLOCK FALSE
