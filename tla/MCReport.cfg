SPECIFICATION BoundedReportSpec
CONSTANTS
    FindingIds = {f1}
    Writers = {w1, w2}
    Emits <- EmitsAll
    Daily = daily
    Duplicate = duplicate
    Reports <- DailyAndDuplicate
    MaxRetries = 1
    MaxTime = 4
    Lifetime = 1
    Window = 1
    TTL = 3
SYMMETRY Symmetry
INVARIANTS
    ReportIsComplete
    CountNeverOverstates
    ReportMissesNothing
    NoFindingIsStale
    TornRowsHadExpired
    MessagesMatchReports
CHECK_DEADLOCK FALSE
