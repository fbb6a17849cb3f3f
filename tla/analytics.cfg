SPECIFICATION Spec
CONSTANTS
    Repos = {"a", "b"}
    People = {"x", "y"}
    Services <- MCServices
    Activity <- MCActivity
    Usage <- MCUsage
    MonthDays = 2
    BatchSize = 1
    Workers = {v, w}
    MaxDay = 2
    MaxCalls = 3
SYMMETRY Symmetry
INVARIANTS
    AnalyticsTypeOK
    NoActivityCountedTwice
    SnapshotsAddUp
    TeamMonthsWithinPeriod
CHECK_DEADLOCK FALSE
