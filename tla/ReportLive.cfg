CONSTANTS
    MonthStart <- Months
    Hour = {0, 23}
    Created <- SavedAt
    Delay = {0, 1, 96, 1680}
    MaxRuns = 3
    Worker = {w1, w2}
    Never = Never
    Period = 2
    MaxSends = 2
    MaxTime = 4
    MaxReports = 1
    MaxQueued = 1
    MaxEdits = 1
    MaxManual = 0
    MaxCrashes = 1
SPECIFICATION ReportsSpec
CHECK_DEADLOCK FALSE
INVARIANTS
    NextRunIsFirst
    PeriodsTile
PROPERTIES
    EventuallyServed
    EventuallySettled
