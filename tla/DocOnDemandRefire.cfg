CONSTANTS
    Worker = {w1}
    Never = Never
    Period = 2
    MaxSends = 2
    MaxTime = 4
    MaxReports = 1
    MaxQueued = 1
    MaxEdits = 1
    MaxManual = 0
    MaxCrashes = 0
SPECIFICATION FairSpec
CHECK_DEADLOCK FALSE
PROPERTIES
    OnDemandNotRefired
