CONSTANTS
    Worker = {w1, w2}
    Never = Never
    Period = 2
    MaxSends = 2
    MaxTime = 4
    MaxReports = 2
    MaxQueued = 2
    MaxEdits = 1
    MaxManual = 1
    MaxCrashes = 1
SPECIFICATION Spec
SYMMETRY WorkerSymmetry
CHECK_DEADLOCK FALSE
INVARIANTS
    MailedOnce

    
