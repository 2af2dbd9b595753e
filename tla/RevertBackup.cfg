CONSTANTS
    Change = {c1, c2}
    Worker = {w1, w2}
    Request = {r1}
    Target = {t1}
    Value = {v1, v2}
    Absent = Absent
    None = None
    Drafts <- MCReversible
    Templates = {}
    Bodies = {}
    Delays = {FALSE}
    Profiles = {}
    MaxAttempts = 0
    MaxRequests = 1
    MaxToggles = 0
    MaxEdits = 0
    MaxCrashes = 0
    MaxBackups = 1
    MaxCrons = 1
    c1 = c1
    c2 = c2
    t1 = t1
    v1 = v1
    v2 = v2
SPECIFICATION Spec
SYMMETRY WorkerSymmetry
CHECK_DEADLOCK FALSE
INVARIANT RollbackPoint
INVARIANT RevertTakesBack
