CONSTANTS
    Change = {c1}
    Worker = {w1, w2}
    Request = {r1}
    Target = {t1}
    Value = {v1}
    Absent = Absent
    None = None
    Drafts <- MCDrafts
    Templates <- MCRules
    Bodies = {}
    Delays = {FALSE}
    Profiles = {}
    MaxAttempts = 1
    MaxRequests = 1
    MaxToggles = 1
    MaxEdits = 1
    MaxCrashes = 1
    MaxBackups = 0
    MaxCrons = 0
    c1 = c1
    c2 = c2
    t1 = t1
    v1 = v1
    v2 = v2
SPECIFICATION Spec
SYMMETRY WorkerSymmetry
CHECK_DEADLOCK FALSE
INVARIANT TypeOK
INVARIANT NoClobber
INVARIANT AppliedOnce
 
