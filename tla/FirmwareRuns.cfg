CONSTANTS
    Action = {a1, a2}
    Kinds = {"firmware_upgrade", "plugin_install"}
    Worker = {w1, w2}
    None = None
    MaxUpgradeSteps = 2
    MaxPolls = 3
    Grace = 2
    RebootPolls = 1
    MaxAttempts = 0
    StartLimit = 1
    MaxMinor = 1
    MaxMajor = 1
    MaxTimeouts = 1
    MaxCrashes = 1
    MaxLost = 0
    MaxBlips = 0
    MaxChecks = 0
SPECIFICATION Spec
SYMMETRY Symmetric
CHECK_DEADLOCK FALSE
INVARIANTS
    UpgradedToTheEnd
    InstalledUpToDate
    OneJobAtATime
PROPERTIES
    PolledToTheEnd
