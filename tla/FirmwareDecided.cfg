CONSTANTS
    Action = {a1}
    Kinds = {"firmware_update", "plugin_install"}
    Worker = {w1, w2}
    None = None
    MaxUpgradeSteps = 3
    MaxPolls = 2
    Grace = 2
    RebootPolls = 1
    MaxAttempts = 1
    StartLimit = 1
    MaxMinor = 1
    MaxMajor = 0
    MaxTimeouts = 0
    MaxCrashes = 1
    MaxLost = 1
    MaxBlips = 1
    MaxChecks = 1
SPECIFICATION FairSpec
CHECK_DEADLOCK FALSE
PROPERTIES
    EventuallyDecided
