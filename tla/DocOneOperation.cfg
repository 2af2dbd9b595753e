CONSTANTS
    Action = {a1}
    Kinds = {"firmware_update"}
    Worker = {w1, w2}
    None = None
    MaxUpgradeSteps = 3
    MaxPolls = 4
    Grace = 2
    RebootPolls = 1
    MaxAttempts = 1
    StartLimit = 1
    MaxMinor = 1
    MaxMajor = 1
    MaxTimeouts = 1
    MaxCrashes = 0
    MaxLost = 0
    MaxBlips = 0
    MaxChecks = 0
SPECIFICATION Spec
SYMMETRY Symmetric
CHECK_DEADLOCK FALSE
PROPERTIES
    OneOperationAtATime
