CONSTANT Initial <- OneDueAtMost
CONSTANT MaxActions = 2
CONSTANT MaxNow = 3
CONSTANT MaxLogins = 2
CONSTANT MaxFaults = 1
CONSTANT Tenants = {1, 2, 3}
CONSTANT MaxMoves = 2
CONSTANT MaxOpens = 2
CONSTANT MaxSubmits = 2
CONSTANT MaxEdits = 1
CONSTANT MaxDeviceChanges = 2
CONSTANT MaxOps = 1
CONSTANT MaxSends = 1
CONSTANT MaxForms = 2
CONSTANT MaxLoads = 2
CONSTANT MaxTime = 5
CONSTANT PageSize = 2
CONSTANT MaxLines = 5
CONSTANT MaxChanges = 2
CONSTANT Locales = {"en", "it", "zh-TW"}
CONSTANT MaxReloads = 1
SPECIFICATION FairSpec
INVARIANT TypeOK
INVARIANT ShownIsAsked
INVARIANT WritesAreShown
 
 
INVARIANT LogoutForgets
INVARIANT PickSurvives
 
 
INVARIANT PayloadIsOfEndpoint
INVARIANT NoEventSkipped
INVARIANT HitsAreTheSearch
INVARIANT TextFollowsLocale
INVARIANT ConfirmsTheOffered
PROPERTY ReadYourWrites
PROPERTY ShowsForward
PROPERTY RefetchKeepsWizard
 
 
PROPERTY ShownToTheEnd
PROPERTY AlertsCatchUp
CHECK_DEADLOCK FALSE
