SPECIFICATION FairSpec
CONSTANTS
    None = None
    MaxItems = 3
    MaxRuns = 1
    Proposals = {p1}
    Keys = {}
    PageSize = 2
    Callers = {c1}
    Plans <- NoPlans
    MaxCrashes = 0
    MaxFaults = 0
    MaxIncidents = 0
    MaxCancels = 0
    Signals = TRUE
    Timeouts = TRUE
    Expiry = FALSE
    Drains = FALSE
PROPERTIES SessionIsReleased MessagesProgress ResolutionsProgress
CHECK_DEADLOCK FALSE
