SPECIFICATION Spec
CONSTANTS
    None = None
    MaxItems = 3
    MaxRuns = 2
    Proposals = {}
    Keys = {k1}
    PageSize = 20
    Callers = {}
    Plans <- NoPlans
    MaxCrashes = 1
    MaxFaults = 1
    MaxIncidents = 2
    MaxCancels = 0
    Signals = FALSE
    Timeouts = FALSE
    Expiry = FALSE
    Drains = TRUE
INVARIANTS TypeOK ActedAtMostOnce ConsumedBeforeActed MergedTextIsSeen MergedTextIsCarried
CHECK_DEADLOCK FALSE
