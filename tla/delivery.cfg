SPECIFICATION Spec
CONSTANTS
    None = None
    MaxItems = 2
    MaxRuns = 2
    Proposals = {}
    Keys = {}
    PageSize = 20
    Callers = {}
    Plans <- SomePlans
    MaxCrashes = 1
    MaxFaults = 1
    MaxIncidents = 2
    MaxCancels = 1
    Signals = TRUE
    Timeouts = TRUE
    Expiry = FALSE
    Drains = FALSE
INVARIANTS CompletedOnceAtTheEnd SingleFlight TurnInv
PROPERTY ImplementsTurns
CHECK_DEADLOCK FALSE
