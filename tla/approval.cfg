SPECIFICATION Spec
CONSTANTS
    None = None
    MaxItems = 3
    MaxRuns = 1
    Proposals = {p1, p2}
    Keys = {}
    PageSize = 20
    Callers = {c1, c2}
    Plans <- NoPlans
    MaxCrashes = 1
    MaxFaults = 1
    MaxIncidents = 1
    MaxCancels = 0
    Signals = FALSE
    Timeouts = FALSE
    Expiry = TRUE
    Drains = FALSE
INVARIANTS ReplayOncePerApproval PausedHasCheckpoint ResumesItsOwnProposal
SYMMETRY Symmetry
CHECK_DEADLOCK FALSE
