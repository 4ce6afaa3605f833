SPECIFICATION FairSpec
CONSTANTS
    m1 = m1
    m2 = m2
    Msgs = {m1}
    Contents = {"yes"}
    Plans <- SmallPlans
    MaxActionBudget = 3
    CostCeiling = 2
    MaxRepetitions = 3
    MaxDirectives = 1
    MaxTasks = 2
    Incidents = {"crash", "fault", "redelivery", "mode"}
    MaxIncidents = 1
INVARIANTS TypeOK OpenTaskIsHeld OneDecomposition CompleteMeansCompleted
PROPERTIES TasksEnd DirectivesAreFinalized OwnerIsHeard
CHECK_DEADLOCK FALSE
