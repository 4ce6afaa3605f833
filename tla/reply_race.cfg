SPECIFICATION FairSpec
CONSTANTS
    m1 = m1
    m2 = m2
    Msgs = {m1, m2}
    Contents = {"yes", "no"}
    Plans <- TalkOnly
    MaxActionBudget = 5
    CostCeiling = 5
    MaxRepetitions = 3
    MaxDirectives = 1
    MaxTasks = 0
    Incidents = {}
    MaxIncidents = 0
PROPERTY OwnerIsAnswered
CHECK_DEADLOCK FALSE
