SPECIFICATION FairSpec
CONSTANTS
    m1 = m1
    m2 = m2
    bad = bad
    s1 = s1
    s2 = s2
    s3 = s3
    Msgs = {m1, m2, bad}
    Source <- SourceOf
    Malformed = {bad}
    Chunks = 2
    Candidates <- Mentions
    Memories = {"memory"}
    MaxRecordsPerPass = 1
    ConnectorCeiling = 2
    MaxActionBudget = 5
    CostCeiling = 1
    MaxRepetitions = 0
    Incidents = {"crash", "fault", "redelivery"}
    MaxIncidents = 1
INVARIANTS PassesAddUp BudgetIsKept AcknowledgedIsRefined EntityOncePerDerivation
PROPERTY RecordsSettle
CHECK_DEADLOCK FALSE
