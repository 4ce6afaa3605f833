SPECIFICATION FairSpec
CONSTANTS
    m1 = m1
    m2 = m2
    Msgs = {m1, m2}
    Parts <- LongAndShort
    QueueSize = 1
    MaxRetries = 1
    Threshold = 1
    MaxWorkers = 2
    MaxMishaps = 1
INVARIANTS TypeOK SentWasAcknowledged QueuedIsHeld AcknowledgedIsNotResent
PROPERTY DeliveriesSettle
CHECK_DEADLOCK FALSE
