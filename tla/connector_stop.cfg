SPECIFICATION Spec
CONSTANTS
    m1 = m1
    m2 = m2
    Msgs = {m1, m2}
    Parts <- LongAndShort
    QueueSize = 1
    MaxRetries = 1
    Threshold = 1
    MaxWorkers = 1
    MaxMishaps = 0
INVARIANT NoPanic
CHECK_DEADLOCK FALSE
