SPECIFICATION FairSpec
CONSTANTS
    None = None
    Boot = boot
    Jobs = {j1}
    Ticks = {t1, t2}
    Clients = {c1}
    Configs <- OnceAndEvery
    Period = 2
    Results = {"ok"}
    Backoffs <- Table
    MaxAttempts = 1
    MinGap = 1
    StuckAfter = 1
    Stagger = 1
    MaxImmediate = 1
    Pool = 1
    MaxErrors = 2
    MaxTime = 3
    MaxFired = 1
    MaxOps = 1
    MaxFaults = 0
    MaxCrashes = 1
    MaxStops = 0
PROPERTY DueIsServed
CHECK_DEADLOCK FALSE
