SPECIFICATION Spec
CONSTANTS
    None = None
    Boot = boot
    Jobs = {j1, j2}
    Ticks = {t1, t2}
    Clients = {c1}
    Configs <- AllKinds
    Period = 2
    Results = {"ok", "transient", "permanent", "skipped"}
    Backoffs <- Table
    MaxAttempts = 1
    MinGap = 1
    StuckAfter = 1
    Stagger = 1
    MaxImmediate = 1
    Pool = 1
    MaxErrors = 2
    MaxTime = 3
    MaxFired = 1
    MaxOps = 0
    MaxFaults = 1
    MaxCrashes = 1
    MaxStops = 1
INVARIANTS TypeOK TimerNeverLost TicksDoNotOverlap
SYMMETRY Symmetry
CHECK_DEADLOCK FALSE
