SPECIFICATION FairSpec
CONSTANTS
    r1 = r1
    r2 = r2
    r3 = r3
    main = main
    Requests = {r1, r2, r3}
    Priority <- Priorities
    Key <- OneSession
    MaxStarts = 2
    MaxDrains = 2
INVARIANTS NotesAreCarried PendingHasTimer
PROPERTIES WakesAreTaken LoopsEnd
CHECK_DEADLOCK FALSE
