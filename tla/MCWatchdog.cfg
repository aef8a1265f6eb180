CONSTANTS
    t1 = t1
    t2 = t2
    e1 = e1
    e2 = e2
    e3 = e3
    null = null
    Null = null
    Threads = {t1}
    Events = {e1, e2}
    Period = 1
    MaxSuspend = 1
    MaxLeaks = 1
    MaxStart = 2
    MaxEnter = 2
    MaxNest = 1
SPECIFICATION FairSpec
INVARIANTS ReferencesExact FreedIsQuiet
PROPERTIES TimeoutEarned StuckReported RecoveryRaised
CHECK_DEADLOCK FALSE
