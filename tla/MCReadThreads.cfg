CONSTANTS
    r1 = r1
    r2 = r2
    r3 = r3
    t1 = t1
    t2 = t2
    p1 = p1
    p2 = p2
    none = none
    None = none
    Irps = {r1, r2}
    Resizes = {}
    Threads = {t1, t2}
    Cpus = {p1, p2}
    MaxLen = 2
    BufferSize = 1
    ErrorAbort = FALSE
    TimeoutSettings <- AllSettings
SPECIFICATION Spec
SYMMETRY Symmetry
INVARIANTS OneStarter RefsMatchHolders NoUseAfterCompletion CancelNotMissed IntervalMarkCurrent HonestOutcome
