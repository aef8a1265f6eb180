CONSTANTS
    r1 = r1
    r2 = r2
    r3 = r3
    t1 = t1
    t2 = t2
    p1 = p1
    p2 = p2
    none = none
    None = none
    Irps = {r1, r2, r3}
    Resizes = {r3}
    Threads = {t1}
    Cpus = {p1}
    MaxLen = 1
    BufferSize = 1
    ErrorAbort = TRUE
    TimeoutSettings <- AllSettings
SPECIFICATION Spec
INVARIANTS DpcCountExact
PROPERTIES ImplementsIrpQueue
