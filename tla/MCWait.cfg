CONSTANTS
    s1 = s1
    s2 = s2
    w1 = w1
    w2 = w2
    t1 = t1
    t2 = t2
    rx = rx
    tx = tx
    none = none
    SetMasks = {s1, s2}
    Waits = {w1, w2}
    Threads = {t1}
    None = none
    Events = {rx, tx}
    TxEmpty = tx
SPECIFICATION FairSpec
INVARIANTS StartMaskAsserts
PROPERTIES NoEventLost ImplementsIrpQueue RequestsEnd
