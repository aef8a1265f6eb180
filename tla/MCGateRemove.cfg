CONSTANTS
    c1 = c1
    c2 = c2
    k1 = k1
    r1 = r1
    q1 = q1
    none = none
    None = none
    Irps = {c1, k1, r1, q1}
    Creates = {c1}
    Closes = {k1}
    Reads = {r1}
    PnpOps <- RemoveOps
SPECIFICATION FairSpec
CHECK_DEADLOCK FALSE
INVARIANTS PendingCountExact RemoveDrains
PROPERTIES RemoveCompletes
