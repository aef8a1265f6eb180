CONSTANTS
    c1 = c1
    c2 = c2
    k1 = k1
    r1 = r1
    q1 = q1
    none = none
    None = none
    Irps = {c1, c2, q1}
    Creates = {c1, c2}
    Closes = {}
    Reads = {}
    PnpOps <- EveryOp
SPECIFICATION Spec
SYMMETRY Symmetry
CHECK_DEADLOCK FALSE
INVARIANTS StallQueueExact QueriedPortStaysClosed
