CONSTANTS
    w1 = w1
    x1 = x1
    f1 = f1
    m1 = m1
    t1 = t1
    p1 = p1
    none = none
    None = none
    Writes = {w1}
    XoffCounters = {x1}
    Flushes = {f1}
    Immediates = {m1}
    Threads = {t1}
    Cpus = {p1}
    MaxLen = 1
    MaxCounter = 1
    FifoSize = 1
    HoldReasons = {"xoff"}
    TimerChoices = {TRUE, FALSE}
SPECIFICATION FairSpec
CHECK_DEADLOCK FALSE
CONSTRAINT FewAtOnce
PROPERTIES ImplementsIrpQueue WriteCompletes AbortCompletes
