CONSTANTS
    w1 = w1
    x1 = x1
    f1 = f1
    m1 = m1
    t1 = t1
    p1 = p1
    none = none
    None = none
    Writes = {w1}
    XoffCounters = {x1}
    Flushes = {}
    Immediates = {m1}
    Threads = {t1}
    Cpus = {p1}
    MaxLen = 2
    MaxCounter = 1
    FifoSize = 1
    HoldReasons = {"line", "xoff"}
    TimerChoices = {TRUE, FALSE}
SPECIFICATION Spec
CHECK_DEADLOCK FALSE
INVARIANTS RefsMatchHolders NoUseAfterCompletion CharCountExact TransmitNeverStalls HonestCount CounterYields EmptyNotMissed
CONSTRAINT FewProds
