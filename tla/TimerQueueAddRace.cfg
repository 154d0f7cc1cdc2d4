SPECIFICATION Spec
CONSTANTS
    Addrs = {a1, a2}
    Threads = {t1}
    MaxTime = 2
    Intervals = {0, 1}
    MaxTimers = 2
    MaxQueue = 1
    EarlyBy = 1
INVARIANTS
    AddTimerReadsItsTimer
CHECK_DEADLOCK FALSE
