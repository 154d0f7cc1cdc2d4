SPECIFICATION LoopSpec
CONSTANTS
    Threads = {t1, t2}
    Owner = t1
    LoopThread = loopThread
    IOChannels = {io}
    WakeupChannel = wakeupChannel
    MaxCalls = 2
    MaxTotal = 3
INVARIANTS
    NoLostWakeup
    LifetimesNest
PROPERTIES
    ImplementsTaskQueue
    QueuedFunctorRuns
    QuitStopsLoop
    TimeoutPicksUpAll
    OwnerNeverHangs
CHECK_DEADLOCK FALSE
