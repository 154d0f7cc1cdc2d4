SPECIFICATION FairThread
CONSTANTS
    Threads = {owner}
    Owner = owner
    LoopThread = loopThread
    IOChannels = {io}
    WakeupChannel = wakeupChannel
    MaxCalls = 1
PROPERTY DestructorEnds
CHECK_DEADLOCK FALSE
