SPECIFICATION BaseSpec
CONSTANTS
    Lockers = {l1, l2, l3}
    Nobody = Nobody
    Putters = {p1, p2}
    Takers = {c1, c2}
    Capacities = {0, 1, 2}
    MaxPuts = 4
    Thr = {w1, w2}
    Clients = {u1}
    maxQueueSize_ = 1
    MaxTasks = 4
    kLargeBuffer = 3
    MaxQueued = 3
    MaxLines = 8
INVARIANTS
    HolderIsInside
    QueueDelivers
    BuffersConserved
PROPERTIES
    StartHandsOver
    PoolDrains
    BackEndKeepsUp
CHECK_DEADLOCK FALSE
