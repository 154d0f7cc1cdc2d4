SPECIFICATION ConnFairSpec
CONSTANTS
    Users = {u1}
    Loop = loop
    Size = 2
    highWaterMark_ = 3
    MaxCalls = 2
    MaxInput = 1
INVARIANTS
    OutputIntact
    DestroyedClean
PROPERTIES
    ClosesInOrder
    ClosesInTheEnd
CHECK_DEADLOCK FALSE
