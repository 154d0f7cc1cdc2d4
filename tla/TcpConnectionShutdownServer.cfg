SPECIFICATION ConnSpec
CONSTANTS
    Users = {u1}
    Loop = loop
    Size = 2
    highWaterMark_ = 3
    MaxCalls = 2
    MaxInput = 1
PROPERTY RemovedIdle
CHECK_DEADLOCK FALSE
