SPECIFICATION ServerFairSpec
CONSTANTS
    MaxClients = 3
    MaxFree = 2
    MaxThreads = 2
INVARIANTS
    EachRemovedOnce
PROPERTIES
    BacklogServed
    ServerLetsGo
CHECK_DEADLOCK FALSE
