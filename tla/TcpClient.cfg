SPECIFICATION ClientFairSpec
CONSTANTS
    MaxCalls = 4
INVARIANTS
    OneAttemptOwned
PROPERTIES
    ClientLetsGo
CHECK_DEADLOCK FALSE
