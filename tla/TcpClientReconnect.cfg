SPECIFICATION ClientSpec
CONSTANTS
    MaxCalls = 2
INVARIANT StartFindsDisconnected
CHECK_DEADLOCK FALSE
