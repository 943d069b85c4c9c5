\* Any calls on one sub-buffer, of either order.
SPECIFICATION Spec
CONSTANTS
    a = a
    b = b
    Unset = Unset
    Data = {a, b}
    DataSize <- MCDataSize
    DefaultConfig <- MCDefaultConfig
    ConfigLists <- AgreeingLists
    SubIds = {"p"}
    Dests = {1}
    ByteLimits = {1, 2}
    AckTimeout = 1
    KeepOrder = TRUE
    MaxTime = 5
    MaxDrift = 1
INVARIANTS TypeOK EraseFindsQueued ExpireTakesAllPastTtl Accounted
PROPERTIES NoResendWithinAckTimeout BlackoutUnlessUpdated
CHECK_DEADLOCK FALSE
