\* Two destinations of equal configuration.
SPECIFICATION Spec
CONSTANTS
    a = a
    b = b
    Unset = Unset
    Data = {a}
    DataSize <- MCDataSize
    DefaultConfig <- MCDefaultConfig
    ConfigLists <- EqualLists
    SubIds = {"p"}
    Dests = {1, 2}
    ByteLimits = {1}
    AckTimeout = 0
    KeepOrder = TRUE
    MaxTime = 6
    MaxDrift = 1
INVARIANT BoundedOvertaking
CHECK_DEADLOCK FALSE
