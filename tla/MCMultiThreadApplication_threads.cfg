\* Threads launched, asked to leave, failing and launched again, and quit().
SPECIFICATION FairSpec
CONSTANTS
    timer = timer
    handler = handler
    None = None
    All = All
    Keys = {timer, handler}
    Looping = {timer}
    Relaunch = TRUE
    MaxLaunches = 3
    MaxRequests = 2
    MaxFailures = 1
INVARIANTS TypeOK JoinsOnlyTheLeaving NoneOrphaned
PROPERTY QuitCompletes
CHECK_DEADLOCK FALSE
