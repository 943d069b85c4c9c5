\* Calls and short burst data at once, with lost commands and alerts.
SPECIFICATION FairSpec
CONSTANTS
    dial_attempts = 2
    RETRIES_BEFORE_RESET = 1
    DATA_BUFFER_CAPACITY = 2
    Straddle = FALSE
    MaxFetched = 2
    MaxOdd = 1
    MaxNetwork = 1
INVARIANTS RegionsAgree
PROPERTIES CommandReturns CallsEnd
CHECK_DEADLOCK FALSE
