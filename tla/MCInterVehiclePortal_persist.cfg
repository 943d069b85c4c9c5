\* Subscriptions and unsubscriptions of other vehicles, through two restarts.
SPECIFICATION FairSpec
CONSTANTS
    l1 = l1
    l2 = l2
    a = a
    b = b
    c = c
    Links = {l1, l2}
    Subscriptions = {a, b, c}
    LinkOf <- OneOrTwo
    MaxRadio = 3
    MaxCrashes = 2
INVARIANTS TypeOK FileMatchesLinks NothingForgotten
PROPERTY Restored
CHECK_DEADLOCK FALSE
