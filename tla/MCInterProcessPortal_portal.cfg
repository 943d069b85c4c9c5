\* Subscriptions, publications, the hold and the destructor, with a loop frequency.
SPECIFICATION FairSpec
CONSTANTS
    g = g
    f = f
    self = self
    other = other
    ManagerResponse = ManagerResponse
    Slash = Slash
    Portal = Portal
    None = None
    Groups = {g}
    Forwarders = {f}
    Self = self
    required_clients_ = {self, other}
    Timed = TRUE
    Hwm = 2
    MaxOutstanding = 1
    MaxTraffic = 2
    MaxCalls = 1
INVARIANTS TypeOK FiltersMatchBooks SentInOrder HoldRespected ReceivedInOrder
PROPERTIES CallsReturn HoldReleased
CHECK_DEADLOCK FALSE
