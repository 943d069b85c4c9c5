\* A forwarder subscribes and is destroyed.
SPECIFICATION Spec
CONSTANTS
    g = g
    f = f
    self = self
    other = other
    ManagerResponse = ManagerResponse
    Slash = Slash
    Portal = Portal
    None = None
    Groups = {g}
    Forwarders = {f}
    Self = self
    required_clients_ = {self, other}
    Timed = TRUE
    Hwm = 2
    MaxOutstanding = 1
    MaxTraffic = 1
    MaxCalls = 1
INVARIANT PostedToTheLiving
CHECK_DEADLOCK FALSE
