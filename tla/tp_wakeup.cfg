\* A handler whose READ_MASK is cancelled and scheduled again in its upcall.
CONSTANTS
    e1 = e1
    e2 = e2
    e3 = e3
    Pool = {p1, p2}
    Clients = {c}
    EventHandlers = {e1, e2, e3}
    Handle <- PoolHandle
    Registered = {e1, e3}
    Owned = {e1, e2}
    AppResumes = {e3}
    Wakers = {e1}
    Switched = "READ"
    Timed = {}
    Notified = {}
    MaxCalls = 2
    MaxArrivals = 3
    None = None
SPECIFICATION Spec
INVARIANT OneUpcallPerHandler
CHECK_DEADLOCK FALSE
