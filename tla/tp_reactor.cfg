\* Two threads and a client; one file descriptor is used twice.
CONSTANTS
    e1 = e1
    e2 = e2
    e3 = e3
    Pool = {p1, p2}
    Clients = {c}
    EventHandlers = {e1, e2, e3}
    Handle <- PoolHandle
    Registered = {e1, e3}
    Owned = {e2}
    AppResumes = {e3}
    Wakers = {e1, e2}
    Switched = "WRITE"
    Timed = {e3}
    Notified = {e1}
    MaxCalls = 2
    MaxArrivals = 3
    None = None
SPECIFICATION FairSpec
INVARIANTS OneUpcallUndisturbed ReferencesExact ReadyIsWanted
PROPERTIES EventsServed EverybodyLeaves
CHECK_DEADLOCK FALSE
