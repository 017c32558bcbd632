CONSTANTS
    Clients = {c1, c2}
    Transports = {t1, t2}
    Nobody = Nobody
    Reactor = Reactor
    CacheMaximum = 2
    PurgePercentage = 50
    MuxedConnectionMax = 1
SPECIFICATION Spec
SYMMETRY Symmetry
INVARIANTS PointersTrue BusyHasOwner EntryKnowsConnection ClosedNotAvailable IdleCloseNoRequest
CHECK_DEADLOCK FALSE
