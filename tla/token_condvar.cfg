SPECIFICATION Spec
CONSTANTS
    Threads = {t1, t2, t3}
    NULL_thread = NULL_thread
    Strategies <- AnyStrategy
    USES_SEMAPHORE = FALSE
    RequeuePositions <- AnyPosition
    TimedCalls <- AnyTimeout
    WaitMayFail = FALSE
    MaxNesting = 2
INVARIANTS
    TypeOK
    MutualExclusion
    NoLostToken
    QueuesExact
PROPERTIES
    ServiceOrder
    ImplementsRecursiveMutex
