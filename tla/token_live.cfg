SPECIFICATION FairSpec
CONSTANTS
    Threads = {t1, t2, t3}
    NULL_thread = NULL_thread
    Strategies <- AnyStrategy
    USES_SEMAPHORE = TRUE
    RequeuePositions <- AnyPosition
    TimedCalls <- AnyTimeout
    WaitMayFail = TRUE
    MaxNesting = 1
PROPERTIES
    SelectedRuns
    WritersServed
