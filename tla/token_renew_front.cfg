SPECIFICATION FairSpec
CONSTANTS
    Threads = {t1, t2}
    NULL_thread = NULL_thread
    Strategies <- FifoOnly
    USES_SEMAPHORE = FALSE
    RequeuePositions <- FrontPosition
    TimedCalls <- NoTimeout
    WaitMayFail = FALSE
    MaxNesting = 1
PROPERTIES
    SelectedRuns
