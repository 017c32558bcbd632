CONSTANTS
    InitialSize = 2
    Requests <- HeapRequests
    CurTimes = {2, 3}
    Intervals = {0}
    MaxSchedules = 6
    MaxLater = 2
    MaxTime = 4
    MaxNested = 2
SPECIFICATION Spec
INVARIANTS IdsExact AlwaysRoom HeapOrder
PROPERTY ImplementsTimerQueue
CHECK_DEADLOCK FALSE
