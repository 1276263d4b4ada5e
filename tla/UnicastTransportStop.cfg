\* A stream link, two threads, no failures.
CONSTANTS
    NoThread = NoThread
    Threads = {t1, t2}
    SnRes = 7  InitialSn = 6  Cap = 2
    Sizes = {1, 4, 5}
    MaxMsgs = 2  MaxFails = 0  MaxCalls = 2
    Datagram = FALSE  WindowSize = 3  FragMax = 4  Markers = TRUE
SPECIFICATION Spec
CHECK_DEADLOCK FALSE
INVARIANT
    BatchNotLost
