\* The constants of the stream link.
CONSTANTS
    t1 = t1  t2 = t2  NoThread = NoThread  None = None  n1 = n1  n2 = n2
    Threads = {t1, t2}
    SnRes = 7  InitialSn = 6  Cap = 2
    Sizes = {1, 2, 3, 4}
    MaxMsgs = 2  MaxFails = 1  MaxCalls = 3
    Datagram = FALSE  WindowSize = 3  FragMax = 3  Markers = TRUE
SPECIFICATION MCSpec
CHECK_DEADLOCK FALSE
INVARIANTS
    LinkDelivers
    SenderRight
    CodecRight
PROPERTY
    LinkInOrder
