\* Two application threads, two futures and two executor threads; four
\* references with counters that overflow at 3.
CONSTANTS
    c1 = c1  c2 = c2  n1 = n1  n2 = n2  n3 = n3  t1 = t1  t2 = t2
    s1 = s1  s2 = s2  r1 = r1  r2 = r2  tk1 = tk1
    Clients = {c1, c2}
    Tasks = {t1, t2}
    MaxGen = 1
    MaxCalls = 2
    MaxSpurious = 1
    None = None
    Refs = {1, 2, 3, 4}
    FirstRef = 1
    MaxCount = 3
    MaxLost = 1
    Notifiers = {n1, n2, n3}
    Threads = {t1, t2}
    Senders = {s1, s2}
    Receivers = {r1, r2}
    BufferSize = 2
    MaxSends = 4
SPECIFICATION MCSpec
CHECK_DEADLOCK FALSE
INVARIANTS
    WaitersExact
    SuspendExcludes
    NoSelfDeadlock
    DroppedUnused
    RefCountSafe
    ClearedByTheLast
    ReceivedInOrder
    TransportSafe
PROPERTIES
    CallsReturn
    ReadyWorkRuns
    ImplementsSyncGroup
    WaitsEnd
    TransportProceeds
