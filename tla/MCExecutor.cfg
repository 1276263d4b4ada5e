\* Four futures in a pool of two or four; two threads of the application beside
\* that of the executor.
CONSTANTS
    MaxFuts = 4
    Capacities = {2, 4}
    Delays = {0, 1}
    MaxTime = 2
    NullFut = NullFut
    NoSlot = NoSlot
    ExecThread = ExecThread  a1 = a1  a2 = a2  AppThreads = {a1, a2}  NoOwner = NoOwner
SPECIFICATION MCSpec
CHECK_DEADLOCK FALSE
INVARIANTS
    TasksOwnedOnce
    RootEarliestOnceDrained
    OnlyKnownDeadlocks
PROPERTIES
    QueuedRuns
