CONSTANTS
    Rx = Rx  l1 = l1  None = None  ErrReply = ErrReply
    t1 = t1  t2 = t2  o1 = o1  o2 = o2  b1 = b1  Core = Core
    Threads = {t1, t2}  Ops = {o1, o2}  Bare = {b1}  MaxCalls <- MCMaxCalls
    e1 = e1  e2 = e2  ReadTask = ReadTask  putter = putter
    Entities = {e1, e2}  EntityOrigin <- MCEntityOrigin  Putters = {putter}  MaxDeliveries = 2
    \* a batch of one byte, and one larger than what is left of the buffer
    Readers = {"client", "peer", "manual"}  Base = 5  BufSize = 9  Sizes = {1, 6}  MaxBatches = 3
SPECIFICATION MCSpec
CHECK_DEADLOCK FALSE
INVARIANT
    NoCallAfterDrop
