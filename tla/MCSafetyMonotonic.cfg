CONSTANTS
    SnRes = 15  InitialSn = 15
    Size = 7  WordBits = 3  MaxNum = 36
    Rx = Rx  l1 = l1  None = None  ErrReply = ErrReply
    Ids = {1}  Local = {l1}  Targets = {0, 2}  Replies <- MCReplies  MaxReplies = 3
    k1 = k1  k2 = k2  t1 = t1  t2 = t2  Remotes = {router}  IsClient = TRUE  TokenIds = {t1, t2}  TokenKeys = {k1, k2}
    WithHistory = {h1}  WithoutHistory = {s1}  LivelinessQueries = {q1}  InterestNumber <- MCInterestNumber  MaxWire = 2  MaxLosses = 1
    RemoteEntities <- MCRemoteEntities  LocalEntities = {e1}  WantsComplete = FALSE
    TransportListeners = {tl}  LinkListeners = {ll}  ConnPeers = {z1}
    Filters = {z1, z2, Nothing}  MaxChanges = 2  Nothing = Nothing
    a1 = a1  a2 = a2  AdminCallers = {a1, a2}  AdminPeers = {p1}  Nobody = Nobody
    MaxStarts = 2  MaxEvents = 2
SPECIFICATION MCSpec
SYMMETRY Symmetry
CHECK_DEADLOCK FALSE
INVARIANT
    MonotonicInTime
