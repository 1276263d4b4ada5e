--------------------------- MODULE ExchangeProofs ---------------------------
(***************************************************************************)
(* Proofs about what a session sends and what it gets back.                *)
(*                                                                         *)
(* Replies to queries, for any number of queries, of repliers and of       *)
(* replies: the dropper is called once, and, where timestamps are unique,  *)
(* what a query in mode "latest" has delivered at its end is the newest    *)
(* reply of every key.                                                     *)
(*                                                                         *)
(* The sender of the transport, for any number of threads, any sizes of    *)
(* messages and any resolution of the sequence numbers: the numbers on the *)
(* wire advance, one is skipped only by a failure or a race, and no        *)
(* message is lost silently.                                               *)
(***************************************************************************)
EXTENDS PendingQuery, UnicastTx, FiniteSetTheorems, SequenceTheorems, WellFoundedInduction, TLAPS

-----------------------------------------------------------------------------
(* Replies to queries.                                                     *)

\* A set of naturals has a least element, the one Min names.
LEMMA LeastNatural ==
    ASSUME NEW S \in SUBSET Nat, S # {}
    PROVE  Min(S) \in S
<1> DEFINE Less == OpToRel(<, Nat)
<1>1. \E x \in S : \A y \in S : ~(<<y, x>> \in Less)
  <2>1. IsWellFoundedOn(Less, Nat)
    BY NatLessThanWellFounded
  <2> HIDE DEF Less
  <2> QED
    BY <2>1, WFMin
<1>2. ASSUME NEW x \in S, NEW y \in S, ~(<<y, x>> \in Less)
      PROVE  x <= y
  <2>1. <<y, x>> \in Nat \X Nat
    OBVIOUS
  <2>2. ~(y < x)
    BY <1>2, <2>1 DEF OpToRel
  <2> QED
    BY <2>2
<1>3. \E x \in S : \A y \in S : x <= y
  BY <1>1, <1>2
<1> QED
  BY <1>3 DEF Min

\* FirstWith finds a reply that has the property, when there is one.
LEMMA FirstWithKey ==
    ASSUME NEW cache \in Seq(Replies), NEW key,
           NEW k, k = FirstWith(cache, LAMBDA e : e.key = key)
    PROVE  \/ k \in 1..Len(cache) /\ cache[k].key = key
           \/ k = 0 /\ \A j \in 1..Len(cache) : cache[j].key # key
<1> DEFINE I == {j \in 1..Len(cache) : cache[j].key = key}
<1>1. k = IF I # {} THEN Min(I) ELSE 0
  BY DEF FirstWith, SelectInSeq
<1>2. Len(cache) \in Nat
  OBVIOUS
<1>3. I \in SUBSET Nat
  BY <1>2
<1>4. I # {} => k \in I
  <2> HIDE DEF I
  <2> QED
  BY <1>1, <1>3, LeastNatural
<1> QED
  BY <1>1, <1>4

\* The same for the timestamp, by which a cached reply is removed.
LEMMA FirstWithTime ==
    ASSUME NEW cache \in Seq(Replies), NEW ts,
           NEW k, k = FirstWith(cache, LAMBDA e : e.ts = ts)
    PROVE  \/ k \in 1..Len(cache) /\ cache[k].ts = ts
           \/ k = 0 /\ \A j \in 1..Len(cache) : cache[j].ts # ts
<1> DEFINE I == {j \in 1..Len(cache) : cache[j].ts = ts}
<1>1. k = IF I # {} THEN Min(I) ELSE 0
  BY DEF FirstWith, SelectInSeq
<1>2. Len(cache) \in Nat
  OBVIOUS
<1>3. I \in SUBSET Nat
  BY <1>2
<1>4. I # {} => k \in I
  <2> HIDE DEF I
  <2> QED
    BY <1>1, <1>3, LeastNatural
<1> QED
  BY <1>1, <1>4

\* What removing one element leaves (_z_slist_drop_filter).
LEMMA RemoveAtProperties ==
    ASSUME NEW R, NEW s \in Seq(R), NEW k \in 1..Len(s)
    PROVE  /\ RemoveAt(s, k) \in Seq(R)
           /\ Len(RemoveAt(s, k)) = Len(s) - 1
           /\ \A j \in 1..(Len(s) - 1) : RemoveAt(s, k)[j] = IF j < k THEN s[j] ELSE s[j + 1]
<1>1. SubSeq(s, 1, k - 1) \in Seq(R) /\ Len(SubSeq(s, 1, k - 1)) = k - 1
      /\ \A j \in 1..(k - 1) : SubSeq(s, 1, k - 1)[j] = s[j]
  OBVIOUS
<1>2. SubSeq(s, k + 1, Len(s)) \in Seq(R) /\ Len(SubSeq(s, k + 1, Len(s))) = Len(s) - k
      /\ \A j \in 1..(Len(s) - k) : SubSeq(s, k + 1, Len(s))[j] = s[k + j]
  OBVIOUS
<1> DEFINE a == SubSeq(s, 1, k - 1)
           b == SubSeq(s, k + 1, Len(s))
<1>3. RemoveAt(s, k) = a \o b
  BY DEF RemoveAt
<1> HIDE DEF a, b
<1>4. Len(s) \in Nat /\ a \in Seq(R) /\ b \in Seq(R) /\ Len(a) = k - 1 /\ Len(b) = Len(s) - k
  BY <1>1, <1>2 DEF a, b
<1>5. \A j \in 1..(k - 1) : a[j] = s[j]
  BY <1>1 DEF a
<1>6. \A j \in 1..(Len(s) - k) : b[j] = s[k + j]
  BY <1>2 DEF b
<1>7. /\ a \o b \in Seq(R) /\ Len(a \o b) = Len(s) - 1
      /\ \A j \in 1..(Len(s) - 1) : (a \o b)[j] = IF j <= k - 1 THEN a[j] ELSE b[j - (k - 1)]
  BY <1>4
<1>8. ASSUME NEW j \in 1..(Len(s) - 1)
      PROVE  RemoveAt(s, k)[j] = IF j < k THEN s[j] ELSE s[j + 1]
  <2>1. CASE j < k
    BY <1>3, <1>4, <1>5, <1>7, <2>1
  <2>2. CASE ~(j < k)
    <3>1. j - (k - 1) \in 1..(Len(s) - k) /\ k + (j - (k - 1)) = j + 1
      BY <1>4, <2>2
    <3> QED
      BY <1>3, <1>4, <1>6, <1>7, <2>2, <3>1
  <2> QED
    BY <2>1, <2>2
<1> QED
  BY <1>3, <1>7, <1>8

\* Timestamps are unique (an HLC time and the id of who took it), and an error is
\* not a reply with data.
UniqueReplies ==
    /\ \A r \in Replies : r.ts \in Int
    /\ \A r, s \in Replies : r.ts = s.ts => r = s
    /\ ErrReply \notin Replies

\* A cache holds, for each key of S, the newest reply of S and no other.
CacheRight(c, S) ==
    /\ c \in Seq(Replies)
    /\ \A j \in 1..Len(c) : c[j] \in S
    /\ \A j, l \in 1..Len(c) : c[j].key = c[l].key => j = l
    /\ \A r \in S : \E j \in 1..Len(c) : c[j].key = r.key /\ r.ts <= c[j].ts

\* _z_pending_query's cache after one more reply.
LEMMA ConsolidateRight ==
    ASSUME UniqueReplies, NEW S \in SUBSET Replies, NEW c, CacheRight(c, S), NEW r \in Replies
    PROVE  CacheRight(Consolidate(c, r), S \cup {r})
<1> DEFINE k    == FirstWith(c, LAMBDA e : e.key = r.key)
           same == FirstWith(c, LAMBDA e : e.ts = c[k].ts)
           new  == Consolidate(c, r)
<1>0. c \in Seq(Replies) /\ Len(c) \in Nat
  BY DEF CacheRight
<1>1. new = IF k = 0 THEN <<r>> \o c
            ELSE IF r.ts <= c[k].ts THEN c ELSE <<r>> \o RemoveAt(c, same)
  BY DEF Consolidate
<1>2. \/ k \in 1..Len(c) /\ c[k].key = r.key
      \/ k = 0 /\ \A j \in 1..Len(c) : c[j].key # r.key
  BY <1>0, FirstWithKey
<1>3. k \in 1..Len(c) => same = k
  <2> SUFFICES ASSUME k \in 1..Len(c) PROVE same = k
    OBVIOUS
  <2>1. same \in 1..Len(c) /\ c[same].ts = c[k].ts
    BY <1>0, FirstWithTime
  <2> HIDE DEF k, same
  <2>2. c[same] = c[k]
    BY <1>0, <2>1 DEF UniqueReplies
  <2> QED
    BY <2>1, <2>2 DEF CacheRight
<1> HIDE DEF k, same, new
<1>4. CASE k = 0
  <2>1. new = <<r>> \o c /\ \A j \in 1..Len(c) : c[j].key # r.key
    BY <1>1, <1>2, <1>4
  <2>2. /\ new \in Seq(Replies) /\ Len(new) = Len(c) + 1 /\ new[1] = r
        /\ \A j \in 1..Len(c) : new[j + 1] = c[j]
        /\ \A j \in 2..(Len(c) + 1) : new[j] = c[j - 1]
    BY <1>0, <2>1
  <2>3. ASSUME NEW j \in 1..Len(new)
        PROVE  j = 1 \/ (j - 1 \in 1..Len(c) /\ new[j] = c[j - 1])
    BY <1>0, <2>2
  <2>4. \A j, l \in 1..Len(new) : new[j].key = new[l].key => j = l
    <3> SUFFICES ASSUME NEW j \in 1..Len(new), NEW l \in 1..Len(new), new[j].key = new[l].key
                 PROVE  j = l
      OBVIOUS
    <3>1. j = 1 <=> l = 1
      BY <2>1, <2>2, <2>3
    <3>2. ASSUME j # 1, l # 1
          PROVE  j - 1 = l - 1
      <4>1. j - 1 \in 1..Len(c) /\ l - 1 \in 1..Len(c) /\ c[j - 1].key = c[l - 1].key
        BY <2>3, <3>2
      <4> QED
        BY <4>1 DEF CacheRight
    <3> QED
      BY <1>0, <2>2, <3>1, <3>2
  <2>5. ASSUME NEW q \in S \cup {r}
        PROVE  \E j \in 1..Len(new) : new[j].key = q.key /\ q.ts <= new[j].ts
    <3>1. CASE q = r
      BY <1>0, <2>2, <3>1 DEF UniqueReplies
    <3>2. CASE q \in S
      <4>1. PICK j \in 1..Len(c) : c[j].key = q.key /\ q.ts <= c[j].ts
        BY <3>2 DEF CacheRight
      <4> QED
        BY <1>0, <2>2, <4>1
    <3> QED
      BY <3>1, <3>2
  <2>6. \A j \in 1..Len(new) : new[j] \in S \cup {r}
    BY <2>2, <2>3 DEF CacheRight
  <2> QED
    BY <2>2, <2>4, <2>5, <2>6 DEF CacheRight, new
<1>5. CASE k \in 1..Len(c) /\ r.ts <= c[k].ts
  <2>1. new = c /\ c[k].key = r.key
    BY <1>1, <1>2, <1>5
  <2> QED
    BY <1>5, <2>1 DEF CacheRight, new
<1>6. CASE k \in 1..Len(c) /\ ~(r.ts <= c[k].ts)
  <2> DEFINE rest == RemoveAt(c, k)
  <2>1. new = <<r>> \o rest /\ c[k].key = r.key
    BY <1>1, <1>2, <1>3, <1>6
  <2>2. /\ rest \in Seq(Replies) /\ Len(rest) = Len(c) - 1
        /\ \A j \in 1..(Len(c) - 1) : rest[j] = IF j < k THEN c[j] ELSE c[j + 1]
    BY <1>0, <1>6, RemoveAtProperties
  <2> HIDE DEF rest
  <2>3. /\ new \in Seq(Replies) /\ Len(new) = Len(c) /\ new[1] = r
        /\ \A j \in 2..Len(c) : new[j] = rest[j - 1]
    BY <1>0, <1>6, <2>1, <2>2
  <2>4. \A j \in 2..Len(c) : new[j] = IF j <= k THEN c[j - 1] ELSE c[j]
    BY <1>0, <1>6, <2>2, <2>3
  <2>0. ASSUME NEW j \in 1..Len(new), j # 1
        PROVE  LET old == IF j <= k THEN j - 1 ELSE j
               IN  old \in 1..Len(c) /\ old # k /\ new[j] = c[old]
    BY <1>0, <1>6, <2>0, <2>3, <2>4
  <2>5. \A j \in 1..Len(new) : new[j] \in S \cup {r}
    BY <2>0, <2>3 DEF CacheRight
  <2>6. \A j, l \in 1..Len(new) : new[j].key = new[l].key => j = l
    <3> SUFFICES ASSUME NEW j \in 1..Len(new), NEW l \in 1..Len(new), new[j].key = new[l].key
                 PROVE  j = l
      OBVIOUS
    <3>0. ASSUME NEW m \in 1..Len(new), m # 1
          PROVE  new[m].key # r.key
      <4> DEFINE old == IF m <= k THEN m - 1 ELSE m
      <4>1. old \in 1..Len(c) /\ old # k /\ new[m] = c[old]
        BY <2>0, <3>0
      <4> HIDE DEF old
      <4> QED
        BY <1>6, <2>1, <4>1 DEF CacheRight
    <3>1. j = 1 <=> l = 1
      BY <2>3, <3>0
    <3>2. ASSUME j # 1, l # 1
          PROVE  (IF j <= k THEN j - 1 ELSE j) = (IF l <= k THEN l - 1 ELSE l)
      <4> DEFINE oldj == IF j <= k THEN j - 1 ELSE j
                 oldl == IF l <= k THEN l - 1 ELSE l
      <4>1. oldj \in 1..Len(c) /\ new[j] = c[oldj]
        BY <2>0, <3>2
      <4>2. oldl \in 1..Len(c) /\ new[l] = c[oldl]
        BY <2>0, <3>2
      <4> SUFFICES oldj = oldl
        OBVIOUS
      <4> HIDE DEF oldj, oldl
      <4> QED
        BY <4>1, <4>2 DEF CacheRight
    <3> QED
      BY <1>0, <1>6, <2>0, <2>3, <3>1, <3>2
  <2>7. ASSUME NEW q \in S \cup {r}
        PROVE  \E j \in 1..Len(new) : new[j].key = q.key /\ q.ts <= new[j].ts
    <3>1. CASE q = r
      <4>1. 1 \in 1..Len(new)
        BY <1>0, <1>6, <2>3
      <4>2. q.ts <= q.ts
        BY <3>1 DEF UniqueReplies
      <4> QED
        BY <2>3, <3>1, <4>1, <4>2
    <3>2. CASE q \in S
      <4>1. PICK j \in 1..Len(c) : c[j].key = q.key /\ q.ts <= c[j].ts
        BY <3>2 DEF CacheRight
      <4>2. CASE j = k
        <5>1. q.ts \in Int /\ r.ts \in Int /\ c[k].ts \in Int
          BY <1>0, <1>6, <3>2 DEF UniqueReplies
        <5>2. r.key = q.key /\ q.ts <= r.ts
          BY <1>6, <2>1, <4>1, <4>2, <5>1
        <5>3. 1 \in 1..Len(new)
          BY <1>0, <1>6, <2>3
        <5> QED
          BY <2>3, <5>2, <5>3
      <4>3. CASE j < k
        <5>1. j + 1 \in 2..Len(c) /\ new[j + 1] = c[j]
          BY <1>0, <1>6, <2>4, <4>3
        <5> QED
          BY <1>0, <2>3, <4>1, <5>1
      <4>4. CASE j > k
        BY <1>0, <1>6, <2>3, <2>4, <4>1, <4>4
      <4> QED
        BY <1>6, <4>2, <4>3, <4>4
    <3> QED
      BY <3>1, <3>2
  <2> QED
    BY <2>3, <2>5, <2>6, <2>7 DEF CacheRight, new
<1> QED
  BY <1>2, <1>4, <1>5, <1>6

\* What Data sees of one more element, and of several.
LEMMA DataOfAppend ==
    ASSUME NEW s \in Seq(Replies \cup {ErrReply}), NEW r \in Replies \cup {ErrReply}
    PROVE  Data(Append(s, r)) = Data(s) \cup ({r} \cap Replies)
<1> DEFINE z == Append(s, r)
<1>1. /\ Len(s) \in Nat /\ z \in Seq(Replies \cup {ErrReply})
      /\ DOMAIN s = 1..Len(s) /\ DOMAIN z = 1..(Len(s) + 1)
      /\ \A j \in 1..Len(s) : z[j] = s[j]
      /\ z[Len(s) + 1] = r
  OBVIOUS
<1> HIDE DEF z
<1>2. \A x : x \in Data(z) <=> x \in Data(s) \/ x \in {r} \cap Replies
  BY <1>1 DEF Data
<1> QED
  BY <1>2 DEF z

\* The replies of a sequence to which the cache is appended, at the final reply.
LEMMA DataOfConcat ==
    ASSUME NEW s \in Seq(Replies \cup {ErrReply}), NEW c \in Seq(Replies)
    PROVE  Data(s \o c) = Data(s) \cup {c[j] : j \in 1..Len(c)}
<1> DEFINE z == s \o c
<1>0. c \in Seq(Replies \cup {ErrReply})
  OBVIOUS
<1>1. /\ Len(s) \in Nat /\ Len(c) \in Nat
      /\ DOMAIN s = 1..Len(s) /\ DOMAIN z = 1..(Len(s) + Len(c))
      /\ \A j \in 1..Len(s) : z[j] = s[j]
      /\ \A j \in 1..Len(c) : z[Len(s) + j] = c[j]
      /\ \A j \in (Len(s) + 1)..(Len(s) + Len(c)) : j - Len(s) \in 1..Len(c) /\ z[j] = c[j - Len(s)]
  BY <1>0
<1>2. \A j \in 1..Len(c) : c[j] \in Replies
  OBVIOUS
<1> HIDE DEF z
<1>3. \A x : x \in Data(z) => x \in Data(s) \/ x \in {c[j] : j \in 1..Len(c)}
  BY <1>1 DEF Data
<1>4. \A x : x \in Data(s) => x \in Data(z)
  BY <1>1 DEF Data
<1>5. ASSUME NEW j \in 1..Len(c) PROVE c[j] \in Data(z)
  <2>1. Len(s) + j \in DOMAIN z
    BY <1>1
  <2> QED
    BY <1>1, <1>2, <2>1 DEF Data
<1> QED
  BY <1>3, <1>4, <1>5 DEF z

-----------------------------------------------------------------------------
(* The inductive invariant.                                                *)

Answers == Replies \cup {ErrReply}

TypeOK ==
    /\ used \subseteq Ids /\ pending \subseteq used /\ sending \subseteq used
    /\ query \in [Ids -> [mode : Modes, remaining : Int, cache : Seq(Replies)]]
    /\ queryPc \in [Deliverers -> {"idle", "found", "callback"}]
    /\ at \in [Deliverers -> Ids \cup {None}] /\ rep \in [Deliverers -> Answers]
    /\ got \in [Ids -> Seq(Answers)] /\ seen \in [Ids -> Seq(Answers)]
    /\ drops \in [Ids -> Nat]

\* A delivery in progress is for an id that was handed out, and nothing was seen
\* for the others: ids are not used twice.
DeliversUsed ==
    /\ \A t \in Deliverers : queryPc[t] # "idle" => at[t] \in used
    /\ \A i \in Ids \ used : got[i] = << >> /\ seen[i] = << >>

\* Until its last final the cache of a query with consolidation holds the newest
\* reply seen for each key, and one in mode "latest" has delivered nothing.
LatestKept ==
    \A i \in pending :
        /\ query[i].mode # "none" => CacheRight(query[i].cache, Data(seen[i]))
        /\ query[i].mode = "latest" => Data(got[i]) = {}

\* What the count of dropper calls alone needs.
DropInv == pending \subseteq used /\ used \subseteq Ids /\ drops \in [Ids -> Nat] /\ DropperOnce

Inv == TypeOK /\ DropperOnce /\ DeliversUsed /\ LatestKept

\* _z_pending_query_slist_drop_*: each query dropped from the list counts once.
LEMMA DropKeeps ==
    ASSUME DropInv, NEW S, Drop(S), used' = used
    PROVE  /\ DropperOnce' /\ drops' \in [Ids -> Nat]
           /\ pending' \subseteq pending
<1>1. pending' = pending \ S
  BY DEF Drop
<1>2. ASSUME NEW i \in Ids
      PROVE  drops'[i] = IF i \in used' \ pending' THEN 1 ELSE 0
  <2>1. drops'[i] = IF i \in pending \cap S THEN drops[i] + 1 ELSE drops[i]
    BY DEF Drop
  <2>2. drops[i] = IF i \in used \ pending THEN 1 ELSE 0
    BY DEF DropInv, DropperOnce
  <2> QED
    BY <1>1, <2>1, <2>2 DEF DropInv
<1>3. drops' \in [Ids -> Nat]
  BY DEF Drop, DropInv
<1> QED
  BY <1>1, <1>2, <1>3 DEF DropperOnce

\* Steps that leave the queries' replies alone, and drop some.
LEMMA QuietKeeps ==
    ASSUME LatestKept, pending' \subseteq pending, UNCHANGED <<query, got, seen>>
    PROVE  LatestKept'
BY DEF LatestKept

\* The record of a pending query (_z_pending_query_t).
LEMMA QueryType ==
    ASSUME NEW m \in Modes, NEW n \in Int, NEW c \in Seq(Replies)
    PROVE  [mode |-> m, remaining |-> n, cache |-> c]
               \in [mode : Modes, remaining : Int, cache : Seq(Replies)]
OBVIOUS

\* Every step of a get, of the read task, of a local replier and of the timeout task
\* keeps the invariant.
LEMMA StepKeeps ==
    ASSUME UniqueReplies, Targets \subseteq Nat, Inv, [Next]_vars
    PROVE  Inv'
<1> USE DEF Inv, vars, delivery, history
<1>1. ASSUME NEW i \in Ids, GetRefused(i)
      PROVE  Inv'
  <2>1. TypeOK'
    BY <1>1 DEF TypeOK, GetRefused, NextId
  <2>2. DropperOnce'
    BY <1>1 DEF TypeOK, DropperOnce, GetRefused, NextId
  <2>3. DeliversUsed'
    BY <1>1 DEF TypeOK, DeliversUsed, GetRefused
  <2>4. LatestKept'
    BY <1>1, QuietKeeps DEF GetRefused
  <2> QED
    BY <2>1, <2>2, <2>3, <2>4
<1>2. ASSUME NEW i \in Ids, NEW m \in Modes, NEW n \in Targets, RegisterPendingQuery(i, m, n)
      PROVE  Inv'
  <2>1. TypeOK'
    <3>1. [mode |-> m, remaining |-> n, cache |-> << >>]
              \in [mode : Modes, remaining : Int, cache : Seq(Replies)]
      <4>1. n \in Int /\ << >> \in Seq(Replies)
        OBVIOUS
      <4> QED
        BY <4>1, QueryType
    <3> QED
      BY <1>2, <3>1 DEF TypeOK, RegisterPendingQuery, NextId
  <2>2. DropperOnce'
    BY <1>2 DEF TypeOK, DropperOnce, RegisterPendingQuery, NextId
  <2>3. DeliversUsed'
    BY <1>2 DEF TypeOK, DeliversUsed, RegisterPendingQuery
  <2>4. LatestKept'
    <3>1. /\ query'[i].cache = << >> /\ i \notin used
          /\ \A j \in pending : query'[j] = query[j]
          /\ pending' = pending \cup {i} /\ got' = got /\ seen' = seen
      BY <1>2 DEF RegisterPendingQuery, TypeOK, NextId
    <3>2. Data(got[i]) = {} /\ Data(seen[i]) = {}
      BY <3>1 DEF DeliversUsed, Data
    <3>3. CacheRight(<< >>, {})
      BY DEF CacheRight
    <3> QED
      BY <3>1, <3>2, <3>3 DEF LatestKept
  <2> QED
    BY <2>1, <2>2, <2>3, <2>4
<1>3. ASSUME NEW i \in Ids, SendSucceeds(i)
      PROVE  Inv'
  BY <1>3, QuietKeeps DEF TypeOK, DropperOnce, DeliversUsed, SendSucceeds
<1>4. ASSUME NEW S, Drop(S), UNCHANGED <<query, used, delivery, got, seen>>, sending' \subseteq sending
      PROVE  Inv'
  <2>1. DropperOnce' /\ TypeOK'
    BY <1>4, DropKeeps DEF TypeOK, DropInv
  <2>2. DeliversUsed' /\ LatestKept'
    BY <1>4, DropKeeps, QuietKeeps DEF TypeOK, DropInv, DeliversUsed
  <2> QED
    BY <2>1, <2>2
<1>5. ASSUME NEW i \in Ids, SendFails(i) \/ CancelPendingQuery(i)
      PROVE  Inv'
  BY <1>4, <1>5 DEF SendFails, CancelPendingQuery
<1>6. ASSUME \/ \E S \in SUBSET Ids : TimeoutTask(S)
             \/ UndeclareQuerier \/ FlushPendingQueries
      PROVE  Inv'
  BY <1>4, <1>6 DEF TimeoutTask, UndeclareQuerier, FlushPendingQueries
<1>7. ASSUME CloseBegins \/ RuntimeStops \/ UNCHANGED vars
      PROVE  Inv'
  BY <1>7, QuietKeeps DEF TypeOK, DropperOnce, DeliversUsed, CloseBegins, RuntimeStops
<1>8. ASSUME NEW t \in Deliverers, NEW i \in Ids, NEW r \in Replies \cup {ErrReply}, ReplyFound(t, i, r)
      PROVE  Inv'
  <2>1. i \in pending /\ i \in used /\ seen[i] \in Seq(Answers) /\ Data(seen[i]) \subseteq Replies
    BY <1>8 DEF ReplyFound, TypeOK, Data
  <2>2. /\ seen' = [seen EXCEPT ![i] = Append(seen[i], r)]
        /\ Data(seen'[i]) = Data(seen[i]) \cup ({r} \cap Replies)
    BY <1>8, <2>1, DataOfAppend DEF ReplyFound, TypeOK, Answers
  <2>3. ASSUME query[i].mode # "none"
        PROVE  /\ CacheRight(query'[i].cache, Data(seen'[i]))
               /\ query'[i].mode = query[i].mode
    <3>1. CacheRight(query[i].cache, Data(seen[i]))
      BY <2>1, <2>3 DEF LatestKept
    <3>2. CASE r = ErrReply
      <4>1. query' = query /\ Data(seen'[i]) = Data(seen[i])
        BY <1>8, <2>2, <3>2 DEF ReplyFound, UniqueReplies
      <4> QED
        BY <3>1, <4>1
    <3>3. CASE r # ErrReply
      <4>1. query' = [query EXCEPT ![i].cache = Consolidate(@, r)]
        BY <1>8, <2>3, <3>3 DEF ReplyFound
      <4>2. query'[i].cache = Consolidate(query[i].cache, r) /\ query'[i].mode = query[i].mode
        BY <4>1 DEF TypeOK
      <4>3. r \in Replies /\ Data(seen'[i]) = Data(seen[i]) \cup {r}
        BY <2>2, <3>3
      <4> QED
        BY <2>1, <3>1, <4>2, <4>3, ConsolidateRight
    <3> QED
      BY <3>2, <3>3
  <2>4. query[i].mode = "none" => query' = query
    BY <1>8 DEF ReplyFound
  <2>5. \A j \in Ids \ {i} : query'[j] = query[j]
    BY <1>8 DEF ReplyFound, TypeOK
  <2>6. query' \in [Ids -> [mode : Modes, remaining : Int, cache : Seq(Replies)]]
    <3>1. CASE query' = query
      BY <3>1 DEF TypeOK
    <3>2. CASE query' # query
      <4>1. query' = [query EXCEPT ![i].cache = Consolidate(query[i].cache, r)]
        BY <1>8, <3>2 DEF ReplyFound
      <4>2. Consolidate(query[i].cache, r) \in Seq(Replies)
        BY <2>3, <2>4, <3>2, <4>1 DEF CacheRight, TypeOK
      <4> QED
        BY <4>1, <4>2 DEF TypeOK
    <3> QED
      BY <3>1, <3>2
  <2>7. TypeOK'
    BY <1>8, <2>1, <2>6 DEF TypeOK, ReplyFound, Answers
  <2>8. DropperOnce' /\ DeliversUsed'
    BY <1>8, <2>1 DEF TypeOK, DropperOnce, DeliversUsed, ReplyFound
  <2>9. LatestKept'
    <3> SUFFICES ASSUME NEW j \in pending
                 PROVE  /\ query'[j].mode # "none" => CacheRight(query'[j].cache, Data(seen'[j]))
                        /\ query'[j].mode = "latest" => Data(got'[j]) = {}
      BY <1>8 DEF ReplyFound, LatestKept
    <3>1. got' = got
      BY <1>8 DEF ReplyFound
    <3>2. CASE j = i
      BY <2>3, <2>4, <3>1, <3>2 DEF LatestKept
    <3>3. CASE j # i
      <4>1. query'[j] = query[j] /\ seen'[j] = seen[j]
        BY <2>2, <2>5, <3>3 DEF TypeOK
      <4> QED
        BY <3>1, <4>1 DEF LatestKept
    <3> QED
      BY <3>2, <3>3
  <2> QED
    BY <2>7, <2>8, <2>9
<1>9. ASSUME NEW t \in Deliverers, CallbackBegins(t)
      PROVE  Inv'
  <2>1. at[t] \in used /\ rep[t] \in Answers /\ got[at[t]] \in Seq(Answers)
    BY <1>9 DEF CallbackBegins, TypeOK, DeliversUsed
  <2>2. got' = [got EXCEPT ![at[t]] = Append(got[at[t]], rep[t])]
    BY <1>9 DEF CallbackBegins
  <2>3. TypeOK' /\ DropperOnce' /\ DeliversUsed'
    BY <1>9, <2>1, <2>2 DEF TypeOK, DropperOnce, DeliversUsed, CallbackBegins
  <2>4. LatestKept'
    <3> SUFFICES ASSUME NEW j \in pending, query[j].mode = "latest"
                 PROVE  Data(got'[j]) = {}
      BY <1>9 DEF CallbackBegins, LatestKept
    <3>1. CASE j = at[t]
      <4>1. rep[t] = ErrReply
        BY <1>9, <3>1 DEF CallbackBegins, CallsBack
      <4>2. Data(got'[j]) = Data(got[j]) \cup ({rep[t]} \cap Replies)
        BY <2>1, <2>2, <3>1, DataOfAppend DEF TypeOK, Answers
      <4> QED
        BY <4>1, <4>2 DEF LatestKept, UniqueReplies
    <3>2. CASE j # at[t]
      BY <2>2, <3>2 DEF LatestKept, TypeOK
    <3> QED
      BY <3>1, <3>2
  <2> QED
    BY <2>3, <2>4
<1>10. ASSUME NEW t \in Deliverers, DeliveryEnds(t)
       PROVE  Inv'
  BY <1>10, QuietKeeps DEF TypeOK, DropperOnce, DeliversUsed, DeliveryEnds
<1>11. ASSUME NEW t \in Deliverers, NEW i \in Ids, ReplyFinal(t, i)
       PROVE  Inv'
  <2> DEFINE n    == query[i].remaining - 1
             last == IF n = 0 THEN {i} ELSE {}
  <2>1. i \in pending /\ i \in used /\ Drop(last) /\ UNCHANGED <<used, sending, delivery, seen>>
    BY <1>11 DEF ReplyFinal, TypeOK
  <2>2. DropperOnce' /\ drops' \in [Ids -> Nat] /\ pending' \subseteq pending
    BY <2>1, DropKeeps DEF TypeOK, DropInv
  <2>3. query[i] \in [mode : Modes, remaining : Int, cache : Seq(Replies)]
    BY DEF TypeOK
  <2>4. query' = [query EXCEPT ![i].remaining = n,
                               ![i].cache = IF n = 0 THEN << >> ELSE query[i].cache]
    BY <1>11 DEF ReplyFinal
  <2>5. query' \in [Ids -> [mode : Modes, remaining : Int, cache : Seq(Replies)]]
    <3> DEFINE c == IF n = 0 THEN << >> ELSE query[i].cache
    <3>1. query'[i] = [mode |-> query[i].mode, remaining |-> n, cache |-> c]
      BY <2>3, <2>4 DEF TypeOK
    <3>2. n \in Int /\ c \in Seq(Replies) /\ query[i].mode \in Modes
      BY <2>3
    <3>3. query'[i] \in [mode : Modes, remaining : Int, cache : Seq(Replies)]
      <4> HIDE DEF n, c
      <4> QED
        BY <3>1, <3>2, QueryType
    <3> QED
      BY <2>4, <3>3 DEF TypeOK
  <2>6. got' \in [Ids -> Seq(Answers)] /\ \A j \in Ids \ {i} : got'[j] = got[j]
    <3>1. got[i] \o query[i].cache \in Seq(Answers)
      BY <2>3 DEF TypeOK, Answers
    <3> QED
      BY <1>11, <3>1 DEF ReplyFinal, TypeOK
  <2>7. TypeOK' /\ DeliversUsed'
    BY <2>1, <2>2, <2>5, <2>6 DEF TypeOK, DeliversUsed
  <2>8. LatestKept'
    <3>1. ASSUME NEW j \in pending', j # i
          PROVE  query'[j] = query[j] /\ got'[j] = got[j] /\ seen'[j] = seen[j] /\ j \in pending
      BY <2>1, <2>2, <2>4, <2>6, <3>1 DEF TypeOK
    <3>2. ASSUME i \in pending'
          PROVE  /\ query'[i].cache = query[i].cache /\ query'[i].mode = query[i].mode
                 /\ got'[i] = got[i] /\ seen'[i] = seen[i]
      <4>1. n # 0
        BY <2>1, <3>2 DEF Drop
      <4> QED
        BY <1>11, <2>1, <2>3, <2>4, <4>1 DEF ReplyFinal, TypeOK
    <3> QED
      BY <2>1, <3>1, <3>2 DEF LatestKept
  <2> QED
    BY <2>2, <2>7, <2>8
<1> QED
  BY <1>1, <1>2, <1>3, <1>5, <1>6, <1>7, <1>8, <1>9, <1>10, <1>11 DEF Next

\* The invariant holds of every behaviour of the session's gets.
LEMMA Invariance ==
    ASSUME UniqueReplies, Targets \subseteq Nat
    PROVE  Spec => []Inv
<1>1. ASSUME Init PROVE Inv
  <2>1. TypeOK
    <3>1. "none" \in Modes /\ 0 \in Int /\ << >> \in Seq(Replies)
      BY DEF Modes
    <3>2. NoQuery \in [mode : Modes, remaining : Int, cache : Seq(Replies)]
      BY <3>1, QueryType DEF NoQuery
    <3> QED
      BY <1>1, <3>2 DEF Init, TypeOK, Answers
  <2>2. DropperOnce /\ DeliversUsed /\ LatestKept
    BY <1>1 DEF Init, DropperOnce, DeliversUsed, LatestKept
  <2> QED
    BY <2>1, <2>2 DEF Inv
<1>2. Inv /\ [Next]_vars => Inv'
  BY StepKeeps
<1> QED
  BY <1>1, <1>2, PTL DEF Spec

\* A get's dropper is called exactly once, for any number of gets, threads,
\* targets and replies (_z_pending_query_clear, from every place that drops a
\* pending query or refuses to register one).
THEOREM DropperOnceAlways == Spec => []DropperOnce
<1>1. Init => DropInv
  BY DEF Init, DropInv, DropperOnce
<1>2. DropInv /\ [Next]_vars => DropInv'
  <2> SUFFICES ASSUME DropInv, [Next]_vars
               PROVE  DropInv'
    OBVIOUS
  <2>1. ASSUME NEW i \in Ids, GetRefused(i)
        PROVE  DropInv'
    BY <2>1 DEF DropInv, DropperOnce, GetRefused, NextId
  <2>2. ASSUME NEW i \in Ids, NEW m \in Modes, NEW n \in Targets, RegisterPendingQuery(i, m, n)
        PROVE  DropInv'
    BY <2>2 DEF DropInv, DropperOnce, RegisterPendingQuery, NextId, history
  <2>3. ASSUME NEW S, Drop(S), used' = used
        PROVE  DropInv'
    BY <2>3, DropKeeps DEF DropInv
  <2>4. CASE UNCHANGED <<pending, used, drops>>
    BY <2>4 DEF DropInv, DropperOnce
  <2>5. ASSUME NEW i \in Ids, SendSucceeds(i) \/ SendFails(i) \/ CancelPendingQuery(i)
        PROVE  DropInv'
    BY <2>3, <2>4, <2>5 DEF SendSucceeds, SendFails, CancelPendingQuery, history
  <2>6. ASSUME NEW t \in Deliverers, NEW i \in Ids, ReplyFinal(t, i)
        PROVE  DropInv'
    BY <2>3, <2>6 DEF ReplyFinal
  <2>7. ASSUME NEW t \in Deliverers, NEW i \in Ids, NEW r, ReplyFound(t, i, r)
        PROVE  DropInv'
    BY <2>4, <2>7 DEF ReplyFound
  <2>8. ASSUME NEW t \in Deliverers, CallbackBegins(t) \/ DeliveryEnds(t)
        PROVE  DropInv'
    BY <2>4, <2>8 DEF CallbackBegins, DeliveryEnds, history
  <2>9. ASSUME NEW S, TimeoutTask(S) \/ UndeclareQuerier \/ FlushPendingQueries
        PROVE  DropInv'
    BY <2>3, <2>9 DEF TimeoutTask, UndeclareQuerier, FlushPendingQueries
  <2>10. CASE CloseBegins \/ RuntimeStops \/ UNCHANGED vars
    BY <2>4, <2>10 DEF CloseBegins, RuntimeStops, vars, history
  <2> QED
    BY <2>1, <2>2, <2>5, <2>6, <2>7, <2>8, <2>9, <2>10 DEF Next
<1>3. DropInv => DropperOnce
  BY DEF DropInv
<1> QED
  BY <1>1, <1>2, <1>3, PTL DEF Spec

\* What a right cache holds is the newest reply of each key.
LEMMA CacheIsNewest ==
    ASSUME UniqueReplies, NEW S \in SUBSET Replies, NEW c, CacheRight(c, S)
    PROVE  {c[j] : j \in 1..Len(c)} = NewestOf(S)
<1>1. ASSUME NEW j \in 1..Len(c), NEW r \in S, r.key = c[j].key
      PROVE  r.ts <= c[j].ts
  <2>1. PICK l \in 1..Len(c) : c[l].key = r.key /\ r.ts <= c[l].ts
    BY DEF CacheRight
  <2>2. l = j
    BY <1>1, <2>1 DEF CacheRight
  <2> QED
    BY <2>1, <2>2
<1>2. \A j \in 1..Len(c) : c[j] \in NewestOf(S)
  BY <1>1 DEF NewestOf, CacheRight
<1>3. ASSUME NEW r \in NewestOf(S)
      PROVE  \E j \in 1..Len(c) : r = c[j]
  <2>1. PICK j \in 1..Len(c) : c[j].key = r.key /\ r.ts <= c[j].ts
    BY DEF CacheRight, NewestOf
  <2>2. c[j] \in S /\ r \in S /\ c[j].ts <= r.ts
    BY <2>1 DEF CacheRight, NewestOf
  <2>3. c[j].ts = r.ts /\ c[j] \in Replies /\ r \in Replies
    BY <2>1, <2>2 DEF UniqueReplies
  <2> QED
    BY <2>3 DEF UniqueReplies
<1> QED
  BY <1>2, <1>3

\* Consolidation "latest" for any replies with unique timestamps, however many
\* queryables answer and in whatever order (_z_trigger_query_reply_partial_inner,
\* _z_trigger_query_reply_final): what is delivered is delivered by the last
\* final, and is the newest reply of each key.
THEOREM LatestAtTheEndAlways ==
    ASSUME UniqueReplies, Targets \subseteq Nat
    PROVE  Spec => LatestAtTheEnd
<1> DEFINE Right == \A i \in pending :
                query[i].mode = "latest" /\ Data(got'[i]) # Data(got[i]) =>
                    i \notin pending' /\ Data(got'[i]) = NewestOf(Data(seen[i]))
<1>1. ASSUME Inv, Next PROVE Right
  <2> SUFFICES ASSUME NEW i \in pending, query[i].mode = "latest", got'[i] # got[i],
                      Data(got'[i]) # Data(got[i])
               PROVE  i \notin pending' /\ Data(got'[i]) = NewestOf(Data(seen[i]))
    OBVIOUS
  <2>0. TypeOK /\ LatestKept /\ DeliversUsed /\ i \in Ids
    BY <1>1 DEF Inv, TypeOK
  <2>1. CASE \E t \in Deliverers : CallbackBegins(t)
    <3>1. PICK t \in Deliverers : CallbackBegins(t)
      BY <2>1
    <3>2. got' = [got EXCEPT ![at[t]] = Append(@, rep[t])] /\ at[t] \in Ids /\ queryPc[t] = "found"
      BY <2>0, <3>1 DEF CallbackBegins, DeliversUsed, TypeOK
    <3>3. at[t] = i /\ rep[t] = ErrReply
      BY <2>0, <3>1, <3>2 DEF CallbackBegins, CallsBack, TypeOK
    <3>4. Data(got'[i]) = Data(got[i]) \cup ({ErrReply} \cap Replies)
      BY <2>0, <3>2, <3>3, DataOfAppend DEF TypeOK, Answers
    <3> QED
      BY <3>4 DEF UniqueReplies
  <2>2. CASE \E t \in Deliverers, j \in Ids : ReplyFinal(t, j)
    <3>1. PICK t \in Deliverers, j \in Ids : ReplyFinal(t, j)
      BY <2>2
    <3>2. j = i /\ query[i].remaining - 1 = 0 /\ Drop({i}) /\ got'[i] = got[i] \o query[i].cache
      BY <2>0, <3>1 DEF ReplyFinal, TypeOK
    <3>3. CacheRight(query[i].cache, Data(seen[i])) /\ Data(got[i]) = {}
      BY <2>0 DEF LatestKept
    <3>4. Data(got'[i]) = {query[i].cache[k] : k \in 1..Len(query[i].cache)}
      <4>1. got[i] \in Seq(Replies \cup {ErrReply}) /\ query[i].cache \in Seq(Replies)
        BY <2>0, <3>3 DEF TypeOK, Answers, CacheRight
      <4>2. Data(got[i] \o query[i].cache)
              = Data(got[i]) \cup {query[i].cache[k] : k \in 1..Len(query[i].cache)}
        BY <4>1, DataOfConcat
      <4> QED
        BY <3>2, <3>3, <4>2
    <3>5. Data(seen[i]) \in SUBSET Replies
      BY DEF Data
    <3>6. Data(got'[i]) = NewestOf(Data(seen[i]))
      BY <3>3, <3>4, <3>5, CacheIsNewest
    <3>7. i \notin pending'
      BY <3>2 DEF Drop
    <3> QED
      BY <3>6, <3>7
  <2> QED
    BY <1>1, <2>1, <2>2 DEF Next, GetRefused, RegisterPendingQuery, SendSucceeds, SendFails,
       CancelPendingQuery, ReplyFound, DeliveryEnds, TimeoutTask, UndeclareQuerier,
       CloseBegins, RuntimeStops, FlushPendingQueries, history
<1>2. Inv /\ [Next]_vars => [Right]_vars
  BY <1>1
<1> QED
  BY <1>2, Invariance, PTL DEF Spec, LatestAtTheEnd

-----------------------------------------------------------------------------
(* The sender.                                                             *)

TxFrames == [kind : {"frame"}, rel : Rel, sn : 0 .. SnRes, content : Seq(Nat)]

TxFragments == [kind : {"fragment"}, rel : Rel, sn : 0 .. SnRes, first : BOOLEAN,
                more : BOOLEAN, id : Nat, len : Int]

Packets == {KeepAlive} \cup TxFrames \cup TxFragments

\* What a transport message of each kind holds, and what a message appended to a
\* batch adds to it.
LEMMA PacketContents ==
    /\ KeepAlive \in Packets /\ Contents(KeepAlive) = {}
    /\ \A p \in TxFrames : p \in Packets /\ p.kind = "frame" /\ p.sn \in 0 .. SnRes /\ p.rel \in Rel
    /\ \A p \in Packets : p.kind = "frame" => p \in TxFrames
    /\ \A p \in TxFragments : p \in Packets /\ Contents(p) = {}
    /\ \A r \in Rel, s \in 0 .. SnRes, c \in Seq(Nat) :
          Frame(r, s, c) \in TxFrames /\ Contents(Frame(r, s, c)) = ToSet(c)
    /\ \A p \in TxFrames, id \in Nat :
          /\ [p EXCEPT !.content = Append(@, id)] \in TxFrames
          /\ Contents([p EXCEPT !.content = Append(@, id)]) = Contents(p) \cup {id}
<1>1. KeepAlive \in Packets /\ Contents(KeepAlive) = {}
  BY DEF KeepAlive, Packets, Contents
<1>2. \A p \in TxFrames : p \in Packets /\ p.kind = "frame" /\ p.sn \in 0 .. SnRes /\ p.rel \in Rel
  BY DEF TxFrames, Packets
<1>3. \A p \in Packets : p.kind = "frame" => p \in TxFrames
  BY DEF TxFrames, TxFragments, Packets, KeepAlive
<1>4. \A p \in TxFragments : p \in Packets /\ Contents(p) = {}
  BY DEF TxFragments, Packets, Contents
<1>5. \A r \in Rel, s \in 0 .. SnRes, c \in Seq(Nat) :
          Frame(r, s, c) \in TxFrames /\ Contents(Frame(r, s, c)) = ToSet(c)
  BY DEF Frame, TxFrames, Contents
<1>6. ASSUME NEW p \in TxFrames, NEW id \in Nat
      PROVE  /\ [p EXCEPT !.content = Append(@, id)] \in TxFrames
             /\ Contents([p EXCEPT !.content = Append(@, id)]) = Contents(p) \cup {id}
  <2> DEFINE q == [p EXCEPT !.content = Append(@, id)]
  <2>1. p.content \in Seq(Nat) /\ p.kind = "frame"
    BY DEF TxFrames
  <2>2. q \in TxFrames /\ q.kind = "frame" /\ q.content = Append(p.content, id)
    <3>1. \A c \in Seq(Nat) : LET x == [p EXCEPT !.content = c]
                             IN  x \in TxFrames /\ x.kind = "frame" /\ x.content = c
      BY DEF TxFrames
    <3>2. Append(p.content, id) \in Seq(Nat)
      BY <2>1
    <3> QED
      BY <3>1, <3>2, Zenon
  <2>3. ToSet(Append(p.content, id)) = ToSet(p.content) \cup {id}
    <3> PICK c \in Seq(Nat) : c = p.content
      BY <2>1
    <3> PICK n \in Nat : n = Len(c)
      OBVIOUS
    <3>1. /\ DOMAIN c = 1 .. n /\ DOMAIN Append(c, id) = 1 .. n + 1
          /\ \A i \in 1 .. n : Append(c, id)[i] = c[i]
          /\ Append(c, id)[n + 1] = id
      OBVIOUS
    <3> PICK d : d = Append(c, id)
      OBVIOUS
    <3>2. {d[i] : i \in 1 .. n + 1} = {c[i] : i \in 1 .. n} \cup {id}
      BY <3>1
    <3> QED
      BY <3>1, <3>2 DEF ToSet
  <2> HIDE DEF q
  <2>4. Contents(q) = Contents(p) \cup {id}
    BY <2>1, <2>2, <2>3 DEF Contents
  <2> QED
    BY <2>2, <2>4 DEF q
<1> QED
  BY <1>1, <1>2, <1>3, <1>4, <1>5, <1>6

\* A message makes at least one fragment.
LEMMA SomePieces ==
    ASSUME NEW size \in Nat \ {0}
    PROVE  Pieces(size) \in Nat \ {0}
<1>1. Cap \in Nat \ {0}
  BY UnicastTxAssumption
<1>2. Pieces(size) \in Int
  BY <1>1 DEF Pieces
<1>3. size + Cap - 1 >= Cap
  BY <1>1
<1>4. Pieces(size) >= 1
  BY <1>1, <1>3 DEF Pieces
<1> QED
  BY <1>2, <1>4

\* The fragments of a message are transport messages, and as many as its pieces.
LEMMA FragmentsTyped ==
    ASSUME NEW id \in Nat, NEW m \in Messages, NEW first \in Int
    PROVE  /\ Fragments(id, m, first) \in Seq(TxFragments)
           /\ Len(Fragments(id, m, first)) = Pieces(m.size)
           /\ Pieces(m.size) \in Nat \ {0}
<1>1. m.size \in Nat \ {0} /\ m.rel \in Rel
  BY UnicastTxAssumption DEF Messages
<1>2. Pieces(m.size) \in Nat \ {0}
  BY <1>1, SomePieces
<1>3. Cap \in Nat \ {0} /\ SnRes \in Nat \ {0}
  BY UnicastTxAssumption, SeqNumAssumption
<1> DEFINE f(k) == [kind |-> "fragment", rel |-> m.rel, sn |-> (first + k - 1) % (SnRes + 1),
                    first |-> k = 1, more |-> k < Pieces(m.size), id |-> id,
                    len |-> IF k < Pieces(m.size) THEN Cap ELSE m.size - Cap * (k - 1)]
<1>4. ASSUME NEW k \in 1 .. Pieces(m.size) PROVE f(k) \in TxFragments
  <2>1. (first + k - 1) % (SnRes + 1) \in 0 .. SnRes
    BY <1>2, <1>3
  <2>2. (IF k < Pieces(m.size) THEN Cap ELSE m.size - Cap * (k - 1)) \in Int
    BY <1>1, <1>2, <1>3
  <2>3. (k = 1) \in BOOLEAN /\ (k < Pieces(m.size)) \in BOOLEAN
    OBVIOUS
  <2> QED
    BY <1>1, <2>1, <2>2, <2>3 DEF TxFragments
<1>5. Fragments(id, m, first) = [k \in 1 .. Pieces(m.size) |-> f(k)]
  BY DEF Fragments
<1> HIDE DEF f
<1> QED
  BY <1>2, <1>4, <1>5

\* OnWire, of any wire and messages.
FragmentsOf(w, id) == {i \in DOMAIN w : w[i].kind = "fragment" /\ w[i].id = id}

WholeOn(w, ms) ==
    (UNION {Contents(w[i]) : i \in DOMAIN w})
    \cup {id \in DOMAIN ms : Cardinality(FragmentsOf(w, id)) >= Pieces(ms[id].size)}

\* What is on the wire stays there when the link takes more, ...
LEMMA WireGrows ==
    ASSUME NEW w \in Seq(Packets), NEW x \in Seq(Packets), NEW ms \in Seq(Messages)
    PROVE  /\ w \o x \in Seq(Packets)
           /\ WholeOn(w, ms) \subseteq WholeOn(w \o x, ms)
           /\ \A i \in 1 .. Len(x) : Contents(x[i]) \subseteq WholeOn(w \o x, ms)
<1> PICK n \in Nat : n = Len(w)
  OBVIOUS
<1> PICK l \in Nat : l = Len(x)
  OBVIOUS
<1>0. w \o x \in Seq(Packets)
  BY ConcatProperties
<1> PICK y \in Seq(Packets) : y = w \o x
  BY <1>0, Zenon
<1>1. /\ DOMAIN w = 1 .. n /\ DOMAIN y = 1 .. n + l
      /\ \A i \in 1 .. n : y[i] = w[i]
      /\ \A i \in 1 .. l : y[n + i] = x[i] /\ n + i \in 1 .. n + l
  <2>1. DOMAIN w = 1 .. n /\ DOMAIN y = 1 .. n + l /\ \A i \in 1 .. n : y[i] = w[i]
    OBVIOUS
  <2>2. ASSUME NEW i \in 1 .. l PROVE y[n + i] = x[i] /\ n + i \in 1 .. n + l
    BY ConcatProperties
  <2> QED
    BY <2>1, <2>2
<1>2. \A i \in DOMAIN w : i \in DOMAIN y /\ Contents(w[i]) = Contents(y[i])
  BY <1>1
<1>3. ASSUME NEW id PROVE Cardinality(FragmentsOf(w, id)) \in Nat
                          /\ Cardinality(FragmentsOf(y, id)) \in Nat
                          /\ Cardinality(FragmentsOf(w, id)) <= Cardinality(FragmentsOf(y, id))
  <2>1. FragmentsOf(w, id) \subseteq FragmentsOf(y, id)
    BY <1>1 DEF FragmentsOf
  <2>2. IsFiniteSet(FragmentsOf(y, id))
    <3>1. IsFiniteSet(1 .. n + l)
      BY FS_Interval
    <3>2. FragmentsOf(y, id) \subseteq 1 .. n + l
      BY <1>1 DEF FragmentsOf
    <3> QED
      BY <3>1, <3>2, FS_Subset
  <2>3. IsFiniteSet(FragmentsOf(w, id))
    BY <2>1, <2>2, FS_Subset
  <2> QED
    BY <2>1, <2>2, <2>3, FS_Subset, FS_CardinalityType
<1>4. \A id \in DOMAIN ms : Pieces(ms[id].size) \in Int
  <2>1. \A id \in DOMAIN ms : ms[id] \in Messages
    OBVIOUS
  <2>2. \A m \in Messages : m.size \in Nat \ {0}
    BY UnicastTxAssumption DEF Messages
  <2> QED
    BY <2>1, <2>2, SomePieces
<1>5. WholeOn(w, ms) \subseteq WholeOn(y, ms)
  <2>1. (UNION {Contents(w[i]) : i \in DOMAIN w}) \subseteq (UNION {Contents(y[i]) : i \in DOMAIN y})
    BY <1>2
  <2>2. \A id \in DOMAIN ms : Cardinality(FragmentsOf(w, id)) >= Pieces(ms[id].size)
                                => Cardinality(FragmentsOf(y, id)) >= Pieces(ms[id].size)
    BY <1>3, <1>4
  <2> QED
    BY <2>1, <2>2 DEF WholeOn
<1>6. ASSUME NEW i \in 1 .. l PROVE Contents(x[i]) \subseteq WholeOn(y, ms)
  <2>1. n + i \in DOMAIN y /\ Contents(x[i]) = Contents(y[n + i])
    BY <1>1
  <2> QED
    BY <2>1 DEF WholeOn
<1> QED
  BY <1>5, <1>6

\* ... or when a message is given to the transport.
LEMMA WireOfMore ==
    ASSUME NEW w, NEW ms \in Seq(Messages), NEW m \in Messages
    PROVE  WholeOn(w, ms) \subseteq WholeOn(w, Append(ms, m))
<1>1. \A id \in DOMAIN ms : id \in DOMAIN Append(ms, m) /\ Append(ms, m)[id] = ms[id]
  OBVIOUS
<1> QED
  BY <1>1 DEF WholeOn

\* All the fragments of a message are the whole of it.
LEMMA FragmentsWhole ==
    ASSUME NEW w \in Seq(Packets), NEW ms \in Seq(Messages), NEW id \in DOMAIN ms,
           NEW first \in Int
    PROVE  id \in WholeOn(w \o Fragments(id, ms[id], first), ms)
<1> PICK m \in Messages : m = ms[id]
  OBVIOUS
<1> PICK l \in Nat \ {0} : l = Pieces(m.size)
  BY FragmentsTyped
<1>1. id \in Nat
  OBVIOUS
<1> PICK x \in Seq(TxFragments) : x = Fragments(id, m, first)
  BY <1>1, FragmentsTyped
<1>2. Len(x) = l /\ \A k \in 1 .. l : x[k].id = id /\ x[k].kind = "fragment"
  <2>1. Len(Fragments(id, m, first)) = Pieces(m.size)
    BY <1>1, FragmentsTyped
  <2>2. ASSUME NEW k \in 1 .. Pieces(m.size)
        PROVE  Fragments(id, m, first)[k].id = id /\ Fragments(id, m, first)[k].kind = "fragment"
    BY DEF Fragments
  <2> QED
    BY <2>1, <2>2, Zenon
<1> PICK n \in Nat : n = Len(w)
  OBVIOUS
<1> PICK y : y = w \o x
  OBVIOUS
<1>3. x \in Seq(Packets)
  BY PacketContents
<1>4. DOMAIN y = 1 .. n + l /\ \A k \in 1 .. l : y[n + k] = x[k]
  BY <1>2, <1>3
<1>5. (n + 1) .. (n + l) \subseteq FragmentsOf(y, id)
  <2>1. ASSUME NEW i \in (n + 1) .. (n + l) PROVE i \in FragmentsOf(y, id)
    <3>1. i - n \in 1 .. l /\ n + (i - n) = i
      OBVIOUS
    <3>2. y[i] = x[i - n] /\ i \in DOMAIN y
      BY <1>4, <3>1
    <3> QED
      BY <1>2, <3>1, <3>2 DEF FragmentsOf
  <2> QED
    BY <2>1
<1>6. IsFiniteSet(FragmentsOf(y, id))
  <2>1. IsFiniteSet(1 .. n + l)
    BY FS_Interval
  <2>2. FragmentsOf(y, id) \subseteq 1 .. n + l
    BY <1>4 DEF FragmentsOf
  <2> QED
    BY <2>1, <2>2, FS_Subset
<1>7. Cardinality((n + 1) .. (n + l)) = l
  <2>1. n + 1 \in Int /\ n + l \in Int /\ ~(n + 1 > n + l)
    OBVIOUS
  <2>2. Cardinality((n + 1) .. (n + l)) = (n + l) - (n + 1) + 1
    BY <2>1, FS_Interval
  <2> QED
    BY <2>2
<1>8. l <= Cardinality(FragmentsOf(y, id))
  <2>1. Cardinality((n + 1) .. (n + l)) <= Cardinality(FragmentsOf(y, id))
    BY <1>5, <1>6, FS_Subset
  <2> QED
    BY <1>7, <2>1
<1>9. Cardinality(FragmentsOf(y, id)) >= Pieces(ms[id].size)
  BY <1>6, <1>8, FS_CardinalityType
<1>10. id \in WholeOn(y, ms)
  BY <1>9 DEF WholeOn
<1> QED
  BY <1>10

TxPcs == {"idle", "encoded", "starting", "stopped", "flushing"}

TxTypeOK ==
    /\ sn \in [Rel -> 0 .. SnRes] /\ wbuf \in Packets /\ batching \in BOOLEAN /\ count \in Nat
    /\ mutex \in Threads \cup {NoThread} /\ pc \in [Threads -> TxPcs]
    /\ cur \in [Threads -> [id : Nat, has : BOOLEAN, fits : BOOLEAN]]
    /\ msgs \in Seq(Messages) /\ wire \in Seq(Packets)
    /\ kept \in SUBSET (DOMAIN msgs) /\ raced \in BOOLEAN /\ fails \in Nat

\* The thread between the two halves of a send has the mutex; the buffer holds
\* its message, if it fitted, and nothing else when the batch was empty.
TxEncoded ==
    /\ \A t \in Threads : pc[t] = "encoded" <=> mutex = t
    /\ BatchHasData => wbuf \in TxFrames
    /\ \A t \in Threads : pc[t] = "encoded" =>
          /\ cur[t].id \in DOMAIN msgs /\ wbuf \in TxFrames
          /\ cur[t].fits => cur[t].id \in Contents(wbuf)
          /\ ~cur[t].has => /\ ~BatchHasData /\ wbuf.rel = Msg(t).rel
                            /\ cur[t].fits => Contents(wbuf) \subseteq {cur[t].id}
                            /\ ~cur[t].fits => Contents(wbuf) = {}

Unsent == (kept \ failed) \ OnWire

Stopping == \E v \in Threads : pc[v] \in {"stopped", "flushing"}

\* As long as no batching call overlapped a send: messages that succeeded and
\* are not on the wire are in the buffer, and counted, and either batching is on
\* or a thread is on its way to flush them; a thread in zp_batch_start is alone
\* there and resets the count of a buffer without such messages; and between the
\* two halves of a send behind a batch no thread is there.
TxQuiet ==
    /\ Unsent # {} => /\ count > 0 /\ Unsent \subseteq Contents(wbuf)
                      /\ batching \/ Stopping
    /\ \A t \in Threads : pc[t] = "starting" =>
          ~batching /\ Unsent = {} /\ \A u \in Threads : pc[u] = "starting" => u = t
    /\ \A t \in Threads : pc[t] = "encoded" /\ cur[t].has =>
          count > 0 /\ (batching \/ Stopping) /\ \A u \in Threads : pc[u] # "starting"

TxInv == TxTypeOK /\ TxEncoded /\ (~raced => TxQuiet)

\* OnWire is WholeOn of the wire and the messages, before and after a step.
LEMMA OnWireIs == OnWire = WholeOn(wire, msgs) /\ OnWire' = WholeOn(wire', msgs')
<1>1. OnWire = WholeOn(wire, msgs)
  BY DEF OnWire, WholeOn, FragmentsOf
<1>2. OnWire' = WholeOn(wire', msgs')
  BY DEF OnWire, WholeOn, FragmentsOf
<1> QED
  BY <1>1, <1>2

\* The link takes transport messages: what was on the wire still is.
LEMMA LinkTakes ==
    ASSUME TxTypeOK, NEW x \in Seq(Packets), wire' = wire \o x, msgs' = msgs
    PROVE  /\ wire' \in Seq(Packets) /\ OnWire \subseteq OnWire'
           /\ \A i \in 1 .. Len(x) : Contents(x[i]) \subseteq OnWire'
<1>1. wire \in Seq(Packets) /\ msgs \in Seq(Messages)
  BY DEF TxTypeOK
<1>2. /\ wire \o x \in Seq(Packets)
      /\ WholeOn(wire, msgs) \subseteq WholeOn(wire \o x, msgs)
      /\ \A i \in 1 .. Len(x) : Contents(x[i]) \subseteq WholeOn(wire \o x, msgs)
  BY <1>1, WireGrows
<1> QED
  BY <1>2, OnWireIs, Zenon

\* One transport message.
LEMMA LinkTakesOne ==
    ASSUME TxTypeOK, NEW p \in Packets, wire' = wire \o <<p>>, msgs' = msgs
    PROVE  wire' \in Seq(Packets) /\ OnWire \subseteq OnWire' /\ Contents(p) \subseteq OnWire'
<1>0. <<p>> \in Seq(Packets)
  OBVIOUS
<1> PICK x \in Seq(Packets) : x = <<p>>
  BY <1>0, Zenon
<1>1. Len(x) = 1 /\ x[1] = p /\ 1 \in 1 .. 1
  OBVIOUS
<1>2. wire' = wire \o x
  OBVIOUS
<1>3. /\ wire' \in Seq(Packets) /\ OnWire \subseteq OnWire'
      /\ \A i \in 1 .. Len(x) : Contents(x[i]) \subseteq OnWire'
  BY <1>2, LinkTakes
<1> QED
  BY <1>1, <1>3

\* Two transport messages.
LEMMA LinkTakesTwo ==
    ASSUME TxTypeOK, NEW p \in Packets, NEW q \in Packets,
           wire' = wire \o <<p>> \o <<q>>, msgs' = msgs
    PROVE  /\ wire' \in Seq(Packets) /\ OnWire \subseteq OnWire'
           /\ Contents(p) \subseteq OnWire' /\ Contents(q) \subseteq OnWire'
<1>0. wire \in Seq(Packets)
  BY DEF TxTypeOK
<1>a. <<p>> \in Seq(Packets) /\ <<q>> \in Seq(Packets)
  OBVIOUS
<1>b. <<p>> \o <<q>> \in Seq(Packets)
  BY <1>a, ConcatProperties
<1> PICK x \in Seq(Packets) : x = <<p>> \o <<q>>
  BY <1>b, Zenon
<1>1. Len(x) = 2 /\ x[1] = p /\ x[2] = q /\ 1 \in 1 .. 2 /\ 2 \in 1 .. 2
  OBVIOUS
<1>2. wire' = wire \o x
  <2>1. (wire \o <<p>>) \o <<q>> = wire \o (<<p>> \o <<q>>)
    BY <1>0, <1>a, ConcatAssociative
  <2> QED
    BY <2>1, Zenon
<1>3. /\ wire' \in Seq(Packets) /\ OnWire \subseteq OnWire'
      /\ \A i \in 1 .. Len(x) : Contents(x[i]) \subseteq OnWire'
  BY <1>2, LinkTakes
<1> QED
  BY <1>1, <1>3

\* _z_transport_tx_flush_buffer alone ...
LEMMA FlushAlone ==
    ASSUME TxTypeOK, NEW p \in Packets, NEW ids, Flush(<< >>, p, ids), msgs' = msgs
    PROVE  /\ wire' \in Seq(Packets) /\ OnWire \subseteq OnWire' /\ count' \in Nat
           /\ \/ /\ count' = 0 /\ kept' = kept \cup ids /\ failed' = failed
                 /\ Contents(p) \subseteq OnWire' /\ fails' = fails /\ wire' = wire \o <<p>>
              \/ /\ count' = count /\ kept' = kept /\ failed' = failed \cup (ids \cup Contents(p))
                 /\ fails' = fails + 1 /\ wire' = wire
<1>0. wire \in Seq(Packets) /\ count \in Nat
  BY DEF TxTypeOK
<1>1. \A w \in Seq(Packets) : w \o << >> = w
  OBVIOUS
<1>2. CASE wire' = wire \o << >> \o <<p>> /\ count' = 0 /\ Succeeds(ids)
  <2>1. wire' = wire \o <<p>>
    BY <1>0, <1>1, <1>2
  <2>2. wire' \in Seq(Packets) /\ OnWire \subseteq OnWire' /\ Contents(p) \subseteq OnWire'
    BY <2>1, LinkTakesOne
  <2> QED
    BY <1>2, <2>1, <2>2 DEF Succeeds
<1>3. CASE /\ wire' = wire \o << >> /\ Fails(ids \cup Contents(p))
           /\ count' = IF << >> = << >> THEN count ELSE 0
  <2>1. wire' = wire
    BY <1>0, <1>1, <1>3
  <2>2. OnWire' = OnWire
    BY <2>1, OnWireIs
  <2> QED
    BY <1>0, <1>3, <2>1, <2>2 DEF Fails
<1> QED
  BY <1>2, <1>3 DEF Flush

\* ... and after the batch.
LEMMA FlushBehind ==
    ASSUME TxTypeOK, NEW p \in Packets, NEW ids, Flush(<<wbuf>>, p, ids), msgs' = msgs
    PROVE  /\ wire' \in Seq(Packets) /\ OnWire \subseteq OnWire' /\ count' = 0
           /\ Contents(wbuf) \subseteq OnWire'
           /\ \/ /\ kept' = kept \cup ids /\ failed' = failed /\ Contents(p) \subseteq OnWire'
                 /\ fails' = fails /\ wire' = wire \o <<wbuf>> \o <<p>>
              \/ /\ kept' = kept /\ failed' = failed \cup (ids \cup Contents(p))
                 /\ fails' = fails + 1 /\ wire' = wire \o <<wbuf>>
<1>0. wire \in Seq(Packets) /\ wbuf \in Packets
  BY DEF TxTypeOK
<1>1. CASE wire' = wire \o <<wbuf>> \o <<p>> /\ count' = 0 /\ Succeeds(ids)
  <2>1. /\ wire' \in Seq(Packets) /\ OnWire \subseteq OnWire'
        /\ Contents(wbuf) \subseteq OnWire' /\ Contents(p) \subseteq OnWire'
    BY <1>0, <1>1, LinkTakesTwo
  <2> QED
    BY <1>1, <2>1 DEF Succeeds
<1>2. CASE /\ wire' = wire \o <<wbuf>> /\ Fails(ids \cup Contents(p))
           /\ count' = IF <<wbuf>> = << >> THEN count ELSE 0
  <2>1. wire' \in Seq(Packets) /\ OnWire \subseteq OnWire' /\ Contents(wbuf) \subseteq OnWire'
    BY <1>0, <1>2, LinkTakesOne
  <2>2. <<wbuf>> # << >>
    OBVIOUS
  <2> QED
    BY <1>2, <2>1, <2>2 DEF Fails
<1> QED
  BY <1>1, <1>2 DEF Flush

\* Appending transport messages is associative.
LEMMA PacketsAssociate ==
    \A u, v, w \in Seq(Packets) : (u \o v) \o w = u \o (v \o w)
<1>1. ASSUME NEW u \in Seq(Packets), NEW v \in Seq(Packets), NEW w \in Seq(Packets)
      PROVE  (u \o v) \o w = u \o (v \o w)
  OBVIOUS
<1> QED
  BY <1>1, Zenon

\* _z_transport_tx_send_fragment, behind what was sent before.
LEMMA FragmentsSent ==
    ASSUME TxTypeOK, NEW t \in Threads, cur[t].id \in DOMAIN msgs, NEW first \in Int,
           NEW before \in Seq(Packets), SendFragments(t, before, first), msgs' = msgs
    PROVE  /\ wire' \in Seq(Packets) /\ OnWire \subseteq OnWire' /\ wbuf' \in TxFragments
           /\ \A i \in 1 .. Len(before) : Contents(before[i]) \subseteq OnWire'
           /\ sn' \in [Rel -> 0 .. SnRes]
           /\ \/ /\ kept' = kept \cup {cur[t].id} /\ failed' = failed /\ cur[t].id \in OnWire'
                 /\ fails' = fails
              \/ kept' = kept /\ failed' = failed \cup {cur[t].id} /\ fails' = fails + 1
<1>0. wire \in Seq(Packets) /\ msgs \in Seq(Messages) /\ sn \in [Rel -> 0 .. SnRes]
  BY DEF TxTypeOK
<1>a. \A x \in Seq(Packets) : (wire \o before) \o x = wire \o (before \o x)
  BY <1>0, PacketsAssociate, Zenon
<1> PICK id \in DOMAIN msgs : id = cur[t].id
  OBVIOUS
<1> PICK m : m = msgs[id]
  OBVIOUS
<1>1. m \in Messages /\ id \in Nat
  BY <1>0
<1>2. m.rel \in Rel /\ Msg(t) = m
  BY <1>1 DEF Messages, Msg
<1> PICK all \in Seq(TxFragments) : all = Fragments(id, m, first)
  BY <1>1, FragmentsTyped
<1>3. Len(all) = Pieces(m.size) /\ Pieces(m.size) \in Nat \ {0}
  BY <1>1, FragmentsTyped
<1> PICK n \in Nat \ {0} : n = Len(all)
  BY <1>3
<1>4. PICK j \in 0 .. n :
         /\ wire' = wire \o before \o SubSeq(all, 1, j)
         /\ wbuf' = all[IF j = n THEN n ELSE j + 1]
         /\ sn' = [sn EXCEPT ![m.rel] = (first + (IF j = n THEN n ELSE j + 1)) % (SnRes + 1)]
         /\ IF j = n THEN Succeeds({id}) ELSE Fails({id})
  BY <1>2 DEF SendFragments
<1>5. all \in Seq(Packets)
  BY PacketContents
<1>6. SubSeq(all, 1, j) \in Seq(Packets) /\ (j = n => SubSeq(all, 1, j) = all)
  BY <1>5
<1> PICK x \in Seq(Packets) : x = SubSeq(all, 1, j)
  BY <1>6, Zenon
<1> PICK y : y = before \o x
  OBVIOUS
<1>7. /\ y \in Seq(Packets)
      /\ \A i \in 1 .. Len(before) : i \in 1 .. Len(y) /\ y[i] = before[i]
  OBVIOUS
<1>8. wire' = wire \o y /\ wire' = (wire \o before) \o x
  BY <1>4, <1>a
<1>9. /\ wire' \in Seq(Packets) /\ OnWire \subseteq OnWire'
      /\ \A i \in 1 .. Len(before) : Contents(before[i]) \subseteq OnWire'
  <2>1. \A i \in 1 .. Len(y) : Contents(y[i]) \subseteq OnWire'
    BY <1>7, <1>8, LinkTakes
  <2>2. wire' \in Seq(Packets) /\ OnWire \subseteq OnWire'
    BY <1>7, <1>8, LinkTakes
  <2> QED
    BY <1>7, <2>1, <2>2
<1>10. wbuf' \in TxFragments
  BY <1>4
<1>11. sn' \in [Rel -> 0 .. SnRes]
  <2>a. \A a \in Int : a % (SnRes + 1) \in 0 .. SnRes
    BY SeqNumAssumption
  <2>b. first + (IF j = n THEN n ELSE j + 1) \in Int
    OBVIOUS
  <2>1. (first + (IF j = n THEN n ELSE j + 1)) % (SnRes + 1) \in 0 .. SnRes
    BY <2>a, <2>b, Zenon
  <2> QED
    BY <1>0, <1>2, <1>4, <2>1
<1>12. CASE j = n
  <2>1. kept' = kept \cup {id} /\ failed' = failed /\ fails' = fails
    BY <1>4, <1>12 DEF Succeeds
  <2>2. wire \o before \in Seq(Packets)
    BY <1>0
  <2>3. id \in WholeOn((wire \o before) \o Fragments(id, msgs[id], first), msgs)
    BY <1>0, <2>2, FragmentsWhole
  <2>4. wire' = (wire \o before) \o Fragments(id, msgs[id], first)
    BY <1>6, <1>8, <1>12
  <2>5. id \in OnWire'
    BY <2>3, <2>4, OnWireIs
  <2> QED
    BY <1>9, <1>10, <1>11, <2>1, <2>5
<1>13. CASE j # n
  <2>1. kept' = kept /\ failed' = failed \cup {id} /\ fails' = fails + 1
    BY <1>4, <1>13 DEF Fails
  <2> QED
    BY <1>9, <1>10, <1>11, <2>1
<1> QED
  BY <1>12, <1>13

\* A send that returns leaves the invariant if the buffer, when it is to be
\* appended to, is a batch, and if what is unsent is in it, counted and due to be
\* flushed.
LEMMA SendReturns ==
    ASSUME TxInv, NEW t \in Threads, pc[t] = "encoded", Returns(t),
           sn' \in [Rel -> 0 .. SnRes], wbuf' \in Packets, count' \in Nat, wire' \in Seq(Packets),
           kept' \in SUBSET (DOMAIN msgs), fails' \in Nat,
           BatchHasData' => wbuf' \in TxFrames,
           ~raced /\ Unsent' # {} => /\ count' > 0 /\ Unsent' \subseteq Contents(wbuf')
                                     /\ batching \/ Stopping
                                     /\ \A u \in Threads : pc[u] # "starting"
    PROVE  TxInv'
<1>0. TxTypeOK /\ TxEncoded /\ (~raced => TxQuiet)
  BY DEF TxInv
<1>1. /\ mutex' = NoThread /\ pc' = [pc EXCEPT ![t] = "idle"] /\ cur' = [cur EXCEPT ![t] = NoSend]
      /\ msgs' = msgs /\ raced' = raced /\ batching' = batching
  BY DEF Returns
<1>2. pc \in [Threads -> TxPcs] /\ mutex = t /\ \A u \in Threads : pc[u] = "encoded" <=> mutex = u
  BY <1>0 DEF TxTypeOK, TxEncoded
<1>3. TxTypeOK'
  <2>1. NoSend \in [id : Nat, has : BOOLEAN, fits : BOOLEAN]
    BY DEF NoSend
  <2>2. cur' \in [Threads -> [id : Nat, has : BOOLEAN, fits : BOOLEAN]]
    BY <1>0, <1>1, <2>1 DEF TxTypeOK
  <2>3. pc' \in [Threads -> TxPcs]
    BY <1>1, <1>2 DEF TxPcs
  <2>4. mutex' \in Threads \cup {NoThread} /\ kept' \in SUBSET (DOMAIN msgs')
    BY <1>1
  <2>5. batching' \in BOOLEAN /\ raced' \in BOOLEAN /\ msgs' \in Seq(Messages)
    BY <1>0, <1>1 DEF TxTypeOK
  <2> QED
    BY <2>2, <2>3, <2>4, <2>5 DEF TxTypeOK
<1>4. \A u \in Threads : /\ pc'[u] # "encoded"
                         /\ pc'[u] = "starting" <=> pc[u] = "starting"
                         /\ pc'[u] \in {"stopped", "flushing"} <=> pc[u] \in {"stopped", "flushing"}
  BY <1>1, <1>2
<1>5. TxEncoded'
  <2>1. \A u \in Threads : mutex' # u
    BY <1>1, UnicastTxAssumption
  <2> QED
    BY <1>4, <2>1 DEF TxEncoded
<1>6. ASSUME ~raced' PROVE TxQuiet'
  <2>1. ~raced /\ TxQuiet
    BY <1>0, <1>1, <1>6
  <2>2. Stopping' <=> Stopping
    BY <1>4 DEF Stopping
  <2>3. Unsent' # {} => count' > 0 /\ Unsent' \subseteq Contents(wbuf)' /\ (batching' \/ Stopping')
    <3>1. Contents(wbuf)' = Contents(wbuf')
      BY DEF Contents
    <3> QED
      BY <1>1, <2>1, <2>2, <3>1
  <2>4. \A u \in Threads : pc'[u] = "starting" =>
            ~batching' /\ Unsent' = {} /\ \A v \in Threads : pc'[v] = "starting" => v = u
    BY <1>1, <1>4, <2>1 DEF TxQuiet
  <2> QED
    BY <1>4, <2>3, <2>4 DEF TxQuiet
<1> QED
  BY <1>3, <1>5, <1>6 DEF TxInv

\* What the invariant says of the thread that ends a send.
LEMMA AtEncoded ==
    ASSUME TxInv, NEW t \in Threads, pc[t] = "encoded"
    PROVE  /\ TxTypeOK /\ cur[t].id \in DOMAIN msgs /\ wbuf \in TxFrames /\ wbuf \in Packets
           /\ cur[t].fits \in BOOLEAN /\ cur[t].has \in BOOLEAN
           /\ cur[t].fits => cur[t].id \in Contents(wbuf)
           /\ ~cur[t].has /\ ~cur[t].fits => Contents(wbuf) = {} /\ ~BatchHasData
           /\ ~cur[t].has => wbuf.rel = Msg(t).rel
           /\ ~raced => Unsent \subseteq Contents(wbuf)
           /\ ~raced /\ cur[t].has => (batching \/ Stopping) /\ \A u \in Threads : pc[u] # "starting"
           /\ ~raced /\ batching => \A u \in Threads : pc[u] # "starting"
<1>1. TxTypeOK /\ TxEncoded /\ (~raced => TxQuiet)
  BY DEF TxInv
<1>2. cur[t].fits \in BOOLEAN /\ cur[t].has \in BOOLEAN /\ wbuf \in Packets
  BY <1>1 DEF TxTypeOK
<1> QED
  BY <1>1, <1>2 DEF TxEncoded, TxQuiet

\* A send that leaves its message in the batch keeps the invariant: the message is
\* in the buffer, and counted.
LEMMA BatchedStep ==
    ASSUME TxInv, NEW t \in Threads, SendBatched(t) PROVE TxInv'
<1>1. /\ pc[t] = "encoded" /\ cur[t].fits /\ batching /\ count' = count + 1
      /\ kept' = kept \cup {cur[t].id} /\ failed' = failed /\ Returns(t)
      /\ sn' = sn /\ wbuf' = wbuf /\ wire' = wire /\ msgs' = msgs /\ batching' = batching
      /\ fails' = fails
  BY DEF SendBatched, Succeeds, Returns
<1>2. /\ TxTypeOK /\ cur[t].id \in DOMAIN msgs /\ wbuf \in TxFrames /\ cur[t].id \in Contents(wbuf)
      /\ ~raced => Unsent \subseteq Contents(wbuf)
      /\ ~raced /\ batching => \A u \in Threads : pc[u] # "starting"
  BY <1>1, AtEncoded
<1>3. /\ sn' \in [Rel -> 0 .. SnRes] /\ wbuf' \in Packets /\ count' \in Nat /\ wire' \in Seq(Packets)
      /\ kept' \in SUBSET (DOMAIN msgs) /\ count' > 0 /\ fails' \in Nat
  BY <1>1, <1>2 DEF TxTypeOK
<1>4. OnWire' = OnWire
  BY <1>1, OnWireIs
<1>5. ~raced => Unsent' \subseteq Contents(wbuf')
  BY <1>1, <1>2, <1>4 DEF Unsent
<1> QED
  BY <1>1, <1>2, <1>3, <1>5, SendReturns

\* A send that flushes the buffer keeps the invariant: what was unsent is on the
\* wire or, if the link fails, reported as failed.
LEMMA FlushedStep ==
    ASSUME TxInv, NEW t \in Threads, SendFlushed(t) PROVE TxInv'
<1>1. /\ pc[t] = "encoded" /\ cur[t].fits /\ Flush(<< >>, wbuf, {cur[t].id}) /\ Returns(t)
      /\ sn' = sn /\ wbuf' = wbuf /\ msgs' = msgs
  BY DEF SendFlushed, Returns
<1>2. /\ TxTypeOK /\ cur[t].id \in DOMAIN msgs /\ wbuf \in TxFrames /\ wbuf \in Packets
      /\ cur[t].id \in Contents(wbuf)
      /\ ~raced => Unsent \subseteq Contents(wbuf)
  BY <1>1, AtEncoded
<1>3. /\ wire' \in Seq(Packets) /\ OnWire \subseteq OnWire' /\ count' \in Nat
      /\ \/ /\ kept' = kept \cup {cur[t].id} /\ failed' = failed /\ Contents(wbuf) \subseteq OnWire'
            /\ fails' = fails
         \/ /\ kept' = kept /\ failed' = failed \cup ({cur[t].id} \cup Contents(wbuf))
            /\ fails' = fails + 1
  BY <1>1, <1>2, FlushAlone
<1>4. sn' \in [Rel -> 0 .. SnRes] /\ wbuf' \in Packets /\ kept' \in SUBSET (DOMAIN msgs)
      /\ fails' \in Nat
  BY <1>1, <1>2, <1>3 DEF TxTypeOK
<1>5. ~raced => Unsent' = {}
  BY <1>2, <1>3 DEF Unsent
<1> QED
  BY <1>1, <1>2, <1>3, <1>4, <1>5, SendReturns

\* A send in fragments with an empty batch keeps the invariant.
LEMMA FragmentedStep ==
    ASSUME TxInv, NEW t \in Threads, SendFragmented(t) PROVE TxInv'
<1>1. /\ pc[t] = "encoded" /\ ~cur[t].fits /\ ~cur[t].has
      /\ SendFragments(t, << >>, wbuf.sn) /\ Returns(t) /\ count' = count
      /\ msgs' = msgs /\ batching' = batching
  BY DEF SendFragmented, Returns
<1>2. /\ TxTypeOK /\ cur[t].id \in DOMAIN msgs /\ wbuf \in TxFrames
      /\ Contents(wbuf) = {} /\ ~BatchHasData
      /\ ~raced => Unsent \subseteq Contents(wbuf)
  BY <1>1, AtEncoded
<1>3. wbuf.sn \in 0 .. SnRes /\ wbuf.sn \in Int /\ << >> \in Seq(Packets)
  BY <1>2, PacketContents
<1>4. /\ wire' \in Seq(Packets) /\ OnWire \subseteq OnWire' /\ wbuf' \in TxFragments
      /\ sn' \in [Rel -> 0 .. SnRes]
      /\ \/ /\ kept' = kept \cup {cur[t].id} /\ failed' = failed /\ cur[t].id \in OnWire'
            /\ fails' = fails
         \/ kept' = kept /\ failed' = failed \cup {cur[t].id} /\ fails' = fails + 1
  BY <1>1, <1>2, <1>3, FragmentsSent
<1>5. wbuf' \in Packets /\ kept' \in SUBSET (DOMAIN msgs) /\ count' \in Nat /\ fails' \in Nat
  BY <1>1, <1>2, <1>4, PacketContents DEF TxTypeOK
<1>6. ~BatchHasData'
  BY <1>1, <1>2 DEF BatchHasData
<1>7. ~raced => Unsent' = {}
  BY <1>2, <1>4 DEF Unsent
<1> QED
  BY <1>1, <1>4, <1>5, <1>6, <1>7, SendReturns

\* _z_transport_tx_batch_overflow keeps the invariant: the batch is on the wire
\* before the buffer is reused for the message.
LEMMA OverflowsStep ==
    ASSUME TxInv, NEW t \in Threads, SendOverflows(t) PROVE TxInv'
<1> PICK id : id = cur[t].id
  OBVIOUS
<1> PICK m : m = Msg(t)
  OBVIOUS
<1> DEFINE next == Frame(m.rel, sn[m.rel], <<id>>)
<1>1. /\ pc[t] = "encoded" /\ cur[t].has /\ Returns(t) /\ msgs' = msgs /\ batching' = batching
  BY DEF SendOverflows, Returns
<1>2. /\ TxTypeOK /\ id \in DOMAIN msgs /\ wbuf \in TxFrames /\ wbuf \in Packets
      /\ ~raced => Unsent \subseteq Contents(wbuf)
      /\ ~raced => (batching \/ Stopping) /\ \A u \in Threads : pc[u] # "starting"
  BY <1>1, AtEncoded
<1>3. m \in Messages /\ id \in Nat
  BY <1>2 DEF TxTypeOK, Msg
<1>4. m.rel \in Rel /\ sn \in [Rel -> 0 .. SnRes] /\ sn[m.rel] \in 0 .. SnRes
  BY <1>2, <1>3 DEF TxTypeOK, Messages
<1>5. next \in TxFrames /\ next \in Packets /\ Contents(next) = {id}
  <2>1. <<id>> \in Seq(Nat) /\ ToSet(<<id>>) = {id}
    BY <1>3 DEF ToSet
  <2> QED
    BY <1>4, <2>1, PacketContents
<1>6. [sn EXCEPT ![m.rel] = Increment(SnRes, @)] \in [Rel -> 0 .. SnRes]
  <2>1. \A s \in 0 .. SnRes : Increment(SnRes, s) \in 0 .. SnRes
    BY SeqNumAssumption DEF Increment
  <2> QED
    BY <1>4, <2>1
<1> HIDE DEF next
<1>7. CASE Fails({id} \cup Contents(wbuf)) /\ UNCHANGED <<sn, wbuf, count, wire>>
  <2>1. /\ sn' \in [Rel -> 0 .. SnRes] /\ wbuf' \in Packets /\ count' \in Nat /\ wire' \in Seq(Packets)
        /\ kept' \in SUBSET (DOMAIN msgs) /\ wbuf' \in TxFrames
        /\ kept' = kept /\ failed' = failed \cup ({id} \cup Contents(wbuf)) /\ wire' = wire
        /\ fails' \in Nat
    BY <1>2, <1>7 DEF TxTypeOK, Fails
  <2>2. OnWire' = OnWire
    BY <1>1, <2>1, OnWireIs
  <2>3. ~raced => Unsent' = {}
    BY <1>2, <2>1, <2>2 DEF Unsent
  <2> QED
    BY <1>1, <2>1, <2>3, SendReturns
<1>8. CASE /\ Flush(<<wbuf>>, next, {id}) /\ wbuf' = next
           /\ sn' = [sn EXCEPT ![m.rel] = Increment(SnRes, @)]
  <2>1. /\ wire' \in Seq(Packets) /\ OnWire \subseteq OnWire' /\ count' = 0
        /\ Contents(wbuf) \subseteq OnWire'
        /\ \/ /\ kept' = kept \cup {id} /\ failed' = failed /\ Contents(next) \subseteq OnWire'
              /\ fails' = fails
           \/ kept' = kept /\ failed' = failed \cup ({id} \cup Contents(next)) /\ fails' = fails + 1
    BY <1>1, <1>2, <1>5, <1>8, FlushBehind
  <2>2. /\ sn' \in [Rel -> 0 .. SnRes] /\ wbuf' \in Packets /\ count' \in Nat
        /\ kept' \in SUBSET (DOMAIN msgs) /\ wbuf' \in TxFrames /\ fails' \in Nat
    BY <1>2, <1>5, <1>6, <1>8, <2>1 DEF TxTypeOK
  <2>3. ~raced => Unsent' = {}
    BY <1>2, <1>5, <2>1 DEF Unsent
  <2> QED
    BY <1>1, <2>1, <2>2, <2>3, SendReturns
<1>9. CASE /\ wire' = Append(wire, wbuf) /\ wbuf' = next /\ count' = 1 /\ Succeeds({id})
           /\ sn' = [sn EXCEPT ![m.rel] = Increment(SnRes, @)]
  <2>1. wire' = wire \o <<wbuf>>
    BY <1>2, <1>9, AppendIsConcat DEF TxTypeOK
  <2>2. wire' \in Seq(Packets) /\ OnWire \subseteq OnWire' /\ Contents(wbuf) \subseteq OnWire'
    BY <1>1, <1>2, <2>1, LinkTakesOne
  <2>3. /\ sn' \in [Rel -> 0 .. SnRes] /\ wbuf' \in Packets /\ count' \in Nat /\ count' > 0
        /\ kept' = kept \cup {id} /\ failed' = failed
        /\ kept' \in SUBSET (DOMAIN msgs) /\ wbuf' \in TxFrames /\ fails' \in Nat
    BY <1>2, <1>5, <1>6, <1>9 DEF TxTypeOK, Succeeds
  <2>4. ~raced => Unsent' \subseteq Contents(wbuf')
    BY <1>2, <1>5, <1>9, <2>2, <2>3 DEF Unsent
  <2> QED
    BY <1>1, <1>2, <2>2, <2>3, <2>4, SendReturns
<1>10. CASE SendFragments(t, <<wbuf>>, sn[m.rel]) /\ count' = 0
  <2> PICK x \in Seq(Packets) : x = <<wbuf>>
    <3>1. <<wbuf>> \in Seq(Packets)
      BY <1>2
    <3> QED
      BY <3>1, Zenon
  <2>0. Len(x) = 1 /\ x[1] = wbuf /\ 1 \in 1 .. 1
    OBVIOUS
  <2>1. /\ wire' \in Seq(Packets) /\ OnWire \subseteq OnWire' /\ wbuf' \in TxFragments
        /\ \A i \in 1 .. Len(x) : Contents(x[i]) \subseteq OnWire'
        /\ sn' \in [Rel -> 0 .. SnRes]
        /\ \/ /\ kept' = kept \cup {cur[t].id} /\ failed' = failed /\ cur[t].id \in OnWire'
              /\ fails' = fails
           \/ kept' = kept /\ failed' = failed \cup {cur[t].id} /\ fails' = fails + 1
    <3>1. sn[m.rel] \in Int
      BY <1>4
    <3> QED
      BY <1>1, <1>2, <1>10, <3>1, FragmentsSent
  <2>2. /\ Contents(wbuf) \subseteq OnWire'
        /\ wbuf' \in Packets /\ count' \in Nat /\ kept' \in SUBSET (DOMAIN msgs)
        /\ fails' \in Nat
    <3>1. Contents(wbuf) \subseteq OnWire'
      BY <2>0, <2>1
    <3>2. wbuf' \in Packets /\ count' \in Nat
      BY <1>10, <2>1, PacketContents
    <3>3. kept' \in SUBSET (DOMAIN msgs) /\ fails' \in Nat
      BY <1>2, <2>1 DEF TxTypeOK
    <3> QED
      BY <3>1, <3>2, <3>3
  <2>3. ~BatchHasData'
    BY <1>10 DEF BatchHasData
  <2>4. ~raced => Unsent' = {}
    BY <1>2, <2>1, <2>2 DEF Unsent
  <2> QED
    BY <1>1, <2>1, <2>2, <2>3, <2>4, SendReturns
<1> QED
  BY <1>7, <1>8, <1>9, <1>10 DEF SendOverflows, next

\* What the invariant says when a call begins that takes the mutex, and no other
\* thread is in a batching call.
LEMMA AtIdle ==
    ASSUME TxInv, NEW t \in Threads, pc[t] = "idle", Race(t)
    PROVE  /\ TxTypeOK /\ TxEncoded /\ raced' \in BOOLEAN
           /\ ~raced' => /\ TxQuiet /\ ~Stopping
                         /\ \A u \in Threads : pc[u] \notin {"starting", "stopped", "flushing"}
                         /\ Unsent \subseteq Contents(wbuf) /\ (Unsent # {} => BatchHasData)
<1>1. TxTypeOK /\ TxEncoded /\ (~raced => TxQuiet)
  BY DEF TxInv
<1>2. raced' = (raced \/ \E u \in Threads \ {t} : pc[u] \in {"starting", "stopped", "flushing"})
  BY DEF Race
<1>3. raced' \in BOOLEAN
  BY <1>2
<1>4. ASSUME ~raced'
      PROVE  ~raced /\ \A u \in Threads : pc[u] \notin {"starting", "stopped", "flushing"}
  BY <1>2, <1>4
<1>5. ASSUME ~raced'
      PROVE  /\ TxQuiet /\ ~Stopping
             /\ Unsent \subseteq Contents(wbuf) /\ (Unsent # {} => BatchHasData)
  BY <1>1, <1>4, <1>5 DEF TxQuiet, Stopping, BatchHasData
<1> QED
  BY <1>1, <1>3, <1>4, <1>5

\* The first half of a send keeps the invariant: the message is behind the ones of
\* the batch, or in a buffer that nothing unsent was in.
LEMMA BeginsStep ==
    ASSUME TxInv, NEW t \in Threads, NEW m \in Messages, SendBegins(t, m) PROVE TxInv'
<1> PICK has \in BOOLEAN : has = BatchHasData
  BY DEF BatchHasData
<1> PICK base : base = IF has THEN wbuf ELSE Frame(m.rel, sn[m.rel], << >>)
  OBVIOUS
<1>0. \A units : (units <= Cap) \in BOOLEAN
  OBVIOUS
<1> PICK fits \in BOOLEAN : fits = (UnitsOf(base.content) + m.size <= Cap)
  BY <1>0, Zenon
<1> PICK id : id = Len(msgs) + 1
  OBVIOUS
<1>1. /\ pc[t] = "idle" /\ mutex = NoThread
      /\ mutex' = t /\ pc' = [pc EXCEPT ![t] = "encoded"]
      /\ cur' = [cur EXCEPT ![t] = [id |-> id, has |-> has, fits |-> fits]]
      /\ msgs' = Append(msgs, m) /\ Race(t)
      /\ sn' = IF has THEN sn ELSE [sn EXCEPT ![m.rel] = Increment(SnRes, @)]
      /\ wbuf' = IF fits THEN [base EXCEPT !.content = Append(@, id)] ELSE base
      /\ batching' = batching /\ count' = count /\ wire' = wire /\ kept' = kept /\ failed' = failed
      /\ fails' = fails
  BY DEF SendBegins
<1>2. /\ TxTypeOK /\ TxEncoded /\ raced' \in BOOLEAN
      /\ ~raced' => /\ TxQuiet /\ ~Stopping
                    /\ \A u \in Threads : pc[u] \notin {"starting", "stopped", "flushing"}
                    /\ Unsent \subseteq Contents(wbuf) /\ (Unsent # {} => BatchHasData)
  BY <1>1, AtIdle
<1>3. m.rel \in Rel /\ sn \in [Rel -> 0 .. SnRes] /\ sn[m.rel] \in 0 .. SnRes
  BY <1>2 DEF TxTypeOK, Messages
<1>4. id \in Nat /\ DOMAIN msgs \subseteq DOMAIN msgs' /\ id \in DOMAIN msgs'
      /\ msgs' \in Seq(Messages)
  BY <1>1, <1>2 DEF TxTypeOK
<1>5. base \in TxFrames /\ (has => Contents(base) = Contents(wbuf)) /\ (~has => Contents(base) = {})
  <2>1. CASE has
    BY <1>2, <2>1 DEF TxEncoded
  <2>2. CASE ~has
    <3>1. << >> \in Seq(Nat) /\ ToSet(<< >>) = {}
      BY DEF ToSet
    <3> QED
      BY <1>3, <2>2, <3>1, PacketContents
  <2> QED
    BY <2>1, <2>2
<1>6. /\ wbuf' \in TxFrames
      /\ fits => Contents(wbuf') = Contents(base) \cup {id}
      /\ ~fits => Contents(wbuf') = Contents(base)
  BY <1>1, <1>4, <1>5, PacketContents
<1>7. sn' \in [Rel -> 0 .. SnRes]
  <2>1. \A s \in 0 .. SnRes : Increment(SnRes, s) \in 0 .. SnRes
    BY SeqNumAssumption DEF Increment
  <2> QED
    BY <1>1, <1>3, <2>1
<1>8. TxTypeOK'
  <2>1. pc' \in [Threads -> TxPcs]
    BY <1>1, <1>2 DEF TxTypeOK, TxPcs
  <2>2. cur' \in [Threads -> [id : Nat, has : BOOLEAN, fits : BOOLEAN]]
    BY <1>1, <1>2, <1>4 DEF TxTypeOK
  <2>3. wbuf' \in Packets
    BY <1>6, PacketContents
  <2>4. kept' \in SUBSET (DOMAIN msgs') /\ mutex' \in Threads \cup {NoThread}
    BY <1>1, <1>2, <1>4 DEF TxTypeOK
  <2>5. batching' \in BOOLEAN /\ count' \in Nat /\ wire' \in Seq(Packets) /\ fails' \in Nat
    BY <1>1, <1>2 DEF TxTypeOK
  <2> QED
    BY <1>2, <1>4, <1>7, <2>1, <2>2, <2>3, <2>4, <2>5 DEF TxTypeOK
<1>9. \A u \in Threads : /\ pc'[u] = "encoded" <=> u = t
                         /\ pc'[u] = "starting" => pc[u] = "starting"
  <2>1. \A u \in Threads : pc[u] # "encoded"
    BY <1>1, <1>2, UnicastTxAssumption DEF TxEncoded
  <2> QED
    BY <1>1, <1>2, <2>1 DEF TxTypeOK
<1>10. cur'[t].id = id /\ cur'[t].has = has /\ cur'[t].fits = fits
  BY <1>1, <1>2 DEF TxTypeOK
<1>11. BatchHasData' <=> BatchHasData
  BY <1>1 DEF BatchHasData
<1>12. Contents(wbuf)' = Contents(wbuf')
  BY DEF Contents
<1>a. ~has => wbuf'.rel = Msg(t)'.rel
  <2>1. SUFFICES ASSUME ~has PROVE wbuf'.rel = Msg(t)'.rel
    OBVIOUS
  <2>2. base.rel = m.rel
    BY <2>1 DEF Frame
  <2>3. \A c : \A p \in TxFrames : [p EXCEPT !.content = c].rel = p.rel
    BY DEF TxFrames
  <2>4. wbuf'.rel = m.rel
    BY <1>1, <1>5, <2>2, <2>3
  <2>5. Msg(t)' = m
    BY <1>1, <1>2, <1>10 DEF Msg, TxTypeOK
  <2> QED
    BY <2>4, <2>5
<1>13. TxEncoded'
  BY <1>1, <1>4, <1>5, <1>6, <1>9, <1>10, <1>11, <1>12, <1>a DEF TxEncoded
<1>14. ASSUME ~raced' PROVE TxQuiet'
  <2>1. OnWire \subseteq OnWire'
    <3>1. WholeOn(wire, msgs) \subseteq WholeOn(wire, Append(msgs, m))
      BY <1>2, WireOfMore DEF TxTypeOK
    <3> QED
      BY <1>1, <3>1, OnWireIs
  <2>2. Unsent' \subseteq Unsent
    BY <1>1, <2>1 DEF Unsent
  <2>3. \A u \in Threads : pc'[u] # "starting"
    BY <1>2, <1>9, <1>14
  <2>4. has => count' > 0 /\ batching'
    BY <1>1 DEF BatchHasData
  <2>5. Unsent' # {} => has /\ Unsent' \subseteq Contents(wbuf')
    BY <1>2, <1>5, <1>6, <1>14, <2>2
  <2> QED
    BY <1>9, <1>10, <1>12, <2>3, <2>4, <2>5 DEF TxQuiet
<1> QED
  BY <1>8, <1>13, <1>14 DEF TxInv

\* A keep-alive keeps the invariant: it takes the buffer, but a batch in it is sent
\* first.
LEMMA KeepAliveStep ==
    ASSUME TxInv, NEW t \in Threads, SendKeepAlive(t) PROVE TxInv'
<1>1. /\ pc[t] = "idle" /\ mutex = NoThread /\ Race(t)
      /\ sn' = sn /\ batching' = batching /\ mutex' = mutex /\ pc' = pc /\ cur' = cur /\ msgs' = msgs
  BY DEF SendKeepAlive
<1>2. /\ TxTypeOK /\ TxEncoded /\ raced' \in BOOLEAN
      /\ ~raced' => /\ TxQuiet /\ ~Stopping
                    /\ \A u \in Threads : pc[u] \notin {"starting", "stopped", "flushing"}
                    /\ Unsent \subseteq Contents(wbuf) /\ (Unsent # {} => BatchHasData)
  BY <1>1, AtIdle
<1>3. /\ wbuf' \in Packets /\ wire' \in Seq(Packets) /\ count' \in Nat /\ kept' = kept
      /\ fails' \in Nat
      /\ BatchHasData' => wbuf' \in TxFrames
      /\ ~raced' => Unsent' = {}
  <2>0. wbuf \in Packets /\ KeepAlive \in Packets /\ Contents(KeepAlive) = {} /\ fails \in Nat
    BY <1>2, PacketContents DEF TxTypeOK
  <2>1. CASE BatchHasData /\ Fails(Contents(wbuf)) /\ UNCHANGED <<wbuf, count, wire>>
    <3>1. /\ kept' = kept /\ failed' = failed \cup Contents(wbuf)
          /\ wbuf' = wbuf /\ count' = count /\ wire' = wire /\ fails' = fails + 1
      BY <2>1 DEF Fails
    <3>2. OnWire' = OnWire
      BY <1>1, <3>1, OnWireIs
    <3>3. ~raced' => Unsent' = {}
      BY <1>2, <3>1, <3>2 DEF Unsent
    <3>4. wbuf' \in TxFrames
      BY <1>2, <2>1, <3>1 DEF TxEncoded
    <3> QED
      BY <1>2, <3>1, <3>3, <3>4 DEF TxTypeOK
  <2>2. CASE BatchHasData /\ Flush(<<wbuf>>, KeepAlive, {}) /\ wbuf' = KeepAlive
    <3>1. /\ wire' \in Seq(Packets) /\ OnWire \subseteq OnWire' /\ count' = 0
          /\ Contents(wbuf) \subseteq OnWire'
          /\ \/ /\ kept' = kept \cup {} /\ failed' = failed /\ Contents(KeepAlive) \subseteq OnWire'
                /\ fails' = fails
             \/ kept' = kept /\ failed' = failed \cup ({} \cup Contents(KeepAlive)) /\ fails' = fails + 1
      BY <1>1, <1>2, <2>0, <2>2, FlushBehind
    <3>2. ~raced' => Unsent' = {}
      BY <1>2, <2>0, <3>1 DEF Unsent
    <3>3. ~BatchHasData'
      BY <3>1 DEF BatchHasData
    <3> QED
      BY <2>0, <2>2, <3>1, <3>2, <3>3
  <2>3. CASE ~BatchHasData /\ Flush(<< >>, KeepAlive, {}) /\ wbuf' = KeepAlive
    <3>1. /\ wire' \in Seq(Packets) /\ OnWire \subseteq OnWire' /\ count' \in Nat
          /\ \/ /\ count' = 0 /\ kept' = kept \cup {} /\ failed' = failed
                /\ Contents(KeepAlive) \subseteq OnWire' /\ fails' = fails
             \/ /\ count' = count /\ kept' = kept /\ failed' = failed \cup ({} \cup Contents(KeepAlive))
                /\ fails' = fails + 1
      BY <1>1, <1>2, <2>0, <2>3, FlushAlone
    <3>2. ~raced' => Unsent' = {}
      BY <1>2, <2>0, <2>3, <3>1 DEF Unsent
    <3>3. ~BatchHasData'
      BY <1>1, <2>3, <3>1 DEF BatchHasData
    <3> QED
      BY <2>0, <2>3, <3>1, <3>2, <3>3
  <2> QED
    BY <2>1, <2>2, <2>3 DEF SendKeepAlive
<1>4. TxTypeOK'
  BY <1>1, <1>2, <1>3 DEF TxTypeOK
<1>5. \A u \in Threads : pc[u] # "encoded"
  BY <1>1, <1>2, UnicastTxAssumption DEF TxEncoded
<1>6. TxEncoded'
  BY <1>1, <1>2, <1>3, <1>5, UnicastTxAssumption DEF TxEncoded
<1>7. ASSUME ~raced' PROVE TxQuiet'
  BY <1>1, <1>2, <1>3, <1>5, <1>7 DEF TxQuiet
<1> QED
  BY <1>4, <1>6, <1>7 DEF TxInv

\* The flush at the end of zp_batch_stop or zp_batch_flush keeps the invariant.
LEMMA FlushEndsStep ==
    ASSUME TxInv, NEW t \in Threads, FlushEnds(t) PROVE TxInv'
<1>0. TxTypeOK /\ TxEncoded /\ (~raced => TxQuiet)
  BY DEF TxInv
<1>1. /\ pc[t] = "flushing" /\ mutex = NoThread /\ Flush(<< >>, wbuf, {})
      /\ pc' = [pc EXCEPT ![t] = "idle"]
      /\ sn' = sn /\ wbuf' = wbuf /\ batching' = batching /\ mutex' = mutex /\ cur' = cur
      /\ msgs' = msgs /\ raced' = raced
  BY DEF FlushEnds
<1>2. wbuf \in Packets /\ pc \in [Threads -> TxPcs]
  BY <1>0 DEF TxTypeOK
<1>3. /\ wire' \in Seq(Packets) /\ OnWire \subseteq OnWire' /\ count' \in Nat
      /\ \/ /\ count' = 0 /\ kept' = kept \cup {} /\ failed' = failed
            /\ Contents(wbuf) \subseteq OnWire' /\ fails' = fails
         \/ /\ count' = count /\ kept' = kept /\ failed' = failed \cup ({} \cup Contents(wbuf))
            /\ fails' = fails + 1
  BY <1>0, <1>1, <1>2, FlushAlone
<1>4. ~raced => Unsent' = {}
  <2>1. ~raced => Unsent \subseteq Contents(wbuf)
    BY <1>0 DEF TxQuiet
  <2> QED
    BY <1>3, <2>1 DEF Unsent
<1>5. TxTypeOK'
  <2>1. pc' \in [Threads -> TxPcs]
    BY <1>1, <1>2 DEF TxPcs
  <2>2. kept' \in SUBSET (DOMAIN msgs') /\ fails' \in Nat
    BY <1>0, <1>1, <1>3 DEF TxTypeOK
  <2> QED
    BY <1>0, <1>1, <1>3, <2>1, <2>2 DEF TxTypeOK
<1>6. \A u \in Threads : /\ pc[u] # "encoded" /\ pc'[u] # "encoded" /\ mutex # u
                         /\ pc'[u] = "starting" <=> pc[u] = "starting"
  BY <1>0, <1>1, <1>2, UnicastTxAssumption DEF TxEncoded
<1>7. TxEncoded'
  <2>1. BatchHasData' => BatchHasData
    BY <1>1, <1>3 DEF BatchHasData
  <2> QED
    BY <1>0, <1>1, <1>6, <2>1 DEF TxEncoded
<1>8. ASSUME ~raced' PROVE TxQuiet'
  <2>1. ~raced /\ TxQuiet /\ Unsent' = {}
    BY <1>0, <1>1, <1>4, <1>8
  <2>2. \A u \in Threads : pc[u] = "starting" =>
            ~batching /\ \A v \in Threads : pc[v] = "starting" => v = u
    BY <2>1 DEF TxQuiet
  <2> QED
    BY <1>1, <1>6, <2>1, <2>2 DEF TxQuiet
<1> QED
  BY <1>5, <1>7, <1>8 DEF TxInv

\* The batching calls that run without the mutex leave the buffer and the
\* messages alone, and the thread in the second half of a send where it is.
LEMMA WithoutMutex ==
    ASSUME TxInv, NEW t \in Threads, pc[t] # "encoded",
           NEW p \in TxPcs \ {"encoded"}, pc' = [pc EXCEPT ![t] = p],
           UNCHANGED <<sn, wbuf, mutex, cur, msgs, wire, kept, failed, fails>>,
           batching' \in BOOLEAN, count' \in Nat, raced' \in BOOLEAN,
           BatchHasData' => BatchHasData
    PROVE  /\ TxTypeOK' /\ TxEncoded' /\ Unsent' = Unsent /\ Contents(wbuf)' = Contents(wbuf)
           /\ \A u \in Threads : pc'[u] = "encoded" <=> pc[u] = "encoded"
           /\ \A u \in Threads : u # t => pc'[u] = pc[u]
           /\ pc'[t] = p
<1>0. TxTypeOK /\ TxEncoded
  BY DEF TxInv
<1>1. pc \in [Threads -> TxPcs]
  BY <1>0 DEF TxTypeOK
<1>2. /\ \A u \in Threads : pc'[u] = "encoded" <=> pc[u] = "encoded"
      /\ \A u \in Threads : u # t => pc'[u] = pc[u]
      /\ pc'[t] = p /\ pc' \in [Threads -> TxPcs]
  BY <1>1
<1>3. TxTypeOK'
  BY <1>0, <1>2 DEF TxTypeOK
<1>4. Contents(wbuf)' = Contents(wbuf) /\ \A u \in Threads : Msg(u)' = Msg(u)
  BY DEF Contents, Msg
<1>5. TxEncoded'
  BY <1>0, <1>2, <1>4 DEF TxEncoded
<1>6. Unsent' = Unsent
  BY OnWireIs DEF Unsent
<1> QED
  BY <1>2, <1>3, <1>4, <1>5, <1>6

\* The first half of zp_batch_start keeps the invariant: nothing is unsent then,
\* unless it overlaps another call.
LEMMA StartBeginsStep ==
    ASSUME TxInv, NEW t \in Threads, StartBegins(t) PROVE TxInv'
<1>1. /\ pc[t] = "idle" /\ ~batching /\ pc' = [pc EXCEPT ![t] = "starting"] /\ Race(t)
      /\ UNCHANGED <<sn, wbuf, mutex, cur, msgs, wire, kept, failed, fails>>
      /\ batching' = batching /\ count' = count
  BY DEF StartBegins, txState
<1>2. /\ TxTypeOK /\ TxEncoded /\ raced' \in BOOLEAN
      /\ ~raced' => /\ TxQuiet /\ ~Stopping
                    /\ \A u \in Threads : pc[u] \notin {"starting", "stopped", "flushing"}
                    /\ Unsent \subseteq Contents(wbuf) /\ (Unsent # {} => BatchHasData)
  BY <1>1, AtIdle
<1>3. /\ "starting" \in TxPcs \ {"encoded"} /\ batching' \in BOOLEAN /\ count' \in Nat
      /\ BatchHasData' => BatchHasData
  BY <1>1, <1>2 DEF TxPcs, TxTypeOK, BatchHasData
<1>4. /\ TxTypeOK' /\ TxEncoded' /\ Unsent' = Unsent /\ Contents(wbuf)' = Contents(wbuf)
      /\ \A u \in Threads : pc'[u] = "encoded" <=> pc[u] = "encoded"
      /\ \A u \in Threads : u # t => pc'[u] = pc[u]
      /\ pc'[t] = "starting"
  BY <1>1, <1>2, <1>3, WithoutMutex
<1>5. ASSUME ~raced' PROVE TxQuiet'
  <2>1. Unsent = {} /\ TxQuiet /\ ~Stopping
    BY <1>1, <1>2, <1>5 DEF BatchHasData
  <2>2. \A u \in Threads : pc'[u] = "starting" => u = t
    BY <1>2, <1>4, <1>5
  <2>3. \A u \in Threads : ~(pc'[u] = "encoded" /\ cur'[u].has)
    BY <1>1, <1>4, <2>1 DEF TxQuiet
  <2> QED
    BY <1>1, <1>4, <2>1, <2>2, <2>3 DEF TxQuiet
<1> QED
  BY <1>4, <1>5 DEF TxInv

\* The second half of zp_batch_start, which resets the count, keeps the invariant.
LEMMA StartEndsStep ==
    ASSUME TxInv, NEW t \in Threads, StartEnds(t) PROVE TxInv'
<1>1. /\ pc[t] = "starting" /\ pc' = [pc EXCEPT ![t] = "idle"] /\ count' = 0 /\ batching' = TRUE
      /\ UNCHANGED <<sn, wbuf, mutex, cur, msgs, wire, kept, failed, fails>> /\ raced' = raced
  BY DEF StartEnds, txHistory
<1>2. TxTypeOK /\ TxEncoded /\ (~raced => TxQuiet)
  BY DEF TxInv
<1>3. /\ "idle" \in TxPcs \ {"encoded"} /\ batching' \in BOOLEAN /\ count' \in Nat
      /\ ~BatchHasData'
  BY <1>1 DEF TxPcs, BatchHasData
<1>a. raced' \in BOOLEAN
  BY <1>1, <1>2 DEF TxTypeOK
<1>4. /\ TxTypeOK' /\ TxEncoded' /\ Unsent' = Unsent /\ Contents(wbuf)' = Contents(wbuf)
      /\ \A u \in Threads : pc'[u] = "encoded" <=> pc[u] = "encoded"
      /\ \A u \in Threads : u # t => pc'[u] = pc[u]
      /\ pc'[t] = "idle"
  BY <1>1, <1>a, <1>3, WithoutMutex
<1>5. ASSUME ~raced' PROVE TxQuiet'
  <2>1. TxQuiet
    BY <1>1, <1>2, <1>5
  <2>2. Unsent = {} /\ \A u \in Threads : pc[u] = "starting" => u = t
    BY <1>1, <2>1 DEF TxQuiet
  <2>3. \A u \in Threads : ~(pc'[u] = "encoded" /\ cur'[u].has)
    BY <1>1, <1>4, <2>1 DEF TxQuiet
  <2>4. \A u \in Threads : pc'[u] # "starting"
    BY <1>4, <2>2
  <2> QED
    BY <1>4, <2>2, <2>3, <2>4 DEF TxQuiet
<1> QED
  BY <1>4, <1>5 DEF TxInv

\* The first half of zp_batch_stop keeps the invariant: what is in the batch is now
\* due to be flushed by this thread.
LEMMA StopStep ==
    ASSUME TxInv, NEW t \in Threads, StopBatching(t) PROVE TxInv'
<1>1. /\ pc[t] = "idle" /\ pc' = [pc EXCEPT ![t] = "stopped"] /\ count' = count /\ batching' = FALSE
      /\ UNCHANGED <<sn, wbuf, mutex, cur, msgs, wire, kept, failed, fails>> /\ raced' = raced
  BY DEF StopBatching, txHistory
<1>2. TxTypeOK /\ TxEncoded /\ (~raced => TxQuiet)
  BY DEF TxInv
<1>3. /\ "stopped" \in TxPcs \ {"encoded"} /\ batching' \in BOOLEAN /\ count' \in Nat
      /\ ~BatchHasData'
  BY <1>1, <1>2 DEF TxPcs, TxTypeOK, BatchHasData
<1>a. raced' \in BOOLEAN
  BY <1>1, <1>2 DEF TxTypeOK
<1>4. /\ TxTypeOK' /\ TxEncoded' /\ Unsent' = Unsent /\ Contents(wbuf)' = Contents(wbuf)
      /\ \A u \in Threads : pc'[u] = "encoded" <=> pc[u] = "encoded"
      /\ \A u \in Threads : u # t => pc'[u] = pc[u]
      /\ pc'[t] = "stopped"
  BY <1>1, <1>a, <1>3, WithoutMutex
<1>5. ASSUME ~raced' PROVE TxQuiet'
  <2>1. TxQuiet
    BY <1>1, <1>2, <1>5
  <2>2. Stopping'
    BY <1>4 DEF Stopping
  <2>3. \A u \in Threads : pc'[u] = "starting" => pc[u] = "starting"
    BY <1>4
  <2> QED
    BY <1>1, <1>4, <2>1, <2>2, <2>3 DEF TxQuiet
<1> QED
  BY <1>4, <1>5 DEF TxInv

\* The test of the count in zp_batch_flush keeps the invariant: with a message in
\* the batch, the thread goes on to flush it.
LEMMA FlushBeginsStep ==
    ASSUME TxInv, NEW t \in Threads, FlushBegins(t) PROVE TxInv'
<1> PICK p : p = IF count > 0 THEN "flushing" ELSE "idle"
  OBVIOUS
<1>1. /\ pc[t] \in {"idle", "stopped"} /\ pc' = [pc EXCEPT ![t] = p]
      /\ UNCHANGED <<sn, wbuf, mutex, cur, msgs, wire, kept, failed, fails>>
      /\ batching' = batching /\ count' = count /\ raced' = raced
  BY DEF FlushBegins, txState, txHistory
<1>2. TxTypeOK /\ TxEncoded /\ (~raced => TxQuiet)
  BY DEF TxInv
<1>3. /\ p \in TxPcs \ {"encoded"} /\ batching' \in BOOLEAN /\ count' \in Nat
      /\ BatchHasData' => BatchHasData
  BY <1>1, <1>2 DEF TxPcs, TxTypeOK, BatchHasData
<1>a. raced' \in BOOLEAN
  BY <1>1, <1>2 DEF TxTypeOK
<1>4. /\ TxTypeOK' /\ TxEncoded' /\ Unsent' = Unsent /\ Contents(wbuf)' = Contents(wbuf)
      /\ \A u \in Threads : pc'[u] = "encoded" <=> pc[u] = "encoded"
      /\ \A u \in Threads : u # t => pc'[u] = pc[u]
      /\ pc'[t] = p
  BY <1>1, <1>a, <1>3, WithoutMutex
<1>5. ASSUME ~raced' PROVE TxQuiet'
  <2>1. TxQuiet
    BY <1>1, <1>2, <1>5
  <2>2. count > 0 /\ Stopping => Stopping'
    BY <1>4 DEF Stopping
  <2>3. \A u \in Threads : pc'[u] = "starting" <=> pc[u] = "starting"
    BY <1>1, <1>4
  <2> QED
    BY <1>1, <1>4, <2>1, <2>2, <2>3 DEF TxQuiet
<1> QED
  BY <1>4, <1>5 DEF TxInv

\* The state of the sender is always the one TxInv describes, whatever its threads
\* do and whenever the link fails.
LEMMA TxInvHolds == (TxInit => TxInv) /\ (TxInv /\ [TxNext]_txVars => TxInv')
<1>1. TxInit => TxInv
  <2> SUFFICES ASSUME TxInit PROVE TxInv
    OBVIOUS
  <2> USE DEF TxInit
  <2>1. InitialSn \in 0 .. SnRes /\ NoThread \notin Threads
    BY SeqNumAssumption, UnicastTxAssumption
  <2>2. TxTypeOK
    <3>1. wbuf \in Packets
      BY PacketContents
    <3>2. cur \in [Threads -> [id : Nat, has : BOOLEAN, fits : BOOLEAN]]
      BY DEF NoSend
    <3>3. pc \in [Threads -> TxPcs] /\ sn \in [Rel -> 0 .. SnRes]
      BY <2>1 DEF TxPcs
    <3>4. msgs \in Seq(Messages) /\ wire \in Seq(Packets) /\ kept \in SUBSET (DOMAIN msgs)
      OBVIOUS
    <3> QED
      BY <3>1, <3>2, <3>3, <3>4 DEF TxTypeOK
  <2>3. TxEncoded
    BY <2>1 DEF TxEncoded, BatchHasData
  <2>4. TxQuiet
    BY DEF TxQuiet, Unsent
  <2> QED
    BY <2>2, <2>3, <2>4 DEF TxInv
<1>2. TxInv /\ [TxNext]_txVars => TxInv'
  <2> SUFFICES ASSUME TxInv, [TxNext]_txVars PROVE TxInv'
    OBVIOUS
  <2>1. ASSUME NEW t \in Threads, TxStep(t) PROVE TxInv'
    BY <2>1, BeginsStep, BatchedStep, FlushedStep, FragmentedStep, OverflowsStep, KeepAliveStep,
       StartBeginsStep, StartEndsStep, StopStep, FlushBeginsStep, FlushEndsStep DEF TxStep
  <2>2. CASE UNCHANGED txVars
    <3>1. UNCHANGED <<sn, wbuf, batching, count, mutex, pc, cur, msgs, wire, kept, failed, raced,
                     fails>>
      BY <2>2 DEF txVars, txState, txHistory
    <3>2. TxTypeOK' <=> TxTypeOK
      BY <3>1 DEF TxTypeOK
    <3>3. (BatchHasData' <=> BatchHasData) /\ Contents(wbuf)' = Contents(wbuf)
          /\ Unsent' = Unsent /\ (Stopping' <=> Stopping) /\ \A t \in Threads : Msg(t)' = Msg(t)
      BY <3>1, OnWireIs DEF BatchHasData, Contents, Unsent, Stopping, Msg
    <3>4. TxEncoded' <=> TxEncoded
      BY <3>1, <3>3 DEF TxEncoded
    <3>5. TxQuiet' <=> TxQuiet
      BY <3>1, <3>3 DEF TxQuiet
    <3> QED
      BY <3>1, <3>2, <3>4, <3>5 DEF TxInv
  <2> QED
    BY <2>1, <2>2 DEF TxNext
<1> QED
  BY <1>1, <1>2

-----------------------------------------------------------------------------
(* Sequence numbers on the wire.                                           *)

\* On the wire w, the k-th transport message is the next of channel r after the i-th.
FollowsOn(w, r, i, k) ==
    /\ i < k /\ OnChannel(w[i], r) /\ OnChannel(w[k], r)
    /\ \A j \in i + 1 .. k - 1 : ~OnChannel(w[j], r)

LastOn(w, r, k) == OnChannel(w[k], r) /\ \A j \in DOMAIN w : j > k => ~OnChannel(w[j], r)

Numbered(w, b) ==
    \A r \in Rel, i, k \in DOMAIN w :
        FollowsOn(w, r, i, k) =>
            w[k] = w[i] \/ Distance(SnRes, w[i].sn, w[k].sn) \in 1 .. b + 1

\* The numbers given out on a channel after the one of p, when the next is s.
Ahead(p, s) == Distance(SnRes, p.sn + 1, s)

\* On the wire w, with s the next numbers and u in the buffer: u has the last
\* number of its channel; since the last transport message of a channel at most b
\* numbers were given out, and one more on the channels of S; and u is either the
\* last one on the wire or, always when fresh, has a number of its own.
Tracks(w, s, u, fresh, b, S) ==
    /\ u.kind # "keepAlive" => s[u.rel] = Increment(SnRes, u.sn)
    /\ Numbered(w, b)
    /\ \A r \in Rel, k \in DOMAIN w : LastOn(w, r, k) =>
          /\ Ahead(w[k], s[r]) <= IF r \in S THEN b + 1 ELSE b
          /\ OnChannel(u, r) /\ Ahead(w[k], s[r]) = 0 => u = w[k]
          /\ OnChannel(u, r) /\ fresh => Ahead(w[k], s[r]) > 0

Encoding == \E t \in Threads : pc[t] = "encoded"

BehindBatch == \E t \in Threads : pc[t] = "encoded" /\ cur[t].has

\* The number in the buffer is still to be sent, if batching calls and sends do
\* not overlap.
Due == \/ Encoding
       \/ count > 0 /\ (batching \/ Stopping) /\ \A t \in Threads : pc[t] # "starting"

ChannelsOf(p) == IF p.kind = "keepAlive" THEN {} ELSE {p.rel}

Fresh == Encoding \/ BatchHasData

\* Whatever the threads do: at most one number for every message, and for the one
\* behind the batch its number is the batch's.
TrackedAlways ==
    Len(msgs) < SnRes =>
        Tracks(wire, sn, wbuf, Fresh, IF BehindBatch THEN Len(msgs) - 1 ELSE Len(msgs), {})

\* As long as no batching call overlapped a send: one for every failure, and the
\* one in the buffer if it is to be sent.
TrackedQuiet ==
    ~raced /\ fails < SnRes =>
        Tracks(wire, sn, wbuf, Fresh, fails, IF Due THEN ChannelsOf(wbuf) ELSE {})

TxTracked == TrackedAlways /\ TrackedQuiet

\* A remainder is the one number below the divisor that fits.
LEMMA ModUnique ==
    ASSUME NEW n \in Int, n > 0, NEW q \in Int, NEW r \in 0 .. n - 1
    PROVE  (n * q + r) % n = r
OBVIOUS

\* Quotient and remainder give the number back.
LEMMA DivMod ==
    ASSUME NEW a \in Int, NEW n \in Int, n > 0
    PROVE  a = n * (a \div n) + (a % n)
OBVIOUS

\* The remainder of the next number.
LEMMA ModSucc ==
    ASSUME NEW a \in Int
    PROVE  /\ a % (SnRes + 1) \in 0 .. SnRes
           /\ (a + 1) % (SnRes + 1) = IF a % (SnRes + 1) = SnRes THEN 0 ELSE (a % (SnRes + 1)) + 1
<1> PICK n \in Int : n = SnRes + 1
  BY SeqNumAssumption
<1>0. n > 0 /\ SnRes = n - 1
  BY SeqNumAssumption
<1>1. a \div n \in Int /\ a % n \in 0 .. n - 1
  BY <1>0
<1>2. PICK q \in Int : q = a \div n
  BY <1>1
<1>3. PICK r \in 0 .. n - 1 : r = a % n
  BY <1>1
<1>4. a = n * q + r
  BY <1>0, <1>2, <1>3, DivMod
<1>5. CASE r < n - 1
  <2>1. r + 1 \in 0 .. n - 1
    BY <1>5
  <2>2. (n * q + (r + 1)) % n = r + 1
    BY <1>0, <2>1, ModUnique
  <2>3. n * q + (r + 1) = a + 1
    BY <1>4
  <2>4. (a + 1) % n = r + 1
    BY <2>2, <2>3
  <2> QED
    BY <1>0, <1>3, <1>5, <2>4
<1>6. CASE r = n - 1
  <2>1. (n * (q + 1) + 0) % n = 0
    <3>1. 0 \in 0 .. n - 1 /\ q + 1 \in Int
      BY <1>0
    <3> QED
      BY <1>0, <3>1, ModUnique
  <2>2. n * (q + 1) + 0 = a + 1
    BY <1>4, <1>6
  <2>3. (a + 1) % n = 0
    BY <2>1, <2>2
  <2> QED
    BY <1>0, <1>3, <1>6, <2>3
<1> QED
  BY <1>5, <1>6

\* Remainders of the differences between two sequence numbers.
LEMMA ModSmall ==
    ASSUME NEW d \in -(SnRes + 1) .. SnRes
    PROVE  d % (SnRes + 1) = IF d >= 0 THEN d ELSE d + SnRes + 1
<1>1. CASE d = -(SnRes + 1)
  <2>1. ((SnRes + 1) * (-1) + 0) % (SnRes + 1) = 0
    BY SeqNumAssumption, ModUnique
  <2> QED
    BY <1>1, <2>1, SeqNumAssumption
<1>2. CASE d # -(SnRes + 1)
  BY <1>2, SeqNumAssumption
<1> QED
  BY <1>1, <1>2

\* Distances without the modulus.
LEMMA Distances ==
    ASSUME NEW a \in 0 .. SnRes, NEW l \in 0 .. SnRes
    PROVE  /\ Distance(SnRes, l, a) = IF a >= l THEN a - l ELSE a - l + SnRes + 1
           /\ Distance(SnRes, l + 1, a) = IF a > l THEN a - l - 1 ELSE a - l + SnRes
           /\ Increment(SnRes, a) = IF a = SnRes THEN 0 ELSE a + 1
<1>0. SnRes \in Nat \ {0}
  BY SeqNumAssumption
<1>1. a - l \in -(SnRes + 1) .. SnRes /\ a - (l + 1) \in -(SnRes + 1) .. SnRes
  BY <1>0
<1>2. (a - l) % (SnRes + 1) = IF a - l >= 0 THEN a - l ELSE a - l + SnRes + 1
  BY <1>1, ModSmall
<1>3. (a - (l + 1)) % (SnRes + 1) = IF a - (l + 1) >= 0 THEN a - (l + 1) ELSE a - (l + 1) + SnRes + 1
  BY <1>1, ModSmall
<1>4. a \in Int /\ a % (SnRes + 1) = a
  BY <1>0
<1>5. (a + 1) % (SnRes + 1) = IF a % (SnRes + 1) = SnRes THEN 0 ELSE (a % (SnRes + 1)) + 1
  BY <1>4, ModSucc
<1>6. Distance(SnRes, l, a) = IF a >= l THEN a - l ELSE a - l + SnRes + 1
  BY <1>0, <1>2 DEF Distance
<1>7. Distance(SnRes, l + 1, a) = IF a > l THEN a - l - 1 ELSE a - l + SnRes
  BY <1>0, <1>3 DEF Distance
<1> QED
  BY <1>4, <1>5, <1>6, <1>7 DEF Increment

\* What is ahead of a number, when the next one is given out, and when the last
\* one is sent.
LEMMA AheadFacts ==
    ASSUME NEW p, p.sn \in 0 .. SnRes, NEW s \in 0 .. SnRes
    PROVE  /\ Ahead(p, s) \in 0 .. SnRes
           /\ Ahead(p, s) < SnRes => Ahead(p, Increment(SnRes, s)) = Ahead(p, s) + 1
           /\ Ahead(p, Increment(SnRes, s)) = Distance(SnRes, p.sn, s)
           /\ Ahead(p, Increment(SnRes, p.sn)) = 0
           /\ Increment(SnRes, s) \in 0 .. SnRes
<1>0. SnRes \in Nat \ {0}
  BY SeqNumAssumption
<1> PICK l \in 0 .. SnRes : l = p.sn
  OBVIOUS
<1> PICK i : i = Increment(SnRes, s)
  OBVIOUS
<1> PICK j : j = Increment(SnRes, l)
  OBVIOUS
<1>1. i = (IF s = SnRes THEN 0 ELSE s + 1) /\ j = (IF l = SnRes THEN 0 ELSE l + 1)
  BY Distances
<1>2. i \in 0 .. SnRes /\ j \in 0 .. SnRes
  BY <1>0, <1>1
<1>3. Ahead(p, s) = IF s > l THEN s - l - 1 ELSE s - l + SnRes
  BY Distances DEF Ahead
<1>4. Ahead(p, i) = IF i > l THEN i - l - 1 ELSE i - l + SnRes
  BY <1>2, Distances DEF Ahead
<1>5. Ahead(p, j) = IF j > l THEN j - l - 1 ELSE j - l + SnRes
  BY <1>2, Distances DEF Ahead
<1>6. Distance(SnRes, l, s) = IF s >= l THEN s - l ELSE s - l + SnRes + 1
  BY Distances
<1>7. /\ Ahead(p, s) \in 0 .. SnRes
      /\ Ahead(p, s) < SnRes => Ahead(p, i) = Ahead(p, s) + 1
      /\ Ahead(p, i) = Distance(SnRes, l, s)
      /\ Ahead(p, j) = 0
  BY <1>0, <1>1, <1>3, <1>4, <1>5, <1>6
<1> QED
  BY <1>2, <1>7

\* The next number is one further.
LEMMA DistanceOfNext ==
    ASSUME NEW a \in 0 .. SnRes
    PROVE  Distance(SnRes, a, Increment(SnRes, a)) = 1
<1>0. SnRes \in Nat \ {0}
  BY SeqNumAssumption
<1> PICK q : q = Increment(SnRes, a)
  OBVIOUS
<1>1. q = IF a = SnRes THEN 0 ELSE a + 1
  BY Distances
<1>2. q \in 0 .. SnRes
  BY <1>0, <1>1
<1>3. Distance(SnRes, a, q) = IF q >= a THEN q - a ELSE q - a + SnRes + 1
  BY <1>2, Distances
<1> QED
  BY <1>0, <1>1, <1>3

\* A transport message on a channel has a number.
LEMMA ChannelNumbers ==
    /\ \A p \in Packets : p.kind # "keepAlive" => p.sn \in 0 .. SnRes /\ p.rel \in Rel
    /\ \A r : ~OnChannel(KeepAlive, r)
<1>1. \A p \in Packets : p.kind # "keepAlive" => p.sn \in 0 .. SnRes /\ p.rel \in Rel
  BY DEF Packets, TxFrames, TxFragments, KeepAlive
<1>2. \A r : ~OnChannel(KeepAlive, r)
  BY DEF KeepAlive, OnChannel
<1> QED
  BY <1>1, <1>2

\* A run of transport messages of one channel, numbered one after the other,
\* behind what is on the wire, ...
RunBehind(w, x, r, b) ==
    /\ x # << >> /\ \A i \in 1 .. Len(x) : OnChannel(x[i], r)
    /\ \A i \in 1 .. Len(x) : i + 1 \in 1 .. Len(x) =>
          x[i + 1] = x[i] \/ Distance(SnRes, x[i].sn, x[i + 1].sn) \in 1 .. b + 1
    /\ \A k \in DOMAIN w : LastOn(w, r, k) =>
          x[1] = w[k] \/ Distance(SnRes, w[k].sn, x[1].sn) \in 1 .. b + 1

\* ... leaves the wire y.
RunLeaves(w, x, r, b, y) ==
    /\ Numbered(y, b)
    /\ \A k \in DOMAIN y : LastOn(y, r, k) => y[k] = x[Len(x)]
    /\ \A c \in Rel : c # r => \A k \in DOMAIN y : LastOn(y, c, k) =>
          k \in DOMAIN w /\ LastOn(w, c, k) /\ y[k] = w[k]

\* A run behind a numbered wire leaves it numbered.
LEMMA RunNumbered ==
    ASSUME NEW w \in Seq(Packets), NEW x \in Seq(Packets), NEW r \in Rel, NEW b,
           RunBehind(w, x, r, b), Numbered(w, b)
    PROVE  RunLeaves(w, x, r, b, w \o x)
<1> USE DEF RunBehind
<1> PICK n \in Nat : n = Len(w)
  OBVIOUS
<1> PICK l \in Nat : l = Len(x)
  OBVIOUS
<1>0. l > 0
  OBVIOUS
<1> PICK y : y = w \o x
  OBVIOUS
<1>1. /\ DOMAIN w = 1 .. n /\ DOMAIN y = 1 .. n + l
      /\ \A i \in 1 .. n : y[i] = w[i]
      /\ \A i \in 1 .. n + l : i > n => i - n \in 1 .. l /\ y[i] = x[i - n]
  <2>1. DOMAIN w = 1 .. n /\ DOMAIN y = 1 .. n + l /\ \A i \in 1 .. n : y[i] = w[i]
    OBVIOUS
  <2>2. ASSUME NEW i \in 1 .. n + l, i > n PROVE i - n \in 1 .. l /\ y[i] = x[i - n]
    BY <2>2, ConcatProperties
  <2> QED
    BY <2>1, <2>2
<1>2. \A i \in 1 .. n + l : i > n => OnChannel(y[i], r)
  BY <1>1
<1>3. \A c : c # r => \A i \in 1 .. n + l : i > n => ~OnChannel(y[i], c)
  BY <1>2 DEF OnChannel
<1>4. ASSUME NEW c \in Rel, NEW i \in 1 .. n + l, NEW k \in 1 .. n + l, FollowsOn(y, c, i, k)
      PROVE  y[k] = y[i] \/ Distance(SnRes, y[i].sn, y[k].sn) \in 1 .. b + 1
  <2>0. /\ i < k /\ OnChannel(y[i], c) /\ OnChannel(y[k], c)
        /\ \A j \in i + 1 .. k - 1 : ~OnChannel(y[j], c)
    BY <1>4 DEF FollowsOn
  <2>1. CASE k <= n
    <3>1. i \in 1 .. n /\ k \in 1 .. n /\ y[i] = w[i] /\ y[k] = w[k]
      BY <1>1, <2>0, <2>1
    <3>2. \A j \in i + 1 .. k - 1 : j \in 1 .. n /\ y[j] = w[j]
      BY <1>1, <2>0, <2>1
    <3>3. FollowsOn(w, c, i, k)
      BY <2>0, <3>1, <3>2 DEF FollowsOn
    <3> QED
      BY <1>1, <3>1, <3>3 DEF Numbered
  <2>2. CASE k > n /\ i > n
    <3>1. k = i + 1
      <4>1. SUFFICES ASSUME i + 1 < k PROVE FALSE
        BY <2>0
      <4>2. i + 1 \in i + 1 .. k - 1 /\ i + 1 \in 1 .. n + l /\ i + 1 > n
        BY <2>2, <4>1
      <4>3. c = r
        BY <1>3, <2>0, <2>2
      <4> QED
        BY <1>2, <2>0, <4>2, <4>3
    <3>2. i - n \in 1 .. l /\ (i - n) + 1 \in 1 .. l /\ y[i] = x[i - n] /\ y[k] = x[(i - n) + 1]
      <4>1. k - n = (i - n) + 1
        BY <3>1
      <4> QED
        BY <1>1, <2>2, <4>1
    <3> QED
      BY <3>2
  <2>3. CASE k > n /\ i <= n
    <3>0. c = r
      BY <1>3, <2>0, <2>3
    <3>1. k = n + 1
      <4>1. n + 1 < k => /\ n + 1 \in i + 1 .. k - 1
                         /\ n + 1 \in 1 .. n + l /\ n + 1 > n
        BY <2>3
      <4>2. ~(n + 1 < k)
        BY <1>2, <2>0, <3>0, <4>1
      <4>3. \A p \in Int, q \in Int : p > q /\ ~(q + 1 < p) => p = q + 1
        OBVIOUS
      <4>4. k \in Int /\ n \in Int
        OBVIOUS
      <4> QED
        BY <2>3, <4>2, <4>3, <4>4, Zenon
    <3>2. i \in 1 .. n /\ y[i] = w[i] /\ y[k] = x[1]
      <4>1. k - n = 1 /\ i \in 1 .. n
        BY <2>3, <3>1
      <4> QED
        BY <1>1, <2>3, <4>1
    <3>3. LastOn(w, r, i)
      <4>1. ASSUME NEW j \in DOMAIN w, j > i PROVE ~OnChannel(w[j], r)
        <5>1. j \in 1 .. n /\ j \in i + 1 .. k - 1 /\ y[j] = w[j]
          BY <1>1, <3>1, <4>1
        <5> QED
          BY <2>0, <3>0, <5>1
      <4> QED
        BY <2>0, <3>0, <3>2, <4>1 DEF LastOn
    <3> QED
      BY <1>1, <3>2, <3>3
  <2> QED
    BY <2>1, <2>2, <2>3
<1>5. Numbered(y, b)
  BY <1>1, <1>4 DEF Numbered
<1>6. ASSUME NEW k \in 1 .. n + l, LastOn(y, r, k) PROVE y[k] = x[l]
  <2>1. n + l \in 1 .. n + l /\ n + l > n /\ (n + l) - n = l
    BY <1>0
  <2>2. ~(n + l > k)
    BY <1>1, <1>2, <1>6, <2>1 DEF LastOn
  <2>3. k = n + l
    BY <2>2
  <2> QED
    BY <1>1, <2>1, <2>3
<1>7. ASSUME NEW c \in Rel, c # r, NEW k \in 1 .. n + l, LastOn(y, c, k)
      PROVE  k \in 1 .. n /\ LastOn(w, c, k) /\ y[k] = w[k]
  <2>0. OnChannel(y[k], c)
    BY <1>7 DEF LastOn
  <2>a. ~(k > n)
    BY <1>3, <1>7, <2>0
  <2>1. k \in 1 .. n /\ y[k] = w[k]
    BY <1>1, <2>a
  <2>2. \A j \in 1 .. n : j \in 1 .. n + l /\ y[j] = w[j]
    BY <1>1
  <2>3. LastOn(w, c, k)
    BY <1>1, <1>7, <2>1, <2>2 DEF LastOn
  <2> QED
    BY <2>1, <2>3
<1>8. RunLeaves(w, x, r, b, y)
  BY <1>1, <1>5, <1>6, <1>7 DEF RunLeaves
<1> QED
  BY <1>8

\* The buffer is sent.
LEMMA TracksSend ==
    ASSUME NEW w \in Seq(Packets), NEW s \in [Rel -> 0 .. SnRes], NEW u \in Packets,
           u.kind # "keepAlive", NEW fresh, NEW b \in Nat, NEW S, Tracks(w, s, u, fresh, b, S)
    PROVE  Tracks(w \o <<u>>, s, u, FALSE, b, S \ {u.rel})
<1> PICK r \in Rel : r = u.rel
  BY ChannelNumbers
<1>0. u.sn \in 0 .. SnRes /\ OnChannel(u, r) /\ s[r] = Increment(SnRes, u.sn)
  BY ChannelNumbers DEF OnChannel, Tracks
<1>1. Ahead(u, s[r]) = 0
  BY <1>0, AheadFacts
<1>a. <<u>> \in Seq(Packets)
  OBVIOUS
<1> PICK x \in Seq(Packets) : x = <<u>>
  BY <1>a, Zenon
<1>2. x # << >> /\ Len(x) = 1 /\ x[1] = u /\ 1 .. Len(x) = {1} /\ ~(1 + 1 \in 1 .. Len(x))
  OBVIOUS
<1>3. ASSUME NEW k \in DOMAIN w, LastOn(w, r, k)
      PROVE  x[1] = w[k] \/ Distance(SnRes, w[k].sn, x[1].sn) \in 1 .. b + 1
  <2>1. w[k] \in Packets /\ OnChannel(w[k], r)
    BY <1>3 DEF LastOn
  <2>2. w[k].sn \in 0 .. SnRes
    BY <2>1, ChannelNumbers DEF OnChannel
  <2>3. /\ Ahead(w[k], s[r]) \in 0 .. SnRes
        /\ Ahead(w[k], s[r]) = Distance(SnRes, w[k].sn, u.sn)
    <3>1. s[r] \in 0 .. SnRes
      OBVIOUS
    <3> QED
      BY <1>0, <2>2, <3>1, AheadFacts
  <2>4. /\ Ahead(w[k], s[r]) <= IF r \in S THEN b + 1 ELSE b
        /\ Ahead(w[k], s[r]) = 0 => u = w[k]
    BY <1>0, <1>3 DEF Tracks
  <2>5. Ahead(w[k], s[r]) # 0 => Ahead(w[k], s[r]) \in 1 .. b + 1
    BY <2>3, <2>4
  <2> QED
    BY <1>2, <2>3, <2>4, <2>5
<1>4. Numbered(w, b)
  BY DEF Tracks
<1>b. RunBehind(w, x, r, b)
  BY <1>0, <1>2, <1>3 DEF RunBehind
<1> PICK y : y = w \o x
  OBVIOUS
<1>5. RunLeaves(w, x, r, b, y)
  BY <1>4, <1>b, RunNumbered
<1>6. ASSUME NEW c \in Rel, NEW k \in DOMAIN y, LastOn(y, c, k)
      PROVE  /\ Ahead(y[k], s[c]) <= IF c \in S \ {r} THEN b + 1 ELSE b
             /\ OnChannel(u, c) /\ Ahead(y[k], s[c]) = 0 => u = y[k]
  <2>1. CASE c = r
    <3>1. y[k] = u
      BY <1>2, <1>5, <1>6, <2>1 DEF RunLeaves
    <3> QED
      BY <1>1, <2>1, <3>1
  <2>2. CASE c # r
    <3>1. k \in DOMAIN w /\ LastOn(w, c, k) /\ y[k] = w[k]
      BY <1>5, <1>6, <2>2 DEF RunLeaves
    <3>2. ~OnChannel(u, c)
      BY <2>2 DEF OnChannel
    <3>3. Ahead(w[k], s[c]) <= IF c \in S THEN b + 1 ELSE b
      BY <3>1 DEF Tracks
    <3> QED
      BY <2>2, <3>1, <3>2, <3>3
  <2> QED
    BY <2>1, <2>2
<1>7. Tracks(y, s, u, FALSE, b, S \ {r})
  BY <1>0, <1>5, <1>6 DEF Tracks, RunLeaves
<1> QED
  BY <1>7

\* A keep-alive is sent.
LEMMA TracksIdle ==
    ASSUME NEW w \in Seq(Packets), NEW s, NEW u,
           NEW fresh, NEW b, NEW S, Tracks(w, s, u, fresh, b, S)
    PROVE  Tracks(w \o <<KeepAlive>>, s, u, fresh, b, S)
<1> PICK n \in Nat : n = Len(w)
  OBVIOUS
<1> PICK y : y = w \o <<KeepAlive>>
  OBVIOUS
<1>1. /\ DOMAIN w = 1 .. n /\ DOMAIN y = 1 .. n + 1
      /\ \A i \in 1 .. n : y[i] = w[i]
      /\ y[n + 1] = KeepAlive
  OBVIOUS
<1>2. \A c : \A i \in 1 .. n + 1 : OnChannel(y[i], c) => i \in 1 .. n /\ OnChannel(w[i], c)
  <2>1. ASSUME NEW i \in 1 .. n + 1, NEW c, OnChannel(y[i], c)
        PROVE  i \in 1 .. n /\ OnChannel(w[i], c)
    <3>1. i # n + 1
      BY <1>1, <2>1, ChannelNumbers
    <3>2. i \in 1 .. n
      BY <3>1
    <3> QED
      BY <1>1, <2>1, <3>2
  <2> QED
    BY <2>1
<1>3. Numbered(y, b)
  <2>1. ASSUME NEW c \in Rel, NEW i \in 1 .. n + 1, NEW k \in 1 .. n + 1, FollowsOn(y, c, i, k)
        PROVE  y[k] = y[i] \/ Distance(SnRes, y[i].sn, y[k].sn) \in 1 .. b + 1
    <3>1. i \in 1 .. n /\ k \in 1 .. n /\ i < k
      BY <1>2, <2>1 DEF FollowsOn
    <3>2. \A j \in i + 1 .. k - 1 : j \in 1 .. n /\ y[j] = w[j]
      BY <1>1, <3>1
    <3>3. FollowsOn(w, c, i, k)
      BY <1>1, <2>1, <3>1, <3>2 DEF FollowsOn
    <3> QED
      BY <1>1, <3>1, <3>3 DEF Tracks, Numbered
  <2> QED
    BY <1>1, <2>1 DEF Numbered
<1>4. ASSUME NEW c \in Rel, NEW k \in DOMAIN y, LastOn(y, c, k)
      PROVE  k \in DOMAIN w /\ y[k] = w[k] /\ LastOn(w, c, k)
  <2>1. k \in 1 .. n
    BY <1>1, <1>2, <1>4 DEF LastOn
  <2>2. \A j \in 1 .. n : j \in 1 .. n + 1 /\ y[j] = w[j]
    BY <1>1
  <2> QED
    BY <1>1, <1>4, <2>1, <2>2 DEF LastOn
<1>5. Tracks(y, s, u, fresh, b, S)
  BY <1>3, <1>4 DEF Tracks
<1> QED
  BY <1>5

\* The numbers s with x for the channel r.
NumbersSet(z, s, r, x) ==
    z \in [Rel -> 0 .. SnRes] /\ z[r] = x /\ \A c \in Rel : c # r => z[c] = s[c]

\* A number is given out, for a new transport message in the buffer.
LEMMA TracksTake ==
    ASSUME NEW w \in Seq(Packets), NEW s \in [Rel -> 0 .. SnRes], NEW u, NEW v,
           NEW r \in Rel, OnChannel(v, r), v.sn = s[r],
           NEW fresh, NEW b \in Nat, b < SnRes, NEW S, r \notin S, Tracks(w, s, u, fresh, b, S),
           NEW z, NumbersSet(z, s, r, Increment(SnRes, s[r]))
    PROVE  Tracks(w, z, v, TRUE, b, S \cup {r})
<1>1. z[r] = Increment(SnRes, s[r]) /\ \A c \in Rel : c # r => z[c] = s[c]
  BY DEF NumbersSet
<1>2. v.rel = r /\ \A c : c # r => ~OnChannel(v, c)
  BY DEF OnChannel
<1>3. ASSUME NEW c \in Rel, NEW k \in DOMAIN w, LastOn(w, c, k)
      PROVE  /\ Ahead(w[k], z[c]) <= IF c \in S \cup {r} THEN b + 1 ELSE b
             /\ OnChannel(v, c) => Ahead(w[k], z[c]) > 0
  <2>1. Ahead(w[k], s[c]) <= IF c \in S THEN b + 1 ELSE b
    BY <1>3 DEF Tracks
  <2>2. CASE c = r
    <3>1. w[k] \in Packets /\ OnChannel(w[k], r)
      BY <1>3, <2>2 DEF LastOn
    <3>2. w[k].sn \in 0 .. SnRes /\ s[r] \in 0 .. SnRes
      BY <3>1, ChannelNumbers DEF OnChannel
    <3>3. /\ Ahead(w[k], s[r]) \in 0 .. SnRes
          /\ Ahead(w[k], s[r]) < SnRes => Ahead(w[k], z[r]) = Ahead(w[k], s[r]) + 1
      BY <1>1, <3>2, AheadFacts
    <3>4. SnRes \in Nat
      BY SeqNumAssumption
    <3>5. Ahead(w[k], s[r]) <= b
      BY <2>1, <2>2
    <3>6. Ahead(w[k], z[r]) \in Nat /\ Ahead(w[k], z[r]) <= b + 1 /\ Ahead(w[k], z[r]) > 0
      BY <3>3, <3>4, <3>5
    <3> QED
      BY <2>2, <3>6
  <2>3. CASE c # r
    BY <1>1, <1>2, <2>1, <2>3
  <2> QED
    BY <2>2, <2>3
<1>4. Numbered(w, b)
  BY DEF Tracks
<1>5. Tracks(w, z, v, TRUE, b, S \cup {r})
  BY <1>1, <1>2, <1>3, <1>4 DEF Tracks
<1> QED
  BY <1>5

\* The buffer is given to a keep-alive.
LEMMA TracksForget ==
    ASSUME NEW w, NEW s, NEW u, NEW fresh, NEW b, NEW S, Tracks(w, s, u, fresh, b, S), NEW other
    PROVE  Tracks(w, s, KeepAlive, other, b, S)
<1>1. KeepAlive.kind = "keepAlive"
  BY DEF KeepAlive
<1> QED
  BY <1>1, ChannelNumbers DEF Tracks

\* A transport message that is not on the wire yet is replaced by another one
\* with its number.
LEMMA TracksRewrite ==
    ASSUME NEW w, NEW s, NEW u, NEW v, u.kind # "keepAlive", v.kind # "keepAlive",
           v.rel = u.rel, v.sn = u.sn, NEW b, NEW S, Tracks(w, s, u, TRUE, b, S)
    PROVE  Tracks(w, s, v, TRUE, b, S)
<1>1. \A r : OnChannel(v, r) <=> OnChannel(u, r)
  BY DEF OnChannel
<1>2. ASSUME NEW r \in Rel, NEW k \in DOMAIN w, LastOn(w, r, k)
      PROVE  /\ Ahead(w[k], s[r]) <= IF r \in S THEN b + 1 ELSE b
             /\ OnChannel(v, r) => Ahead(w[k], s[r]) > 0 /\ Ahead(w[k], s[r]) # 0
  <2>1. /\ Ahead(w[k], s[r]) <= IF r \in S THEN b + 1 ELSE b
        /\ OnChannel(u, r) => Ahead(w[k], s[r]) > 0
    BY <1>2 DEF Tracks
  <2>2. ~(0 > 0)
    OBVIOUS
  <2> QED
    BY <1>1, <2>1, <2>2
<1> QED
  BY <1>2 DEF Tracks

\* A weaker bound, a buffer that need not be fresh.
LEMMA TracksWeaken ==
    ASSUME NEW w \in Seq(Packets), NEW s \in [Rel -> 0 .. SnRes], NEW u,
           NEW fresh \in BOOLEAN, NEW b \in Int, NEW S, Tracks(w, s, u, fresh, b, S),
           NEW other \in BOOLEAN, other => fresh, NEW c \in Int, NEW T,
           b < c \/ (b = c /\ S \subseteq T)
    PROVE  Tracks(w, s, u, other, c, T)
<1>1. ASSUME NEW r \in Rel, NEW k \in DOMAIN w, LastOn(w, r, k)
      PROVE  Ahead(w[k], s[r]) <= IF r \in T THEN c + 1 ELSE c
  <2>1. w[k] \in Packets /\ OnChannel(w[k], r)
    BY <1>1 DEF LastOn
  <2>2. w[k].sn \in 0 .. SnRes /\ s[r] \in 0 .. SnRes
    BY <2>1, ChannelNumbers DEF OnChannel
  <2>3. Ahead(w[k], s[r]) \in 0 .. SnRes
    BY <2>2, AheadFacts
  <2>4. Ahead(w[k], s[r]) <= IF r \in S THEN b + 1 ELSE b
    BY <1>1 DEF Tracks
  <2> QED
    BY <2>3, <2>4
<1>2. Numbered(w, c)
  <2>1. \A d : d \in 1 .. b + 1 => d \in 1 .. c + 1
    OBVIOUS
  <2> QED
    BY <2>1 DEF Tracks, Numbered
<1> QED
  BY <1>1, <1>2 DEF Tracks

\* f is the k-th in a run of transport messages of channel r.
KthOf(f, r, first, k) ==
    /\ OnChannel(f, r) /\ f.rel = r /\ f.kind # "keepAlive"
    /\ f.sn \in 0 .. SnRes /\ f.sn = (first + k - 1) % (SnRes + 1)
    /\ Increment(SnRes, f.sn) = (first + k) % (SnRes + 1)
    /\ k = 1 => f.sn = first

\* The k-th fragment has the k-th number from the first.
LEMMA FragmentNumbers ==
    ASSUME NEW id, NEW m \in Messages, NEW first \in 0 .. SnRes, NEW k \in 1 .. Pieces(m.size),
           Pieces(m.size) \in Nat
    PROVE  KthOf(Fragments(id, m, first)[k], m.rel, first, k)
<1> PICK f : f = Fragments(id, m, first)[k]
  OBVIOUS
<1>1. f.kind = "fragment" /\ f.rel = m.rel /\ f.sn = (first + k - 1) % (SnRes + 1)
  BY DEF Fragments
<1>2. SnRes \in Nat \ {0} /\ k \in Nat
  BY SeqNumAssumption
<1> PICK a \in Int : a = first + k - 1
  BY <1>2
<1>3. a + 1 = first + k
  BY <1>2
<1>4. /\ a % (SnRes + 1) \in 0 .. SnRes
      /\ (a + 1) % (SnRes + 1) = IF a % (SnRes + 1) = SnRes THEN 0 ELSE (a % (SnRes + 1)) + 1
  BY ModSucc
<1>5. f.sn = a % (SnRes + 1)
  BY <1>1
<1>6. Increment(SnRes, f.sn) = IF f.sn = SnRes THEN 0 ELSE f.sn + 1
  BY <1>4, <1>5, Distances
<1>7. Increment(SnRes, f.sn) = (first + k) % (SnRes + 1)
  BY <1>3, <1>4, <1>5, <1>6
<1>8. k = 1 => f.sn = first
  BY <1>1, <1>2
<1> QED
  BY <1>1, <1>4, <1>5, <1>7, <1>8 DEF OnChannel, KthOf

\* _z_transport_tx_send_fragment of the message m with u, which has the first
\* number, in the buffer: j of the n fragments are taken by the link.
FragmentRun(w, s, u, id, m, b, S, n, j, tried, all, z) ==
    /\ w \in Seq(Packets) /\ s \in [Rel -> 0 .. SnRes] /\ u \in Packets
    /\ id \in Nat /\ m \in Messages /\ u.kind # "keepAlive" /\ u.rel = m.rel
    /\ b \in Nat /\ Tracks(w, s, u, TRUE, b, S)
    /\ n = Pieces(m.size) /\ j \in 0 .. n /\ (j < n => b > 0)
    /\ tried = (IF j = n THEN n ELSE j + 1) /\ all = Fragments(id, m, u.sn)
    /\ NumbersSet(z, s, m.rel, (u.sn + tried) % (SnRes + 1))

RunSent(w, m, b, S, n, j, tried, all, z) ==
    Tracks(w \o SubSeq(all, 1, j), z, all[tried], FALSE, b, IF j = n THEN S \ {m.rel} ELSE S)

\* What is tracked after a run of fragments: the number of the one that the link
\* did not take is ahead of the last one on the wire, which is one failure.
LEMMA TracksFragments ==
    ASSUME NEW w, NEW s, NEW u, NEW id, NEW m, NEW b, NEW S, NEW n, NEW j, NEW tried, NEW all, NEW z,
           FragmentRun(w, s, u, id, m, b, S, n, j, tried, all, z)
    PROVE  RunSent(w, m, b, S, n, j, tried, all, z)
<1> SUFFICES Tracks(w \o SubSeq(all, 1, j), z, all[tried], FALSE, b, IF j = n THEN S \ {m.rel} ELSE S)
  BY DEF RunSent
<1>a. /\ w \in Seq(Packets) /\ s \in [Rel -> 0 .. SnRes] /\ u \in Packets
      /\ id \in Nat /\ m \in Messages /\ u.kind # "keepAlive" /\ u.rel = m.rel
      /\ b \in Nat /\ Tracks(w, s, u, TRUE, b, S)
      /\ n = Pieces(m.size) /\ j \in 0 .. n /\ (j < n => b > 0)
      /\ tried = (IF j = n THEN n ELSE j + 1) /\ all = Fragments(id, m, u.sn)
      /\ NumbersSet(z, s, m.rel, (u.sn + tried) % (SnRes + 1))
  BY DEF FragmentRun
<1> USE <1>a
<1> USE DEF NumbersSet
<1> PICK r \in Rel : r = m.rel
  BY DEF Messages
<1>0. u.sn \in 0 .. SnRes /\ OnChannel(u, r) /\ s[r] = Increment(SnRes, u.sn)
  BY ChannelNumbers DEF OnChannel, Tracks
<1> PICK first \in 0 .. SnRes : first = u.sn
  BY <1>0
<1>1. first \in Int /\ SnRes \in Nat \ {0}
  BY SeqNumAssumption
<1>2. all \in Seq(TxFragments) /\ Len(all) = n /\ n \in Nat \ {0}
  BY <1>1, FragmentsTyped
<1>3. all \in Seq(Packets)
  BY <1>2, PacketContents
<1>4. \A k \in 1 .. n : /\ OnChannel(all[k], r) /\ all[k].rel = r /\ all[k].kind # "keepAlive"
                        /\ all[k].sn \in 0 .. SnRes
                        /\ all[k].sn = (first + k - 1) % (SnRes + 1)
                        /\ Increment(SnRes, all[k].sn) = (first + k) % (SnRes + 1)
                        /\ k = 1 => all[k].sn = first
  <2>1. Pieces(m.size) \in Nat
    BY <1>2
  <2>2. ASSUME NEW k \in 1 .. Pieces(m.size)
        PROVE  KthOf(Fragments(id, m, first)[k], m.rel, first, k)
    BY <2>1, FragmentNumbers
  <2>3. \A k \in 1 .. n : KthOf(all[k], r, first, k)
    BY <2>2
  <2> QED
    BY <2>3 DEF KthOf
<1>5. tried \in 1 .. n /\ tried \in Nat
  BY <1>2
<1> PICK next : next = (first + tried) % (SnRes + 1)
  OBVIOUS
<1>6. next = Increment(SnRes, all[tried].sn)
  BY <1>4, <1>5
<1>7. next \in 0 .. SnRes
  <2>1. all[tried].sn \in 0 .. SnRes
    BY <1>4, <1>5
  <2> QED
    BY <1>6, <2>1, AheadFacts
<1>8. z[r] = next /\ \A c \in Rel : c # r => z[c] = s[c]
  OBVIOUS
<1>9. CASE j = 0
  <2>1. tried = 1 /\ j # n /\ 1 \in 1 .. n
    BY <1>2, <1>9
  <2>2. all[1].sn = u.sn /\ all[1].rel = u.rel /\ all[1].kind # "keepAlive"
    BY <1>4, <2>1
  <2>3. z = s
    <3>1. next = s[r]
      BY <1>0, <1>6, <2>1, <2>2
    <3> QED
      BY <3>1
  <2>4. w \o SubSeq(all, 1, j) = w
    BY <1>3, <1>9
  <2>5. Tracks(w, s, all[1], TRUE, b, S)
    BY <2>2, TracksRewrite
  <2>6. Tracks(w, s, all[1], FALSE, b, S)
    BY <2>5 DEF Tracks
  <2> QED
    BY <2>1, <2>3, <2>4, <2>6
<1>10. CASE j # 0
  <2>a. j \in 1 .. n
    BY <1>10, <1>2
  <2>b. /\ SubSeq(all, 1, j) \in Seq(Packets) /\ Len(SubSeq(all, 1, j)) = j
        /\ \A i \in 1 .. j : SubSeq(all, 1, j)[i] = all[i]
    <3>1. 1 \in 1 .. Len(all) + 1 /\ j \in 1 - 1 .. Len(all)
      BY <1>2, <2>a
    <3>2. /\ SubSeq(all, 1, j) \in Seq(Packets) /\ Len(SubSeq(all, 1, j)) = j - 1 + 1
          /\ \A i \in 1 .. j - 1 + 1 : SubSeq(all, 1, j)[i] = all[1 + i - 1]
      BY <1>3, <3>1, SubSeqProperties
    <3>3. j - 1 + 1 = j /\ \A i \in 1 .. j : 1 + i - 1 = i
      BY <2>a
    <3> QED
      BY <3>2, <3>3
  <2> PICK x \in Seq(Packets) : x = SubSeq(all, 1, j)
    BY <2>b, Zenon
  <2>1. Len(x) = j /\ x # << >> /\ \A i \in 1 .. j : x[i] = all[i] /\ i \in 1 .. n
    <3>1. Len(x) = j /\ j > 0 /\ Len(<< >>) = 0
      BY <2>a, <2>b
    <3>2. x # << >>
      <4>1. \A i \in Nat : i > 0 => i # 0
        OBVIOUS
      <4>2. Len(x) # Len(<< >>)
        BY <2>a, <3>1, <4>1
      <4> QED
        BY <4>2, Zenon
    <3>3. \A i \in 1 .. j : x[i] = all[i] /\ i \in 1 .. n
      BY <1>2, <2>a, <2>b
    <3> QED
      BY <3>1, <3>2, <3>3
  <2>2. ASSUME NEW i \in 1 .. j, i + 1 \in 1 .. j
        PROVE  Distance(SnRes, x[i].sn, x[i + 1].sn) \in 1 .. b + 1
    <3>1. /\ all[i].sn \in 0 .. SnRes /\ Increment(SnRes, all[i].sn) = (first + i) % (SnRes + 1)
          /\ all[i + 1].sn = (first + (i + 1) - 1) % (SnRes + 1) /\ all[i + 1].sn \in 0 .. SnRes
      BY <1>4, <2>1, <2>2
    <3>2. first + (i + 1) - 1 = first + i
      BY <1>1
    <3>3. all[i + 1].sn = Increment(SnRes, all[i].sn)
      BY <3>1, <3>2
    <3>4. Distance(SnRes, all[i].sn, all[i + 1].sn) = 1
      BY <3>1, <3>3, DistanceOfNext
    <3>5. 1 \in 1 .. b + 1
      OBVIOUS
    <3> QED
      BY <2>1, <2>2, <3>4, <3>5
  <2>3. ASSUME NEW k \in DOMAIN w, LastOn(w, r, k)
        PROVE  Distance(SnRes, w[k].sn, x[1].sn) \in 1 .. b + 1
    <3>1. w[k] \in Packets /\ OnChannel(w[k], r)
      BY <2>3 DEF LastOn
    <3>2. w[k].sn \in 0 .. SnRes
      BY <3>1, ChannelNumbers DEF OnChannel
    <3>3. /\ Ahead(w[k], s[r]) \in 0 .. SnRes
          /\ Ahead(w[k], s[r]) = Distance(SnRes, w[k].sn, first)
      <4>1. s[r] \in 0 .. SnRes
        OBVIOUS
      <4> HIDE <1>a
      <4> QED
        BY <1>0, <3>2, <4>1, AheadFacts
    <3>4. /\ Ahead(w[k], s[r]) <= IF r \in S THEN b + 1 ELSE b
          /\ Ahead(w[k], s[r]) > 0
      BY <1>0, <2>3 DEF Tracks
    <3>5. x[1].sn = first
      <4>1. 1 \in 1 .. j /\ x[1] = all[1] /\ 1 \in 1 .. n
        BY <2>a, <2>1
      <4>2. all[1].sn = first
        BY <1>4, <4>1
      <4> QED
        BY <4>1, <4>2
    <3>6. \A d \in 0 .. SnRes : d <= (IF r \in S THEN b + 1 ELSE b) /\ d > 0 => d \in 1 .. b + 1
      BY <1>1
    <3> QED
      BY <3>3, <3>4, <3>5, <3>6
  <2>4. RunBehind(w, x, r, b)
    BY <1>4, <2>1, <2>2, <2>3 DEF RunBehind
  <2> PICK y : y = w \o x
    OBVIOUS
  <2>5. RunLeaves(w, x, r, b, y)
    <3>1. Numbered(w, b)
      BY DEF Tracks
    <3> QED
      BY <2>4, <3>1, RunNumbered
  <2>6. /\ j = n => Ahead(all[j], next) = 0 /\ all[tried] = all[j]
        /\ j # n => Ahead(all[j], next) = 1 /\ b > 0
    <3>1. all[j].sn \in 0 .. SnRes
      BY <1>4, <2>a
    <3>2. CASE j = n
      <4>1. tried = j
        BY <3>2
      <4> QED
        BY <1>6, <3>1, <3>2, <4>1, AheadFacts
    <3>3. CASE j # n
      <4>1. tried = j + 1 /\ b > 0
        BY <1>2, <3>3
      <4>2. all[tried].sn = (first + (j + 1) - 1) % (SnRes + 1) /\ all[tried].sn \in 0 .. SnRes
        BY <1>4, <1>5, <4>1
      <4>3. first + (j + 1) - 1 = first + j
        BY <1>1, <2>a
      <4>4. all[tried].sn = Increment(SnRes, all[j].sn)
        BY <1>4, <2>a, <4>2, <4>3
      <4>5. Ahead(all[j], all[tried].sn) = 0
        BY <3>1, <4>4, AheadFacts
      <4>6. Ahead(all[j], next) = 1
        <5>1. Ahead(all[j], all[tried].sn) < SnRes
          BY <1>1, <4>5
        <5>2. Ahead(all[j], Increment(SnRes, all[tried].sn)) = Ahead(all[j], all[tried].sn) + 1
          BY <3>1, <4>2, <5>1, AheadFacts
        <5> QED
          BY <1>6, <4>5, <5>2
      <4> QED
        BY <3>3, <4>1, <4>6
    <3> QED
      BY <3>2, <3>3
  <2>7. ASSUME NEW c \in Rel, NEW k \in DOMAIN y, LastOn(y, c, k)
        PROVE  /\ Ahead(y[k], z[c]) <= IF c \in (IF j = n THEN S \ {r} ELSE S) THEN b + 1 ELSE b
               /\ OnChannel(all[tried], c) /\ Ahead(y[k], z[c]) = 0 => all[tried] = y[k]
    <3>1. CASE c = r
      <4>1. y[k] = all[j]
        <5>1. Len(x) = j /\ x[j] = all[j]
          BY <2>a, <2>1
        <5> HIDE <1>a
        <5> QED
          BY <2>5, <2>7, <3>1, <5>1 DEF RunLeaves
      <4>2. b \in Nat
        OBVIOUS
      <4> HIDE <1>a
      <4>3. CASE j = n
        <5>1. Ahead(y[k], z[c]) = 0 /\ all[tried] = y[k]
          BY <1>8, <2>6, <3>1, <4>1, <4>3
        <5> QED
          BY <4>2, <5>1
      <4>4. CASE j # n
        <5>1. Ahead(y[k], z[c]) = 1 /\ b > 0
          BY <1>8, <2>6, <3>1, <4>1, <4>4
        <5> QED
          BY <4>2, <5>1
      <4> QED
        BY <4>3, <4>4
    <3>2. CASE c # r
      <4>1. k \in DOMAIN w /\ LastOn(w, c, k) /\ y[k] = w[k]
        BY <2>5, <2>7, <3>2 DEF RunLeaves
      <4>2. ~OnChannel(all[tried], c)
        BY <1>4, <1>5, <3>2 DEF OnChannel
      <4>3. Ahead(w[k], s[c]) <= IF c \in S THEN b + 1 ELSE b
        BY <4>1 DEF Tracks
      <4> QED
        BY <1>8, <3>2, <4>1, <4>2, <4>3
    <3> QED
      BY <3>1, <3>2
  <2>8. all[tried].rel = r /\ z[r] = Increment(SnRes, all[tried].sn)
    BY <1>4, <1>5, <1>6, <1>8
  <2>9. Tracks(y, z, all[tried], FALSE, b, IF j = n THEN S \ {r} ELSE S)
    <3> HIDE <1>a
    <3> QED
      BY <2>5, <2>7, <2>8 DEF Tracks, RunLeaves
  <2> QED
    BY <2>9
<1> QED
  BY <1>9, <1>10

-----------------------------------------------------------------------------
(* The steps of the sender.                                                *)

\* TxTracked in the next state, from Tracks of the next values.
LEMMA TrackedPrimed ==
    /\ (Len(msgs') < SnRes =>
          Tracks(wire', sn', wbuf', Fresh', IF BehindBatch' THEN Len(msgs') - 1 ELSE Len(msgs'), {}))
       => TrackedAlways'
    /\ (~raced' /\ fails' < SnRes =>
          Tracks(wire', sn', wbuf', Fresh', fails', IF Due' THEN ChannelsOf(wbuf') ELSE {}))
       => TrackedQuiet'
<1> USE DEF Tracks, Numbered, FollowsOn, LastOn, OnChannel, Ahead, ChannelsOf
<1>1. (Len(msgs') < SnRes =>
          Tracks(wire', sn', wbuf', Fresh', IF BehindBatch' THEN Len(msgs') - 1 ELSE Len(msgs'), {}))
       => TrackedAlways'
  BY DEF TrackedAlways
<1>2. (~raced' /\ fails' < SnRes =>
          Tracks(wire', sn', wbuf', Fresh', fails', IF Due' THEN ChannelsOf(wbuf') ELSE {}))
       => TrackedQuiet'
  BY DEF TrackedQuiet
<1> QED
  BY <1>1, <1>2

\* Facts about the variables that the lemmas on Tracks need.
LEMMA TrackedTypes ==
    ASSUME TxInv
    PROVE  /\ wire \in Seq(Packets) /\ sn \in [Rel -> 0 .. SnRes] /\ wbuf \in Packets
           /\ fails \in Nat /\ Len(msgs) \in Nat /\ SnRes \in Nat /\ Fresh \in BOOLEAN
           /\ BatchHasData \in BOOLEAN /\ BatchHasData => wbuf \in TxFrames
<1>1. TxTypeOK /\ TxEncoded
  BY DEF TxInv
<1>2. Fresh \in BOOLEAN /\ BatchHasData \in BOOLEAN
  BY DEF Fresh, Encoding, BatchHasData
<1> QED
  BY <1>1, <1>2, SeqNumAssumption DEF TxTypeOK, TxEncoded

\* The wire, the numbers and the buffer stay.
LEMMA TrackedStays ==
    ASSUME TxInv, TxTracked, UNCHANGED <<sn, wbuf, msgs, wire, fails>>,
           Fresh' \in BOOLEAN, Fresh' => Fresh, BehindBatch' <=> BehindBatch,
           ~raced' => ~raced, ~raced' /\ Due => Due'
    PROVE  TxTracked'
<1>0. /\ wire \in Seq(Packets) /\ sn \in [Rel -> 0 .. SnRes] /\ fails \in Nat /\ Len(msgs) \in Nat
      /\ Fresh \in BOOLEAN
  BY TrackedTypes
<1>1. ASSUME Len(msgs) < SnRes
      PROVE  Tracks(wire, sn, wbuf, Fresh', IF BehindBatch THEN Len(msgs) - 1 ELSE Len(msgs), {})
  <2>0. Len(msgs) \in Int /\ Len(msgs) - 1 \in Int
    BY <1>0
  <2> PICK b \in Int : b = IF BehindBatch THEN Len(msgs) - 1 ELSE Len(msgs)
    BY <2>0, Zenon
  <2>1. Tracks(wire, sn, wbuf, Fresh, b, {})
    BY <1>1 DEF TxTracked, TrackedAlways
  <2>2. Tracks(wire, sn, wbuf, Fresh', b, {})
    BY <1>0, <2>1, TracksWeaken
  <2> QED
    BY <2>2
<1>2. ASSUME ~raced', fails < SnRes
      PROVE  Tracks(wire, sn, wbuf, Fresh', fails, IF Due' THEN ChannelsOf(wbuf) ELSE {})
  <2> PICK S : S = IF Due THEN ChannelsOf(wbuf) ELSE {}
    OBVIOUS
  <2> PICK T : T = IF Due' THEN ChannelsOf(wbuf) ELSE {}
    OBVIOUS
  <2>1. Tracks(wire, sn, wbuf, Fresh, fails, S) /\ S \subseteq T
    BY <1>2 DEF TxTracked, TrackedQuiet
  <2>a. fails \in Int
    BY <1>0
  <2>2. Tracks(wire, sn, wbuf, Fresh', fails, T)
    BY <1>0, <2>a, <2>1, TracksWeaken
  <2> QED
    BY <2>2
<1> QED
  BY <1>1, <1>2, TrackedPrimed DEF TxTracked

\* What is tracked when a send ends, ...
LEMMA SendTracked ==
    ASSUME TxInv, TxTracked, NEW t \in Threads, pc[t] = "encoded"
    PROVE  /\ Len(msgs) < SnRes =>
                Tracks(wire, sn, wbuf, TRUE, IF cur[t].has THEN Len(msgs) - 1 ELSE Len(msgs), {})
           /\ ~raced /\ fails < SnRes => Tracks(wire, sn, wbuf, TRUE, fails, {wbuf.rel})
           /\ Len(msgs) > 0 /\ wbuf.kind # "keepAlive" /\ wbuf.rel \in Rel /\ wbuf.sn \in 0 .. SnRes
<1>0. TxTypeOK /\ wbuf \in TxFrames /\ cur[t].id \in DOMAIN msgs
  BY AtEncoded
<1>1. TxEncoded
  BY DEF TxInv
<1>2. \A u \in Threads : pc[u] = "encoded" <=> u = t
  BY <1>1 DEF TxEncoded
<1>3. Encoding /\ Due /\ Fresh = TRUE
  BY DEF Encoding, Due, Fresh
<1>4. BehindBatch <=> cur[t].has
  BY <1>2 DEF BehindBatch
<1>5. wbuf.kind = "frame" /\ wbuf.rel \in Rel /\ wbuf.sn \in 0 .. SnRes
  BY <1>0, PacketContents
<1>6. ChannelsOf(wbuf) = {wbuf.rel}
  BY <1>5 DEF ChannelsOf
<1>7. Len(msgs) > 0
  BY <1>0 DEF TxTypeOK
<1> QED
  BY <1>3, <1>4, <1>5, <1>6, <1>7 DEF TxTracked, TrackedAlways, TrackedQuiet

\* ... and what must be when it has returned.
LEMMA ReturnTracked ==
    ASSUME TxInv, TxInv', NEW t \in Threads, pc[t] = "encoded", Returns(t),
           Len(msgs) < SnRes => Tracks(wire', sn', wbuf', BatchHasData', Len(msgs), {}),
           ~raced /\ fails' < SnRes =>
              \/ Tracks(wire', sn', wbuf', BatchHasData', fails', {})
              \/ /\ count' > 0 /\ (batching \/ Stopping) /\ \A u \in Threads : pc[u] # "starting"
                 /\ Tracks(wire', sn', wbuf', BatchHasData', fails', ChannelsOf(wbuf'))
    PROVE  TxTracked'
<1>0. /\ mutex' = NoThread /\ pc' = [pc EXCEPT ![t] = "idle"] /\ msgs' = msgs /\ raced' = raced
      /\ batching' = batching
  BY DEF Returns
<1>1. /\ wire' \in Seq(Packets) /\ sn' \in [Rel -> 0 .. SnRes] /\ fails' \in Int
      /\ BatchHasData' \in BOOLEAN
  <2>1. TxTypeOK'
    BY DEF TxInv
  <2> QED
    BY <2>1 DEF TxTypeOK, BatchHasData
<1>2. TxTypeOK /\ TxEncoded
  BY DEF TxInv
<1>3. \A u \in Threads : /\ pc'[u] # "encoded"
                         /\ pc'[u] = "starting" <=> pc[u] = "starting"
                         /\ pc'[u] \in {"stopped", "flushing"} <=> pc[u] \in {"stopped", "flushing"}
  BY <1>0, <1>2 DEF TxTypeOK, TxEncoded
<1>4. ~BehindBatch' /\ Fresh' = BatchHasData'
  BY <1>3 DEF BehindBatch, Fresh, Encoding, BatchHasData
<1>5. count' > 0 /\ (batching \/ Stopping) /\ (\A u \in Threads : pc[u] # "starting") => Due'
  <2>1. Stopping' <=> Stopping
    BY <1>3 DEF Stopping
  <2> QED
    BY <1>0, <1>3, <2>1 DEF Due
<1>6. ASSUME ~raced', fails' < SnRes
      PROVE  Tracks(wire', sn', wbuf', Fresh', fails', IF Due' THEN ChannelsOf(wbuf') ELSE {})
  <2> PICK T : T = IF Due' THEN ChannelsOf(wbuf') ELSE {}
    OBVIOUS
  <2>1. CASE Tracks(wire', sn', wbuf', BatchHasData', fails', {})
    <3>1. {} \subseteq T
      OBVIOUS
    <3>2. Tracks(wire', sn', wbuf', BatchHasData', fails', T)
      BY <1>1, <2>1, <3>1, TracksWeaken
    <3> QED
      BY <1>4, <3>2
  <2>2. CASE Due' /\ Tracks(wire', sn', wbuf', BatchHasData', fails', ChannelsOf(wbuf'))
    BY <1>4, <2>2
  <2> QED
    BY <1>0, <1>5, <1>6, <2>1, <2>2
<1>7. Len(msgs') < SnRes =>
         Tracks(wire', sn', wbuf', Fresh', IF BehindBatch' THEN Len(msgs') - 1 ELSE Len(msgs'), {})
  BY <1>0, <1>4
<1> QED
  BY <1>6, <1>7, TrackedPrimed DEF TxTracked

\* A send that ends, with what is tracked before and after: without the number in
\* the buffer if nothing fails, and with one more failure otherwise.
SendTracks ==
    \A b \in Nat, S \in {{}, {wbuf.rel}} :
        /\ b < SnRes /\ (fails' # fails => b > 0 /\ S = {})
        /\ Tracks(wire, sn, wbuf, TRUE, b, S)
        => Tracks(wire', sn', wbuf', BatchHasData', b, {})

\* A send that does as SendTracks says leaves what is tracked.
LEMMA SendEnds ==
    ASSUME TxInv, TxInv', TxTracked, NEW t \in Threads, pc[t] = "encoded", Returns(t),
           fails' \in {fails, fails + 1}, SendTracks
    PROVE  TxTracked'
<1>0. /\ wire \in Seq(Packets) /\ sn \in [Rel -> 0 .. SnRes] /\ fails \in Nat /\ Len(msgs) \in Nat
      /\ SnRes \in Nat
  BY TrackedTypes
<1>1. /\ Len(msgs) < SnRes =>
           Tracks(wire, sn, wbuf, TRUE, IF cur[t].has THEN Len(msgs) - 1 ELSE Len(msgs), {})
      /\ ~raced /\ fails < SnRes => Tracks(wire, sn, wbuf, TRUE, fails, {wbuf.rel})
      /\ Len(msgs) > 0
  BY SendTracked
<1>2. ASSUME Len(msgs) < SnRes
      PROVE  Tracks(wire', sn', wbuf', BatchHasData', Len(msgs), {})
  <2>0. Len(msgs) \in Int /\ Len(msgs) - 1 \in Int
    BY <1>0
  <2> PICK b \in Int : b = IF cur[t].has THEN Len(msgs) - 1 ELSE Len(msgs)
    BY <2>0, Zenon
  <2>1. Tracks(wire, sn, wbuf, TRUE, b, {})
    BY <1>1, <1>2
  <2>2. b < Len(msgs) \/ (b = Len(msgs) /\ {} \subseteq {})
    BY <1>0
  <2>3. Tracks(wire, sn, wbuf, TRUE, Len(msgs), {})
    BY <1>0, <2>0, <2>1, <2>2, TracksWeaken
  <2> QED
    BY <1>0, <1>1, <1>2, <2>3 DEF SendTracks
<1>3. ASSUME ~raced, fails' < SnRes
      PROVE  Tracks(wire', sn', wbuf', BatchHasData', fails', {})
  <2>1. fails < SnRes
    BY <1>0, <1>3
  <2>2. Tracks(wire, sn, wbuf, TRUE, fails, {wbuf.rel})
    BY <1>1, <1>3, <2>1
  <2>3. CASE fails' = fails
    BY <1>0, <2>1, <2>2, <2>3 DEF SendTracks
  <2>4. CASE fails' = fails + 1
    <3>1. fails \in Int /\ fails' \in Int /\ fails < fails' /\ fails' \in Nat /\ fails' > 0
          /\ fails' # fails
      BY <1>0, <2>4
    <3>2. Tracks(wire, sn, wbuf, TRUE, fails', {})
      BY <1>0, <2>2, <3>1, TracksWeaken
    <3> QED
      BY <1>3, <3>1, <3>2 DEF SendTracks
  <2> QED
    BY <2>3, <2>4
<1> QED
  BY <1>2, <1>3, ReturnTracked

\* A send that leaves its message in the batch: its number is now due with the batch.
LEMMA BatchedTracked ==
    ASSUME TxInv, TxTracked, NEW t \in Threads, SendBatched(t) PROVE TxTracked'
<1>0. /\ wire \in Seq(Packets) /\ sn \in [Rel -> 0 .. SnRes] /\ fails \in Nat /\ Len(msgs) \in Nat
  BY TrackedTypes
<1>1. /\ pc[t] = "encoded" /\ batching /\ count' = count + 1 /\ Returns(t) /\ batching' = batching
      /\ sn' = sn /\ wbuf' = wbuf /\ wire' = wire /\ fails' = fails
  BY DEF SendBatched, Succeeds, Returns
<1>2. /\ Len(msgs) < SnRes =>
           Tracks(wire, sn, wbuf, TRUE, IF cur[t].has THEN Len(msgs) - 1 ELSE Len(msgs), {})
      /\ ~raced /\ fails < SnRes => Tracks(wire, sn, wbuf, TRUE, fails, {wbuf.rel})
      /\ wbuf.kind # "keepAlive"
  BY <1>1, SendTracked
<1>3. count' > 0 /\ BatchHasData' = TRUE
  <2>1. count \in Nat
    BY DEF TxInv, TxTypeOK
  <2> QED
    BY <1>1, <2>1 DEF BatchHasData
<1>4. ~raced => \A u \in Threads : pc[u] # "starting"
  BY <1>1, AtEncoded
<1>5. ASSUME Len(msgs) < SnRes
      PROVE  Tracks(wire, sn, wbuf, TRUE, Len(msgs), {})
  <2>0. Len(msgs) \in Int /\ Len(msgs) - 1 \in Int
    BY <1>0
  <2> PICK b \in Int : b = IF cur[t].has THEN Len(msgs) - 1 ELSE Len(msgs)
    BY <2>0, Zenon
  <2>1. Tracks(wire, sn, wbuf, TRUE, b, {})
    BY <1>2, <1>5
  <2>2. b < Len(msgs) \/ (b = Len(msgs) /\ {} \subseteq {})
    BY <1>0
  <2> QED
    BY <1>0, <2>0, <2>1, <2>2, TracksWeaken
<1>6. ChannelsOf(wbuf) = {wbuf.rel}
  BY <1>2 DEF ChannelsOf
<1>7. TxInv'
  BY BatchedStep
<1> QED
  BY <1>1, <1>2, <1>3, <1>4, <1>5, <1>6, <1>7, ReturnTracked

\* A send that flushes the buffer: its number is on the wire or lost to a failure.
LEMMA FlushedTracked ==
    ASSUME TxInv, TxTracked, NEW t \in Threads, SendFlushed(t) PROVE TxTracked'
<1>0. /\ wire \in Seq(Packets) /\ sn \in [Rel -> 0 .. SnRes] /\ wbuf \in Packets
      /\ fails \in Nat /\ TxTypeOK
  BY TrackedTypes DEF TxInv
<1>1. /\ pc[t] = "encoded" /\ Flush(<< >>, wbuf, {cur[t].id}) /\ Returns(t)
      /\ sn' = sn /\ wbuf' = wbuf /\ msgs' = msgs
  BY DEF SendFlushed, Returns
<1>2. \/ count' = 0 /\ fails' = fails /\ wire' = wire \o <<wbuf>>
      \/ fails' = fails + 1 /\ wire' = wire
  BY <1>0, <1>1, FlushAlone
<1>3. wbuf.kind # "keepAlive" /\ BatchHasData' \in BOOLEAN
  BY <1>1, SendTracked DEF BatchHasData
<1>4. ASSUME NEW b \in Nat, NEW S \in {{}, {wbuf.rel}}, fails' # fails => S = {},
             Tracks(wire, sn, wbuf, TRUE, b, S)
      PROVE  Tracks(wire', sn', wbuf', BatchHasData', b, {})
  <2>1. CASE count' = 0 /\ fails' = fails /\ wire' = wire \o <<wbuf>>
    <3>1. S \ {wbuf.rel} = {} /\ BatchHasData' = FALSE
      BY <2>1 DEF BatchHasData
    <3>2. Tracks(wire \o <<wbuf>>, sn, wbuf, FALSE, b, S \ {wbuf.rel})
      BY <1>0, <1>3, <1>4, TracksSend
    <3> QED
      BY <1>1, <2>1, <3>1, <3>2
  <2>2. CASE fails' = fails + 1 /\ wire' = wire
    <3>1. S = {} /\ b \in Int
      BY <1>0, <1>4, <2>2
    <3> PICK f \in BOOLEAN : f = BatchHasData'
      BY <1>3
    <3>a. Tracks(wire, sn, wbuf, TRUE, b, {}) /\ TRUE \in BOOLEAN /\ {} \subseteq {}
      BY <1>4, <3>1
    <3>2. Tracks(wire, sn, wbuf, f, b, {})
      BY <3>a DEF Tracks
    <3> QED
      BY <1>1, <2>2, <3>2
  <2> QED
    BY <1>2, <2>1, <2>2
<1>5. SendTracks
  BY <1>4 DEF SendTracks
<1>6. TxInv' /\ fails' \in {fails, fails + 1}
  BY <1>2, FlushedStep
<1> QED
  BY <1>1, <1>5, <1>6, SendEnds

\* The same for thread t, behind what was sent before, with v in the buffer.
FragmentsBehind(t, r, w, before, v, z, b, S) ==
    /\ cur[t].id \in DOMAIN msgs /\ r = Msg(t).rel /\ w \in Seq(Packets) /\ before \in Seq(Packets)
    /\ w = wire \o before /\ v \in TxFrames /\ v.rel = r /\ SendFragments(t, before, v.sn)
    /\ NumbersSet(z, sn, r, z[r]) /\ b \in Nat /\ S \in {{}, {r}}
    /\ (fails' # fails => b > 0 /\ S = {}) /\ Tracks(w, z, v, TRUE, b, S)

\* What is tracked after _z_transport_tx_send_fragment of thread t.
LEMMA FragmentsTracked ==
    ASSUME TxTypeOK, msgs' = msgs, NEW t \in Threads, NEW r, NEW w, NEW before, NEW v, NEW z, NEW b, NEW S,
           FragmentsBehind(t, r, w, before, v, z, b, S)
    PROVE  Tracks(wire', sn', wbuf', FALSE, b, {})
<1>c. /\ cur[t].id \in DOMAIN msgs /\ r = Msg(t).rel /\ w \in Seq(Packets) /\ before \in Seq(Packets)
      /\ w = wire \o before /\ v \in TxFrames /\ v.rel = r /\ SendFragments(t, before, v.sn)
      /\ NumbersSet(z, sn, r, z[r]) /\ b \in Nat /\ S \in {{}, {r}}
      /\ (fails' # fails => b > 0 /\ S = {}) /\ Tracks(w, z, v, TRUE, b, S)
  BY DEF FragmentsBehind
<1>b. z \in [Rel -> 0 .. SnRes]
  BY <1>c DEF NumbersSet
<1> USE <1>b, <1>c
<1>0. wire \in Seq(Packets) /\ msgs \in Seq(Messages) /\ fails \in Nat
  BY DEF TxTypeOK
<1> PICK id \in DOMAIN msgs : id = cur[t].id
  OBVIOUS
<1> PICK m : m = msgs[id]
  OBVIOUS
<1>1. m \in Messages /\ id \in Nat /\ m.rel = r
  BY <1>0 DEF Msg
<1>2. v \in Packets /\ v.kind # "keepAlive" /\ v.sn \in 0 .. SnRes
  BY PacketContents
<1>3. v.sn \in Int
  BY <1>2
<1>d. Len(Fragments(id, m, v.sn)) = Pieces(m.size)
  <2> HIDE <1>b, <1>c
  <2> QED
    BY <1>1, <1>3, FragmentsTyped
<1> PICK all : all = Fragments(id, m, v.sn)
  OBVIOUS
<1>4. Len(all) = Pieces(m.size)
  BY <1>d
<1> PICK n : n = Len(all)
  OBVIOUS
<1>5. PICK j \in 0 .. n :
         /\ wire' = wire \o before \o SubSeq(all, 1, j)
         /\ wbuf' = all[IF j = n THEN n ELSE j + 1]
         /\ sn' = [sn EXCEPT ![r] = (v.sn + (IF j = n THEN n ELSE j + 1)) % (SnRes + 1)]
         /\ IF j = n THEN Succeeds({id}) ELSE Fails({id})
  <2>1. Msg(t) = m
    BY DEF Msg
  <2> QED
    BY <1>1, <2>1 DEF SendFragments
<1> PICK tried : tried = IF j = n THEN n ELSE j + 1
  OBVIOUS
<1>6. /\ wire' = w \o SubSeq(all, 1, j) /\ wbuf' = all[tried]
      /\ sn' = [sn EXCEPT ![r] = (v.sn + tried) % (SnRes + 1)]
  BY <1>5
<1> PICK y : y = sn'
  OBVIOUS
<1>a. NumbersSet(y, z, m.rel, (v.sn + tried) % (SnRes + 1))
  <2>1. sn \in [Rel -> 0 .. SnRes] /\ r \in Rel
    BY <1>1 DEF TxTypeOK, Messages
  <2>2. sn' \in [Rel -> 0 .. SnRes]
    BY <1>3, FragmentsSent
  <2> QED
    BY <1>1, <1>6, <2>1, <2>2 DEF NumbersSet
<1>7. j < n => b > 0
  <2>1. ASSUME j < n PROVE b > 0
    <3>1. j # n
      BY <1>4, <2>1, SomePieces
    <3>2. fails' = fails + 1
      BY <1>5, <3>1 DEF Fails
    <3>3. fails' # fails
      BY <1>0, <3>2
    <3> QED
      BY <3>3
  <2> QED
    BY <2>1
<1>8. Tracks(w \o SubSeq(all, 1, j), y, all[tried], FALSE, b, IF j = n THEN S \ {m.rel} ELSE S)
  <2>1. /\ n = Pieces(m.size) /\ v.rel = m.rel /\ all = Fragments(id, m, v.sn)
        /\ Tracks(w, z, v, TRUE, b, S) /\ j \in 0 .. n
    BY <1>1, <1>4, <1>5
  <2>2. FragmentRun(w, z, v, id, m, b, S, n, j, tried, all, y)
    BY <1>1, <1>2, <1>7, <1>a, <2>1 DEF FragmentRun
  <2>3. RunSent(w, m, b, S, n, j, tried, all, y)
    BY <2>2, TracksFragments
  <2> QED
    BY <2>3 DEF RunSent
<1>9. (IF j = n THEN S \ {m.rel} ELSE S) = {}
  <2>1. CASE j = n
    BY <1>1, <2>1
  <2>2. CASE j # n
    <3>1. fails' = fails + 1
      BY <1>5, <2>2 DEF Fails
    <3>2. fails' # fails
      BY <1>0, <3>1
    <3> QED
      BY <2>2, <3>2
  <2> QED
    BY <2>1, <2>2
<1> QED
  BY <1>6, <1>8, <1>9

\* A send in fragments: the first one has the number in the buffer.
LEMMA FragmentedTracked ==
    ASSUME TxInv, TxTracked, NEW t \in Threads, SendFragmented(t) PROVE TxTracked'
<1>0. wire \in Seq(Packets) /\ sn \in [Rel -> 0 .. SnRes] /\ fails \in Nat
  BY TrackedTypes
<1>1. /\ pc[t] = "encoded" /\ ~cur[t].fits /\ ~cur[t].has
      /\ SendFragments(t, << >>, wbuf.sn) /\ Returns(t) /\ count' = count
      /\ msgs' = msgs /\ batching' = batching
  BY DEF SendFragmented, Returns
<1>2. /\ TxTypeOK /\ cur[t].id \in DOMAIN msgs /\ wbuf \in TxFrames /\ ~BatchHasData
      /\ wbuf.rel = Msg(t).rel
  BY <1>1, AtEncoded
<1>3. BatchHasData' = FALSE
  BY <1>1, <1>2 DEF BatchHasData
<1>a. << >> \in Seq(Packets) /\ wire = wire \o << >>
  BY <1>0
<1> PICK e \in Seq(Packets) : e = << >>
  BY <1>a, Zenon
<1>4. SendFragments(t, e, wbuf.sn) /\ wire = wire \o e
  BY <1>1, <1>a
<1>b. msgs' = msgs
  BY <1>1
<1>5. ASSUME NEW b \in Nat, NEW S \in {{}, {wbuf.rel}}, fails' # fails => b > 0 /\ S = {},
             Tracks(wire, sn, wbuf, TRUE, b, S)
      PROVE  Tracks(wire', sn', wbuf', FALSE, b, {})
  <2> PICK r : r = Msg(t).rel
    OBVIOUS
  <2>1. wbuf.rel = r /\ S \in {{}, {r}} /\ NumbersSet(sn, sn, r, sn[r])
    BY <1>0, <1>2 DEF NumbersSet
  <2>2. FragmentsBehind(t, r, wire, e, wbuf, sn, b, S)
    BY <1>0, <1>2, <1>4, <1>5, <2>1 DEF FragmentsBehind
  <2> QED
    BY <1>2, <1>b, <2>2, FragmentsTracked
<1>6. SendTracks
  BY <1>3, <1>5 DEF SendTracks
<1>7. fails' \in {fails, fails + 1}
  BY <1>1 DEF SendFragments, Succeeds, Fails
<1>8. TxInv'
  BY FragmentedStep
<1> QED
  BY <1>1, <1>6, <1>7, <1>8, SendEnds

\* _z_transport_tx_batch_overflow, with what is tracked before and after: one
\* number more if the link fails, or for the message that is now in the buffer.
OverflowTracks ==
    \A b, c \in Nat, S \in {{}, {wbuf.rel}} :
        /\ b < SnRes /\ (c = b + 1 \/ (c = b /\ fails' = fails))
        /\ Tracks(wire, sn, wbuf, TRUE, b, S)
        => \/ Tracks(wire', sn', wbuf', BatchHasData', c, {})
           \/ /\ c = b /\ count' > 0
              /\ Tracks(wire', sn', wbuf', BatchHasData', c, ChannelsOf(wbuf'))

\* An overflow that does as OverflowTracks says leaves what is tracked.
LEMMA OverflowEnds ==
    ASSUME TxInv, TxInv', TxTracked, NEW t \in Threads, pc[t] = "encoded", cur[t].has, Returns(t),
           fails' \in {fails, fails + 1}, OverflowTracks
    PROVE  TxTracked'
<1>0. fails \in Nat /\ Len(msgs) \in Nat /\ SnRes \in Nat
  BY TrackedTypes
<1>1. /\ Len(msgs) < SnRes => Tracks(wire, sn, wbuf, TRUE, Len(msgs) - 1, {})
      /\ ~raced /\ fails < SnRes => Tracks(wire, sn, wbuf, TRUE, fails, {wbuf.rel})
      /\ Len(msgs) > 0
  BY SendTracked
<1>2. ~raced => (batching \/ Stopping) /\ \A u \in Threads : pc[u] # "starting"
  BY AtEncoded
<1>3. ASSUME Len(msgs) < SnRes
      PROVE  Tracks(wire', sn', wbuf', BatchHasData', Len(msgs), {})
  <2> PICK c \in Nat : c = Len(msgs)
    BY <1>0
  <2> PICK b \in Nat : b = c - 1
    BY <1>1
  <2>1. b < SnRes /\ c = b + 1 /\ ~(c = b)
    BY <1>0, <1>3
  <2> PICK S \in {{}, {wbuf.rel}} : S = {}
    OBVIOUS
  <2>2. Tracks(wire, sn, wbuf, TRUE, b, S)
    BY <1>1, <1>3
  <2>3. \/ Tracks(wire', sn', wbuf', BatchHasData', c, {})
        \/ c = b
    BY <2>1, <2>2 DEF OverflowTracks
  <2> QED
    BY <2>1, <2>3
<1>4. ASSUME ~raced, fails' < SnRes
      PROVE  \/ Tracks(wire', sn', wbuf', BatchHasData', fails', {})
             \/ /\ count' > 0
                /\ Tracks(wire', sn', wbuf', BatchHasData', fails', ChannelsOf(wbuf'))
  <2> PICK b \in Nat : b = fails
    BY <1>0
  <2>0. fails' \in Nat
    BY <1>0
  <2> PICK c \in Nat : c = fails'
    BY <2>0
  <2>b. fails' = fails + 1 \/ fails' = fails
    OBVIOUS
  <2>c. c < SnRes
    BY <1>4
  <2>a. c < SnRes /\ (c = b + 1 \/ (c = b /\ fails' = fails))
    BY <2>b, <2>c
  <2>1. b < SnRes /\ (c = b + 1 \/ (c = b /\ fails' = fails))
    BY <1>0, <2>a
  <2>2. Tracks(wire, sn, wbuf, TRUE, b, {wbuf.rel})
    BY <1>1, <1>4, <2>1
  <2> QED
    BY <2>1, <2>2 DEF OverflowTracks
<1>5. ~raced /\ fails' < SnRes =>
         \/ Tracks(wire', sn', wbuf', BatchHasData', fails', {})
         \/ /\ count' > 0 /\ (batching \/ Stopping) /\ \A u \in Threads : pc[u] # "starting"
            /\ Tracks(wire', sn', wbuf', BatchHasData', fails', ChannelsOf(wbuf'))
  BY <1>2, <1>4
<1> QED
  BY <1>3, <1>5, ReturnTracked

\* _z_transport_tx_batch_overflow: the batch is sent with its number, then the
\* message takes the next one, in a batch, at once or in fragments.
LEMMA OverflowsTracked ==
    ASSUME TxInv, TxTracked, NEW t \in Threads, SendOverflows(t) PROVE TxTracked'
<1> PICK id : id = cur[t].id
  OBVIOUS
<1> PICK m : m = Msg(t)
  OBVIOUS
<1> PICK r : r = m.rel
  OBVIOUS
<1> PICK next : next = Frame(m.rel, sn[m.rel], <<id>>)
  OBVIOUS
<1>0. /\ wire \in Seq(Packets) /\ sn \in [Rel -> 0 .. SnRes] /\ wbuf \in Packets
      /\ fails \in Nat /\ SnRes \in Nat /\ TxTypeOK
  BY TrackedTypes DEF TxInv
<1>1. /\ pc[t] = "encoded" /\ cur[t].has /\ Returns(t) /\ msgs' = msgs /\ batching' = batching
  BY DEF SendOverflows, Returns
<1>2. id \in DOMAIN msgs /\ wbuf \in TxFrames /\ wbuf.kind # "keepAlive"
  BY <1>1, AtEncoded, SendTracked
<1>3. m \in Messages /\ r \in Rel /\ id \in Nat /\ sn[r] \in 0 .. SnRes
  <2>1. msgs \in Seq(Messages) /\ m = msgs[id]
    BY <1>0 DEF TxTypeOK, Msg
  <2>2. m \in Messages /\ id \in Nat
    BY <1>2, <2>1
  <2>3. r \in Rel
    BY <2>2 DEF Messages
  <2> QED
    BY <1>0, <2>2, <2>3
<1>4. next \in TxFrames /\ next \in Packets /\ OnChannel(next, r) /\ next.sn = sn[r]
      /\ next.rel = r /\ next.kind # "keepAlive" /\ ChannelsOf(next) = {r}
  <2>1. <<id>> \in Seq(Nat)
    BY <1>3
  <2>2. next \in TxFrames /\ next \in Packets
    BY <1>3, <2>1, PacketContents
  <2>3. next.sn = sn[r] /\ next.rel = r /\ next.kind = "frame"
    BY DEF Frame
  <2> QED
    BY <2>2, <2>3 DEF OnChannel, ChannelsOf
<1> PICK w : w = wire \o <<wbuf>>
  OBVIOUS
<1>5. w \in Seq(Packets) /\ <<wbuf>> \in Seq(Packets)
  BY <1>0
<1> PICK z : z = [sn EXCEPT ![r] = Increment(SnRes, @)]
  OBVIOUS
<1>6. z \in [Rel -> 0 .. SnRes] /\ z[r] = Increment(SnRes, sn[r])
      /\ \A c \in Rel : c # r => z[c] = sn[c]
  <2>1. Increment(SnRes, sn[r]) \in 0 .. SnRes
    BY <1>3, SeqNumAssumption DEF Increment
  <2> QED
    BY <1>0, <1>3, <2>1
<1>7. NumbersSet(z, sn, r, Increment(SnRes, sn[r])) /\ NumbersSet(z, sn, r, z[r])
  BY <1>6 DEF NumbersSet
<1>8. BatchHasData' \in BOOLEAN
  BY DEF BatchHasData
<1> PICK f \in BOOLEAN : f = BatchHasData'
  BY <1>8
<1>a. count' = 0 => f = FALSE
  <2>1. ~(0 > 0)
    OBVIOUS
  <2>2. count' = 0 => ~BatchHasData'
    BY <2>1 DEF BatchHasData
  <2> QED
    BY <2>2
<1>9. ASSUME NEW b \in Nat, NEW c \in Nat, NEW S \in {{}, {wbuf.rel}}, b < SnRes,
             c = b + 1 \/ (c = b /\ fails' = fails), Tracks(wire, sn, wbuf, TRUE, b, S)
      PROVE  \/ Tracks(wire', sn', wbuf', f, c, {})
             \/ c = b /\ count' > 0 /\ Tracks(wire', sn', wbuf', f, c, ChannelsOf(wbuf'))
  <2>0. b \in Int /\ c \in Int /\ (b < c \/ (c = b /\ fails' = fails)) /\ TRUE \in BOOLEAN
        /\ FALSE \in BOOLEAN /\ (f => TRUE)
    BY <1>9
  <2>1. Tracks(w, sn, wbuf, FALSE, b, {})
    <3>1. S \ {wbuf.rel} = {}
      OBVIOUS
    <3>2. Tracks(wire \o <<wbuf>>, sn, wbuf, FALSE, b, S \ {wbuf.rel})
      BY <1>0, <1>2, <1>9, TracksSend
    <3> QED
      BY <3>1, <3>2
  <2>2. Tracks(w, z, next, TRUE, b, {r})
    <3>1. r \notin {} /\ {} \cup {r} = {r}
      OBVIOUS
    <3>2. Tracks(w, z, next, TRUE, b, {} \cup {r})
      BY <1>0, <1>3, <1>4, <1>5, <1>7, <1>9, <2>1, <3>1, TracksTake
    <3> QED
      BY <3>1, <3>2
  <2>3. CASE Fails({id} \cup Contents(wbuf)) /\ UNCHANGED <<sn, wbuf, count, wire>>
    <3>1. fails' # fails
      BY <1>0, <2>3 DEF Fails
    <3>a. b < c /\ Tracks(wire, sn, wbuf, TRUE, b, S)
      BY <1>9, <2>0, <3>1
    <3>b. Tracks(wire, sn, wbuf, TRUE, c, {})
      BY <1>0, <2>0, <3>a, TracksWeaken
    <3>2. Tracks(wire, sn, wbuf, f, c, {})
      BY <3>b DEF Tracks
    <3> QED
      BY <2>3, <3>2
  <2>4. CASE Flush(<<wbuf>>, next, {id}) /\ wbuf' = next /\ sn' = z
    <3>1. /\ count' = 0
          /\ \/ fails' = fails /\ wire' = w \o <<next>>
             \/ fails' = fails + 1 /\ wire' = w
      BY <1>0, <1>1, <1>4, <2>4, FlushBehind
    <3>2. f = FALSE
      BY <1>a, <3>1
    <3>a. {} \subseteq {}
      OBVIOUS
    <3>3. CASE fails' = fails /\ wire' = w \o <<next>>
      <4>1. Tracks(w \o <<next>>, z, next, FALSE, b, {r} \ {next.rel})
        BY <1>4, <1>5, <1>6, <2>2, TracksSend
      <4>2. {r} \ {next.rel} = {}
        BY <1>4
      <4> PICK y : y = w \o <<next>>
        OBVIOUS
      <4>a. <<next>> \in Seq(Packets)
        BY <1>4
      <4>b. y \in Seq(Packets)
        BY <1>5, <4>a, ConcatProperties
      <4>3. Tracks(y, z, next, FALSE, b, {}) /\ y \in Seq(Packets)
        BY <4>b, <4>1, <4>2
      <4>4. Tracks(y, z, next, FALSE, c, {})
        BY <1>6, <2>0, <3>a, <4>3, TracksWeaken
      <4> QED
        BY <2>4, <3>2, <3>3, <4>4
    <3>4. CASE fails' = fails + 1 /\ wire' = w
      <4>1. b < c
        BY <1>0, <2>0, <3>4
      <4>2. Tracks(w, z, next, FALSE, c, {})
        BY <1>5, <1>6, <2>0, <2>2, <4>1, TracksWeaken
      <4> QED
        BY <2>4, <3>2, <3>4, <4>2
    <3> QED
      BY <3>1, <3>3, <3>4
  <2>5. CASE wire' = w /\ wbuf' = next /\ count' = 1 /\ sn' = z
    <3>1. Tracks(w, z, next, f, b, {r})
      BY <2>2 DEF Tracks
    <3>2. CASE b < c
      <4>1. Tracks(w, z, next, TRUE, c, {})
        BY <1>5, <1>6, <2>0, <2>2, <3>2, TracksWeaken
      <4>2. Tracks(w, z, next, f, c, {})
        BY <4>1 DEF Tracks
      <4> QED
        BY <2>5, <4>2
    <3>3. CASE c = b
      <4>1. 1 > 0
        OBVIOUS
      <4>2. count' > 0 /\ ChannelsOf(wbuf') = {r}
        BY <1>4, <2>5, <4>1
      <4>3. Tracks(wire', sn', wbuf', f, c, {r})
        BY <2>5, <3>1, <3>3
      <4> QED
        BY <3>3, <4>2, <4>3
    <3> QED
      BY <2>0, <3>2, <3>3
  <2>6. CASE SendFragments(t, <<wbuf>>, sn[r]) /\ count' = 0
    <3>1. f = FALSE
      BY <1>a, <2>6
    <3> PICK e \in Seq(Packets) : e = <<wbuf>>
      BY <1>5, Zenon
    <3>2. SendFragments(t, e, next.sn) /\ w = wire \o e
      BY <1>4, <2>6
    <3>3. CASE fails' = fails
      <4>1. FragmentsBehind(t, r, w, e, next, z, b, {r})
        BY <1>2, <1>4, <1>5, <1>7, <2>2, <3>2, <3>3 DEF FragmentsBehind
      <4>2. Tracks(wire', sn', wbuf', FALSE, b, {})
        BY <1>0, <1>1, <4>1, FragmentsTracked
      <4>3. wire' \in Seq(Packets) /\ sn' \in [Rel -> 0 .. SnRes] /\ {} \subseteq {}
        <5>1. TxTypeOK'
          BY OverflowsStep DEF TxInv
        <5> QED
          BY <5>1 DEF TxTypeOK
      <4>4. Tracks(wire', sn', wbuf', FALSE, c, {})
        BY <2>0, <4>2, <4>3, TracksWeaken
      <4> QED
        BY <3>1, <4>4
    <3>4. CASE fails' # fails
      <4>1. b < c /\ c > 0
        BY <2>0, <3>4
      <4>2. Tracks(w, z, next, TRUE, c, {})
        BY <1>5, <1>6, <2>0, <2>2, <4>1, TracksWeaken
      <4>3. FragmentsBehind(t, r, w, e, next, z, c, {})
        BY <1>2, <1>4, <1>5, <1>7, <3>2, <4>1, <4>2 DEF FragmentsBehind
      <4>4. Tracks(wire', sn', wbuf', FALSE, c, {})
        BY <1>0, <1>1, <4>3, FragmentsTracked
      <4> QED
        BY <3>1, <4>4
    <3> QED
      BY <3>3, <3>4
  <2>7. \/ Fails({id} \cup Contents(wbuf)) /\ UNCHANGED <<sn, wbuf, count, wire>>
        \/ Flush(<<wbuf>>, next, {id}) /\ wbuf' = next /\ sn' = z
        \/ wire' = w /\ wbuf' = next /\ count' = 1 /\ sn' = z
        \/ SendFragments(t, <<wbuf>>, sn[r]) /\ count' = 0
    <3>1. Append(wire, wbuf) = w
      BY <1>0
    <3> QED
      BY <3>1 DEF SendOverflows
  <2> QED
    BY <2>3, <2>4, <2>5, <2>6, <2>7
<1>10. OverflowTracks
  BY <1>9 DEF OverflowTracks
<1>11. TxInv' /\ fails' \in {fails, fails + 1}
  <2>1. fails' \in {fails, fails + 1}
    BY DEF SendOverflows, Succeeds, Fails, Flush, SendFragments
  <2> QED
    BY <2>1, OverflowsStep
<1> QED
  BY <1>1, <1>10, <1>11, OverflowEnds

\* What is tracked while no thread has the mutex.
LEMMA FreeTracked ==
    ASSUME TxInv, TxTracked, mutex = NoThread
    PROVE  /\ Len(msgs) < SnRes => Tracks(wire, sn, wbuf, BatchHasData, Len(msgs), {})
           /\ ~raced /\ fails < SnRes =>
                Tracks(wire, sn, wbuf, BatchHasData, fails, IF Due THEN ChannelsOf(wbuf) ELSE {})
           /\ Due => count > 0 /\ (batching \/ Stopping)
<1>1. TxEncoded
  BY DEF TxInv
<1>2. \A u \in Threads : pc[u] # "encoded"
  BY <1>1, UnicastTxAssumption DEF TxEncoded
<1>3. ~Encoding /\ ~BehindBatch
  BY <1>2 DEF Encoding, BehindBatch
<1>4. Fresh = BatchHasData
  BY <1>3 DEF Fresh, BatchHasData
<1>5. Due => count > 0 /\ (batching \/ Stopping)
  BY <1>3 DEF Due
<1> QED
  BY <1>3, <1>4, <1>5 DEF TxTracked, TrackedAlways, TrackedQuiet

\* A call that takes and releases the mutex, with what is tracked before and after.
CallTracks ==
    \A b \in Nat, S \in {{}, ChannelsOf(wbuf)} :
        /\ fails' # fails => S = {}
        /\ S = {} \/ (Due /\ ~raced')
        /\ Tracks(wire, sn, wbuf, BatchHasData, b, S)
        => Tracks(wire', sn', wbuf', BatchHasData', b, {})

\* A call that does as CallTracks says leaves what is tracked.
LEMMA CallEnds ==
    ASSUME TxInv, TxInv', TxTracked, mutex = NoThread, mutex' = NoThread, msgs' = msgs,
           ~raced' => ~raced, fails' \in {fails, fails + 1}, CallTracks
    PROVE  TxTracked'
<1>0. /\ wire \in Seq(Packets) /\ sn \in [Rel -> 0 .. SnRes] /\ fails \in Nat /\ Len(msgs) \in Nat
      /\ SnRes \in Nat /\ BatchHasData \in BOOLEAN
  <2>1. BatchHasData \in BOOLEAN
    BY DEF BatchHasData
  <2> QED
    BY <2>1, TrackedTypes
<1>1. /\ Len(msgs) < SnRes => Tracks(wire, sn, wbuf, BatchHasData, Len(msgs), {})
      /\ ~raced /\ fails < SnRes =>
           Tracks(wire, sn, wbuf, BatchHasData, fails, IF Due THEN ChannelsOf(wbuf) ELSE {})
  BY FreeTracked
<1>2. /\ wire' \in Seq(Packets) /\ sn' \in [Rel -> 0 .. SnRes] /\ BatchHasData' \in BOOLEAN
      /\ \A u \in Threads : pc'[u] # "encoded"
  <2>1. TxTypeOK' /\ TxEncoded'
    BY DEF TxInv
  <2>2. BatchHasData' \in BOOLEAN
    BY DEF BatchHasData
  <2> QED
    BY <2>1, <2>2, UnicastTxAssumption DEF TxTypeOK, TxEncoded
<1>3. ~BehindBatch' /\ Fresh' = BatchHasData'
  <2>1. ~BehindBatch' /\ ~Encoding'
    BY <1>2 DEF BehindBatch, Encoding
  <2> QED
    BY <1>2, <2>1 DEF Fresh
<1>4. ASSUME Len(msgs) < SnRes
      PROVE  Tracks(wire', sn', wbuf', BatchHasData', Len(msgs), {})
  <2> PICK S \in {{}, ChannelsOf(wbuf)} : S = {}
    OBVIOUS
  <2>1. Tracks(wire, sn, wbuf, BatchHasData, Len(msgs), S)
    BY <1>1, <1>4
  <2> QED
    BY <1>0, <2>1 DEF CallTracks
<1>5. ASSUME ~raced', fails' < SnRes
      PROVE  Tracks(wire', sn', wbuf', BatchHasData', fails', IF Due' THEN ChannelsOf(wbuf') ELSE {})
  <2> PICK T : T = IF Due' THEN ChannelsOf(wbuf') ELSE {}
    OBVIOUS
  <2> PICK S : S = IF Due THEN ChannelsOf(wbuf) ELSE {}
    OBVIOUS
  <2>0. fails' \in Nat /\ fails' \in Int /\ fails \in Int /\ fails < SnRes
    BY <1>0, <1>5
  <2>1. /\ S \in {{}, ChannelsOf(wbuf)} /\ (S = {} \/ (Due /\ ~raced'))
        /\ Tracks(wire, sn, wbuf, BatchHasData, fails, S)
    BY <1>1, <1>5, <2>0
  <2>2. Tracks(wire', sn', wbuf', BatchHasData', fails', {})
    <3>1. CASE fails' = fails
      BY <1>0, <2>1, <3>1 DEF CallTracks
    <3>2. CASE fails' = fails + 1
      <4>1. fails < fails' /\ fails' # fails
        BY <1>0, <3>2
      <4>2. Tracks(wire, sn, wbuf, BatchHasData, fails', {})
        BY <1>0, <2>0, <2>1, <4>1, TracksWeaken
      <4> PICK R \in {{}, ChannelsOf(wbuf)} : R = {}
        OBVIOUS
      <4>3. Tracks(wire, sn, wbuf, BatchHasData, fails', R)
        BY <4>2
      <4> QED
        BY <2>0, <4>3 DEF CallTracks
    <3> QED
      BY <3>1, <3>2
  <2>3. {} \subseteq T
    OBVIOUS
  <2>4. Tracks(wire', sn', wbuf', BatchHasData', fails', T)
    BY <1>2, <2>0, <2>2, <2>3, TracksWeaken
  <2> QED
    BY <2>4
<1>6. Len(msgs') < SnRes =>
         Tracks(wire', sn', wbuf', Fresh', IF BehindBatch' THEN Len(msgs') - 1 ELSE Len(msgs'), {})
  BY <1>3, <1>4
<1>7. ~raced' /\ fails' < SnRes =>
         Tracks(wire', sn', wbuf', Fresh', fails', IF Due' THEN ChannelsOf(wbuf') ELSE {})
  BY <1>3, <1>5
<1> QED
  BY <1>6, <1>7, TrackedPrimed DEF TxTracked

\* The flush at the end of a batching call: the buffer has the number it had, and may
\* be on the wire already, but then it is the same transport message.
LEMMA FlushEndsTracked ==
    ASSUME TxInv, TxTracked, NEW t \in Threads, FlushEnds(t) PROVE TxTracked'
<1>0. /\ wire \in Seq(Packets) /\ sn \in [Rel -> 0 .. SnRes] /\ wbuf \in Packets
      /\ fails \in Nat /\ TxTypeOK
  BY TrackedTypes DEF TxInv
<1>1. /\ mutex = NoThread /\ mutex' = NoThread /\ msgs' = msgs /\ raced' = raced
      /\ sn' = sn /\ wbuf' = wbuf /\ batching' = batching /\ Flush(<< >>, wbuf, {})
  BY DEF FlushEnds
<1>2. \/ count' = 0 /\ fails' = fails /\ wire' = wire \o <<wbuf>>
      \/ count' = count /\ fails' = fails + 1 /\ wire' = wire
  BY <1>0, <1>1, FlushAlone
<1>3. ASSUME NEW b \in Nat, NEW S \in {{}, ChannelsOf(wbuf)}, fails' # fails => S = {},
             Tracks(wire, sn, wbuf, BatchHasData, b, S)
      PROVE  Tracks(wire', sn', wbuf', BatchHasData', b, {})
  <2>1. CASE count' = 0 /\ fails' = fails /\ wire' = wire \o <<wbuf>>
    <3>0. ~(0 > 0)
      OBVIOUS
    <3>1. BatchHasData' = FALSE
      BY <2>1, <3>0 DEF BatchHasData
    <3>2. CASE wbuf.kind # "keepAlive"
      <4>1. S \ {wbuf.rel} = {}
        BY <3>2 DEF ChannelsOf
      <4>2. Tracks(wire \o <<wbuf>>, sn, wbuf, FALSE, b, S \ {wbuf.rel})
        BY <1>0, <1>3, <3>2, TracksSend
      <4> QED
        BY <1>1, <2>1, <3>1, <4>1, <4>2
    <3>3. CASE wbuf.kind = "keepAlive"
      <4>1. S = {}
        BY <3>3 DEF ChannelsOf
      <4>2. wbuf = KeepAlive
        BY <1>0, <3>3 DEF Packets, TxFrames, TxFragments
      <4>3. Tracks(wire \o <<KeepAlive>>, sn, wbuf, BatchHasData, b, S)
        BY <1>0, <1>3, TracksIdle
      <4>4. Tracks(wire \o <<KeepAlive>>, sn, wbuf, FALSE, b, S)
        BY <4>3 DEF Tracks
      <4> QED
        BY <1>1, <2>1, <3>1, <4>1, <4>2, <4>4
    <3> QED
      BY <3>2, <3>3
  <2>2. CASE count' = count /\ fails' = fails + 1 /\ wire' = wire
    <3>1. S = {}
      BY <1>0, <1>3, <2>2
    <3>2. BatchHasData' = BatchHasData
      BY <1>1, <2>2 DEF BatchHasData
    <3> QED
      BY <1>1, <1>3, <2>2, <3>1, <3>2
  <2> QED
    BY <1>2, <2>1, <2>2
<1>4. CallTracks
  BY <1>3 DEF CallTracks
<1>5. TxInv' /\ fails' \in {fails, fails + 1} /\ (~raced' => ~raced)
  BY <1>1, <1>2, FlushEndsStep
<1> QED
  BY <1>1, <1>4, <1>5, CallEnds

\* A keep-alive has no number: only a number in the batch that the link refuses is lost.
LEMMA KeepAliveTracked ==
    ASSUME TxInv, TxTracked, NEW t \in Threads, SendKeepAlive(t) PROVE TxTracked'
<1>0. /\ wire \in Seq(Packets) /\ sn \in [Rel -> 0 .. SnRes] /\ wbuf \in Packets
      /\ fails \in Nat /\ TxTypeOK /\ KeepAlive \in Packets
      /\ BatchHasData => wbuf \in TxFrames
  BY TrackedTypes, PacketContents DEF TxInv
<1>1. /\ pc[t] = "idle" /\ mutex = NoThread /\ mutex' = NoThread /\ msgs' = msgs /\ Race(t)
      /\ sn' = sn /\ batching' = batching
  BY DEF SendKeepAlive
<1>2. /\ ~raced' => ~Stopping /\ ~raced
      /\ Due => count > 0 /\ (batching \/ Stopping)
  BY <1>1, AtIdle, FreeTracked DEF Race
<1>3. ~raced' /\ Due => BatchHasData
  BY <1>2 DEF BatchHasData
<1>4. \/ /\ BatchHasData /\ fails' = fails + 1 /\ wbuf' = wbuf /\ wire' = wire
         /\ BatchHasData' = BatchHasData
      \/ /\ BatchHasData /\ wbuf' = KeepAlive
         /\ \/ fails' = fails /\ wire' = wire \o <<wbuf>> \o <<KeepAlive>>
            \/ fails' = fails + 1 /\ wire' = wire \o <<wbuf>>
      \/ /\ ~BatchHasData /\ wbuf' = KeepAlive
         /\ \/ fails' = fails /\ wire' = wire \o <<KeepAlive>>
            \/ fails' = fails + 1 /\ wire' = wire
  <2>1. CASE BatchHasData /\ Fails(Contents(wbuf)) /\ UNCHANGED <<wbuf, count, wire>>
    BY <1>1, <2>1 DEF Fails, BatchHasData
  <2>2. CASE BatchHasData /\ Flush(<<wbuf>>, KeepAlive, {}) /\ wbuf' = KeepAlive
    BY <1>0, <1>1, <2>2, FlushBehind
  <2>3. CASE ~BatchHasData /\ Flush(<< >>, KeepAlive, {}) /\ wbuf' = KeepAlive
    BY <1>0, <1>1, <2>3, FlushAlone
  <2> QED
    BY <2>1, <2>2, <2>3 DEF SendKeepAlive
<1>5. ASSUME NEW b \in Nat, NEW S \in {{}, ChannelsOf(wbuf)}, fails' # fails => S = {},
             ~BatchHasData => S = {}, Tracks(wire, sn, wbuf, BatchHasData, b, S)
      PROVE  Tracks(wire', sn', wbuf', BatchHasData', b, {})
  <2>1. CASE /\ BatchHasData /\ fails' = fails + 1 /\ wbuf' = wbuf /\ wire' = wire
             /\ BatchHasData' = BatchHasData
    <3>1. S = {}
      BY <1>0, <1>5, <2>1
    <3> QED
      BY <1>1, <1>5, <2>1, <3>1
  <2>2. CASE /\ BatchHasData /\ wbuf' = KeepAlive
             /\ \/ fails' = fails /\ wire' = wire \o <<wbuf>> \o <<KeepAlive>>
                \/ fails' = fails + 1 /\ wire' = wire \o <<wbuf>>
    <3>1. wbuf.kind # "keepAlive"
      BY <1>0, <2>2, PacketContents
    <3>2. S \ {wbuf.rel} = {}
      BY <3>1 DEF ChannelsOf
    <3>3. Tracks(wire \o <<wbuf>>, sn, wbuf, FALSE, b, S \ {wbuf.rel})
      BY <1>0, <1>5, <3>1, TracksSend
    <3> PICK y : y = wire \o <<wbuf>>
      OBVIOUS
    <3>4. y \in Seq(Packets)
      BY <1>0
    <3>5. Tracks(y, sn, wbuf, FALSE, b, {})
      BY <3>2, <3>3
    <3>6. Tracks(y, sn, KeepAlive, BatchHasData', b, {})
      BY <3>5, TracksForget
    <3>7. Tracks(y \o <<KeepAlive>>, sn, KeepAlive, BatchHasData', b, {})
      BY <3>4, <3>6, TracksIdle
    <3> QED
      BY <1>1, <2>2, <3>6, <3>7
  <2>3. CASE /\ ~BatchHasData /\ wbuf' = KeepAlive
             /\ \/ fails' = fails /\ wire' = wire \o <<KeepAlive>>
                \/ fails' = fails + 1 /\ wire' = wire
    <3>1. S = {}
      BY <1>5, <2>3
    <3>2. Tracks(wire, sn, wbuf, BatchHasData, b, {})
      BY <1>5, <3>1
    <3>3. Tracks(wire, sn, KeepAlive, BatchHasData', b, {})
      BY <3>2, TracksForget
    <3>4. Tracks(wire \o <<KeepAlive>>, sn, KeepAlive, BatchHasData', b, {})
      BY <1>0, <3>3, TracksIdle
    <3> QED
      BY <1>1, <2>3, <3>3, <3>4
  <2> QED
    BY <1>4, <2>1, <2>2, <2>3
<1>6. CallTracks
  BY <1>3, <1>5 DEF CallTracks
<1>7. TxInv' /\ fails' \in {fails, fails + 1}
  BY <1>4, KeepAliveStep
<1> QED
  BY <1>1, <1>2, <1>6, <1>7, CallEnds

\* The first half of a send: it takes a number only if the batch is empty.
LEMMA BeginsTracked ==
    ASSUME TxInv, TxTracked, NEW t \in Threads, NEW m \in Messages, SendBegins(t, m) PROVE TxTracked'
<1> PICK r : r = m.rel
  OBVIOUS
<1>0. /\ wire \in Seq(Packets) /\ sn \in [Rel -> 0 .. SnRes] /\ wbuf \in Packets
      /\ fails \in Nat /\ Len(msgs) \in Nat /\ SnRes \in Nat
      /\ BatchHasData => wbuf \in TxFrames
  BY TrackedTypes
<1>a. msgs \in Seq(Messages) /\ pc \in [Threads -> TxPcs] /\ TxEncoded
      /\ cur \in [Threads -> [id : Nat, has : BOOLEAN, fits : BOOLEAN]]
  BY DEF TxInv, TxTypeOK
<1> PICK has \in BOOLEAN : has = BatchHasData
  BY DEF BatchHasData
<1> PICK base : base = IF has THEN wbuf ELSE Frame(m.rel, sn[m.rel], << >>)
  OBVIOUS
<1>b. \A units : (units <= Cap) \in BOOLEAN
  OBVIOUS
<1> PICK fits \in BOOLEAN : fits = (UnitsOf(base.content) + m.size <= Cap)
  BY <1>b, Zenon
<1> PICK id : id = Len(msgs) + 1
  OBVIOUS
<1>1. /\ pc[t] = "idle" /\ mutex = NoThread /\ pc' = [pc EXCEPT ![t] = "encoded"]
      /\ cur' = [cur EXCEPT ![t] = [id |-> id, has |-> has, fits |-> fits]]
      /\ msgs' = Append(msgs, m) /\ Race(t)
      /\ sn' = IF has THEN sn ELSE [sn EXCEPT ![m.rel] = Increment(SnRes, @)]
      /\ wbuf' = IF fits THEN [base EXCEPT !.content = Append(@, id)] ELSE base
      /\ batching' = batching /\ wire' = wire /\ fails' = fails
  BY DEF SendBegins
<1>2. r \in Rel /\ sn[r] \in 0 .. SnRes
  BY <1>0 DEF Messages
<1> PICK v : v = wbuf'
  OBVIOUS
<1>3. /\ v.kind # "keepAlive" /\ ChannelsOf(v) = {v.rel}
      /\ has => v.rel = wbuf.rel /\ v.sn = wbuf.sn /\ wbuf.kind # "keepAlive"
      /\ ~has => v.rel = r /\ v.sn = sn[r]
  <2>1. base \in TxFrames
    <3>1. CASE has
      BY <1>0, <3>1
    <3>2. CASE ~has
      <4>1. << >> \in Seq(Nat)
        OBVIOUS
      <4> QED
        BY <1>2, <3>2, <4>1, PacketContents
    <3> QED
      BY <3>1, <3>2
  <2>2. \A c : \A p \in TxFrames :
            LET q == [p EXCEPT !.content = c]
            IN  q.rel = p.rel /\ q.sn = p.sn /\ q.kind = p.kind
    BY DEF TxFrames
  <2>3. v.rel = base.rel /\ v.sn = base.sn /\ v.kind = base.kind
    BY <1>1, <2>1, <2>2
  <2>4. base.kind = "frame"
    BY <2>1, PacketContents
  <2>5. ~has => base.rel = r /\ base.sn = sn[r]
    BY DEF Frame
  <2> QED
    BY <2>3, <2>4, <2>5 DEF ChannelsOf
<1>4. Encoding' /\ Due' /\ Fresh' = TRUE /\ (BehindBatch' <=> has)
  <2>1. \A u \in Threads : pc[u] # "encoded"
    BY <1>1, <1>a, UnicastTxAssumption DEF TxEncoded
  <2>2. \A u \in Threads : pc'[u] = "encoded" <=> u = t
    BY <1>1, <1>a, <2>1
  <2>3. cur'[t].has = has
    BY <1>1, <1>a
  <2>4. BehindBatch' <=> has
    BY <2>2, <2>3 DEF BehindBatch
  <2>5. Encoding'
    BY <2>2 DEF Encoding
  <2> QED
    BY <2>4, <2>5 DEF Due, Fresh
<1>5. /\ Len(msgs) < SnRes => Tracks(wire, sn, wbuf, has, Len(msgs), {})
      /\ ~raced /\ fails < SnRes =>
           Tracks(wire, sn, wbuf, has, fails, IF Due THEN ChannelsOf(wbuf) ELSE {})
      /\ Due => count > 0 /\ (batching \/ Stopping)
  BY <1>1, FreeTracked
<1>6. ~raced' => ~raced /\ (Due => has)
  <2>1. ~raced' => ~Stopping /\ ~raced
    BY <1>1, AtIdle DEF Race
  <2> QED
    BY <1>5, <2>1 DEF BatchHasData
<1>7. Len(msgs') = Len(msgs) + 1
  BY <1>1, <1>a
<1>8. CASE has
  <2>0. sn' = sn
    BY <1>1, <1>8
  <2>1. ASSUME NEW b \in Nat, NEW S, Tracks(wire, sn, wbuf, has, b, S)
        PROVE  Tracks(wire', sn', wbuf', TRUE, b, S)
    <3>1. Tracks(wire, sn, wbuf, TRUE, b, S)
      BY <1>8, <2>1
    <3>2. Tracks(wire, sn, v, TRUE, b, S)
      BY <1>3, <1>8, <3>1, TracksRewrite
    <3> QED
      BY <1>1, <2>0, <3>2
  <2>2. ASSUME Len(msgs') < SnRes PROVE Tracks(wire', sn', wbuf', TRUE, Len(msgs') - 1, {})
    <3>1. Len(msgs) < SnRes /\ Len(msgs') - 1 = Len(msgs)
      BY <1>0, <1>7, <2>2
    <3>2. Tracks(wire', sn', wbuf', TRUE, Len(msgs), {})
      BY <1>0, <1>5, <2>1, <3>1
    <3> QED
      BY <3>1, <3>2
  <2>3. ASSUME ~raced', fails < SnRes PROVE Tracks(wire', sn', wbuf', TRUE, fails, ChannelsOf(v))
    <3> PICK S : S = IF Due THEN ChannelsOf(wbuf) ELSE {}
      OBVIOUS
    <3>1. Tracks(wire', sn', wbuf', TRUE, fails, S)
      BY <1>0, <1>5, <1>6, <2>1, <2>3
    <3>2. S \subseteq ChannelsOf(v)
      BY <1>3, <1>8 DEF ChannelsOf
    <3>a. wire' = wire /\ sn' = sn /\ wbuf' = v
      BY <1>1, <2>0
    <3>b. fails \in Int
      BY <1>0
    <3>3. Tracks(wire, sn, v, TRUE, fails, S)
      BY <3>1, <3>a
    <3>4. Tracks(wire, sn, v, TRUE, fails, ChannelsOf(v))
      BY <1>0, <3>2, <3>3, <3>b, TracksWeaken
    <3> QED
      BY <1>1, <2>0, <3>4
  <2> QED
    BY <1>1, <1>4, <1>8, <2>2, <2>3, TrackedPrimed DEF TxTracked
<1>9. CASE ~has
  <2> PICK z : z = sn'
    OBVIOUS
  <2>0. z \in [Rel -> 0 .. SnRes] /\ NumbersSet(z, sn, r, Increment(SnRes, sn[r]))
    <3>1. Increment(SnRes, sn[r]) \in 0 .. SnRes
      BY <1>2, SeqNumAssumption DEF Increment
    <3>2. z = [sn EXCEPT ![r] = Increment(SnRes, @)]
      BY <1>1, <1>9
    <3> QED
      BY <1>0, <1>2, <3>1, <3>2 DEF NumbersSet
  <2>1. ASSUME NEW b \in Nat, b < SnRes, Tracks(wire, sn, wbuf, has, b, {})
        PROVE  Tracks(wire, z, v, TRUE, b, {r})
    <3>1. r \notin {} /\ {} \cup {r} = {r} /\ OnChannel(v, r) /\ v.sn = sn[r]
      BY <1>3, <1>9 DEF OnChannel
    <3>2. Tracks(wire, z, v, TRUE, b, {} \cup {r})
      BY <1>0, <1>2, <2>0, <2>1, <3>1, TracksTake
    <3> QED
      BY <3>1, <3>2
  <2>2. ASSUME Len(msgs') < SnRes PROVE Tracks(wire', sn', wbuf', TRUE, Len(msgs'), {})
    <3> PICK c \in Int : c = Len(msgs')
      BY <1>0, <1>7
    <3> PICK b \in Nat : b = Len(msgs)
      BY <1>0
    <3>1. b < SnRes /\ b < c /\ b \in Int
      BY <1>0, <1>7, <2>2
    <3>2. Tracks(wire, z, v, TRUE, b, {r})
      BY <1>5, <2>1, <3>1
    <3>3. Tracks(wire, z, v, TRUE, c, {})
      BY <1>0, <2>0, <3>1, <3>2, TracksWeaken
    <3> QED
      BY <1>1, <3>3
  <2>3. ASSUME ~raced', fails < SnRes PROVE Tracks(wire', sn', wbuf', TRUE, fails, ChannelsOf(v))
    <3>1. ~Due /\ Tracks(wire, sn, wbuf, has, fails, {})
      BY <1>5, <1>6, <1>9, <2>3
    <3>2. Tracks(wire, z, v, TRUE, fails, {r}) /\ ChannelsOf(v) = {r}
      BY <1>0, <1>3, <1>9, <2>1, <2>3, <3>1
    <3> QED
      BY <1>1, <3>2
  <2> QED
    BY <1>1, <1>4, <1>9, <2>2, <2>3, TrackedPrimed DEF TxTracked
<1> QED
  BY <1>8, <1>9

\* The batching calls that run without the mutex.
LEMMA BatchingTracked ==
    ASSUME TxInv, TxTracked, NEW t \in Threads,
           StartBegins(t) \/ StartEnds(t) \/ StopBatching(t) \/ FlushBegins(t)
    PROVE  TxTracked'
<1>0. pc \in [Threads -> TxPcs] /\ batching \in BOOLEAN /\ count \in Nat
  BY DEF TxInv, TxTypeOK
<1>1. /\ UNCHANGED <<sn, wbuf, cur, msgs, wire, fails>> /\ pc[t] # "encoded" /\ (~raced' => ~raced)
      /\ \E p \in {"idle", "starting", "stopped", "flushing"} : pc' = [pc EXCEPT ![t] = p]
      /\ BatchHasData' => BatchHasData
  <2>1. CASE StartBegins(t)
    BY <2>1 DEF StartBegins, txState, Race, BatchHasData
  <2>2. CASE StartEnds(t)
    BY <2>2 DEF StartEnds, txHistory, BatchHasData
  <2>3. CASE StopBatching(t)
    BY <2>3 DEF StopBatching, txHistory, BatchHasData
  <2>4. CASE FlushBegins(t)
    BY <2>4 DEF FlushBegins, txState, txHistory, BatchHasData
  <2> QED
    BY <2>1, <2>2, <2>3, <2>4
<1>2. \A u \in Threads : pc'[u] = "encoded" <=> pc[u] = "encoded"
  BY <1>0, <1>1
<1>3. (Encoding' <=> Encoding) /\ (BehindBatch' <=> BehindBatch)
  BY <1>1, <1>2 DEF Encoding, BehindBatch
<1>4. Fresh' \in BOOLEAN /\ (Fresh' => Fresh)
  BY <1>1, <1>3 DEF Fresh
<1>5. ASSUME ~raced', Due PROVE Due'
  <2>0. CASE Encoding
    BY <1>3, <2>0 DEF Due
  <2>a. CASE ~Encoding
    <3>0. count > 0 /\ (batching \/ Stopping) /\ \A u \in Threads : pc[u] # "starting"
      BY <1>5, <2>a DEF Due
    <3>1. CASE StartBegins(t)
      <4>1. pc[t] = "idle" /\ ~batching /\ Race(t)
        BY <3>1 DEF StartBegins
      <4>2. ~Stopping
        BY <1>5, <4>1, AtIdle
      <4> QED
        BY <3>0, <4>1, <4>2
    <3>2. CASE StartEnds(t)
      BY <3>0, <3>2 DEF StartEnds
    <3>3. CASE StopBatching(t)
      <4>1. count' = count /\ pc' = [pc EXCEPT ![t] = "stopped"]
        BY <3>3 DEF StopBatching
      <4>2. \A u \in Threads : pc'[u] # "starting"
        BY <1>0, <3>0, <4>1
      <4>3. Stopping'
        BY <1>0, <4>1 DEF Stopping
      <4> QED
        BY <3>0, <4>1, <4>2, <4>3 DEF Due
    <3>4. CASE FlushBegins(t)
      <4>1. count' = count /\ batching' = batching /\ pc' = [pc EXCEPT ![t] = "flushing"]
        BY <3>0, <3>4 DEF FlushBegins, txState
      <4>2. \A u \in Threads : pc'[u] # "starting"
        BY <1>0, <3>0, <4>1
      <4>3. Stopping'
        BY <1>0, <4>1 DEF Stopping
      <4> QED
        BY <3>0, <4>1, <4>2, <4>3 DEF Due
    <3> QED
      BY <3>1, <3>2, <3>3, <3>4
  <2> QED
    BY <2>0, <2>a
<1> QED
  BY <1>1, <1>3, <1>4, <1>5, TrackedStays

\* The sender keeps both promises, for any threads, sizes of messages, capacity of
\* the buffer and resolution of the sequence numbers: the numbers that
\* _z_transport_tx_send_n_msg and its fragments put on the wire advance and skip one
\* only for a failure of the link or a batching call that overlaps a send, and a
\* message whose send succeeded is on the wire, in the batch, or reported as failed.
THEOREM SenderRightAlways == TxSpec => []SenderRight
<1>1. TxInit => TxTracked
  <2> SUFFICES ASSUME TxInit PROVE TxTracked
    OBVIOUS
  <2>1. wire = << >> /\ wbuf = KeepAlive /\ DOMAIN wire = {} /\ wbuf.kind = "keepAlive"
    BY DEF TxInit, KeepAlive
  <2>2. \A fresh, b, S : Tracks(wire, sn, wbuf, fresh, b, S)
    BY <2>1 DEF Tracks, Numbered
  <2> QED
    BY <2>2 DEF TxTracked, TrackedAlways, TrackedQuiet
<1>2. TxInv /\ TxTracked /\ [TxNext]_txVars => TxTracked'
  <2> SUFFICES ASSUME TxInv, TxTracked, [TxNext]_txVars PROVE TxTracked'
    OBVIOUS
  <2>1. ASSUME NEW t \in Threads, TxStep(t) PROVE TxTracked'
    BY <2>1, BeginsTracked, BatchedTracked, FlushedTracked, FragmentedTracked, OverflowsTracked,
       KeepAliveTracked, BatchingTracked, FlushEndsTracked DEF TxStep
  <2>2. CASE UNCHANGED txVars
    <3>1. UNCHANGED <<sn, wbuf, batching, count, pc, cur, msgs, wire, raced, fails>>
      BY <2>2 DEF txVars, txState, txHistory
    <3>2. (Encoding' <=> Encoding) /\ (BehindBatch' <=> BehindBatch)
          /\ (BatchHasData' <=> BatchHasData) /\ (Stopping' <=> Stopping)
      BY <3>1 DEF Encoding, BehindBatch, BatchHasData, Stopping
    <3>3. (Due' <=> Due) /\ (Fresh' <=> Fresh) /\ Fresh' \in BOOLEAN
      BY <3>1, <3>2 DEF Due, Fresh
    <3> QED
      BY <3>1, <3>2, <3>3, TrackedStays
  <2> QED
    BY <2>1, <2>2 DEF TxNext
<1>3. TxInv /\ TxTracked => WireNumbered
  <2> SUFFICES ASSUME TxInv, TxTracked PROVE WireNumbered
    OBVIOUS
  <2>0. Len(msgs) \in Nat /\ wire \in Seq(Packets) /\ sn \in [Rel -> 0 .. SnRes] /\ Fresh \in BOOLEAN
    BY TrackedTypes
  <2>1. ASSUME NEW k \in DOMAIN wire, wire[k].kind # "keepAlive", NEW i \in 1 .. k - 1,
               LastBefore(wire[k].rel, i, k)
        PROVE  wire[k].rel \in Rel /\ i \in DOMAIN wire /\ FollowsOn(wire, wire[k].rel, i, k)
    <3>1. wire[k].rel \in Rel
      BY <2>0, <2>1, ChannelNumbers
    <3>2. i \in DOMAIN wire /\ i < k
      BY <2>0
    <3> QED
      BY <2>1, <3>1, <3>2 DEF FollowsOn, LastBefore, OnChannel
  <2>2. CASE raced
    <3>1. Len(msgs) < SnRes => Numbered(wire, Len(msgs))
      <4>1. SUFFICES ASSUME Len(msgs) < SnRes PROVE Numbered(wire, Len(msgs))
        OBVIOUS
      <4> PICK c \in Int : c = Len(msgs)
        BY <2>0
      <4>2. c - 1 \in Int
        OBVIOUS
      <4> PICK b \in Int : b = IF BehindBatch THEN c - 1 ELSE c
        BY <4>2, Zenon
      <4>3. Tracks(wire, sn, wbuf, Fresh, b, {})
        BY <4>1 DEF TxTracked, TrackedAlways
      <4>4. (b < c \/ (b = c /\ {} \subseteq {})) /\ (Fresh => Fresh)
        OBVIOUS
      <4>5. Tracks(wire, sn, wbuf, Fresh, c, {})
        BY <2>0, <4>3, <4>4, TracksWeaken
      <4> QED
        BY <4>5 DEF Tracks
    <3> QED
      BY <2>1, <2>2, <3>1 DEF Numbered, WireNumbered
  <2>3. CASE ~raced
    <3>1. fails < SnRes => Numbered(wire, fails)
      BY <2>3 DEF TxTracked, TrackedQuiet, Tracks
    <3> QED
      BY <2>1, <2>3, <3>1 DEF Numbered, WireNumbered
  <2> QED
    BY <2>2, <2>3
<1>4. TxInv => NoSilentLoss
  BY DEF TxInv, TxQuiet, Unsent, NoSilentLoss, Waiting
<1>5. TxInv /\ TxTracked => SenderRight
  BY <1>3, <1>4 DEF SenderRight
<1>6. (TxInit => TxInv) /\ (TxInv /\ [TxNext]_txVars => TxInv')
  BY TxInvHolds
<1> QED
  BY <1>1, <1>2, <1>5, <1>6, PTL DEF TxSpec
=============================================================================
