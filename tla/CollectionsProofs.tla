-------------------------- MODULE CollectionsProofs --------------------------
(***************************************************************************)
(* The collections, for any number of threads and any capacity: the counted *)
(* references, the sync group (whose state whoever goes last clears, and   *)
(* which implements SyncGroupSpec), the FIFO and ring channels (what is    *)
(* received is what was sent, in order and once), and the priority queue   *)
(* (which implements PQueueSpec).                                          *)
(***************************************************************************)
EXTENDS RefCount, SyncGroup, Channel, HeapPQueue, PQueueProofs

(***************************************************************************)
(* References.                                                             *)
(***************************************************************************)
Count(f, s) == Cardinality({r \in Refs : f[r] = s})

\* The fake weak reference that stands for the strong ones is still counted.
FakeWeak == IF strongCnt > 0 \/ \E r \in Refs : ref[r] = "last" THEN 1 ELSE 0

\* The inductive invariant.  Each count is that of the references plus what was
\* lost; while the strong count is positive nobody clears the value; once it is
\* 0 one reference is on its way to, or the value is cleared; the counters are
\* freed when the weak count is 0; and a reference is borrowed while upgraded.
CountsExact ==
    /\ strongCnt = Count(ref, "strong") + lostStrong
    /\ weakCnt = Count(ref, "weak") + lostWeak + FakeWeak
Clearing(r) == ref[r] \in {"last", "clear"}
OneClears ==
    /\ \A r \in Refs : Clearing(r) => strongCnt = 0 /\ value = "alive"
    /\ \A r, s \in Refs : Clearing(r) /\ Clearing(s) => r = s
    /\ strongCnt > 0 => value = "alive"
    /\ strongCnt = 0 => value = "cleared" \/ \E r \in Refs : Clearing(r)
FreedAtZero == counters = "freed" <=> weakCnt = 0
Borrowed    == \A r \in Refs : ref[r] = "upgrading" => ref[lender[r]] = "weak"

RcInv == RcTypeOK /\ CountsExact /\ OneClears /\ FreedAtZero /\ Borrowed

-----------------------------------------------------------------------------
\* How many references are in a state is a number, positive if one is.
LEMMA CountType ==
    ASSUME NEW f, NEW s
    PROVE  /\ Count(f, s) \in Nat
           /\ Count(f, s) > 0 <=> \E r \in Refs : f[r] = s
<1> DEFINE S == {r \in Refs : f[r] = s}
<1>1. IsFiniteSet(S)
  BY RefsAssumption, FS_Subset
<1>2. Cardinality(S) \in Nat
  BY <1>1, FS_CardinalityType
<1>3. Cardinality(S) = 0 <=> S = {}
  BY <1>1, FS_EmptySet
<1>4. S = {} <=> ~ \E r \in Refs : f[r] = s
  OBVIOUS
<1>5. QED
  BY <1>2, <1>3, <1>4 DEF Count

\* A reference that changes its state is counted in the new state instead of the
\* old one (the assignments to the variables of the references).
LEMMA CountMoves ==
    ASSUME RcTypeOK, NEW r \in Refs, NEW to \in RefStates, ref[r] # to, ref' = [ref EXCEPT ![r] = to],
           NEW s \in RefStates
    PROVE  Count(ref', s) = IF s = to THEN Count(ref, s) + 1
                            ELSE IF s = ref[r] THEN Count(ref, s) - 1 ELSE Count(ref, s)
<1> DEFINE S == {x \in Refs : ref[x] = s}
<1> DEFINE T == {x \in Refs : ref'[x] = s}
<1>1. IsFiniteSet(S)
  BY RefsAssumption, FS_Subset
<1>2. CASE s = to
  <2>1. T = S \cup {r} /\ r \notin S
    BY <1>2 DEF RcTypeOK
  <2>2. QED
    BY <1>1, <1>2, <2>1, FS_AddElement DEF Count
<1>3. CASE s # to /\ s = ref[r]
  <2>1. T = S \ {r} /\ r \in S
    BY <1>3 DEF RcTypeOK
  <2>2. QED
    BY <1>1, <1>3, <2>1, FS_RemoveElement DEF Count
<1>4. CASE s # to /\ s # ref[r]
  <2>1. T = S
    BY <1>4 DEF RcTypeOK
  <2>2. QED
    BY <1>4, <2>1 DEF Count
<1>5. QED
  BY <1>2, <1>3, <1>4

\* The same for the two states that are counted.
LEMMA CountsMove ==
    ASSUME RcTypeOK, NEW r \in Refs, NEW from \in RefStates, NEW to \in RefStates, from # to,
           ref[r] = from, ref' = [ref EXCEPT ![r] = to]
    PROVE  \A s \in {"strong", "weak"} :
               Count(ref', s) = IF s = to THEN Count(ref, s) + 1
                                ELSE IF s = from THEN Count(ref, s) - 1 ELSE Count(ref, s)
<1> SUFFICES ASSUME NEW s \in {"strong", "weak"}
             PROVE  Count(ref', s) = IF s = to THEN Count(ref, s) + 1
                                     ELSE IF s = from THEN Count(ref, s) - 1 ELSE Count(ref, s)
  OBVIOUS
<1>1. s \in RefStates /\ ref[r] # to
  BY DEF RefStates
<1>2. Count(ref', s) = IF s = to THEN Count(ref, s) + 1
                       ELSE IF s = ref[r] THEN Count(ref, s) - 1 ELSE Count(ref, s)
  BY <1>1, CountMoves, Zenon
<1>3. QED
  BY <1>2

-----------------------------------------------------------------------------
\* _z_rc_init establishes the invariant.
LEMMA RcInitInv == RcInit => RcInv
<1> SUFFICES ASSUME RcInit PROVE RcInv
  OBVIOUS
<1>1. RcTypeOK
  BY RefsAssumption DEF RcInit, RcTypeOK, RefStates
<1>2. Count(ref, "strong") = 1
  <2>1. {r \in Refs : ref[r] = "strong"} = {FirstRef}
    BY RefsAssumption DEF RcInit
  <2>2. QED
    BY <2>1, FS_Singleton DEF Count
<1>3. Count(ref, "weak") = 0
  <2>1. {r \in Refs : ref[r] = "weak"} = {}
    BY DEF RcInit
  <2>2. QED
    BY <2>1, FS_EmptySet DEF Count
<1>4. QED
  BY <1>1, <1>2, <1>3 DEF RcInit, RcInv, CountsExact, FakeWeak, OneClears, Clearing, FreedAtZero, Borrowed

\* Every operation of refcount.c preserves it.
LEMMA RcStepInv == RcInv /\ [RcNext]_rcVars => RcInv'
<1> SUFFICES ASSUME RcInv, [RcNext]_rcVars PROVE RcInv'
  OBVIOUS
<1> USE DEF RcTypeOK, RefStates
<1>0. /\ RcTypeOK /\ CountsExact /\ OneClears /\ FreedAtZero /\ Borrowed
      /\ FakeWeak \in {0, 1}
  BY DEF RcInv, FakeWeak
<1>c. /\ Count(ref, "strong") \in Nat /\ Count(ref, "weak") \in Nat
      /\ Count(ref, "strong") > 0 <=> \E r \in Refs : ref[r] = "strong"
      /\ Count(ref, "weak") > 0 <=> \E r \in Refs : ref[r] = "weak"
  BY CountType
<1>1. ASSUME NEW r \in Refs, NEW new \in Refs, CloneStrong(r, new) PROVE RcInv'
  <2>1. strongCnt > 0 /\ strongCnt' = strongCnt + 1
    BY <1>0, <1>1, <1>c DEF CloneStrong, CountsExact
  <2>2. RcTypeOK'
    BY <1>0, <1>1 DEF CloneStrong
  <2>3. CountsExact'
    <3>1. CASE strongCnt < MaxCount
      <4>1. /\ Count(ref', "strong") = Count(ref, "strong") + 1
            /\ Count(ref', "weak") = Count(ref, "weak")
        <5>1. ref[new] = "null" /\ ref' = [ref EXCEPT ![new] = "strong"]
          BY <1>1, <3>1 DEF CloneStrong
        <5>2. \A s \in {"strong", "weak"} :
                  Count(ref', s) = IF s = "strong" THEN Count(ref, s) + 1
                                   ELSE IF s = "null" THEN Count(ref, s) - 1 ELSE Count(ref, s)
          BY <1>0, <5>1, CountsMove, Zenon
        <5>3. QED
          BY <5>2
      <4>2. FakeWeak' = FakeWeak
        BY <1>0, <1>1, <2>1, <3>1 DEF CloneStrong, FakeWeak
      <4>3. QED
        BY <1>0, <1>1, <1>c, <3>1, <4>1, <4>2 DEF CloneStrong, CountsExact
    <3>2. CASE ~(strongCnt < MaxCount)
      <4>1. FakeWeak' = FakeWeak
        BY <1>0, <1>1, <2>1, <3>2 DEF CloneStrong, FakeWeak
      <4>2. QED
        BY <1>0, <1>1, <1>c, <3>2, <4>1 DEF CloneStrong, CountsExact
    <3>3. QED
      BY <3>1, <3>2
  <2>4. OneClears' /\ FreedAtZero' /\ Borrowed'
    BY <1>0, <1>1, <2>1 DEF CloneStrong, OneClears, Clearing, FreedAtZero, Borrowed
  <2>5. QED
    BY <2>2, <2>3, <2>4 DEF RcInv
<1>2. ASSUME NEW r \in Refs, NEW new \in Refs, CloneWeak(r, new) PROVE RcInv'
  <2>1. weakCnt > 0 /\ weakCnt' = weakCnt + 1
    BY <1>0, <1>2, <1>c DEF CloneWeak, CountsExact, FakeWeak
  <2>2. RcTypeOK'
    BY <1>0, <1>2 DEF CloneWeak
  <2>f. FakeWeak' = FakeWeak
    BY <1>0, <1>2 DEF CloneWeak, FakeWeak
  <2>3. CountsExact'
    <3>1. CASE weakCnt < MaxCount
      <4>1. /\ Count(ref', "weak") = Count(ref, "weak") + 1
            /\ Count(ref', "strong") = Count(ref, "strong")
        <5>1. ref[new] = "null" /\ ref' = [ref EXCEPT ![new] = "weak"]
          BY <1>2, <3>1 DEF CloneWeak
        <5>2. \A s \in {"strong", "weak"} :
                  Count(ref', s) = IF s = "weak" THEN Count(ref, s) + 1
                                   ELSE IF s = "null" THEN Count(ref, s) - 1 ELSE Count(ref, s)
          BY <1>0, <5>1, CountsMove, Zenon
        <5>3. QED
          BY <5>2
      <4>2. QED
        BY <1>0, <1>2, <1>c, <2>f, <3>1, <4>1 DEF CloneWeak, CountsExact
    <3>2. CASE ~(weakCnt < MaxCount)
      BY <1>0, <1>2, <1>c, <2>f, <3>2 DEF CloneWeak, CountsExact
    <3>3. QED
      BY <3>1, <3>2
  <2>4. OneClears' /\ FreedAtZero' /\ Borrowed'
    BY <1>0, <1>2, <2>1 DEF CloneWeak, OneClears, Clearing, FreedAtZero, Borrowed
  <2>5. QED
    BY <2>2, <2>3, <2>4 DEF RcInv
<1>3. ASSUME NEW r \in Refs, NEW new \in Refs, Upgrade(r, new) PROVE RcInv'
  <2>1. RcTypeOK'
    BY <1>0, <1>3 DEF Upgrade
  <2>2. /\ Count(ref', "weak") = Count(ref, "weak")
        /\ Count(ref', "strong") = Count(ref, "strong")
    <3>1. ref[new] = "null" /\ ref' = [ref EXCEPT ![new] = "upgrading"]
      BY <1>3 DEF Upgrade
    <3>2. \A s \in {"strong", "weak"} :
              Count(ref', s) = IF s = "upgrading" THEN Count(ref, s) + 1
                               ELSE IF s = "null" THEN Count(ref, s) - 1 ELSE Count(ref, s)
      BY <1>0, <3>1, CountsMove, Zenon
    <3>3. QED
      BY <3>2
  <2>3. FakeWeak' = FakeWeak
    BY <1>0, <1>3 DEF Upgrade, FakeWeak
  <2>4. CountsExact'
    BY <1>0, <1>3, <2>2, <2>3 DEF Upgrade, CountsExact
  <2>5. OneClears' /\ FreedAtZero' /\ Borrowed'
    BY <1>0, <1>3 DEF Upgrade, OneClears, Clearing, FreedAtZero, Borrowed
  <2>6. QED
    BY <2>1, <2>4, <2>5 DEF RcInv
<1>4. ASSUME NEW new \in Refs, CompareExchange(new) PROVE RcInv'
  <2>1. CASE UNCHANGED <<ref, strongCnt>>
    <3>1. RcTypeOK'
      BY <1>0, <1>4, <2>1 DEF CompareExchange
    <3>2. CountsExact' /\ OneClears' /\ FreedAtZero' /\ Borrowed'
      BY <1>0, <1>4, <2>1 DEF CompareExchange, CountsExact, FakeWeak, OneClears, Clearing, FreedAtZero, Borrowed
    <3>3. QED
      BY <3>1, <3>2 DEF RcInv
  <2>2. CASE ref' = [ref EXCEPT ![new] = "null"] /\ strongCnt' = strongCnt /\ Forget(new)
    <3>1. RcTypeOK'
      BY <1>0, <1>4, <2>2 DEF CompareExchange, Forget
    <3>2. /\ Count(ref', "weak") = Count(ref, "weak")
          /\ Count(ref', "strong") = Count(ref, "strong")
      <4>1. ref[new] = "upgrading" /\ ref' = [ref EXCEPT ![new] = "null"]
        BY <1>4, <2>2 DEF CompareExchange
      <4>2. \A s \in {"strong", "weak"} :
                Count(ref', s) = IF s = "null" THEN Count(ref, s) + 1
                                 ELSE IF s = "upgrading" THEN Count(ref, s) - 1 ELSE Count(ref, s)
        BY <1>0, <4>1, CountsMove, Zenon
      <4>3. QED
        BY <4>2
    <3>3. FakeWeak' = FakeWeak
      BY <1>0, <1>4, <2>2 DEF CompareExchange, FakeWeak
    <3>4. CountsExact'
      BY <1>0, <1>4, <2>2, <3>2, <3>3 DEF CompareExchange, CountsExact
    <3>5. OneClears' /\ FreedAtZero' /\ Borrowed'
      BY <1>0, <1>4, <2>2 DEF CompareExchange, Forget, OneClears, Clearing, FreedAtZero, Borrowed
    <3>6. QED
      BY <3>1, <3>4, <3>5 DEF RcInv
  <2>3. CASE /\ prev[new] # 0 /\ prev[new] = strongCnt
             /\ ref' = [ref EXCEPT ![new] = "strong"] /\ strongCnt' = strongCnt + 1 /\ Forget(new)
    <3>1. RcTypeOK'
      BY <1>0, <1>4, <2>3 DEF CompareExchange, Forget
    <3>2. /\ Count(ref', "weak") = Count(ref, "weak")
          /\ Count(ref', "strong") = Count(ref, "strong") + 1
      <4>1. ref[new] = "upgrading" /\ ref' = [ref EXCEPT ![new] = "strong"]
        BY <1>4, <2>3 DEF CompareExchange
      <4>2. \A s \in {"strong", "weak"} :
                Count(ref', s) = IF s = "strong" THEN Count(ref, s) + 1
                                 ELSE IF s = "upgrading" THEN Count(ref, s) - 1 ELSE Count(ref, s)
        BY <1>0, <4>1, CountsMove, Zenon
      <4>3. QED
        BY <4>2
    <3>3. strongCnt > 0
      BY <1>0, <2>3
    <3>4. FakeWeak' = FakeWeak
      BY <1>0, <2>3, <3>3 DEF FakeWeak
    <3>5. CountsExact'
      BY <1>0, <1>4, <1>c, <2>3, <3>2, <3>4 DEF CompareExchange, CountsExact
    <3>6. OneClears' /\ FreedAtZero' /\ Borrowed'
      BY <1>0, <1>4, <2>3, <3>3 DEF CompareExchange, Forget, OneClears, Clearing, FreedAtZero, Borrowed
    <3>7. QED
      BY <3>1, <3>5, <3>6 DEF RcInv
  <2>4. QED
    BY <1>4, <2>1, <2>2, <2>3 DEF CompareExchange
<1>5. ASSUME NEW r \in Refs, DropStrong(r) PROVE RcInv'
  <2>1. strongCnt > 0 /\ strongCnt' = strongCnt - 1
    BY <1>0, <1>5, <1>c DEF DropStrong, CountsExact
  <2>2. RcTypeOK'
    BY <1>0, <1>5, <2>1 DEF DropStrong
  <2>3. /\ Count(ref', "strong") = Count(ref, "strong") - 1
        /\ Count(ref', "weak") = Count(ref, "weak")
    <3>1. PICK to \in {"null", "last"} : ref[r] = "strong" /\ ref' = [ref EXCEPT ![r] = to]
      BY <1>5 DEF DropStrong
    <3>2. \A s \in {"strong", "weak"} :
              Count(ref', s) = IF s = to THEN Count(ref, s) + 1
                               ELSE IF s = "strong" THEN Count(ref, s) - 1 ELSE Count(ref, s)
      BY <1>0, <3>1, CountsMove, Zenon
    <3>3. QED
      BY <3>2
  <2>4. FakeWeak' = FakeWeak
    BY <1>0, <1>5, <2>1 DEF DropStrong, FakeWeak
  <2>5. CountsExact'
    BY <1>0, <1>5, <1>c, <2>1, <2>3, <2>4 DEF DropStrong, CountsExact
  <2>6. OneClears'
    BY <1>0, <1>5, <2>1 DEF DropStrong, OneClears, Clearing
  <2>7. FreedAtZero' /\ Borrowed'
    BY <1>0, <1>5 DEF DropStrong, FreedAtZero, Borrowed
  <2>8. QED
    BY <2>2, <2>5, <2>6, <2>7 DEF RcInv
<1>6. ASSUME NEW r \in Refs, DropWeak(r) PROVE RcInv'
  <2>1. weakCnt > 0 /\ weakCnt' = weakCnt - 1
    BY <1>0, <1>6, <1>c DEF DropWeak, DecreaseWeak, CountsExact
  <2>2. RcTypeOK'
    BY <1>0, <1>6, <2>1 DEF DropWeak, DecreaseWeak
  <2>3. /\ Count(ref', "weak") = Count(ref, "weak") - 1
        /\ Count(ref', "strong") = Count(ref, "strong")
    <3>1. ref[r] = "weak" /\ ref' = [ref EXCEPT ![r] = "null"]
      BY <1>6 DEF DropWeak
    <3>2. \A s \in {"strong", "weak"} :
              Count(ref', s) = IF s = "null" THEN Count(ref, s) + 1
                               ELSE IF s = "weak" THEN Count(ref, s) - 1 ELSE Count(ref, s)
      BY <1>0, <3>1, CountsMove, Zenon
    <3>3. QED
      BY <3>2
  <2>4. FakeWeak' = FakeWeak
    BY <1>0, <1>6 DEF DropWeak, FakeWeak
  <2>5. CountsExact'
    BY <1>0, <1>6, <1>c, <2>1, <2>3, <2>4 DEF DropWeak, CountsExact
  <2>6. OneClears' /\ Borrowed'
    BY <1>0, <1>6 DEF DropWeak, OneClears, Clearing, Borrowed
  <2>7. FreedAtZero'
    BY <1>0, <1>6, <2>1 DEF DropWeak, DecreaseWeak, FreedAtZero
  <2>8. QED
    BY <2>2, <2>5, <2>6, <2>7 DEF RcInv
<1>7. ASSUME NEW r \in Refs, DropFakeWeak(r) PROVE RcInv'
  <2>0. strongCnt = 0 /\ FakeWeak = 1 /\ FakeWeak' = 0
    BY <1>0, <1>7 DEF DropFakeWeak, FakeWeak, OneClears, Clearing
  <2>1. weakCnt > 0 /\ weakCnt' = weakCnt - 1
    BY <1>0, <1>7, <1>c, <2>0 DEF DropFakeWeak, DecreaseWeak, CountsExact
  <2>2. RcTypeOK'
    BY <1>0, <1>7, <2>1 DEF DropFakeWeak, DecreaseWeak
  <2>3. /\ Count(ref', "weak") = Count(ref, "weak")
        /\ Count(ref', "strong") = Count(ref, "strong")
    <3>1. ref[r] = "last" /\ ref' = [ref EXCEPT ![r] = "clear"]
      BY <1>7 DEF DropFakeWeak
    <3>2. \A s \in {"strong", "weak"} :
              Count(ref', s) = IF s = "clear" THEN Count(ref, s) + 1
                               ELSE IF s = "last" THEN Count(ref, s) - 1 ELSE Count(ref, s)
      BY <1>0, <3>1, CountsMove, Zenon
    <3>3. QED
      BY <3>2
  <2>4. CountsExact'
    BY <1>0, <1>7, <1>c, <2>0, <2>1, <2>3 DEF DropFakeWeak, CountsExact
  <2>5. OneClears' /\ Borrowed'
    BY <1>0, <1>7 DEF DropFakeWeak, OneClears, Clearing, Borrowed
  <2>6. FreedAtZero'
    BY <1>0, <1>7, <2>1 DEF DropFakeWeak, DecreaseWeak, FreedAtZero
  <2>7. QED
    BY <2>2, <2>4, <2>5, <2>6 DEF RcInv
<1>8. ASSUME NEW r \in Refs, ClearValue(r) PROVE RcInv'
  <2>1. RcTypeOK'
    BY <1>0, <1>8 DEF ClearValue
  <2>2. /\ Count(ref', "weak") = Count(ref, "weak")
        /\ Count(ref', "strong") = Count(ref, "strong")
    <3>1. ref[r] = "clear" /\ ref' = [ref EXCEPT ![r] = "null"]
      BY <1>8 DEF ClearValue
    <3>2. \A s \in {"strong", "weak"} :
              Count(ref', s) = IF s = "null" THEN Count(ref, s) + 1
                               ELSE IF s = "clear" THEN Count(ref, s) - 1 ELSE Count(ref, s)
      BY <1>0, <3>1, CountsMove, Zenon
    <3>3. QED
      BY <3>2
  <2>3. FakeWeak' = FakeWeak
    BY <1>0, <1>8 DEF ClearValue, FakeWeak
  <2>4. CountsExact'
    BY <1>0, <1>8, <2>2, <2>3 DEF ClearValue, CountsExact
  <2>5. OneClears' /\ FreedAtZero' /\ Borrowed'
    BY <1>0, <1>8 DEF ClearValue, OneClears, Clearing, FreedAtZero, Borrowed
  <2>6. QED
    BY <2>1, <2>4, <2>5 DEF RcInv
<1>9. CASE UNCHANGED rcVars
  BY <1>0, <1>9 DEF rcVars, RcInv, CountsExact, FakeWeak, OneClears, Clearing, FreedAtZero, Borrowed, Count
<1>10. QED
  BY <1>1, <1>2, <1>3, <1>4, <1>5, <1>6, <1>7, <1>8, <1>9 DEF RcNext

\* The invariant says what RefCountSafe asks.
LEMMA RcInvSafe == RcInv => RefCountSafe
<1> SUFFICES ASSUME RcInv PROVE RefCountSafe
  OBVIOUS
<1>0. RcTypeOK /\ CountsExact /\ OneClears /\ FreedAtZero /\ Borrowed /\ FakeWeak \in {0, 1}
  BY DEF RcInv, FakeWeak
<1>c. /\ Count(ref, "strong") \in Nat /\ Count(ref, "weak") \in Nat
      /\ Count(ref, "strong") > 0 <=> \E r \in Refs : ref[r] = "strong"
      /\ Count(ref, "weak") > 0 <=> \E r \in Refs : ref[r] = "weak"
  BY CountType
<1>1. ASSUME NEW r \in Refs, ref[r] \in {"strong", "weak", "last"} PROVE counters = "allocated"
  <2>1. weakCnt > 0
    BY <1>0, <1>1, <1>c DEF RcTypeOK, CountsExact, FakeWeak
  <2>2. QED
    BY <1>0, <2>1 DEF RcTypeOK, FreedAtZero
<1>2. ASSUME NEW r \in Refs, ref[r] = "upgrading" PROVE counters = "allocated"
  BY <1>0, <1>1, <1>2 DEF RcTypeOK, Borrowed
<1>3. \A r \in Refs : ref[r] \in {"strong", "last", "clear"} => value = "alive"
  BY <1>0, <1>c DEF RcTypeOK, CountsExact, OneClears, Clearing
<1>4. \A r, s \in Refs : ref[r] \in {"last", "clear"} => ref[s] # "strong" /\ (ref[s] \in {"last", "clear"} => r = s)
  BY <1>0, <1>c DEF RcTypeOK, CountsExact, OneClears, Clearing
<1>5. UsesAlive
  BY <1>1, <1>2, <1>3, <1>4 DEF UsesAlive
<1>6. NothingLeft
  <2> SUFFICES ASSUME \A r \in Refs : ref[r] = "null", lostStrong = 0
               PROVE  value = "cleared" /\ (lostWeak = 0 => counters = "freed")
    BY DEF NothingLeft
  <2>1. Count(ref, "strong") = 0 /\ Count(ref, "weak") = 0
    BY <1>c
  <2>2. strongCnt = 0 /\ FakeWeak = 0
    BY <1>0, <2>1 DEF CountsExact, FakeWeak
  <2>3. QED
    BY <1>0, <2>1, <2>2 DEF CountsExact, OneClears, Clearing, FreedAtZero
<1>7. QED
  BY <1>5, <1>6 DEF RefCountSafe

\* However clones, upgrades and drops of strong and weak references interleave,
\* and however many there are: the counters and the value are used only while
\* they exist, the value is cleared by exactly one reference, and nothing is left
\* behind unless a count has overflowed.
THEOREM RefCountIsSafe == RcSpec => []RefCountSafe
<1>1. RcSpec => []RcInv
  BY RcInitInv, RcStepInv, PTL DEF RcSpec
<1>2. QED
  BY <1>1, RcInvSafe, PTL

-----------------------------------------------------------------------------
(***************************************************************************)
(* The sync group.                                                         *)
(***************************************************************************)
\* The inductive invariant.  Only the owner lets threads wait, so that nobody
\* waits once the group is dropped.
NobodyWaits == ~owned => \A t \in Threads : wpc[t] = "idle"

GroupInv == GroupTypeOK /\ ClearedByTheLast /\ NobodyWaits

-----------------------------------------------------------------------------
\* What the strong count says of who holds a strong reference
\* (_z_sync_group_state_rc_t).
LEMMA StrongRefsCount ==
    ASSUME IsFiniteSet(Notifiers), GroupTypeOK
    PROVE  /\ StrongRefs > 0 <=> owned \/ Upgraded # {}
           /\ owned => (StrongRefs = 1 <=> Upgraded = {})
           /\ \A n \in Upgraded : StrongRefs = 1 <=> ~owned /\ Upgraded = {n}
<1>1. IsFiniteSet(Upgraded)
  BY FS_Subset DEF Upgraded
<1>2. Cardinality(Upgraded) \in Nat
  BY <1>1, FS_CardinalityType
<1>3. Cardinality(Upgraded) = 0 <=> Upgraded = {}
  BY <1>1, FS_EmptySet
<1>4. Cardinality(Upgraded) = 1 <=> \E n : Upgraded = {n}
  BY <1>1, FS_Singleton
<1>5. owned \in BOOLEAN
  BY DEF GroupTypeOK
<1>6. ASSUME NEW n \in Upgraded
      PROVE  StrongRefs = 1 <=> ~owned /\ Upgraded = {n}
  <2>1. Cardinality(Upgraded) = 1 <=> Upgraded = {n}
    BY <1>4
  <2>2. Cardinality(Upgraded) > 0
    BY <1>2, <1>3
  <2> QED
    BY <1>2, <1>5, <2>1, <2>2 DEF StrongRefs
<1> QED
  BY <1>2, <1>3, <1>5, <1>6 DEF StrongRefs

\* A wake-up neither ends nor begins a wait (_z_condvar_signal_all).
LEMMA SignalKeeps ==
    ASSUME GroupTypeOK, SignalAll
    PROVE  /\ wpc' \in [Threads -> WaitPC]
           /\ \A t \in Threads : wpc'[t] = "idle" <=> wpc[t] = "idle"
BY DEF GroupTypeOK, SignalAll, WaitPC

\* Every step keeps the types.
LEMMA GroupTypeCorrect ==
    ASSUME GroupTypeOK, [GroupNext]_groupVars
    PROVE  GroupTypeOK'
<1>1. ASSUME NEW n \in Notifiers, CreateNotifier(n) \/ UpgradeNotifier(n) \/ ReleaseNotifier(n)
      PROVE  GroupTypeOK'
  BY <1>1 DEF GroupTypeOK, CreateNotifier, UpgradeNotifier, ReleaseNotifier
<1>2. ASSUME NEW n \in Notifiers, DropNotifier(n)
      PROVE  GroupTypeOK'
  BY <1>2, SignalKeeps DEF GroupTypeOK, DropNotifier
<1>3. ASSUME NEW t \in Threads, Wait(t) \/ WaitDeadline(t) \/ Spurious(t) \/ Expire(t) \/ ExpiredReturns(t)
      PROVE  GroupTypeOK'
  BY <1>3 DEF GroupTypeOK, Wait, WaitDeadline, Spurious, Expire, ExpiredReturns, Return, WaitPC
<1>4. ASSUME NEW t \in Threads, Resume(t)
      PROVE  GroupTypeOK'
  BY <1>4 DEF GroupTypeOK, Resume, Recheck, Return, WaitPC
<1>5. CASE Close
  BY <1>5, SignalKeeps DEF GroupTypeOK, Close
<1>6. CASE DropGroup
  BY <1>6 DEF GroupTypeOK, DropGroup
<1>7. CASE UNCHANGED groupVars
  BY <1>7 DEF GroupTypeOK, groupVars
<1> QED
  BY <1>1, <1>2, <1>3, <1>4, <1>5, <1>6, <1>7 DEF GroupNext

-----------------------------------------------------------------------------
\* Every step keeps the invariant.
LEMMA GroupStepKeeps ==
    ASSUME IsFiniteSet(Notifiers), GroupInv, [GroupNext]_groupVars
    PROVE  GroupInv'
<1> USE DEF GroupInv
<1>0. GroupTypeOK'
  BY GroupTypeCorrect
<1>1. ASSUME NEW n \in Notifiers, CreateNotifier(n)
      PROVE  GroupInv'
  <2>1. Upgraded' = Upgraded
    BY <1>1 DEF GroupTypeOK, CreateNotifier, Upgraded
  <2> QED
    BY <1>0, <1>1, <2>1 DEF CreateNotifier, ClearedByTheLast, NobodyWaits
<1>2. ASSUME NEW n \in Notifiers, UpgradeNotifier(n)
      PROVE  GroupInv'
  <2>1. Upgraded' = IF StrongRefs > 0 THEN Upgraded \cup {n} ELSE Upgraded
    BY <1>2 DEF GroupTypeOK, UpgradeNotifier, Upgraded
  <2>2. StrongRefs > 0 <=> owned \/ Upgraded # {}
    BY StrongRefsCount
  <2> QED
    BY <1>0, <1>2, <2>1, <2>2 DEF UpgradeNotifier, ClearedByTheLast, NobodyWaits
<1>3. ASSUME NEW n \in Notifiers, DropNotifier(n)
      PROVE  GroupInv'
  <2>1. Upgraded' = Upgraded
    BY <1>3 DEF GroupTypeOK, DropNotifier, Upgraded
  <2>2. \A t \in Threads : wpc'[t] = "idle" <=> wpc[t] = "idle"
    BY <1>3, SignalKeeps DEF DropNotifier
  <2> QED
    BY <1>0, <1>3, <2>1, <2>2 DEF DropNotifier, ClearedByTheLast, NobodyWaits
<1>4. ASSUME NEW n \in Notifiers, ReleaseNotifier(n)
      PROVE  GroupInv'
  <2>1. n \in Upgraded /\ Upgraded' = Upgraded \ {n}
    BY <1>4 DEF GroupTypeOK, ReleaseNotifier, Upgraded
  <2>2. StrongRefs = 1 <=> ~owned /\ Upgraded = {n}
    BY <2>1, StrongRefsCount
  <2> QED
    BY <1>0, <1>4, <2>1, <2>2 DEF ReleaseNotifier, ClearedByTheLast, NobodyWaits
<1>5. ASSUME NEW t \in Threads,
             \/ Wait(t) \/ WaitDeadline(t) \/ Resume(t) \/ Spurious(t) \/ Expire(t) \/ ExpiredReturns(t)
      PROVE  GroupInv'
  <2>1. Upgraded' = Upgraded /\ UNCHANGED <<owned, cleared>>
    BY <1>5 DEF Upgraded, Wait, WaitDeadline, Resume, Spurious, Expire, ExpiredReturns
  <2>2. owned
    BY <1>5 DEF NobodyWaits, Wait, WaitDeadline, Resume, Spurious, Expire, ExpiredReturns
  <2> QED
    BY <1>0, <2>1, <2>2 DEF ClearedByTheLast, NobodyWaits
<1>6. CASE Close
  <2>1. Upgraded' = Upgraded /\ owned /\ UNCHANGED <<owned, cleared>>
    BY <1>6 DEF Close, Upgraded
  <2> QED
    BY <1>0, <2>1 DEF ClearedByTheLast, NobodyWaits
<1>7. CASE DropGroup
  <2>1. Upgraded' = Upgraded
    BY <1>7 DEF DropGroup, Upgraded
  <2>2. StrongRefs = 1 <=> Upgraded = {}
    BY <1>7, StrongRefsCount DEF DropGroup
  <2> QED
    BY <1>0, <1>7, <2>1, <2>2 DEF DropGroup, ClearedByTheLast, NobodyWaits
<1>8. CASE UNCHANGED groupVars
  BY <1>0, <1>8 DEF groupVars, ClearedByTheLast, NobodyWaits, Upgraded
<1> QED
  BY <1>1, <1>2, <1>3, <1>4, <1>5, <1>6, <1>7, <1>8 DEF GroupNext

\* The invariant holds in every state of the group.
LEMMA GroupInvariance ==
    ASSUME IsFiniteSet(Notifiers)
    PROVE  GroupSpec => []GroupInv
<1>1. GroupInit => GroupInv
  BY DEF GroupInit, GroupInv, GroupTypeOK, ClearedByTheLast, NobodyWaits, Upgraded, WaitPC
<1>2. GroupInv /\ [GroupNext]_groupVars => GroupInv'
  BY GroupStepKeeps
<1> QED
  BY <1>1, <1>2, PTL DEF GroupSpec

\* The state of a sync group is destroyed exactly when the owner and every notifier
\* on its way through _z_sync_group_notifier_drop have let go of it.
THEOREM ClearedByTheLastAlways ==
    ASSUME IsFiniteSet(Notifiers)
    PROVE  GroupSpec => []ClearedByTheLast
<1>1. GroupInv => ClearedByTheLast
  BY DEF GroupInv
<1> QED
  BY <1>1, GroupInvariance, PTL

-----------------------------------------------------------------------------
(* The refinement: what is substituted for call in Abstract, and what each *)
(* step does to it and to Live.                                            *)

AbsCall == [t \in Threads |-> CASE wpc[t] = "idle"               -> "none"
                                [] wpc[t] \in {"sleep", "woken"} -> "wait"
                                [] OTHER                         -> "timedwait"]

absVars == <<closed, Live, AbsCall, ret>>

\* A wake-up is invisible to the callers.
LEMMA SignalInvisible ==
    ASSUME GroupTypeOK, SignalAll
    PROVE  AbsCall' = AbsCall
<1>1. ASSUME NEW t \in Threads
      PROVE  AbsCall'[t] = AbsCall[t]
  BY DEF AbsCall, SignalAll, GroupTypeOK, WaitPC
<1> QED
  BY <1>1 DEF AbsCall

\* A step of one thread to another place is a call, a return, or invisible.
LEMMA MoveMaps ==
    ASSUME GroupTypeOK, NEW t \in Threads, NEW to \in WaitPC, wpc' = [wpc EXCEPT ![t] = to]
    PROVE  AbsCall' = [AbsCall EXCEPT ![t] = CASE to = "idle"               -> "none"
                                               [] to \in {"sleep", "woken"} -> "wait"
                                               [] OTHER                     -> "timedwait"]
<1> DEFINE k == CASE to = "idle" -> "none" [] to \in {"sleep", "woken"} -> "wait" [] OTHER -> "timedwait"
<1> HIDE DEF k
<1>1. ASSUME NEW u \in Threads
      PROVE  AbsCall'[u] = IF u = t THEN k ELSE AbsCall[u]
  BY DEF AbsCall, GroupTypeOK, k
<1>2. AbsCall' = [AbsCall EXCEPT ![t] = k]
  BY <1>1 DEF AbsCall
<1> QED
  BY <1>2 DEF k

\* Every step of the group is one of SyncGroupSpec or leaves what it shows alone.
LEMMA StepMaps ==
    ASSUME GroupTypeOK, [GroupNext]_groupVars
    PROVE  [Abstract!Next]_absVars
<1>1. ASSUME NEW n \in Notifiers, CreateNotifier(n)
      PROVE  Abstract!Create(n)
  <2>1. Live' = Live \cup {n}
    BY <1>1 DEF CreateNotifier, Live, GroupTypeOK
  <2>2. AbsCall' = AbsCall
    BY <1>1 DEF CreateNotifier, AbsCall
  <2> QED
    BY <1>1, <2>1, <2>2 DEF CreateNotifier, Abstract!Create, AbsCall
<1>2. ASSUME NEW n \in Notifiers, UpgradeNotifier(n) \/ ReleaseNotifier(n)
      PROVE  Abstract!Drop(n) \/ UNCHANGED absVars
  <2>1. Live' = Live \/ Live' = Live \ {n}
    BY <1>2 DEF UpgradeNotifier, ReleaseNotifier, Live, GroupTypeOK
  <2>2. AbsCall' = AbsCall /\ UNCHANGED <<closed, ret>>
    BY <1>2 DEF UpgradeNotifier, ReleaseNotifier, AbsCall
  <2> QED
    BY <2>1, <2>2 DEF Abstract!Drop, AbsCall, absVars
<1>3. ASSUME NEW n \in Notifiers, DropNotifier(n)
      PROVE  Abstract!Drop(n)
  <2>1. Live' = Live \ {n}
    BY <1>3 DEF DropNotifier, Live, GroupTypeOK
  <2>2. AbsCall' = AbsCall /\ UNCHANGED <<closed, ret>>
    BY <1>3, SignalInvisible DEF DropNotifier
  <2> QED
    BY <2>1, <2>2 DEF Abstract!Drop, AbsCall
<1>4. ASSUME NEW t \in Threads, Wait(t) \/ WaitDeadline(t)
      PROVE  Abstract!Call(t, "wait") \/ Abstract!Call(t, "timedwait")
  <2>1. Live' = Live /\ UNCHANGED <<closed, ret>> /\ AbsCall[t] = "none"
    BY <1>4 DEF Wait, WaitDeadline, Live, AbsCall
  <2>2. CASE Wait(t)
    <3>1. AbsCall' = [AbsCall EXCEPT ![t] = "wait"]
      BY <2>2, MoveMaps DEF Wait, WaitPC
    <3> QED
      BY <2>1, <3>1 DEF Abstract!Call, AbsCall
  <2>3. CASE WaitDeadline(t)
    <3>1. AbsCall' = [AbsCall EXCEPT ![t] = "timedwait"]
      BY <2>3, MoveMaps DEF WaitDeadline, WaitPC
    <3> QED
      BY <2>1, <3>1 DEF Abstract!Call, AbsCall
  <2> QED
    BY <1>4, <2>2, <2>3
<1>5. ASSUME NEW t \in Threads, Resume(t)
      PROVE  Abstract!Succeed(t) \/ Abstract!FindClosed(t) \/ UNCHANGED absVars
  <2>1. Live' = Live
    BY <1>5 DEF Resume, Live
  <2>2. wpc[t] \in {"woken", "timedwoken"} /\ AbsCall[t] # "none"
    BY <1>5 DEF Resume, AbsCall
  <2>3. CASE closed /\ Return(t, "closed") /\ UNCHANGED closed
    <3>1. AbsCall' = [AbsCall EXCEPT ![t] = "none"]
      BY <2>3, MoveMaps DEF Return, WaitPC
    <3> QED
      BY <2>1, <2>2, <2>3, <3>1 DEF Abstract!FindClosed, Abstract!Return, Return, AbsCall
  <2>4. CASE ~closed /\ NoneAlive /\ Return(t, "ok") /\ closed' = TRUE
    <3>1. AbsCall' = [AbsCall EXCEPT ![t] = "none"]
      BY <2>4, MoveMaps DEF Return, WaitPC
    <3> QED
      BY <2>1, <2>2, <2>4, <3>1 DEF Abstract!Succeed, Abstract!Return, Return, NoneAlive, AbsCall
  <2>5. ASSUME NEW asleep \in {"sleep", "timedsleep"}, wpc[t] = IF asleep = "sleep" THEN "woken" ELSE "timedwoken",
               wpc' = [wpc EXCEPT ![t] = asleep], UNCHANGED <<closed, ret>>
        PROVE  UNCHANGED absVars
    <3>1. AbsCall' = [AbsCall EXCEPT ![t] = IF asleep = "sleep" THEN "wait" ELSE "timedwait"]
      BY <2>5, MoveMaps DEF WaitPC
    <3>2. AbsCall[t] = IF asleep = "sleep" THEN "wait" ELSE "timedwait"
      BY <2>5 DEF AbsCall
    <3>3. AbsCall' = AbsCall
      BY <3>1, <3>2 DEF AbsCall
    <3> QED
      BY <2>1, <2>5, <3>3 DEF absVars
  <2> QED
    BY <1>5, <2>3, <2>4, <2>5 DEF Resume, Recheck
<1>6. ASSUME NEW t \in Threads, Spurious(t) \/ Expire(t)
      PROVE  UNCHANGED absVars
  <2>1. Live' = Live /\ UNCHANGED <<closed, ret>>
    BY <1>6 DEF Spurious, Expire, Live
  <2>2. PICK to \in {"woken", "timedwoken", "expired"} :
            /\ wpc' = [wpc EXCEPT ![t] = to] /\ wpc[t] \in {"sleep", "timedsleep"}
            /\ to = "woken" <=> wpc[t] = "sleep"
    BY <1>6 DEF Spurious, Expire, GroupTypeOK
  <2>3. AbsCall' = [AbsCall EXCEPT ![t] = IF to = "woken" THEN "wait" ELSE "timedwait"]
    BY <2>2, MoveMaps DEF WaitPC
  <2>4. AbsCall[t] = IF to = "woken" THEN "wait" ELSE "timedwait"
    BY <2>2 DEF AbsCall
  <2>5. AbsCall' = AbsCall
    BY <2>3, <2>4 DEF AbsCall
  <2> QED
    BY <2>1, <2>5 DEF absVars
<1>7. ASSUME NEW t \in Threads, ExpiredReturns(t)
      PROVE  Abstract!FindClosed(t) \/ Abstract!TimeOut(t)
  <2>1. Live' = Live /\ UNCHANGED closed /\ AbsCall[t] = "timedwait"
    BY <1>7 DEF ExpiredReturns, Live, AbsCall
  <2>2. AbsCall' = [AbsCall EXCEPT ![t] = "none"]
    BY <1>7, MoveMaps DEF ExpiredReturns, Return, WaitPC
  <2>3. ret' = [ret EXCEPT ![t] = IF closed THEN "closed" ELSE "timedout"]
    BY <1>7 DEF ExpiredReturns, Return
  <2> QED
    BY <2>1, <2>2, <2>3 DEF Abstract!FindClosed, Abstract!TimeOut, Abstract!Return, AbsCall
<1>8. CASE Close
  <2>1. Live' = Live /\ closed' = TRUE /\ UNCHANGED ret
    BY <1>8 DEF Close, Live
  <2>2. AbsCall' = AbsCall
    BY <1>8, SignalInvisible DEF Close
  <2>3. Abstract!Close
    BY <2>1, <2>2 DEF Abstract!Close, AbsCall
  <2> QED
    BY <2>3 DEF Abstract!Next
<1>9. CASE DropGroup \/ UNCHANGED groupVars
  <2>1. UNCHANGED absVars
    BY <1>9 DEF DropGroup, groupVars, absVars, Live, AbsCall
  <2> QED
    BY <2>1
<1> QED
  BY <1>1, <1>2, <1>3, <1>4, <1>5, <1>6, <1>7, <1>8, <1>9 DEF GroupNext, Abstract!Next

\* A sync group implements SyncGroupSpec (the functions of sync_group.c seen by
\* their callers): whatever the mutex, the condition variable, spurious wake-ups,
\* deadlines and reference counts do, one wait succeeds, with no notifier alive,
\* and every other learns that the group is closed or times out.
THEOREM ImplementsSyncGroupAlways ==
    ASSUME IsFiniteSet(Notifiers)
    PROVE  GroupSpec => ImplementsSyncGroup
<1>1. GroupInit => Abstract!Init
  BY DEF GroupInit, Abstract!Init, Live
<1>2. GroupInv /\ [GroupNext]_groupVars => [Abstract!Next]_absVars
  BY StepMaps DEF GroupInv
<1>3. GroupSpec => []GroupInv
  BY GroupInvariance
<1> QED
  BY <1>1, <1>2, <1>3, PTL DEF GroupSpec, ImplementsSyncGroup, Abstract!Spec, absVars, AbsCall

-----------------------------------------------------------------------------
(***************************************************************************)
(* Channels.                                                               *)
(***************************************************************************)
\* A channel with room for an element.
HasRoom == BufferSize \in Nat \ {0}

\* The slot of the i-th oldest element.
Slot(i) == (rIdx + i - 1) % Slots

ChannelTypeOK ==
    /\ channelKind \in {"fifo", "ring"}
    /\ vals \in [0..BufferSize -> Nat] /\ rIdx \in 0..BufferSize /\ wIdx \in 0..BufferSize
    /\ pushed \in Nat /\ got \in Seq(Nat)

\* The buffer holds the newest elements, oldest first.
HoldsNewest ==
    /\ RingLen <= pushed
    /\ \A i \in 1..RingLen : vals[Slot(i)] = pushed - RingLen + i

\* What was received is older than what the buffer holds, and in order.
GotInOrder ==
    /\ \A i, j \in DOMAIN got : i < j => got[i] < got[j]
    /\ \A i \in DOMAIN got : got[i] \in 1..pushed - RingLen

\* Only a ring that was full leaves elements out.
LeftOut ==
    /\ Len(got) + RingLen # pushed => channelKind = "ring" /\ pushed > BufferSize
    /\ Len(got) + RingLen <= pushed

ChannelInv == ChannelTypeOK /\ HoldsNewest /\ GotInOrder /\ LeftOut

-----------------------------------------------------------------------------
\* Indices wrap around at the end of the buffer (ring.c).
LEMMA Wrap ==
    ASSUME HasRoom, NEW x \in 0 .. 2 * BufferSize + 1
    PROVE  x % Slots = IF x < Slots THEN x ELSE x - Slots
<1>1. CASE x < Slots
  BY <1>1, SMT DEF Slots, HasRoom
<1>2. CASE x >= Slots
  BY <1>2, SMT DEF Slots, HasRoom
<1> QED
  BY <1>1, <1>2 DEF Slots, HasRoom

\* Positions in a buffer that starts at r: where the i-th element is, how many
\* there are up to w, and the index after x.
Place(r, i) == IF r + i - 1 < Slots THEN r + i - 1 ELSE r + i - 1 - Slots
Dist(r, w)  == IF w >= r THEN w - r ELSE w + (Slots - r)
After(x)    == IF x = BufferSize THEN 0 ELSE x + 1

\* How positions relate when an element comes or goes.
LEMMA Positions ==
    ASSUME HasRoom, NEW r \in 0..BufferSize, NEW w \in 0..BufferSize
    PROVE  /\ Dist(r, w) \in 0..BufferSize
           /\ w = r <=> Dist(r, w) = 0
           /\ After(r) \in 0..BufferSize
           /\ \A i \in 1..Slots : Place(r, i) \in 0..BufferSize
           /\ \A i, j \in 1..Slots : i # j => Place(r, i) # Place(r, j)
           /\ Place(r, 1) = r /\ Place(r, Dist(r, w) + 1) = w
           /\ \A i \in 1..BufferSize : Place(After(r), i) = Place(r, i + 1)
           /\ Dist(r, w) # BufferSize => Dist(r, After(w)) = Dist(r, w) + 1
           /\ Dist(r, w) # 0 => Dist(After(r), w) = Dist(r, w) - 1
           /\ Dist(After(r), After(w)) = Dist(r, w)
BY DEF Dist, Place, After, Slots, HasRoom

\* The same of the buffer of the channel.
LEMMA Places ==
    ASSUME HasRoom, ChannelTypeOK
    PROVE  /\ RingLen = Dist(rIdx, wIdx) /\ (RingEmpty <=> wIdx = rIdx)
           /\ (rIdx + 1) % Slots = After(rIdx) /\ (wIdx + 1) % Slots = After(wIdx)
           /\ \A i \in 1..Slots : Slot(i) = Place(rIdx, i)
<1>1. RingLen = Dist(rIdx, wIdx) /\ (RingEmpty <=> wIdx = rIdx)
  BY DEF RingLen, Dist, RingEmpty
<1>2. ASSUME NEW y \in 0..BufferSize
      PROVE  (y + 1) % Slots = After(y)
  <2> DEFINE x == y + 1
  <2>1. x \in 0 .. 2 * BufferSize + 1
    BY DEF HasRoom
  <2> HIDE DEF x
  <2>2. x % Slots = IF x < Slots THEN x ELSE x - Slots
    BY <2>1, Wrap
  <2> QED
    BY <2>2 DEF x, After, Slots, HasRoom
<1>3. ASSUME NEW i \in 1..Slots
      PROVE  Slot(i) = Place(rIdx, i)
  <2> DEFINE x == rIdx + i - 1
  <2>1. x \in 0 .. 2 * BufferSize + 1
    BY DEF ChannelTypeOK, Slots, HasRoom
  <2> HIDE DEF x
  <2>2. x % Slots = IF x < Slots THEN x ELSE x - Slots
    BY <2>1, Wrap
  <2>3. Slot(i) = x % Slots
    BY Zenon DEF Slot, x
  <2>4. Place(rIdx, i) = IF x < Slots THEN x ELSE x - Slots
    BY DEF ChannelTypeOK, Place, x, Slots, HasRoom
  <2> QED
    BY <2>2, <2>3, <2>4, Zenon
<1> QED
  BY <1>1, <1>2, <1>3 DEF ChannelTypeOK

-----------------------------------------------------------------------------
\* What a step does to the buffer and to what was received.
PushStep == ~RingFull /\ RingPush /\ UNCHANGED <<channelKind, rIdx, got>>
ReplaceStep == channelKind = "ring" /\ RingFull /\ RingReplace /\ UNCHANGED <<channelKind, got>>
PullStep == TakeOldest /\ UNCHANGED <<channelKind, wIdx, pushed>>

\* Every step is one of the three or leaves the buffer alone.
LEMMA ChannelSteps ==
    ASSUME [ChannelNext]_channelVars
    PROVE  \/ PushStep \/ ReplaceStep \/ PullStep
           \/ UNCHANGED <<channelKind, vals, rIdx, wIdx, pushed, got>>
<1>1. ASSUME NEW t \in Senders, Send(t) \/ Push(t)
      PROVE  \/ PushStep \/ ReplaceStep
             \/ UNCHANGED <<channelKind, vals, rIdx, wIdx, pushed, got>>
  BY <1>1 DEF Send, Push, FifoPush, RingMtPush, Pushed, PushStep, ReplaceStep
<1>2. ASSUME NEW t \in Receivers, Recv(t) \/ Pull(t) \/ FifoTryPull(t) \/ RingMtTryPull(t)
      PROVE  PullStep \/ UNCHANGED <<channelKind, vals, rIdx, wIdx, pushed, got>>
  BY <1>2 DEF Recv, Pull, FifoPull, RingMtPull, FindEmpty, FifoTryPull, RingMtTryPull, PullStep
<1>3. CASE CloseChannel \/ DropHandler \/ UNCHANGED channelVars
  BY <1>3 DEF CloseChannel, DropHandler, channelVars
<1> QED
  BY <1>1, <1>2, <1>3 DEF ChannelNext

\* The slot after one, once the oldest element is gone.
LEMMA NextSlot ==
    ASSUME HasRoom, ChannelTypeOK, ChannelTypeOK', rIdx' = After(rIdx), NEW i \in 1..BufferSize
    PROVE  Slot(i)' = Slot(i + 1) /\ Slot(i + 1) # rIdx /\ Slot(i + 1) \in 0..BufferSize
<1>1. i \in 1..Slots /\ i + 1 \in 1..Slots /\ 1 \in 1..Slots /\ i + 1 # 1
  BY DEF Slots, HasRoom
<1>2. rIdx \in 0..BufferSize /\ rIdx' \in 0..BufferSize
  BY DEF ChannelTypeOK
<1>3. Slot(i)' = Place(rIdx', i)
  <2> DEFINE x == rIdx' + i - 1
  <2>1. x \in 0 .. 2 * BufferSize + 1
    BY <1>2 DEF HasRoom
  <2> HIDE DEF x
  <2>2. x % Slots = IF x < Slots THEN x ELSE x - Slots
    BY <2>1, Wrap
  <2>3. Slot(i)' = x % Slots
    BY Zenon DEF Slot, x, Slots
  <2>4. Place(rIdx', i) = IF x < Slots THEN x ELSE x - Slots
    BY <1>2 DEF Place, x, Slots, HasRoom
  <2> QED
    BY <2>2, <2>3, <2>4, Zenon
<1>4. Slot(i + 1) = Place(rIdx, i + 1)
  BY <1>1, Places
<1>5. /\ Place(After(rIdx), i) = Place(rIdx, i + 1) /\ Place(rIdx, i + 1) # Place(rIdx, 1)
      /\ Place(rIdx, 1) = rIdx /\ Place(rIdx, i + 1) \in 0..BufferSize
  BY <1>1, <1>2, Positions
<1> QED
  BY <1>3, <1>4, <1>5

\* _z_ring_push.
LEMMA PushKeeps ==
    ASSUME HasRoom, ChannelInv, PushStep
    PROVE  ChannelInv'
<1> USE DEF ChannelInv
<1>1. /\ vals' = [vals EXCEPT ![wIdx] = pushed + 1] /\ wIdx' = After(wIdx) /\ pushed' = pushed + 1
      /\ UNCHANGED <<channelKind, rIdx, got>> /\ RingLen # BufferSize
  BY Places DEF PushStep, RingPush, RingFull
<1>2. /\ rIdx \in 0..BufferSize /\ wIdx \in 0..BufferSize /\ After(wIdx) \in 0..BufferSize
      /\ pushed \in Nat /\ RingLen = Dist(rIdx, wIdx)
  BY Places, Positions DEF ChannelTypeOK
<1>3. ChannelTypeOK'
  BY <1>1, <1>2 DEF ChannelTypeOK
<1> DEFINE n == RingLen
<1>4. n \in 0..BufferSize - 1
  BY <1>1, <1>2, Positions DEF HasRoom
<1>5. RingLen' = n + 1
  BY <1>1, <1>2, <1>3, Places, Positions DEF RingLen, Dist
<1>6. \A i \in 1..Slots : Slot(i)' = Slot(i) /\ Slot(i) = Place(rIdx, i)
  BY <1>1, Places DEF Slot
<1>7. Slot(n + 1) = wIdx
  BY <1>2, <1>4, <1>6, Positions DEF Slots, HasRoom
<1>8. vals \in [0..BufferSize -> Nat] /\ n <= pushed /\ \A i \in 1..n : vals[Slot(i)] = pushed - n + i
  BY DEF ChannelTypeOK, HoldsNewest
<1>9. got \in Seq(Nat) /\ Len(got) \in Nat
  BY DEF ChannelTypeOK
<1> HIDE DEF n
<1>10. \A i \in 1..n + 1 : vals'[Slot(i)] = pushed + 1 - (n + 1) + i
  <2> SUFFICES ASSUME NEW i \in 1..n + 1
               PROVE  vals'[Slot(i)] = pushed + 1 - (n + 1) + i
    OBVIOUS
  <2>1. CASE i = n + 1
    BY <1>1, <1>2, <1>4, <1>7, <1>8, <2>1
  <2>2. CASE i \in 1..n
    <3>1. i \in 1..Slots /\ n + 1 \in 1..Slots /\ i # n + 1
      BY <1>4, <2>2 DEF Slots, HasRoom
    <3>2. Slot(i) \in 0..BufferSize /\ Slot(i) # wIdx
      BY <1>2, <1>6, <1>7, <3>1, Positions
    <3>3. vals'[Slot(i)] = vals[Slot(i)]
      BY <1>1, <1>8, <3>2
    <3> QED
      BY <1>2, <1>4, <1>8, <2>2, <3>3
  <2> QED
    BY <1>4, <2>1, <2>2
<1>11. HoldsNewest'
  <2>1. \A i \in 1..n + 1 : i \in 1..Slots
    BY <1>4 DEF Slots, HasRoom
  <2>2. n + 1 <= pushed + 1
    BY <1>2, <1>4, <1>8
  <2>3. \A i \in 1..n + 1 : vals'[Slot(i)'] = pushed + 1 - (n + 1) + i
    BY <1>6, <1>10, <2>1
  <2> QED
    BY <1>1, <1>2, <1>4, <1>5, <2>2, <2>3 DEF HoldsNewest
<1>12. GotInOrder'
  <2>1. pushed + 1 - (n + 1) = pushed - n
    BY <1>2, <1>4
  <2> QED
    BY <1>1, <1>2, <1>4, <1>5, <2>1 DEF GotInOrder, n
<1>13. LeftOut'
  <2>1. /\ Len(got) + n # pushed => channelKind = "ring" /\ pushed > BufferSize
        /\ Len(got) + n <= pushed
    BY DEF LeftOut, n
  <2>2. /\ Len(got) + (n + 1) # pushed + 1 => channelKind = "ring" /\ pushed + 1 > BufferSize
        /\ Len(got) + (n + 1) <= pushed + 1
    BY <1>2, <1>4, <1>9, <2>1 DEF HasRoom
  <2> QED
    BY <1>1, <1>5, <2>2 DEF LeftOut
<1> QED
  BY <1>3, <1>11, <1>12, <1>13

\* _z_ring_pull.
LEMMA PullKeeps ==
    ASSUME HasRoom, ChannelInv, PullStep
    PROVE  ChannelInv'
<1> USE DEF ChannelInv
<1>1. /\ vals' = [vals EXCEPT ![rIdx] = NoElem] /\ rIdx' = After(rIdx)
      /\ got' = Append(got, vals[rIdx]) /\ UNCHANGED <<channelKind, wIdx, pushed>> /\ wIdx # rIdx
  BY Places DEF PullStep, TakeOldest, RingPull
<1>2. /\ rIdx \in 0..BufferSize /\ wIdx \in 0..BufferSize /\ After(rIdx) \in 0..BufferSize
      /\ pushed \in Nat /\ RingLen = Dist(rIdx, wIdx)
  BY Places, Positions DEF ChannelTypeOK
<1>3. vals \in [0..BufferSize -> Nat] /\ got \in Seq(Nat) /\ Len(got) \in Nat
  BY DEF ChannelTypeOK
<1>4. ChannelTypeOK'
  <2>1. vals' \in [0..BufferSize -> Nat]
    BY <1>1, <1>2, <1>3 DEF NoElem
  <2>2. got' \in Seq(Nat)
    BY <1>1, <1>2, <1>3
  <2> QED
    BY <1>1, <1>2, <2>1, <2>2 DEF ChannelTypeOK
<1> DEFINE n == RingLen
<1>5. n \in 1..BufferSize
  <2>1. Dist(rIdx, wIdx) \in 0..BufferSize /\ Dist(rIdx, wIdx) # 0
    BY <1>1, <1>2, Positions
  <2> QED
    BY <1>2, <2>1 DEF HasRoom
<1>6. RingLen' = n - 1
  BY <1>1, <1>2, <1>4, <1>5, Positions DEF RingLen, Dist
<1>7. \A i \in 1..Slots : Slot(i) = Place(rIdx, i)
  BY Places
<1>8. ASSUME NEW i \in 1..BufferSize
      PROVE  Slot(i)' = Slot(i + 1) /\ Slot(i + 1) # rIdx /\ Slot(i + 1) \in 0..BufferSize
  BY <1>1, <1>2, <1>4, NextSlot
<1>9. n <= pushed /\ \A i \in 1..n : vals[Slot(i)] = pushed - n + i
  BY DEF HoldsNewest
<1>10. vals[rIdx] = pushed - n + 1
  <2>1. Slot(1) = rIdx
    BY <1>2, <1>7, Positions DEF Slots, HasRoom
  <2> QED
    BY <1>5, <1>9, <2>1
<1> HIDE DEF n
<1>11. HoldsNewest'
  <2>1. ASSUME NEW i \in 1..n - 1
        PROVE  vals'[Slot(i)'] = pushed - (n - 1) + i
    <3>1. i \in 1..BufferSize /\ i + 1 \in 1..n
      BY <1>5 DEF HasRoom
    <3>2. vals'[Slot(i)'] = vals[Slot(i + 1)]
      BY <1>1, <1>3, <1>8, <3>1
    <3>3. vals[Slot(i + 1)] = pushed - n + (i + 1)
      BY <1>9, <3>1
    <3> QED
      BY <1>2, <1>5, <3>2, <3>3
  <2>2. n - 1 <= pushed
    BY <1>2, <1>5, <1>9
  <2> QED
    BY <1>1, <1>6, <2>1, <2>2 DEF HoldsNewest
<1>12. /\ Len(got') = Len(got) + 1 /\ DOMAIN got' = 1..Len(got) + 1 /\ DOMAIN got = 1..Len(got)
       /\ \A i \in 1..Len(got) : got'[i] = got[i]
       /\ got'[Len(got) + 1] = vals[rIdx]
  BY <1>1, <1>2, <1>3
<1>13. /\ \A i, j \in 1..Len(got) : i < j => got[i] < got[j]
       /\ \A i \in 1..Len(got) : got[i] \in 1..pushed - n
  BY <1>12 DEF GotInOrder, n
<1>14. GotInOrder'
  <2>1. ASSUME NEW i \in 1..Len(got) + 1
        PROVE  got'[i] \in 1..pushed - (n - 1)
    <3>1. CASE i \in 1..Len(got)
      BY <1>2, <1>5, <1>12, <1>13, <3>1
    <3>2. CASE i = Len(got) + 1
      BY <1>2, <1>5, <1>9, <1>10, <1>12, <3>2
    <3> QED
      BY <1>3, <3>1, <3>2
  <2>2. ASSUME NEW i \in 1..Len(got) + 1, NEW j \in 1..Len(got) + 1, i < j
        PROVE  got'[i] < got'[j]
    <3>1. i \in 1..Len(got)
      BY <1>3, <2>2
    <3>2. CASE j \in 1..Len(got)
      BY <1>12, <1>13, <2>2, <3>1, <3>2
    <3>3. CASE j = Len(got) + 1
      <4>1. got'[i] = got[i] /\ got[i] \in 1..pushed - n
        BY <1>12, <1>13, <3>1
      <4>2. got'[j] = pushed - n + 1
        BY <1>10, <1>12, <3>3
      <4> QED
        BY <1>2, <1>5, <4>1, <4>2
    <3> QED
      BY <1>3, <3>2, <3>3
  <2> QED
    BY <1>1, <1>6, <1>12, <2>1, <2>2 DEF GotInOrder
<1>15. LeftOut'
  <2>1. /\ Len(got) + n # pushed => channelKind = "ring" /\ pushed > BufferSize
        /\ Len(got) + n <= pushed
    BY DEF LeftOut, n
  <2>2. Len(got') + (n - 1) = Len(got) + n
    BY <1>3, <1>5, <1>12
  <2> QED
    BY <1>1, <1>6, <2>1, <2>2 DEF LeftOut
<1> QED
  BY <1>4, <1>11, <1>14, <1>15

\* _z_ring_push_force_drop on a full buffer.
LEMMA ReplaceKeeps ==
    ASSUME HasRoom, ChannelInv, ReplaceStep
    PROVE  ChannelInv'
<1> USE DEF ChannelInv
<1>1. /\ vals' = [vals EXCEPT ![rIdx] = NoElem, ![wIdx] = pushed + 1]
      /\ rIdx' = After(rIdx) /\ wIdx' = After(wIdx) /\ pushed' = pushed + 1
      /\ UNCHANGED <<channelKind, got>> /\ RingLen = BufferSize /\ channelKind = "ring"
  BY Places DEF ReplaceStep, RingReplace, RingFull
<1>2. /\ rIdx \in 0..BufferSize /\ wIdx \in 0..BufferSize
      /\ After(rIdx) \in 0..BufferSize /\ After(wIdx) \in 0..BufferSize
      /\ pushed \in Nat /\ RingLen = Dist(rIdx, wIdx)
  BY Places, Positions DEF ChannelTypeOK
<1>3. vals \in [0..BufferSize -> Nat] /\ got \in Seq(Nat) /\ Len(got) \in Nat
  BY DEF ChannelTypeOK
<1>4. ChannelTypeOK'
  <2>1. vals' \in [0..BufferSize -> Nat]
    BY <1>1, <1>2, <1>3 DEF NoElem
  <2> QED
    BY <1>1, <1>2, <2>1 DEF ChannelTypeOK
<1>5. RingLen' = BufferSize /\ BufferSize \in Nat \ {0}
  <2>1. RingLen' = Dist(rIdx', wIdx')
    BY DEF RingLen, Dist
  <2>2. Dist(After(rIdx), After(wIdx)) = Dist(rIdx, wIdx)
    BY <1>2, Positions
  <2> QED
    BY <1>1, <1>2, <2>1, <2>2 DEF HasRoom
<1>6. \A i \in 1..Slots : Slot(i) = Place(rIdx, i)
  BY Places
<1>7. ASSUME NEW i \in 1..BufferSize
      PROVE  Slot(i)' = Slot(i + 1) /\ Slot(i + 1) # rIdx /\ Slot(i + 1) \in 0..BufferSize
  BY <1>1, <1>2, <1>4, NextSlot
<1>8. BufferSize <= pushed /\ \A i \in 1..BufferSize : vals[Slot(i)] = pushed - BufferSize + i
  BY <1>1 DEF HoldsNewest
<1>9. Slot(BufferSize + 1) = wIdx
  BY <1>1, <1>2, <1>6, Positions DEF Slots, HasRoom
<1>10. HoldsNewest'
  <2>1. ASSUME NEW i \in 1..BufferSize
        PROVE  vals'[Slot(i)'] = (pushed + 1) - BufferSize + i
    <3>1. CASE i = BufferSize
      <4>1. Slot(i)' = wIdx /\ vals'[wIdx] = pushed + 1
        BY <1>1, <1>2, <1>3, <1>7, <1>9, <3>1
      <4> QED
        BY <1>2, <1>5, <3>1, <4>1
    <3>2. CASE i # BufferSize
      <4>1. i + 1 \in 1..BufferSize /\ i + 1 \in 1..Slots /\ BufferSize + 1 \in 1..Slots /\ i + 1 # BufferSize + 1
        BY <1>5, <3>2 DEF Slots
      <4>2. Slot(i + 1) # wIdx
        BY <1>2, <1>6, <1>9, <4>1, Positions
      <4>3. vals'[Slot(i)'] = vals[Slot(i + 1)]
        BY <1>1, <1>2, <1>3, <1>7, <4>2
      <4>4. vals[Slot(i + 1)] = pushed - BufferSize + (i + 1)
        BY <1>8, <4>1
      <4> QED
        BY <1>2, <1>5, <4>3, <4>4
    <3> QED
      BY <3>1, <3>2
  <2>2. BufferSize <= pushed + 1
    BY <1>2, <1>5, <1>8
  <2>3. RingLen' <= pushed' /\ \A i \in 1..RingLen' : vals'[Slot(i)'] = pushed' - RingLen' + i
    BY <1>1, <1>5, <2>1, <2>2, Zenon
  <2> QED
    BY <2>3, Zenon DEF HoldsNewest
<1>11. GotInOrder'
  <2>1. /\ \A i, j \in DOMAIN got : i < j => got[i] < got[j]
        /\ \A i \in DOMAIN got : got[i] \in 1..pushed - BufferSize
    BY <1>1 DEF GotInOrder
  <2>2. \A i \in DOMAIN got : got[i] \in 1..(pushed + 1) - BufferSize
    BY <1>2, <1>5, <2>1
  <2>3. /\ \A i, j \in DOMAIN got' : i < j => got'[i] < got'[j]
        /\ \A i \in DOMAIN got' : got'[i] \in 1..pushed' - RingLen'
    BY <1>1, <1>5, <2>1, <2>2, Zenon
  <2> QED
    BY <2>3, Zenon DEF GotInOrder
<1>12. LeftOut'
  <2>1. pushed + 1 > BufferSize
    BY <1>2, <1>5, <1>8
  <2>2. Len(got) + BufferSize <= pushed
    BY <1>1 DEF LeftOut
  <2>3. Len(got) + BufferSize <= pushed + 1
    BY <1>2, <1>3, <1>5, <2>2
  <2> QED
    BY <1>1, <1>5, <2>1, <2>3 DEF LeftOut
<1> QED
  BY <1>4, <1>10, <1>11, <1>12

-----------------------------------------------------------------------------
\* docs/api.rst: a FIFO "ensures that data is received in the order it was sent".
\* For every capacity and any number of senders and receivers, a FIFO hands out
\* the elements in order, each once and none left out, and a ring leaves out only
\* the oldest ones of a full buffer.
THEOREM ReceivedInOrderAlways ==
    ASSUME HasRoom
    PROVE  ChannelSpec => []ReceivedInOrder
<1>1. ChannelInit => ChannelInv
  <2> SUFFICES ASSUME ChannelInit PROVE ChannelInv
    OBVIOUS
  <2>1. ChannelTypeOK
    BY DEF ChannelInit, ChannelTypeOK, NoElem, HasRoom
  <2>2. RingLen = 0 /\ pushed = 0 /\ got = << >>
    BY DEF ChannelInit, RingLen
  <2> QED
    BY <2>1, <2>2 DEF ChannelInv, HoldsNewest, GotInOrder, LeftOut
<1>2. ChannelInv /\ [ChannelNext]_channelVars => ChannelInv'
  <2> SUFFICES ASSUME ChannelInv, [ChannelNext]_channelVars PROVE ChannelInv'
    OBVIOUS
  <2>1. CASE UNCHANGED <<channelKind, vals, rIdx, wIdx, pushed, got>>
    BY <2>1 DEF ChannelInv, ChannelTypeOK, HoldsNewest, GotInOrder, LeftOut, RingLen, Slot
  <2> QED
    BY <2>1, ChannelSteps, PushKeeps, PullKeeps, ReplaceKeeps
<1>3. ChannelInv => ReceivedInOrder
  <2> SUFFICES ASSUME ChannelInv PROVE ReceivedInOrder
    OBVIOUS
  <2>1. Contents = [i \in 1..RingLen |-> pushed - RingLen + i]
    BY DEF ChannelInv, Contents, HoldsNewest, Slot
  <2> QED
    BY <2>1 DEF ChannelInv, ReceivedInOrder, GotInOrder, LeftOut
<1> QED
  BY <1>1, <1>2, <1>3, PTL DEF ChannelSpec

(***************************************************************************)
(* The priority queue.                                                     *)
(***************************************************************************)
\* The keys are numbers, and so is the size.
NumericKeys == Elems \subseteq Nat /\ Size \in Nat

\* How often an element is in a heap.
Times(h, x) == Cardinality({i \in 1..Len(h) : h[i] = x})

\* The inductive invariant: the heap fits its buffer and is in order.
HeapOK == buffer \in Seq(Elems) /\ Len(buffer) <= Size /\ Ordered(buffer, Key, {})

-----------------------------------------------------------------------------
\* The positions of an element are finitely many; it occurs no more often than the heap is long.
LEMMA TimesType ==
    ASSUME NEW E, NEW h \in Seq(E), NEW x
    PROVE  /\ IsFiniteSet({i \in 1..Len(h) : h[i] = x}) /\ Times(h, x) \in Nat
           /\ Times(h, x) > 0 <=> \E i \in 1..Len(h) : h[i] = x
<1> DEFINE S == {i \in 1..Len(h) : h[i] = x}
<1>1. IsFiniteSet(S)
  <2>1. IsFiniteSet(1..Len(h)) /\ S \subseteq 1..Len(h)
    BY CountUpTo
  <2> QED BY <2>1, FS_Subset
<1>2. Cardinality(S) \in Nat /\ (Cardinality(S) = 0 <=> S = {})
  BY <1>1, FS_CardinalityType, FS_EmptySet
<1>3. S # {} <=> \E i \in 1..Len(h) : h[i] = x
  OBVIOUS
<1>4. Times(h, x) = Cardinality(S)
  BY DEF Times
<1> HIDE DEF S
<1>5. Cardinality(S) > 0 <=> S # {}
  BY <1>2
<1> QED BY <1>1, <1>2, <1>3, <1>4, <1>5 DEF S

\* A permutation holds every element as often.
LEMMA TimesPermuted ==
    ASSUME NEW E, NEW h \in Seq(E), NEW r \in Seq(E), Len(r) = Len(h), Permuted(r, h, Len(h)), NEW x
    PROVE  Times(r, x) = Times(h, x)
<1> DEFINE S == {i \in 1..Len(r) : r[i] = x}
           T == {i \in 1..Len(h) : h[i] = x}
<1>1. PICK p \in Perms(Len(h)) : \A k \in 1..Len(h) : r[k] = h[p[k]]
  BY DEF Permuted
<1> DEFINE f == [i \in S |-> p[i]]
<1>2. /\ \A k \in 1..Len(h) : p[k] \in 1..Len(h)
      /\ \A i, j \in 1..Len(h) : p[i] = p[j] => i = j
      /\ \A k \in 1..Len(h) : \E i \in 1..Len(h) : p[i] = k
  BY <1>1 DEF Perms
<1>3. f \in [S -> T]
  BY <1>1, <1>2
<1>4. \A i, j \in S : f[i] = f[j] => i = j
  BY <1>2
<1>5. ASSUME NEW k \in T PROVE \E i \in S : f[i] = k
  <2>1. PICK i \in 1..Len(h) : p[i] = k
    BY <1>2
  <2>2. i \in S
    BY <1>1, <2>1
  <2> QED BY <2>1, <2>2
<1>6. IsFiniteSet(S)
  BY TimesType
<1> HIDE DEF S, T, f
<1>7. f \in Bijection(S, T)
  BY <1>3, <1>4, <1>5 DEF Bijection, Injection, Surjection, IsInjective
<1>8. Cardinality(S) = Cardinality(T)
  BY <1>6, <1>7, FS_Bijection DEF ExistsBijection
<1> QED BY <1>8 DEF S, T, Times

\* Appending an element counts it once more and no other.
LEMMA TimesAppended ==
    ASSUME NEW E, NEW h \in Seq(E), NEW e \in E, NEW x
    PROVE  Times(Append(h, e), x) = IF x = e THEN Times(h, x) + 1 ELSE Times(h, x)
<1> DEFINE a == Append(h, e)
           S == {i \in 1..Len(a) : a[i] = x}
           T == {i \in 1..Len(h) : h[i] = x}
<1>1. Len(a) = Len(h) + 1 /\ Len(h) \in Nat /\ a[Len(h) + 1] = e /\ \A k \in 1..Len(h) : a[k] = h[k]
  OBVIOUS
<1>2. IsFiniteSet(T)
  BY TimesType
<1>3. Len(h) + 1 \notin T
  BY <1>1
<1>4. S = IF x = e THEN T \cup {Len(h) + 1} ELSE T
  BY <1>1
<1>5. Times(a, x) = Cardinality(S) /\ Times(h, x) = Cardinality(T)
  BY DEF Times
<1> HIDE DEF a, S, T
<1>6. Cardinality(T \cup {Len(h) + 1}) = Cardinality(T) + 1
  BY <1>2, <1>3, FS_AddElement
<1> QED BY <1>4, <1>5, <1>6 DEF a

\* The last element stands where the root stood: the root is held once less.
LEMMA TimesPopped ==
    ASSUME NEW E, NEW h \in Seq(E), Len(h) > 1, NEW x
    PROVE  Times(h, x) = IF x = h[1] THEN Times(Popped(h), x) + 1 ELSE Times(Popped(h), x)
<1> DEFINE n == Len(h)
           q == Popped(h)
           M == {k \in 2..(n - 1) : h[k] = x}
           S == {k \in 1..n : h[k] = x}
           T == {k \in 1..Len(q) : q[k] = x}
           L == IF h[n] = x THEN M \cup {n} ELSE M
<1>1. n \in Nat /\ n > 1 /\ Len(q) = n - 1 /\ q[1] = h[n] /\ \A k \in 2..(n - 1) : q[k] = h[k]
  BY PoppedIs
<1>2. Times(h, x) = Cardinality(S) /\ Times(q, x) = Cardinality(T)
  BY DEF Times
<1>3. IsFiniteSet(M)
  <2>1. IsFiniteSet(1..n) /\ M \subseteq 1..n
    BY <1>1, CountUpTo
  <2> QED BY <2>1, FS_Subset
<1> HIDE DEF n, q
<1>4. T = IF h[n] = x THEN M \cup {1} ELSE M
  <2>1. \A k \in 1..(n - 1) : k = 1 \/ k \in 2..(n - 1)
    BY <1>1
  <2>2. 1 \in 1..(n - 1) /\ \A k \in 2..(n - 1) : k \in 1..(n - 1) /\ k # 1
    BY <1>1
  <2> QED BY <1>1, <2>1, <2>2
<1>5. S = IF h[1] = x THEN L \cup {1} ELSE L
  <2>1. \A k \in 1..n : k = 1 \/ k = n \/ k \in 2..(n - 1)
    BY <1>1
  <2>2. 1 \in 1..n /\ n \in 1..n /\ 1 # n /\ \A k \in 2..(n - 1) : k \in 1..n /\ k # 1 /\ k # n
    BY <1>1
  <2> QED BY <2>1, <2>2
<1>6. 1 \notin M /\ n \notin M /\ n # 1
  BY <1>1
<1> HIDE DEF M, S, T
<1>7. /\ IsFiniteSet(M \cup {1}) /\ Cardinality(M \cup {1}) = Cardinality(M) + 1
      /\ IsFiniteSet(M \cup {n}) /\ Cardinality(M \cup {n}) = Cardinality(M) + 1
      /\ Cardinality(M) \in Nat
  BY <1>3, <1>6, FS_AddElement, FS_CardinalityType
<1>8. IsFiniteSet(L) /\ Cardinality(L) = Cardinality(T) /\ 1 \notin L
  BY <1>3, <1>4, <1>6, <1>7
<1>9. Cardinality(L \cup {1}) = Cardinality(L) + 1
  BY <1>8, FS_AddElement
<1> HIDE DEF L
<1> QED BY <1>2, <1>5, <1>8, <1>9 DEF q

\* The content of the refinement mapping counts each element in the buffer.
LEMMA ContentIs ==
    /\ buffer \in Seq(Elems) => Content = [e \in Elems |-> Times(buffer, e)]
    /\ buffer' \in Seq(Elems) => Content' = [e \in Elems |-> Times(buffer', e)]
<1>1. buffer \in Seq(Elems) => DOMAIN buffer = 1..Len(buffer)
  OBVIOUS
<1>2. buffer' \in Seq(Elems) => DOMAIN buffer' = 1..Len(buffer')
  OBVIOUS
<1> QED BY <1>1, <1>2 DEF Content, Times

\* The root is the smallest element.
LEMMA RootSmallest ==
    ASSUME NumericKeys, HeapOK, buffer # << >>
    PROVE  AbstractQueue!Smallest = buffer[1] /\ buffer[1] \in Elems /\ Times(buffer, buffer[1]) > 0
<1>1. Len(buffer) \in Nat \ {0} /\ buffer \in Seq(Elems)
  BY EmptySeq DEF HeapOK
<1>2. 1 \in 1..Len(buffer) /\ buffer[1] \in Elems
  BY <1>1
<1>3. \A i \in 1..Len(buffer) : buffer[1] <= buffer[i]
  <2>1. \A x \in Elems : Key[x] \in Nat /\ Key[x] = x
    BY DEF Key, NumericKeys
  <2>2. \A i \in 1..Len(buffer) : Key[buffer[1]] <= Key[buffer[i]]
    BY <1>1, <2>1, RootLeast DEF HeapOK
  <2>3. \A i \in 1..Len(buffer) : buffer[i] \in Elems
    BY <1>1
  <2> QED BY <1>2, <2>1, <2>2, <2>3
<1>4. \A x \in Elems : Content[x] > 0 <=> \E i \in 1..Len(buffer) : buffer[i] = x
  <2>1. Content = [e \in Elems |-> Times(buffer, e)]
    BY <1>1, ContentIs
  <2>2. \A x \in Elems : Times(buffer, x) > 0 <=> \E i \in 1..Len(buffer) : buffer[i] = x
    BY <1>1, TimesType
  <2> QED BY <2>1, <2>2
<1> DEFINE P(e) == Content[e] > 0 /\ \A x \in Elems : Content[x] > 0 => e <= x
<1>5. P(buffer[1])
  BY <1>2, <1>3, <1>4
<1>6. \A e \in Elems : P(e) => e = buffer[1]
  <2> SUFFICES ASSUME NEW e \in Elems, P(e) PROVE e = buffer[1]
    OBVIOUS
  <2>1. e <= buffer[1] /\ buffer[1] <= e
    BY <1>2, <1>5
  <2>2. e \in Nat /\ buffer[1] \in Nat
    BY <1>2 DEF NumericKeys
  <2> HIDE DEF P
  <2> QED BY <2>1, <2>2
<1>7. AbstractQueue!Smallest = CHOOSE e \in Elems : P(e)
  BY DEF AbstractQueue!Smallest
<1> HIDE DEF P
<1>8. AbstractQueue!Smallest = buffer[1]
  BY <1>2, <1>5, <1>6, <1>7
<1>9. Times(buffer, buffer[1]) > 0
  BY <1>1, <1>2, TimesType
<1> QED BY <1>2, <1>8, <1>9

\* A push keeps the heap in order, and is a push of the abstract queue or refused (static_pqueue_template.h).
LEMMA HeapPushes ==
    ASSUME NumericKeys, HeapOK, NEW e \in Elems, HeapPush(e)
    PROVE  HeapOK' /\ (AbstractQueue!Push(e) \/ UNCHANGED <<Content, Len(buffer), out>>)
<1>1. buffer \in Seq(Elems) /\ Len(buffer) \in Nat /\ Size \in Nat /\ Len(buffer) <= Size
  BY DEF HeapOK, NumericKeys
<1>2. CASE Len(buffer) = Size
  <2>1. buffer' = buffer /\ out' = out
    BY <1>2 DEF HeapPush, PQPush
  <2> QED BY <2>1 DEF HeapOK, Content
<1>3. CASE Len(buffer) # Size
  <2>1. \A x \in Elems : Key[x] \in Nat
    BY DEF Key, NumericKeys
  <2>2. buffer' = PQPush(buffer, Key, Size, e) /\ out' = out
    BY DEF HeapPush
  <2>3. LET r == PQPush(buffer, Key, Size, e)
        IN  /\ r \in Seq(Elems) /\ Len(r) = Len(buffer) + 1
            /\ Permuted(r, Append(buffer, e), Len(buffer) + 1)
            /\ Elements(r) = Elements(buffer) \cup {e}
            /\ OneToOne(buffer) /\ e \notin Elements(buffer) => OneToOne(r)
            /\ \A X \in SUBSET Elems : (\A x \in X : Key[x] = 0) /\ Ordered(buffer, Key, X) => Ordered(r, Key, X)
    BY <1>1, <1>3, <2>1, PushDoes, Zenon
  <2>4. /\ buffer' \in Seq(Elems) /\ Len(buffer') = Len(buffer) + 1
        /\ Permuted(buffer', Append(buffer, e), Len(buffer) + 1) /\ Ordered(buffer', Key, {})
    BY <2>2, <2>3 DEF HeapOK
  <2>5. HeapOK'
    BY <1>1, <1>3, <2>4 DEF HeapOK
  <2>6. PICK a \in Seq(Elems) : a = Append(buffer, e) /\ Len(a) = Len(buffer) + 1
    <3>1. Append(buffer, e) \in Seq(Elems) /\ Len(Append(buffer, e)) = Len(buffer) + 1
      BY <1>1
    <3> QED BY <3>1
  <2>7. ASSUME NEW x \in Elems
        PROVE  Times(buffer', x) = IF x = e THEN Times(buffer, x) + 1 ELSE Times(buffer, x)
    <3>1. Times(buffer', x) = Times(a, x)
      BY <2>4, <2>6, TimesPermuted
    <3>2. Times(Append(buffer, e), x) = IF x = e THEN Times(buffer, x) + 1 ELSE Times(buffer, x)
      BY <1>1, TimesAppended
    <3> QED BY <2>6, <3>1, <3>2
  <2>8. Content = [x \in Elems |-> Times(buffer, x)] /\ Content' = [x \in Elems |-> Times(buffer', x)]
    BY <1>1, <2>4, ContentIs
  <2>9. Content' = [Content EXCEPT ![e] = @ + 1]
    BY <2>7, <2>8
  <2> QED BY <1>1, <1>3, <2>2, <2>4, <2>5, <2>9 DEF AbstractQueue!Push
<1> QED BY <1>2, <1>3

\* A pop keeps the heap in order, and hands out a smallest element as the abstract queue does.
LEMMA HeapPops ==
    ASSUME NumericKeys, HeapOK, HeapPop
    PROVE  HeapOK' /\ AbstractQueue!Pop
<1>1. buffer \in Seq(Elems) /\ Size \in Nat /\ Len(buffer) <= Size /\ buffer # << >>
  BY DEF HeapOK, NumericKeys, HeapPop
<1>2. Len(buffer) \in Nat \ {0}
  BY <1>1, EmptySeq
<1>3. buffer' = PQPop(buffer, Key) /\ out' = buffer[1]
  BY <1>1 DEF HeapPop
<1>4. AbstractQueue!Smallest = buffer[1] /\ buffer[1] \in Elems /\ Times(buffer, buffer[1]) > 0
  BY <1>1, RootSmallest
<1>5. /\ buffer' \in Seq(Elems) /\ Len(buffer') = Len(buffer) - 1
      /\ Len(buffer) > 1 => Permuted(buffer', Popped(buffer), Len(buffer) - 1)
      /\ Ordered(buffer', Key, {})
  <2>1. \A x \in Elems : Key[x] \in Nat
    BY DEF Key, NumericKeys
  <2>2. LET r == PQPop(buffer, Key)
        IN  /\ r \in Seq(Elems) /\ Len(r) = Len(buffer) - 1
            /\ Len(buffer) > 1 => Permuted(r, Popped(buffer), Len(buffer) - 1)
            /\ \A X \in SUBSET Elems : (\A x \in X : Key[x] = 0) /\ Ordered(buffer, Key, X) => Ordered(r, Key, X)
    BY <1>1, <2>1, PopDoes, Zenon
  <2> QED BY <1>3, <2>2 DEF HeapOK
<1>6. HeapOK'
  BY <1>1, <1>2, <1>5 DEF HeapOK
<1>7. ASSUME NEW x \in Elems
      PROVE  Times(buffer', x) = IF x = buffer[1] THEN Times(buffer, x) - 1 ELSE Times(buffer, x)
  <2>1. Times(buffer, x) \in Nat /\ Times(buffer', x) \in Nat
    BY <1>1, <1>5, TimesType
  <2>2. CASE Len(buffer) > 1
    <3>1. Popped(buffer) \in Seq(Elems) /\ Len(Popped(buffer)) = Len(buffer) - 1
      BY <1>1, <2>2, PoppedIs
    <3>2. Times(buffer', x) = Times(Popped(buffer), x)
      BY <1>5, <2>2, <3>1, TimesPermuted
    <3>3. Times(buffer, x) = IF x = buffer[1] THEN Times(Popped(buffer), x) + 1 ELSE Times(Popped(buffer), x)
      BY <1>1, <2>2, TimesPopped
    <3> QED BY <2>1, <3>2, <3>3
  <2>3. CASE Len(buffer) = 1
    <3>1. 1..Len(buffer') = {}
      BY <1>5, <2>3
    <3>2. Times(buffer', x) = 0
      BY <3>1, FS_EmptySet DEF Times
    <3>3. x = buffer[1] => {i \in 1..Len(buffer) : buffer[i] = x} = {1}
      BY <2>3
    <3>4. x # buffer[1] => {i \in 1..Len(buffer) : buffer[i] = x} = {}
      BY <2>3
    <3>5. Times(buffer, x) = IF x = buffer[1] THEN 1 ELSE 0
      BY <3>3, <3>4, FS_EmptySet, FS_Singleton DEF Times
    <3> QED BY <3>2, <3>5
  <2>4. \A n \in Nat \ {0} : n > 1 \/ n = 1
    OBVIOUS
  <2> QED BY <1>2, <2>2, <2>3, <2>4, Zenon
<1>8. Content = [x \in Elems |-> Times(buffer, x)] /\ Content' = [x \in Elems |-> Times(buffer', x)]
  BY <1>1, <1>5, ContentIs
<1>9. Content' = [Content EXCEPT ![buffer[1]] = @ - 1]
  BY <1>4, <1>7, <1>8
<1>10. Len(buffer) > 0
  BY <1>2
<1> QED BY <1>3, <1>4, <1>5, <1>6, <1>9, <1>10 DEF AbstractQueue!Pop

\* The heap of static_pqueue_template.h implements the bounded priority queue, for
\* every buffer size and any set of keys.
THEOREM ImplementsPQueueAlways == ASSUME NumericKeys PROVE HeapSpec => ImplementsPQueue
<1>1. HeapInit => HeapOK
  BY DEF HeapInit, HeapOK, Ordered, NumericKeys
<1>2. HeapInit => AbstractQueue!Init
  <2>1. ASSUME HeapInit PROVE Content = [e \in Elems |-> 0]
    <3>1. DOMAIN buffer = {}
      BY <2>1 DEF HeapInit
    <3> QED BY <3>1, FS_EmptySet DEF Content
  <2> QED BY <2>1 DEF HeapInit, AbstractQueue!Init
<1>3. HeapOK /\ [HeapNext]_heapVars => HeapOK'
  <2> SUFFICES ASSUME HeapOK, [HeapNext]_heapVars PROVE HeapOK'
    OBVIOUS
  <2>1. CASE UNCHANGED heapVars
    BY <2>1 DEF HeapOK, heapVars
  <2> QED BY <2>1, HeapPushes, HeapPops DEF HeapNext
<1>4. HeapOK /\ [HeapNext]_heapVars => [AbstractQueue!Next]_<<Content, Len(buffer), out>>
  <2> SUFFICES ASSUME HeapOK, [HeapNext]_heapVars PROVE [AbstractQueue!Next]_<<Content, Len(buffer), out>>
    OBVIOUS
  <2>1. CASE UNCHANGED heapVars
    BY <2>1 DEF heapVars, Content
  <2> QED BY <2>1, HeapPushes, HeapPops DEF HeapNext, AbstractQueue!Next
<1> QED BY <1>1, <1>2, <1>3, <1>4, PTL DEF HeapSpec, ImplementsPQueue, AbstractQueue!Spec
=============================================================================
