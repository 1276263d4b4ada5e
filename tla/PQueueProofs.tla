---------------------------- MODULE PQueueProofs ----------------------------
(***************************************************************************)
(* What the heap of PQueue does, for heaps of any size.  The induction     *)
(* over the turns of a loop is by the least counterexample: a set of       *)
(* numbers that is not empty has a smallest one.                           *)
(***************************************************************************)
EXTENDS PQueue, FiniteSets, FiniteSetTheorems, SequenceTheorems, WellFoundedInduction, TLAPS

\* A nonempty set of natural numbers has a smallest element.
LEMMA Least ==
    ASSUME NEW T, T \subseteq Nat, T # {}
    PROVE  \E x \in T : \A y \in T : x <= y
<1> DEFINE R == {ss \in Nat \X Nat : ss[1] < ss[2]}
<1>1. IsWellFoundedOn(R, Nat)
  BY NatLessThanWellFounded DEF OpToRel
<1> HIDE DEF R
<1>2. PICK x \in T : \A y \in T : ~ (<<y, x>> \in R)
  BY <1>1, WFMin
<1>3. \A y \in T : ~ (y < x)
  BY <1>2 DEF R
<1> QED BY <1>3

\* Induction, with the set of the numbers that have the property.
LEMMA Induction ==
    ASSUME NEW T, 0 \in T, \A n \in Nat : n \in T => n + 1 \in T
    PROVE  \A n \in Nat : n \in T
<1> SUFFICES ASSUME Nat \ T # {} PROVE FALSE
  OBVIOUS
<1>1. PICK x \in Nat \ T : \A y \in Nat \ T : x <= y
  BY Least
<1>2. x - 1 \in Nat /\ x - 1 \in T
  BY <1>1
<1> QED BY <1>1, <1>2

\* The runs of a loop of N turns from x: its states before and after each turn.
Runs(S, x, turn, N) == {g \in [0..N -> S] : g[0] = x /\ \A n \in 1..N : g[n] = turn[g[n - 1]]}

\* A loop of N turns has a run: its states, one after each turn.
LEMMA Loop ==
    ASSUME NEW S, NEW x \in S, NEW turn \in [S -> S], NEW N \in Nat
    PROVE  Runs(S, x, turn, N) # {}
<1> DEFINE T == {m \in Nat : Runs(S, x, turn, m) # {}}
<1>1. 0 \in T
  <2>1. [n \in 0..0 |-> x] \in Runs(S, x, turn, 0)
    BY DEF Runs
  <2> QED BY <2>1
<1>2. ASSUME NEW m \in Nat, m \in T PROVE m + 1 \in T
  <2>1. PICK g \in Runs(S, x, turn, m) : TRUE
    BY <1>2
  <2> DEFINE f == [n \in 0..(m + 1) |-> IF n = m + 1 THEN turn[g[m]] ELSE g[n]]
  <2>2. f \in [0..(m + 1) -> S]
    BY <2>1 DEF Runs
  <2>3. f[0] = x /\ \A n \in 1..(m + 1) : f[n] = turn[f[n - 1]]
    BY <2>1 DEF Runs
  <2> HIDE DEF f
  <2>4. f \in Runs(S, x, turn, m + 1)
    BY <2>2, <2>3 DEF Runs
  <2> QED BY <2>4
<1> HIDE DEF T
<1>3. N \in T
  BY <1>1, <1>2, Induction
<1> QED BY <1>3 DEF T

-----------------------------------------------------------------------------
(* The states of the loops.                                                *)

Perms(n) == {p \in [1..n -> 1..n] : /\ \A i, j \in 1..n : p[i] = p[j] => i = j
                                    /\ \A k \in 1..n : \E i \in 1..n : p[i] = k}

States(E, n) == [heap : [1..n -> E], at : 1..n]

\* A sequence is a function on its indices,
LEMMA SeqIsFunction ==
    ASSUME NEW E, NEW h \in Seq(E)
    PROVE  h \in [1..Len(h) -> E] /\ Len(h) \in Nat
OBVIOUS

\* and conversely.
LEMMA FunctionIsSeq ==
    ASSUME NEW E, NEW n \in Nat, NEW h \in [1..n -> E]
    PROVE  h \in Seq(E) /\ Len(h) = n
OBVIOUS

\* A turn of the loop of sift_up stays within the states of the loop,
LEMMA RiseType ==
    ASSUME NEW E, NEW n \in Nat, NEW key, \A x \in E : key[x] \in Nat, NEW s \in States(E, n)
    PROVE  Rise(s, key) \in States(E, n)
<1>1. s.heap \in [1..n -> E] /\ s.at \in 1..n
  BY DEF States
<1>2. CASE s.at > 1 /\ key[s.heap[s.at]] < key[s.heap[s.at \div 2]]
  <2>1. s.at \div 2 \in 1..n
    BY <1>1, <1>2
  <2>2. Swap(s.heap, s.at, s.at \div 2) \in [1..n -> E]
    BY <1>1, <2>1 DEF Swap
  <2>3. Rise(s, key) = [heap |-> Swap(s.heap, s.at, s.at \div 2), at |-> s.at \div 2]
    BY <1>2 DEF Rise
  <2> QED BY <2>1, <2>2, <2>3 DEF States
<1>3. CASE ~(s.at > 1 /\ key[s.heap[s.at]] < key[s.heap[s.at \div 2]])
  BY <1>3 DEF Rise
<1> QED BY <1>2, <1>3

\* and so does one of sift_down.
LEMMA SinkType ==
    ASSUME NEW E, NEW n \in Nat, NEW key, \A x \in E : key[x] \in Nat, NEW s \in States(E, n)
    PROVE  /\ Best(s.heap, key, s.at) \in 1..n /\ Sink(s, key) \in States(E, n)
<1>1. s.heap \in [1..n -> E] /\ s.at \in 1..n /\ Len(s.heap) = n
  BY FunctionIsSeq DEF States
<1>2. Best(s.heap, key, s.at) \in 1..n
  <2>1. Best(s.heap, key, s.at) \in {s.at, 2 * s.at, 2 * s.at + 1}
    BY DEF Best
  <2>2. Best(s.heap, key, s.at) = 2 * s.at => 2 * s.at <= n
    BY <1>1 DEF Best
  <2>3. Best(s.heap, key, s.at) = 2 * s.at + 1 => 2 * s.at + 1 <= n
    BY <1>1 DEF Best
  <2> QED BY <1>1, <2>1, <2>2, <2>3
<1>3. Sink(s, key) \in States(E, n)
  BY <1>1, <1>2 DEF Sink, States, Swap
<1> QED BY <1>2, <1>3

\* Iterate returns the last state of a run.
LEMMA IterateIs ==
    ASSUME NEW S, NEW x \in S, NEW turn \in [S -> S], NEW N \in Nat
    PROVE  \E g \in Runs(S, x, turn, N) : Iterate(turn, x, N) = g[N]
<1> DEFINE Body(f) == [n \in 0..N |-> IF n = 0 THEN x ELSE turn[f[n - 1]]]
           loop == CHOOSE f : f = Body(f)
<1>1. PICK r \in Runs(S, x, turn, N) : TRUE
  <2>1. Runs(S, x, turn, N) # {}
    BY Loop, Zenon
  <2> QED BY <2>1
<1>2. r = Body(r)
  BY <1>1 DEF Runs
<1>3. loop = Body(loop)
  BY <1>2
<1>4. Iterate(turn, x, N) = loop[N]
  BY DEF Iterate
<1> HIDE DEF loop
<1>5. loop[0] = x /\ \A n \in 1..N : loop[n] = turn[loop[n - 1]]
  BY <1>3
<1>6. \A n \in 0..N : loop[n] \in S
  <2> DEFINE T == {n \in Nat : n \in 0..N => loop[n] \in S}
  <2>1. 0 \in T
    BY <1>5
  <2>2. ASSUME NEW n \in Nat, n \in T PROVE n + 1 \in T
    <3> SUFFICES ASSUME n + 1 \in 0..N PROVE loop[n + 1] \in S
      OBVIOUS
    <3>1. loop[n] \in S /\ loop[n + 1] = turn[loop[n]]
      BY <1>5, <2>2
    <3> QED BY <3>1
  <2> HIDE DEF T
  <2>3. \A n \in Nat : n \in T
    BY <2>1, <2>2, Induction
  <2> QED BY <2>3 DEF T
<1>7. loop \in [0..N -> S]
  <2>1. loop = [n \in 0..N |-> loop[n]]
    BY <1>3
  <2> QED BY <1>6, <2>1
<1> QED BY <1>4, <1>5, <1>7 DEF Runs

\* The states of the loops: arrangements of the heap's elements, and an index.
LEMMA LoopStatesAre ==
    ASSUME NEW E, NEW h \in Seq(E)
    PROVE  LoopStates(h) = States({h[i] : i \in 1..Len(h)}, Len(h))
<1>1. DOMAIN h = 1..Len(h)
  OBVIOUS
<1> QED BY <1>1 DEF LoopStates, States

-----------------------------------------------------------------------------
(* The loops permute the heap.                                             *)

Permuted(r, h, n) == \E p \in Perms(n) : \A k \in 1..n : r[k] = h[p[k]]

\* The heap before the first turn.
LEMMA SamePermuted ==
    ASSUME NEW n \in Nat, NEW h
    PROVE  Permuted(h, h, n)
<1> DEFINE p == [k \in 1..n |-> k]
<1>1. p \in Perms(n)
  BY DEF Perms
<1> QED BY <1>1 DEF Permuted

\* Swapping two elements loses none and doubles none.
LEMMA SwapPermutes ==
    ASSUME NEW E, NEW n \in Nat, NEW h, NEW r \in [1..n -> E], Permuted(r, h, n),
           NEW i \in 1..n, NEW j \in 1..n
    PROVE  Permuted(Swap(r, i, j), h, n)
<1>1. PICK p \in Perms(n) : \A k \in 1..n : r[k] = h[p[k]]
  BY DEF Permuted
<1> DEFINE q == [k \in 1..n |-> IF k = j THEN p[i] ELSE IF k = i THEN p[j] ELSE p[k]]
<1>2. q \in [1..n -> 1..n]
  BY <1>1 DEF Perms
<1>3. \A k, l \in 1..n : q[k] = q[l] => k = l
  BY <1>1 DEF Perms
<1>4. ASSUME NEW k \in 1..n PROVE \E l \in 1..n : q[l] = k
  <2>1. PICK l \in 1..n : p[l] = k
    BY <1>1 DEF Perms
  <2>2. q[IF l = i THEN j ELSE IF l = j THEN i ELSE l] = k
    BY <2>1
  <2> QED BY <2>2
<1>5. \A k \in 1..n : Swap(r, i, j)[k] = h[q[k]]
  BY <1>1 DEF Swap
<1> HIDE DEF q
<1>6. q \in Perms(n)
  BY <1>2, <1>3, <1>4 DEF Perms
<1> QED BY <1>5, <1>6 DEF Permuted

\* So does a turn of sift_up,
LEMMA RisePermutes ==
    ASSUME NEW E, NEW n \in Nat, NEW h, NEW key, \A x \in E : key[x] \in Nat, NEW s \in States(E, n),
           Permuted(s.heap, h, n)
    PROVE  Permuted(Rise(s, key).heap, h, n)
<1>1. s.heap \in [1..n -> E] /\ s.at \in 1..n
  BY DEF States
<1>2. s.at > 1 => s.at \div 2 \in 1..n
  BY <1>1
<1>3. s.at > 1 => Permuted(Swap(s.heap, s.at, s.at \div 2), h, n)
  BY <1>1, <1>2, SwapPermutes
<1> QED BY <1>3 DEF Rise

\* and one of sift_down.
LEMMA SinkPermutes ==
    ASSUME NEW E, NEW n \in Nat, NEW h, NEW key, \A x \in E : key[x] \in Nat, NEW s \in States(E, n),
           Permuted(s.heap, h, n)
    PROVE  Permuted(Sink(s, key).heap, h, n)
<1>1. s.heap \in [1..n -> E] /\ s.at \in 1..n
  BY DEF States
<1>2. Best(s.heap, key, s.at) \in 1..n
  BY SinkType
<1>3. Permuted(Swap(s.heap, s.at, Best(s.heap, key, s.at)), h, n)
  BY <1>1, <1>2, SwapPermutes
<1> QED BY <1>3 DEF Sink

-----------------------------------------------------------------------------
(* The loops restore the order of the heap.  X is the set of elements that *)
(* may be out of order: those whose key was set to the least value while   *)
(* they were in the heap.                                                  *)

Fits(h, key, X, i, j) == key[h[i]] <= key[h[j]] \/ h[j] \in X

Ordered(h, key, X) == \A j \in 2..Len(h) : Fits(h, key, X, j \div 2, j)

\* All is in order but the element that rises.
RiseInv(s, key, X, n) ==
    /\ \A j \in 2..n : j # s.at => Fits(s.heap, key, X, j \div 2, j)
    /\ s.at > 1 => \A j \in 2..n : j \div 2 = s.at => Fits(s.heap, key, X, s.at \div 2, j)

RiseDone(s, key) == s.at = 1 \/ key[s.heap[s.at]] >= key[s.heap[s.at \div 2]]

\* All is in order but the children of the element that sinks.
SinkInv(s, key, X, n) ==
    /\ \A j \in 2..n : j \div 2 # s.at => Fits(s.heap, key, X, j \div 2, j)
    /\ s.at > 1 => \A j \in 2..n : j \div 2 = s.at => Fits(s.heap, key, X, s.at \div 2, j)

SinkDone(s, key) == Best(s.heap, key, s.at) = s.at

\* A turn of sift_up that swaps keeps its loop invariant and moves towards the root.
LEMMA RiseKeeps ==
    ASSUME NEW E, NEW n \in Nat, NEW key, \A x \in E : key[x] \in Nat, NEW s \in States(E, n),
           NEW X \in SUBSET E, \A x \in X : key[x] = 0,
           RiseInv(s, key, X, n), ~RiseDone(s, key)
    PROVE  RiseInv(Rise(s, key), key, X, n) /\ Rise(s, key).at < s.at
<1> DEFINE h == s.heap
           c == s.at
           p == s.at \div 2
           r == Swap(h, c, p)
<1>1. h \in [1..n -> E] /\ c \in 1..n
  BY DEF States
<1>2. c > 1 /\ p \in 1..n /\ p < c /\ key[h[c]] < key[h[p]]
  BY <1>1 DEF RiseDone
<1>3. Rise(s, key) = [heap |-> r, at |-> p]
  BY <1>2 DEF Rise
<1>4. r \in [1..n -> E] /\ r[p] = h[c] /\ r[c] = h[p] /\ \A j \in 1..n : j # p /\ j # c => r[j] = h[j]
  BY <1>1, <1>2 DEF Swap
<1>5. \A x \in E : key[x] \in Nat
  OBVIOUS
<1>6. h[p] \notin X
  BY <1>1, <1>2, <1>5
<1>7. \A j \in 2..n : j \div 2 \in 1..n /\ j \div 2 < j
  OBVIOUS
<1>8. ASSUME NEW j \in 2..n, j # p PROVE Fits(r, key, X, j \div 2, j)
  <2>1. CASE j = c
    BY <1>1, <1>2, <1>4, <1>5, <2>1 DEF Fits
  <2>2. CASE j # c /\ j \div 2 = c
    <3>1. key[h[p]] <= key[h[j]] \/ h[j] \in X
      BY <1>2, <2>2 DEF Fits, RiseInv
    <3>2. r[j] = h[j] /\ r[j \div 2] = h[p]
      BY <1>2, <1>4, <1>8, <2>2
    <3> QED BY <3>1, <3>2 DEF Fits
  <2>3. CASE j # c /\ j \div 2 = p
    <3>1. key[h[p]] <= key[h[j]] \/ h[j] \in X
      BY <2>3 DEF Fits, RiseInv
    <3>2. r[j] = h[j] /\ r[j \div 2] = h[c] /\ j \in 1..n
      BY <1>2, <1>4, <1>8, <2>3
    <3>3. key[h[c]] \in Nat /\ key[h[p]] \in Nat /\ key[h[j]] \in Nat
      BY <1>1, <1>2, <1>5, <3>2
    <3> QED BY <1>2, <3>1, <3>2, <3>3 DEF Fits
  <2>4. CASE j # c /\ j \div 2 # c /\ j \div 2 # p
    <3>1. Fits(h, key, X, j \div 2, j)
      BY <2>4 DEF RiseInv
    <3>2. r[j] = h[j] /\ r[j \div 2] = h[j \div 2]
      BY <1>4, <1>7, <1>8, <2>4
    <3> QED BY <3>1, <3>2 DEF Fits
  <2> QED BY <2>1, <2>2, <2>3, <2>4
<1>9. ASSUME p > 1, NEW j \in 2..n, j \div 2 = p PROVE Fits(r, key, X, p \div 2, j)
  <2>1. key[h[p \div 2]] <= key[h[p]]
    BY <1>2, <1>6, <1>9 DEF Fits, RiseInv
  <2>2. r[p \div 2] = h[p \div 2] /\ p \div 2 \in 1..n
    BY <1>2, <1>4, <1>9
  <2>3. CASE j = c
    BY <1>4, <2>1, <2>2, <2>3 DEF Fits
  <2>4. CASE j # c
    <3>1. key[h[p]] <= key[h[j]] \/ h[j] \in X
      BY <1>9, <2>4 DEF Fits, RiseInv
    <3>2. r[j] = h[j] /\ j \in 1..n
      BY <1>4, <1>7, <1>9, <2>4
    <3>3. key[h[p \div 2]] \in Nat /\ key[h[p]] \in Nat /\ key[h[j]] \in Nat
      BY <1>1, <1>2, <1>5, <2>2, <3>2
    <3> QED BY <2>1, <2>2, <3>1, <3>2, <3>3 DEF Fits
  <2> QED BY <2>3, <2>4
<1> HIDE DEF h, c, p, r
<1>10. RiseInv([heap |-> r, at |-> p], key, X, n)
  BY <1>8, <1>9 DEF RiseInv
<1> QED BY <1>2, <1>3, <1>10 DEF c

\* The child that sift_down compares with is smaller than its parent, and no sibling is smaller.
LEMMA BestIs ==
    ASSUME NEW E, NEW n \in Nat, NEW key, \A x \in E : key[x] \in Nat, NEW h \in [1..n -> E], NEW i \in 1..n
    PROVE  LET b == Best(h, key, i)
           IN  /\ b # i => b \in 2..n /\ b \div 2 = i /\ i < b /\ key[h[b]] < key[h[i]]
               /\ \A j \in 2..n : j \div 2 = i => key[h[b]] <= key[h[j]]
<1> DEFINE b == Best(h, key, i)
<1>1. Len(h) = n
  BY FunctionIsSeq
<1>2. \A j \in 1..n : key[h[j]] \in Nat
  OBVIOUS
<1>3. \A j \in 2..n : j \div 2 = i => j \in {2 * i, 2 * i + 1}
  OBVIOUS
<1>4. (2 * i) \div 2 = i /\ (2 * i + 1) \div 2 = i
  OBVIOUS
<1>5. b # i => b \in 2..n /\ b \div 2 = i /\ i < b /\ key[h[b]] < key[h[i]]
  BY <1>1, <1>2, <1>4 DEF Best
<1>6. 2 * i <= n => key[h[b]] <= key[h[2 * i]]
  BY <1>1, <1>2 DEF Best
<1>7. 2 * i + 1 <= n => key[h[b]] <= key[h[2 * i + 1]]
  BY <1>1, <1>2 DEF Best
<1>8. \A j \in 2..n : j \div 2 = i => key[h[b]] <= key[h[j]]
  BY <1>3, <1>6, <1>7
<1> QED BY <1>5, <1>8

\* A turn of sift_down that swaps keeps its loop invariant and moves towards the leaves.
LEMMA SinkKeeps ==
    ASSUME NEW E, NEW n \in Nat, NEW key, \A x \in E : key[x] \in Nat, NEW s \in States(E, n),
           NEW X, SinkInv(s, key, X, n), ~SinkDone(s, key)
    PROVE  SinkInv(Sink(s, key), key, X, n) /\ s.at < Sink(s, key).at
<1> DEFINE h == s.heap
           p == s.at
           b == Best(h, key, p)
           r == Swap(h, p, b)
<1>1. h \in [1..n -> E] /\ p \in 1..n
  BY DEF States
<1>2. b \in 2..n /\ b \div 2 = p /\ p < b /\ key[h[b]] < key[h[p]]
  BY <1>1, BestIs DEF SinkDone
<1>3. Sink(s, key) = [heap |-> r, at |-> b]
  BY <1>2 DEF Sink
<1>4. \A j \in 2..n : j \div 2 = p => key[h[b]] <= key[h[j]]
  BY <1>1, BestIs
<1> HIDE DEF b
<1>5. r \in [1..n -> E] /\ r[p] = h[b] /\ r[b] = h[p] /\ \A j \in 1..n : j # p /\ j # b => r[j] = h[j]
  <2>1. b \in 1..n /\ b # p
    BY <1>1, <1>2
  <2> QED BY <1>1, <2>1 DEF Swap
<1> HIDE DEF r
<1>6. ASSUME NEW j \in 2..n, j \div 2 # b PROVE Fits(r, key, X, j \div 2, j)
  <2>1. j \div 2 \in 1..n /\ j \div 2 < j /\ j \in 1..n
    OBVIOUS
  <2>2. CASE j \div 2 = p /\ j = b
    <3>1. key[h[b]] \in Nat /\ key[h[p]] \in Nat
      BY <1>1, <1>2
    <3> QED BY <1>2, <1>5, <2>2, <3>1 DEF Fits
  <2>3. CASE j \div 2 = p /\ j # b
    <3>1. r[j] = h[j] /\ r[j \div 2] = h[b]
      BY <1>5, <2>1, <2>3
    <3> QED BY <1>4, <2>3, <3>1 DEF Fits
  <2>4. CASE j \div 2 # p /\ j = p
    <3>1. Fits(h, key, X, p \div 2, b) /\ p > 1
      BY <1>2, <2>4 DEF SinkInv
    <3>2. r[p \div 2] = h[p \div 2] /\ r[p] = h[b]
      BY <1>2, <1>5, <2>1, <2>4
    <3> QED BY <2>4, <3>1, <3>2 DEF Fits
  <2>5. CASE j \div 2 # p /\ j # p
    <3>1. r[j] = h[j] /\ r[j \div 2] = h[j \div 2]
      BY <1>2, <1>5, <1>6, <2>1, <2>5
    <3> QED BY <2>5, <3>1 DEF Fits, SinkInv
  <2> QED BY <2>2, <2>3, <2>4, <2>5
<1>7. ASSUME NEW j \in 2..n, j \div 2 = b PROVE Fits(r, key, X, b \div 2, j)
  <2>1. j \in 1..n /\ j # b /\ j # p /\ b # p
    BY <1>1, <1>2, <1>7
  <2>2. r[j] = h[j] /\ r[b \div 2] = h[b]
    BY <1>2, <1>5, <2>1
  <2>3. Fits(h, key, X, b, j)
    BY <1>7, <2>1 DEF SinkInv
  <2> QED BY <2>2, <2>3 DEF Fits
<1> HIDE DEF h, p
<1>8. SinkInv([heap |-> r, at |-> b], key, X, n)
  BY <1>6, <1>7 DEF SinkInv
<1> QED BY <1>2, <1>3, <1>8 DEF p

\* sift_up is a run of its loop.
LEMMA SiftUpRuns ==
    ASSUME NEW E, NEW h \in Seq(E), NEW key, \A x \in E : key[x] \in Nat, NEW i \in 1..Len(h)
    PROVE  \E g \in [0..Len(h) -> States(E, Len(h))] :
               /\ g[0] = [heap |-> h, at |-> i]
               /\ \A n \in 1..Len(h) : g[n] = Rise(g[n - 1], key)
               /\ SiftUp(h, key, i) = g[Len(h)].heap
<1> DEFINE F == {h[k] : k \in 1..Len(h)}
           S == LoopStates(h)
           x == [heap |-> h, at |-> i]
           turn == [s \in S |-> Rise(s, key)]
<1>1. Len(h) \in Nat /\ h \in [1..Len(h) -> F] /\ F \subseteq E /\ i \in 1..Len(h)
  OBVIOUS
<1> HIDE DEF F
<1>2. S = States(F, Len(h))
  BY LoopStatesAre DEF F
<1>3. x \in S
  BY <1>1, <1>2 DEF States
<1>4. turn \in [S -> S]
  <2>1. \A s \in S : Rise(s, key) \in S
    BY <1>1, <1>2, RiseType
  <2> QED BY <2>1
<1>5. SiftUp(h, key, i) = Iterate(turn, x, Len(h)).heap
  BY DEF SiftUp
<1> HIDE DEF S, x, turn
<1>6. PICK g \in Runs(S, x, turn, Len(h)) : Iterate(turn, x, Len(h)) = g[Len(h)]
  BY <1>1, <1>3, <1>4, IterateIs, Zenon
<1>7. g \in [0..Len(h) -> S] /\ g[0] = x
  BY <1>6 DEF Runs
<1>8. \A n \in 1..Len(h) : g[n] = Rise(g[n - 1], key)
  <2> SUFFICES ASSUME NEW n \in 1..Len(h) PROVE g[n] = Rise(g[n - 1], key)
    OBVIOUS
  <2>1. g[n - 1] \in S
    BY <1>1, <1>7
  <2>2. g[n] = turn[g[n - 1]]
    BY <1>6 DEF Runs
  <2> QED BY <2>1, <2>2 DEF turn
<1>9. S \subseteq States(E, Len(h))
  BY <1>1, <1>2 DEF States
<1> QED BY <1>5, <1>6, <1>7, <1>8, <1>9 DEF x

\* sift_up rearranges the heap.
LEMMA SiftUpPermutes ==
    ASSUME NEW E, NEW h \in Seq(E), NEW key, \A x \in E : key[x] \in Nat, NEW i \in 1..Len(h)
    PROVE  /\ SiftUp(h, key, i) \in Seq(E) /\ Len(SiftUp(h, key, i)) = Len(h)
           /\ Permuted(SiftUp(h, key, i), h, Len(h))
<1>1. Len(h) \in Nat
  OBVIOUS
<1>2. PICK g \in [0..Len(h) -> States(E, Len(h))] :
               /\ g[0] = [heap |-> h, at |-> i]
               /\ \A n \in 1..Len(h) : g[n] = Rise(g[n - 1], key)
               /\ SiftUp(h, key, i) = g[Len(h)].heap
  BY SiftUpRuns, SMTT(60)
<1> DEFINE T == {n \in Nat : n \in 0..Len(h) => Permuted(g[n].heap, h, Len(h))}
<1>3. 0 \in T
  BY <1>1, <1>2, SamePermuted
<1>4. ASSUME NEW n \in Nat, n \in T PROVE n + 1 \in T
  <2> SUFFICES ASSUME n + 1 \in 0..Len(h) PROVE Permuted(g[n + 1].heap, h, Len(h))
    OBVIOUS
  <2>1. g[n] \in States(E, Len(h)) /\ g[n + 1] = Rise(g[n], key)
    BY <1>1, <1>2
  <2>2. Permuted(g[n].heap, h, Len(h))
    BY <1>1, <1>4
  <2> QED BY <1>1, <2>1, <2>2, RisePermutes, Zenon
<1> HIDE DEF T
<1>5. Len(h) \in T
  BY <1>1, <1>3, <1>4, Induction
<1>6. Permuted(g[Len(h)].heap, h, Len(h))
  BY <1>1, <1>5 DEF T
<1>7. g[Len(h)].heap \in [1..Len(h) -> E]
  BY <1>1, <1>2 DEF States
<1>8. g[Len(h)].heap \in Seq(E) /\ Len(g[Len(h)].heap) = Len(h)
  <2>1. \A r \in [1..Len(h) -> E] : r \in Seq(E) /\ Len(r) = Len(h)
    BY <1>1, FunctionIsSeq
  <2> QED BY <1>7, <2>1, Zenon
<1> QED BY <1>2, <1>6, <1>8

\* It ends with a heap in order, when only its starting index was out of order.
LEMMA SiftUpOrders ==
    ASSUME NEW E, NEW h \in Seq(E), NEW key, \A x \in E : key[x] \in Nat, NEW i \in 1..Len(h),
           NEW X \in SUBSET E, \A x \in X : key[x] = 0, RiseInv([heap |-> h, at |-> i], key, X, Len(h))
    PROVE  Ordered(SiftUp(h, key, i), key, X)
<1> DEFINE N == Len(h)
<1>1. N \in Nat /\ i \in 1..N
  OBVIOUS
<1>2. PICK g \in [0..N -> States(E, N)] :
               /\ g[0] = [heap |-> h, at |-> i]
               /\ \A n \in 1..N : g[n] = Rise(g[n - 1], key)
               /\ SiftUp(h, key, i) = g[N].heap
  BY SiftUpRuns
<1> DEFINE P(n) == RiseInv(g[n], key, X, N) /\ (RiseDone(g[n], key) \/ g[n].at + n <= i)
           T == {n \in Nat : n \in 0..N => P(n)}
<1> HIDE DEF N
<1>3. 0 \in T
  BY <1>1, <1>2 DEF N
<1>4. ASSUME NEW n \in Nat, n \in T PROVE n + 1 \in T
  <2> SUFFICES ASSUME n + 1 \in 0..N PROVE P(n + 1)
    OBVIOUS
  <2>1. g[n] \in States(E, N) /\ g[n + 1] = Rise(g[n], key) /\ g[n + 1] \in States(E, N)
    BY <1>1, <1>2
  <2>2. RiseInv(g[n], key, X, N) /\ (RiseDone(g[n], key) \/ g[n].at + n <= i)
    BY <1>1, <1>4
  <2>3. CASE RiseDone(g[n], key)
    <3>1. Rise(g[n], key) = g[n]
      <4>1. g[n].heap \in [1..N -> E] /\ g[n].at \in 1..N
        BY <2>1 DEF States
      <4> QED BY <1>1, <4>1, <2>3 DEF Rise, RiseDone
    <3> QED BY <2>1, <2>2, <2>3, <3>1
  <2>4. CASE ~RiseDone(g[n], key)
    <3>1. RiseInv(g[n + 1], key, X, N) /\ g[n + 1].at < g[n].at
      BY <1>1, <2>1, <2>2, <2>4, RiseKeeps
    <3>2. g[n].at \in 1..N /\ g[n + 1].at \in 1..N
      BY <2>1 DEF States
    <3> QED BY <1>1, <2>2, <2>4, <3>1, <3>2
  <2> QED BY <2>3, <2>4
<1> HIDE DEF T
<1>5. N \in T
  BY <1>1, <1>3, <1>4, Induction
<1>6. P(N)
  BY <1>1, <1>5 DEF T
<1>7. g[N].heap \in [1..N -> E] /\ g[N].at \in 1..N
  BY <1>1, <1>2 DEF States
<1>8. RiseDone(g[N], key)
  BY <1>1, <1>6, <1>7
<1>9. Len(g[N].heap) = N
  BY <1>1, <1>7, FunctionIsSeq
<1>10. ASSUME NEW j \in 2..N PROVE Fits(g[N].heap, key, X, j \div 2, j)
  <2>1. CASE j # g[N].at
    BY <1>6, <2>1 DEF RiseInv
  <2>2. CASE j = g[N].at
    <3>1. j \div 2 \in 1..N /\ j \in 1..N
      BY <1>1
    <3>2. key[g[N].heap[j]] \in Nat /\ key[g[N].heap[j \div 2]] \in Nat
      BY <1>7, <3>1
    <3> QED BY <1>8, <2>2, <3>2 DEF RiseDone, Fits
  <2> QED BY <2>1, <2>2
<1> QED BY <1>2, <1>9, <1>10 DEF Ordered

\* sift_down is a run of its loop.
LEMMA SiftDownRuns ==
    ASSUME NEW E, NEW h \in Seq(E), NEW key, \A x \in E : key[x] \in Nat, Len(h) > 0
    PROVE  \E g \in [0..Len(h) -> States(E, Len(h))] :
               /\ g[0] = [heap |-> h, at |-> 1]
               /\ \A n \in 1..Len(h) : g[n] = Sink(g[n - 1], key)
               /\ SiftDown(h, key) = g[Len(h)].heap
<1> DEFINE F == {h[k] : k \in 1..Len(h)}
           S == LoopStates(h)
           x == [heap |-> h, at |-> 1]
           turn == [s \in S |-> Sink(s, key)]
<1>1. Len(h) \in Nat /\ h \in [1..Len(h) -> F] /\ F \subseteq E /\ 1 \in 1..Len(h)
  OBVIOUS
<1> HIDE DEF F
<1>2. S = States(F, Len(h))
  BY LoopStatesAre DEF F
<1>3. x \in S
  BY <1>1, <1>2 DEF States
<1>4. turn \in [S -> S]
  <2>1. \A s \in S : Sink(s, key) \in S
    BY <1>1, <1>2, SinkType
  <2> QED BY <2>1
<1>5. SiftDown(h, key) = Iterate(turn, x, Len(h)).heap
  BY DEF SiftDown
<1> HIDE DEF S, x, turn
<1>6. PICK g \in Runs(S, x, turn, Len(h)) : Iterate(turn, x, Len(h)) = g[Len(h)]
  BY <1>1, <1>3, <1>4, IterateIs, Zenon
<1>7. g \in [0..Len(h) -> S] /\ g[0] = x
  BY <1>6 DEF Runs
<1>8. \A n \in 1..Len(h) : g[n] = Sink(g[n - 1], key)
  <2> SUFFICES ASSUME NEW n \in 1..Len(h) PROVE g[n] = Sink(g[n - 1], key)
    OBVIOUS
  <2>1. g[n - 1] \in S
    BY <1>1, <1>7
  <2>2. g[n] = turn[g[n - 1]]
    BY <1>6 DEF Runs
  <2> QED BY <2>1, <2>2 DEF turn
<1>9. S \subseteq States(E, Len(h))
  BY <1>1, <1>2 DEF States
<1> QED BY <1>5, <1>6, <1>7, <1>8, <1>9 DEF x

\* sift_down rearranges the heap.
LEMMA SiftDownPermutes ==
    ASSUME NEW E, NEW h \in Seq(E), NEW key, \A x \in E : key[x] \in Nat, Len(h) > 0
    PROVE  /\ SiftDown(h, key) \in Seq(E) /\ Len(SiftDown(h, key)) = Len(h)
           /\ Permuted(SiftDown(h, key), h, Len(h))
<1>1. Len(h) \in Nat
  OBVIOUS
<1>2. PICK g \in [0..Len(h) -> States(E, Len(h))] :
               /\ g[0] = [heap |-> h, at |-> 1]
               /\ \A n \in 1..Len(h) : g[n] = Sink(g[n - 1], key)
               /\ SiftDown(h, key) = g[Len(h)].heap
  BY SiftDownRuns, SMTT(60)
<1> DEFINE T == {n \in Nat : n \in 0..Len(h) => Permuted(g[n].heap, h, Len(h))}
<1>3. 0 \in T
  BY <1>1, <1>2, SamePermuted
<1>4. ASSUME NEW n \in Nat, n \in T PROVE n + 1 \in T
  <2> SUFFICES ASSUME n + 1 \in 0..Len(h) PROVE Permuted(g[n + 1].heap, h, Len(h))
    OBVIOUS
  <2>1. g[n] \in States(E, Len(h)) /\ g[n + 1] = Sink(g[n], key)
    BY <1>1, <1>2
  <2>2. Permuted(g[n].heap, h, Len(h))
    BY <1>1, <1>4
  <2> QED BY <1>1, <2>1, <2>2, SinkPermutes, Zenon
<1> HIDE DEF T
<1>5. Len(h) \in T
  BY <1>1, <1>3, <1>4, Induction
<1>6. Permuted(g[Len(h)].heap, h, Len(h))
  BY <1>1, <1>5 DEF T
<1>7. g[Len(h)].heap \in [1..Len(h) -> E]
  BY <1>1, <1>2 DEF States
<1>8. g[Len(h)].heap \in Seq(E) /\ Len(g[Len(h)].heap) = Len(h)
  <2>1. \A r \in [1..Len(h) -> E] : r \in Seq(E) /\ Len(r) = Len(h)
    BY <1>1, FunctionIsSeq
  <2> QED BY <1>7, <2>1, Zenon
<1> QED BY <1>2, <1>6, <1>8

\* It ends with a heap in order, when only the root was out of order.
LEMMA SiftDownOrders ==
    ASSUME NEW E, NEW h \in Seq(E), NEW key, \A x \in E : key[x] \in Nat, Len(h) > 0,
           NEW X \in SUBSET E, \A x \in X : key[x] = 0, SinkInv([heap |-> h, at |-> 1], key, X, Len(h))
    PROVE  Ordered(SiftDown(h, key), key, X)
<1> DEFINE N == Len(h)
<1>1. N \in Nat /\ 1 \in 1..N
  OBVIOUS
<1>2. PICK g \in [0..N -> States(E, N)] :
               /\ g[0] = [heap |-> h, at |-> 1]
               /\ \A n \in 1..N : g[n] = Sink(g[n - 1], key)
               /\ SiftDown(h, key) = g[N].heap
  BY SiftDownRuns
<1> DEFINE P(n) == SinkInv(g[n], key, X, N) /\ (SinkDone(g[n], key) \/ n < g[n].at)
           T == {n \in Nat : n \in 0..N => P(n)}
<1> HIDE DEF N
<1>3. 0 \in T
  BY <1>1, <1>2 DEF N
<1>4. ASSUME NEW n \in Nat, n \in T PROVE n + 1 \in T
  <2> SUFFICES ASSUME n + 1 \in 0..N PROVE P(n + 1)
    OBVIOUS
  <2>1. g[n] \in States(E, N) /\ g[n + 1] = Sink(g[n], key) /\ g[n + 1] \in States(E, N)
    BY <1>1, <1>2
  <2>2. SinkInv(g[n], key, X, N) /\ (SinkDone(g[n], key) \/ n < g[n].at)
    BY <1>1, <1>4
  <2>3. CASE SinkDone(g[n], key)
    <3>1. Sink(g[n], key) = g[n]
      <4>1. g[n].heap \in [1..N -> E] /\ g[n].at \in 1..N
        BY <2>1 DEF States
      <4> QED BY <1>1, <4>1, <2>3 DEF Sink, SinkDone
    <3> QED BY <2>1, <2>2, <2>3, <3>1
  <2>4. CASE ~SinkDone(g[n], key)
    <3>1. SinkInv(g[n + 1], key, X, N) /\ g[n + 1].at > g[n].at
      BY <1>1, <2>1, <2>2, <2>4, SinkKeeps
    <3>2. g[n].at \in 1..N /\ g[n + 1].at \in 1..N
      BY <2>1 DEF States
    <3> QED BY <1>1, <2>2, <2>4, <3>1, <3>2
  <2> QED BY <2>3, <2>4
<1> HIDE DEF T
<1>5. N \in T
  BY <1>1, <1>3, <1>4, Induction
<1>6. P(N)
  BY <1>1, <1>5 DEF T
<1>7. g[N].heap \in [1..N -> E] /\ g[N].at \in 1..N
  BY <1>1, <1>2 DEF States
<1>8. SinkDone(g[N], key)
  BY <1>1, <1>6, <1>7
<1>9. Len(g[N].heap) = N
  BY <1>1, <1>7, FunctionIsSeq
<1>10. ASSUME NEW j \in 2..N PROVE Fits(g[N].heap, key, X, j \div 2, j)
  <2>1. CASE j \div 2 # g[N].at
    BY <1>6, <2>1 DEF SinkInv
  <2>2. CASE j \div 2 = g[N].at
    <3>1. key[g[N].heap[Best(g[N].heap, key, g[N].at)]] <= key[g[N].heap[j]]
      BY <1>1, <1>7, <2>2, BestIs
    <3> QED BY <1>8, <2>2, <3>1 DEF SinkDone, Fits
  <2> QED BY <2>1, <2>2
<1> QED BY <1>2, <1>9, <1>10 DEF Ordered

-----------------------------------------------------------------------------
(* What push and pop do.                                                   *)

Elements(h) == {h[i] : i \in 1..Len(h)}

OneToOne(h) == \A i, j \in 1..Len(h) : h[i] = h[j] => i = j

\* What is rearranged has the same elements, each as often as before.
LEMMA PermutedElements ==
    ASSUME NEW E, NEW h \in Seq(E), NEW r \in Seq(E), Len(r) = Len(h), Permuted(r, h, Len(h))
    PROVE  Elements(r) = Elements(h) /\ (OneToOne(h) => OneToOne(r))
<1>1. PICK p \in Perms(Len(h)) : \A k \in 1..Len(h) : r[k] = h[p[k]]
  BY DEF Permuted
<1>2. Elements(r) \subseteq Elements(h)
  <2>1. \A k \in 1..Len(h) : p[k] \in 1..Len(h)
    BY <1>1 DEF Perms
  <2> QED BY <1>1, <2>1 DEF Elements
<1>3. ASSUME NEW k \in 1..Len(h) PROVE h[k] \in Elements(r)
  <2>1. PICK l \in 1..Len(h) : p[l] = k
    BY <1>1 DEF Perms
  <2> QED BY <1>1, <2>1 DEF Elements
<1>4. ASSUME OneToOne(h), NEW i \in 1..Len(h), NEW j \in 1..Len(h), r[i] = r[j] PROVE i = j
  <2>1. p[i] \in 1..Len(h) /\ p[j] \in 1..Len(h) /\ h[p[i]] = h[p[j]]
    BY <1>1, <1>4 DEF Perms
  <2>2. p[i] = p[j]
    BY <1>4, <2>1 DEF OneToOne
  <2> QED BY <1>1, <2>2 DEF Perms
<1>5. Elements(r) = Elements(h)
  BY <1>2, <1>3 DEF Elements
<1>6. OneToOne(h) => OneToOne(r)
  BY <1>4 DEF OneToOne
<1> QED BY <1>5, <1>6

\* A sequence is one over any set that has its elements.
LEMMA SeqOver ==
    ASSUME NEW S, NEW T, NEW q \in Seq(S), Elements(q) \subseteq T
    PROVE  q \in Seq(T)
<1>1. q \in [1..Len(q) -> T] /\ Len(q) \in Nat
  BY DEF Elements
<1> QED BY <1>1

\* The empty queue.
LEMMA EmptyQueue == OneToOne(<< >>) /\ Elements(<< >>) = {}
BY DEF OneToOne, Elements

\* Elements of a queue with one more at the end,
LEMMA Appended ==
    ASSUME NEW S, NEW q \in Seq(S), NEW s \in S
    PROVE  /\ Append(q, s) \in Seq(S) /\ Elements(Append(q, s)) = Elements(q) \cup {s}
           /\ OneToOne(q) /\ s \notin Elements(q) => OneToOne(Append(q, s))
<1> DEFINE r == Append(q, s)
<1>1. r \in Seq(S) /\ Len(r) = Len(q) + 1 /\ Len(q) \in Nat /\ r[Len(q) + 1] = s
      /\ \A i \in 1..Len(q) : r[i] = q[i]
  OBVIOUS
<1> HIDE DEF r
<1>2. Elements(r) \subseteq Elements(q) \cup {s}
  BY <1>1 DEF Elements
<1>3. Elements(q) \cup {s} \subseteq Elements(r)
  BY <1>1 DEF Elements
<1>4. OneToOne(q) /\ s \notin Elements(q) => OneToOne(r)
  BY <1>1 DEF Elements, OneToOne
<1> QED BY <1>1, <1>2, <1>3, <1>4 DEF r

\* with one more at the front,
LEMMA Prepended ==
    ASSUME NEW S, NEW q \in Seq(S), NEW s \in S
    PROVE  /\ <<s>> \o q \in Seq(S) /\ Elements(<<s>> \o q) = Elements(q) \cup {s}
           /\ OneToOne(q) /\ s \notin Elements(q) => OneToOne(<<s>> \o q)
<1> DEFINE r == <<s>> \o q
<1>1. r \in Seq(S) /\ Len(r) = Len(q) + 1 /\ Len(q) \in Nat /\ r[1] = s
  OBVIOUS
<1>2. \A i \in 1..Len(q) : r[i + 1] = q[i]
  OBVIOUS
<1>3. \A i \in 2..Len(r) : r[i] = q[i - 1] /\ i - 1 \in 1..Len(q)
  BY <1>1, <1>2
<1> HIDE DEF r
<1>4. Elements(r) \subseteq Elements(q) \cup {s}
  BY <1>1, <1>3 DEF Elements
<1>5. Elements(q) \cup {s} \subseteq Elements(r)
  BY <1>1, <1>2 DEF Elements
<1>6. ASSUME OneToOne(q), s \notin Elements(q), NEW i \in 1..Len(r), NEW j \in 1..Len(r), r[i] = r[j]
      PROVE  i = j
  <2>1. CASE i = 1 /\ j # 1
    BY <1>1, <1>3, <1>6, <2>1 DEF Elements
  <2>2. CASE i # 1 /\ j = 1
    BY <1>1, <1>3, <1>6, <2>2 DEF Elements
  <2>3. CASE i # 1 /\ j # 1
    <3>1. i - 1 \in 1..Len(q) /\ j - 1 \in 1..Len(q) /\ q[i - 1] = q[j - 1]
      BY <1>1, <1>3, <1>6, <2>3
    <3>2. i - 1 = j - 1
      BY <1>6, <3>1 DEF OneToOne
    <3> QED BY <1>1, <3>2
  <2> QED BY <2>1, <2>2, <2>3
<1>7. OneToOne(q) /\ s \notin Elements(q) => OneToOne(r)
  BY <1>6 DEF OneToOne
<1> QED BY <1>1, <1>4, <1>5, <1>7 DEF r

\* and without the one at the front.
LEMMA Tailed ==
    ASSUME NEW S, NEW q \in Seq(S), q # << >>, OneToOne(q)
    PROVE  /\ Head(q) = q[1] /\ Head(q) \in Elements(q) /\ Head(q) \in S /\ Tail(q) \in Seq(S)
           /\ OneToOne(Tail(q)) /\ Elements(Tail(q)) = Elements(q) \ {Head(q)}
<1> DEFINE r == Tail(q)
<1>1. Len(q) \in Nat \ {0}
  BY EmptySeq
<1>2. r \in Seq(S) /\ Len(r) = Len(q) - 1 /\ Head(q) = q[1]
  OBVIOUS
<1>3. \A i \in 1..Len(r) : r[i] = q[i + 1] /\ i + 1 \in 1..Len(q)
  BY <1>1, <1>2
<1>4. \A i \in 2..Len(q) : q[i] = r[i - 1] /\ i - 1 \in 1..Len(r)
  BY <1>1, <1>2
<1>5. 1 \in 1..Len(q)
  BY <1>1
<1> HIDE DEF r
<1>6. OneToOne(r)
  BY <1>2, <1>3 DEF OneToOne
<1>7. Elements(r) \subseteq Elements(q) \ {q[1]}
  BY <1>1, <1>2, <1>3, <1>5 DEF Elements, OneToOne
<1>8. Elements(q) \ {q[1]} \subseteq Elements(r)
  BY <1>1, <1>4 DEF Elements
<1>9. q[1] \in Elements(q) /\ q[1] \in S
  BY <1>5 DEF Elements
<1> QED BY <1>2, <1>6, <1>7, <1>8, <1>9 DEF r

\* 1..n has n elements.
LEMMA CountUpTo ==
    ASSUME NEW n \in Nat
    PROVE  IsFiniteSet(1..n) /\ Cardinality(1..n) = n
BY FS_Interval

\* A queue of different slots that does not hold all of them has room.
LEMMA NotFull ==
    ASSUME NEW n \in Nat, NEW q \in Seq(1..n), OneToOne(q), NEW s \in 1..n, s \notin Elements(q)
    PROVE  Len(q) < n
<1> DEFINE l == Len(q)
           c == Cardinality(Elements(q))
<1>1. q \in [1..l -> Elements(q)] /\ l \in Nat /\ Elements(q) \subseteq 1..n
  BY DEF Elements
<1>2. q \in Injection(1..l, Elements(q))
  BY <1>1 DEF OneToOne, Injection, IsInjective
<1> HIDE DEF l, c
<1>3. IsFiniteSet(Elements(q)) /\ c <= n /\ c # n /\ c \in Nat
  <2>1. IsFiniteSet(Elements(q)) /\ c <= Cardinality(1..n) /\ (Cardinality(1..n) = c => 1..n = Elements(q))
    BY <1>1, CountUpTo, FS_Subset DEF c
  <2> QED BY <2>1, CountUpTo, FS_CardinalityType DEF c
<1>4. Cardinality(1..l) <= c
  BY <1>2, <1>3, FS_Injection DEF c
<1>5. l <= c
  BY <1>1, <1>4, CountUpTo
<1> QED BY <1>1, <1>3, <1>5 DEF l

\* push into a heap with room adds its element, and keeps the order.
LEMMA PushDoes ==
    ASSUME NEW E, NEW h \in Seq(E), NEW key, \A x \in E : key[x] \in Nat, NEW Size \in Nat, NEW e \in E,
           Len(h) # Size
    PROVE  LET r == PQPush(h, key, Size, e)
           IN  /\ r \in Seq(E) /\ Len(r) = Len(h) + 1
               /\ Permuted(r, Append(h, e), Len(h) + 1)
               /\ Elements(r) = Elements(h) \cup {e}
               /\ OneToOne(h) /\ e \notin Elements(h) => OneToOne(r)
               /\ \A X \in SUBSET E : (\A x \in X : key[x] = 0) /\ Ordered(h, key, X) => Ordered(r, key, X)
<1> DEFINE r == PQPush(h, key, Size, e)
           a == Append(h, e)
<1>1. r = SiftUp(a, key, Len(h) + 1)
  BY DEF PQPush
<1>2. a \in Seq(E) /\ Len(a) = Len(h) + 1 /\ Len(h) \in Nat /\ \A k \in 1..Len(h) : a[k] = h[k]
  OBVIOUS
<1> HIDE DEF r, a
<1>3. r \in Seq(E) /\ Len(r) = Len(a) /\ Permuted(r, a, Len(a))
  BY <1>1, <1>2, SiftUpPermutes
<1>4. ASSUME NEW X \in SUBSET E, \A x \in X : key[x] = 0, Ordered(h, key, X)
      PROVE  Ordered(r, key, X)
  <2> DEFINE s == [heap |-> a, at |-> Len(h) + 1]
  <2>1. \A j \in 2..Len(a) : j # Len(h) + 1 => Fits(a, key, X, j \div 2, j)
    <3> SUFFICES ASSUME NEW j \in 2..Len(h) PROVE Fits(a, key, X, j \div 2, j)
      BY <1>2
    <3>1. j \in 1..Len(h) /\ j \div 2 \in 1..Len(h)
      BY <1>2
    <3> QED BY <1>2, <1>4, <3>1 DEF Ordered, Fits
  <2>2. \A j \in 2..Len(a) : j \div 2 # Len(h) + 1
    BY <1>2
  <2>3. RiseInv(s, key, X, Len(a))
    BY <2>1, <2>2 DEF RiseInv
  <2> QED BY <1>1, <1>2, <1>4, <2>3, SiftUpOrders
<1>5. Elements(a) = Elements(h) \cup {e} /\ (OneToOne(h) /\ e \notin Elements(h) => OneToOne(a))
  BY Appended DEF a
<1>6. Elements(r) = Elements(a) /\ (OneToOne(a) => OneToOne(r))
  BY <1>2, <1>3, PermutedElements
<1> QED BY <1>2, <1>3, <1>4, <1>5, <1>6 DEF r, a

\* The heap of which pop sifts the root.
Popped(h) == [SubSeq(h, 1, Len(h) - 1) EXCEPT ![1] = h[Len(h)]]

\* The heap of a pop before it sifts: the last element in the place of the root.
LEMMA PoppedIs ==
    ASSUME NEW E, NEW h \in Seq(E), Len(h) > 1
    PROVE  /\ Popped(h) \in Seq(E) /\ Len(Popped(h)) = Len(h) - 1
           /\ Popped(h)[1] = h[Len(h)] /\ \A k \in 2..(Len(h) - 1) : Popped(h)[k] = h[k]
<1>1. Len(h) \in Nat /\ \A k \in 1..Len(h) : h[k] \in E
  OBVIOUS
<1>2. SubSeq(h, 1, Len(h) - 1) \in [1..(Len(h) - 1) -> E]
  <2>1. SubSeq(h, 1, Len(h) - 1) \in Seq(E) /\ Len(SubSeq(h, 1, Len(h) - 1)) = Len(h) - 1
    OBVIOUS
  <2> QED BY <2>1, SeqIsFunction
<1>3. \A k \in 1..(Len(h) - 1) : SubSeq(h, 1, Len(h) - 1)[k] = h[k]
  OBVIOUS
<1>4. Popped(h) \in [1..(Len(h) - 1) -> E]
  BY <1>2 DEF Popped
<1>5. Popped(h)[1] = h[Len(h)] /\ \A k \in 2..(Len(h) - 1) : Popped(h)[k] = h[k]
  <2>1. 1 \in 1..(Len(h) - 1) /\ \A k \in 2..(Len(h) - 1) : k \in 1..(Len(h) - 1) /\ k # 1
    BY <1>1
  <2> QED BY <1>2, <1>3, <2>1 DEF Popped
<1>6. Len(h) - 1 \in Nat
  OBVIOUS
<1> QED BY <1>4, <1>5, <1>6, FunctionIsSeq

\* pop removes the root, and keeps the order.
LEMMA PopDoes ==
    ASSUME NEW E, NEW h \in Seq(E), NEW key, \A x \in E : key[x] \in Nat, h # << >>
    PROVE  LET r == PQPop(h, key)
           IN  /\ r \in Seq(E) /\ Len(r) = Len(h) - 1
               /\ Len(h) > 1 => Permuted(r, Popped(h), Len(h) - 1)
               /\ \A X \in SUBSET E : (\A x \in X : key[x] = 0) /\ Ordered(h, key, X) => Ordered(r, key, X)
<1> DEFINE r == PQPop(h, key)
<1>1. CASE Len(h) <= 1
  <2>1. r = << >>
    BY <1>1 DEF PQPop
  <2>2. Len(h) \in Nat \ {0}
    BY EmptySeq
  <2>3. Len(h) = 1
    <3>1. \A n \in Nat \ {0} : n <= 1 => n = 1
      OBVIOUS
    <3> QED BY <1>1, <2>2, <3>1, Zenon
  <2> QED BY <2>1, <2>3 DEF Ordered
<1>2. CASE Len(h) > 1
  <2> DEFINE q == Popped(h)
  <2>1. r = SiftDown(q, key)
    BY <1>2 DEF PQPop, Popped
  <2>2. /\ q \in Seq(E) /\ Len(q) = Len(h) - 1 /\ Len(q) > 0 /\ Len(h) \in Nat
        /\ \A k \in 2..Len(q) : q[k] = h[k]
    BY <1>2, PoppedIs
  <2> HIDE DEF r, q
  <2>3. r \in Seq(E) /\ Len(r) = Len(q) /\ Permuted(r, q, Len(q))
    BY <2>1, <2>2, SiftDownPermutes
  <2>4. ASSUME NEW X \in SUBSET E, \A x \in X : key[x] = 0, Ordered(h, key, X)
        PROVE  Ordered(r, key, X)
    <3> DEFINE s == [heap |-> q, at |-> 1]
    <3>1. \A j \in 2..Len(q) : j \div 2 # 1 => Fits(q, key, X, j \div 2, j)
      <4> SUFFICES ASSUME NEW j \in 2..Len(q), j \div 2 # 1 PROVE Fits(q, key, X, j \div 2, j)
        OBVIOUS
      <4>1. j \div 2 \in 2..Len(q) /\ j \in 2..Len(h)
        BY <2>2
      <4> QED BY <2>2, <2>4, <4>1 DEF Ordered, Fits
    <3>2. SinkInv(s, key, X, Len(q))
      BY <3>1 DEF SinkInv
    <3> QED BY <2>1, <2>2, <2>4, <3>2, SiftDownOrders
  <2>5. Len(q) = Len(h) - 1 /\ q = Popped(h)
    BY <2>2 DEF q
  <2> QED BY <1>2, <2>3, <2>4, <2>5 DEF r
<1>3. Len(h) \in Nat
  OBVIOUS
<1> QED BY <1>1, <1>2, <1>3

\* The root of a heap in order is a least element.
LEMMA RootLeast ==
    ASSUME NEW E, NEW h \in Seq(E), NEW key, \A x \in E : key[x] \in Nat, Ordered(h, key, {})
    PROVE  \A i \in 1..Len(h) : key[h[1]] <= key[h[i]]
<1> DEFINE T == {i \in 1..Len(h) : ~(key[h[1]] <= key[h[i]])}
<1> SUFFICES ASSUME T # {} PROVE FALSE
  OBVIOUS
<1>1. PICK i \in T : \A j \in T : i <= j
  <2>1. T \subseteq Nat
    OBVIOUS
  <2> HIDE DEF T
  <2> QED BY <2>1, Least
<1>2. \A j \in 1..Len(h) : key[h[j]] \in Nat
  OBVIOUS
<1>3. i \in 2..Len(h)
  BY <1>1, <1>2
<1>4. i \div 2 \in 1..Len(h) /\ i \div 2 < i
  BY <1>3
<1>5. key[h[1]] <= key[h[i \div 2]]
  BY <1>1, <1>4
<1>6. key[h[i \div 2]] <= key[h[i]]
  BY <1>3 DEF Ordered, Fits
<1>7. key[h[1]] \in Nat /\ key[h[i \div 2]] \in Nat /\ key[h[i]] \in Nat
  BY <1>2, <1>3, <1>4
<1>8. key[h[1]] <= key[h[i]]
  BY <1>5, <1>6, <1>7
<1> QED BY <1>1, <1>8

\* pop removes the root and nothing else.
LEMMA PoppedElements ==
    ASSUME NEW E, NEW h \in Seq(E), Len(h) > 1, OneToOne(h)
    PROVE  OneToOne(Popped(h)) /\ Elements(Popped(h)) = Elements(h) \ {h[1]}
<1> DEFINE n == Len(h)
           q == Popped(h)
<1>1. n \in Nat /\ Len(q) = n - 1 /\ q[1] = h[n] /\ \A k \in 2..(n - 1) : q[k] = h[k]
  BY PoppedIs
<1>2. \A i, j \in 1..n : h[i] = h[j] => i = j
  BY DEF OneToOne
<1> HIDE DEF n, q
<1>3. \A k \in 1..(n - 1) : k = 1 \/ k \in 2..(n - 1)
  BY <1>1
<1>4. \A k \in 1..(n - 1) : q[k] = h[IF k = 1 THEN n ELSE k]
  BY <1>1, <1>3
<1>5. ASSUME NEW i \in 1..(n - 1), NEW j \in 1..(n - 1), q[i] = q[j] PROVE i = j
  <2>1. (IF i = 1 THEN n ELSE i) \in 1..n /\ (IF j = 1 THEN n ELSE j) \in 1..n
    BY <1>1
  <2>2. h[IF i = 1 THEN n ELSE i] = h[IF j = 1 THEN n ELSE j]
    BY <1>4, <1>5
  <2>3. (IF i = 1 THEN n ELSE i) = (IF j = 1 THEN n ELSE j)
    BY <1>2, <2>1, <2>2
  <2> QED BY <1>1, <2>3
<1>6. ASSUME NEW k \in 1..(n - 1) PROVE q[k] \in Elements(h) \ {h[1]}
  <2>1. (IF k = 1 THEN n ELSE k) \in 1..n /\ (IF k = 1 THEN n ELSE k) # 1 /\ 1 \in 1..n
    BY <1>1 DEF n
  <2>2. h[IF k = 1 THEN n ELSE k] # h[1]
    BY <1>2, <2>1
  <2> QED BY <1>4, <2>1, <2>2 DEF Elements, n
<1>7. ASSUME NEW k \in 1..n, h[k] # h[1] PROVE h[k] \in Elements(q)
  <2>1. CASE k = n
    <3>1. 1 \in 1..Len(q)
      BY <1>1 DEF n
    <3> QED BY <1>1, <2>1, <3>1 DEF Elements
  <2>2. CASE k # n
    <3>1. k \in 2..(n - 1) /\ k \in 1..Len(q)
      BY <1>1, <1>7, <2>2
    <3> QED BY <1>1, <3>1 DEF Elements
  <2> QED BY <2>1, <2>2
<1>8. OneToOne(q)
  BY <1>1, <1>5 DEF OneToOne
<1>9. Elements(q) \subseteq Elements(h) \ {h[1]}
  BY <1>1, <1>6 DEF Elements
<1>10. Elements(h) \ {h[1]} \subseteq Elements(q)
  BY <1>7 DEF Elements, n
<1> QED BY <1>8, <1>9, <1>10 DEF q

\* A pop removes the root and nothing else, and keeps the heap in order up to entries that were left behind.
LEMMA Pops ==
    ASSUME NEW E, NEW h \in Seq(E), NEW key, \A x \in E : key[x] \in Nat, h # << >>, OneToOne(h)
    PROVE  LET r == PQPop(h, key)
           IN  /\ r \in Seq(E) /\ OneToOne(r) /\ Elements(r) = Elements(h) \ {Head(h)}
               /\ \A X \in SUBSET E : (\A x \in X : key[x] = 0) /\ Ordered(h, key, X) => Ordered(r, key, X)
<1> DEFINE r == PQPop(h, key)
<1>1. /\ r \in Seq(E) /\ Len(r) = Len(h) - 1
      /\ Len(h) > 1 => Permuted(r, Popped(h), Len(h) - 1)
      /\ \A X \in SUBSET E : (\A x \in X : key[x] = 0) /\ Ordered(h, key, X) => Ordered(r, key, X)
  BY PopDoes
<1>2. Len(h) \in Nat \ {0}
  BY EmptySeq
<1>3. Head(h) = h[1]
  BY Tailed
<1> HIDE DEF r
<1>4. CASE Len(h) > 1
  <2>1. Popped(h) \in Seq(E) /\ Len(Popped(h)) = Len(h) - 1
    BY <1>4, PoppedIs
  <2>2. OneToOne(Popped(h)) /\ Elements(Popped(h)) = Elements(h) \ {h[1]}
    BY <1>4, PoppedElements
  <2>3. Elements(r) = Elements(Popped(h)) /\ OneToOne(r)
    BY <1>1, <1>4, <2>1, <2>2, PermutedElements
  <2> QED BY <1>1, <1>3, <2>2, <2>3 DEF r
<1>5. CASE ~(Len(h) > 1)
  <2>1. \A n \in Nat \ {0} : ~(n > 1) => n = 1
    OBVIOUS
  <2>2. Len(h) = 1
    BY <1>2, <1>5, <2>1, Zenon
  <2>3. OneToOne(r) /\ Elements(r) = {} /\ Elements(h) = {h[1]}
    BY <1>1, <2>2 DEF OneToOne, Elements
  <2> QED BY <1>1, <1>3, <2>3 DEF r
<1> QED BY <1>4, <1>5
=============================================================================
