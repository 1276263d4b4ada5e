------------------------------ MODULE LruCache ------------------------------
(***************************************************************************)
(* _z_lru_cache_t of src/src/collections/lru_cache.c: a list ordered by    *)
(* last use and an array of the same nodes ordered by value, searched by   *)
(* bisection.  A node is its value; slist[i] of the code is slist[i] here. *)
(***************************************************************************)
EXTENDS Integers, Sequences, SequencesExt

CONSTANTS Values,    \* numbers, ordered by compare
          Capacity   \* at least 2

VARIABLES used,      \* the list from head (most recent) to tail
          slist, len,
          recent     \* the last Capacity distinct values inserted or got

vars == <<used, slist, len, recent>>

Empty == -1

Init == used = << >> /\ slist = [i \in 0..Capacity - 1 |-> Empty] /\ len = 0 /\ recent = << >>

\* Both bisections as recursive functions of the bounds.  _z_lru_cache_search_slist
\* returns the index, or -1.
Search(v) ==
    LET At[l \in 0..Capacity, h \in -1..Capacity - 1] ==
            LET mid == (l + h) \div 2
            IN  IF l > h THEN -1
                ELSE IF slist[mid] = v THEN mid
                ELSE IF slist[mid] < v THEN At[mid + 1, h] ELSE At[l, mid - 1]
    IN  At[0, len - 1]

\* _z_lru_cache_find_position: the first of the n entries not smaller than v.
FindPosition(v, n) ==
    LET At[l \in 0..Capacity, h \in -1..Capacity - 1] ==
            LET mid == l + (h - l) \div 2
            IN  IF l > h THEN l
                ELSE IF slist[mid] < v THEN At[mid + 1, h] ELSE At[l, mid - 1]
    IN  At[0, n - 1]

\* _z_lru_cache_move_elem_slist and the store after it: n entries are counted,
\* del is the index that is given up (n when none is).
InsertSorted(v, n, del) ==
    LET pos == FindPosition(v, n)
        add == IF del < pos /\ pos # Capacity - 1 THEN pos - 1 ELSE pos
    IN  [i \in 0..Capacity - 1 |->
            IF i = add THEN v
            ELSE IF pos <= del /\ i \in pos + 1 .. del THEN slist[i - 1]
            ELSE IF pos > del /\ i \in del .. add - 1 THEN slist[i + 1]
            ELSE slist[i]]

ToFront(v, s) == <<v>> \o SelectSeq(s, LAMBDA w : w # v)

\* _z_lru_cache_get: a hit becomes the most recent.
Get(v) ==
    /\ Search(v) >= 0
    /\ used' = ToFront(v, used) /\ recent' = ToFront(v, recent)
    /\ UNCHANGED <<slist, len>>

\* _z_lru_cache_insert, called after a miss; a full cache gives up the least
\* recently used node, whose index in slist is 0 when the search misses it.
Insert(v) ==
    LET full == len = Capacity
        last == used[Len(used)]
        del  == IF ~full THEN len ELSE IF Search(last) >= 0 THEN Search(last) ELSE 0
        n    == IF full THEN len - 1 ELSE len
    IN  /\ Search(v) = -1
        /\ used' = <<v>> \o (IF full THEN Front(used) ELSE used)
        /\ slist' = IF n = 0 THEN [slist EXCEPT ![0] = v] ELSE InsertSorted(v, n, del)
        /\ len' = n + 1
        /\ recent' = LET r == ToFront(v, recent) IN SubSeq(r, 1, IF Len(r) > Capacity THEN Capacity ELSE Len(r))

\* _z_lru_cache_clear.
Clear ==
    /\ len > 0
    /\ used' = << >> /\ slist' = [i \in 0..Capacity - 1 |-> Empty] /\ len' = 0 /\ recent' = << >>

Next == Clear \/ \E v \in Values : Get(v) \/ Insert(v)

Spec == Init /\ [][Next]_vars

-----------------------------------------------------------------------------
\* z_lru_cache_test.c, "Check remaining value": after any insertions and
\* look-ups the last Capacity distinct values that were used are found.
RecentFound == \A i \in DOMAIN recent : Search(recent[i]) >= 0
=============================================================================
