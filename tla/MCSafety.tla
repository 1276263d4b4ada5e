------------------------------ MODULE MCSafety ------------------------------
(***************************************************************************)
(* The sequential data structures and what a session tells and is told,    *)
(* side by side: the reorder window (SnWindow), the heap (HeapPQueue), the *)
(* hash map, key expressions, replies to queries (PendingQuery),           *)
(* liveliness, the write filter, the listeners of connectivity events and  *)
(* the admin space.  They share no variable; a behaviour is one of the     *)
(* part that "part" names.                                                 *)
(***************************************************************************)
EXTENDS SnWindow, PendingQuery, Liveliness, WriteFilter, Connectivity, AdminSpace, TLC

CONSTANTS l1,                                  \* PendingQuery
          k1, k2, t1, t2,                      \* Liveliness
          a1, a2                               \* AdminSpace

VARIABLES part,
          buffer, out,                                                 \* HeapPQueue
          static, slots, freeHead, liveHead, size, op,                 \* HashMap
          raw, left, right                                             \* KeyExprSpec

Heap == INSTANCE HeapPQueue WITH Elems <- {0, 1, 2, 3}, Size <- 6

\* Two keys share a bucket of two, and other two one of three.
Map == INSTANCE HashMap
           WITH Keys <- {0, 2, 3}, Vals <- {1, 2}, InitialCapacity <- 2, MaxCapacity <- 3, NONE <- None

\* Chunks a user may write, those of canonical key expressions and of keys.
RawChunks == {<< >>, <<"a">>, <<"*">>, <<"*", "*">>, <<"$", "*">>, <<"a", "b">>, <<"$", "*", "$", "*">>,
              <<"a", "$", "*">>, <<"a", "#">>, <<"#">>}
Chunks    == {<<"a">>, <<"a", "b">>, <<"*">>, <<"*", "*">>, <<"@", "a">>, <<"a", "$*">>, <<"$*", "b">>,
              <<"$*", "a", "$*">>}
KeyChunks == {<<"a">>, <<"b">>, <<"a", "b">>, <<"@", "a">>}

KeyExprs == INSTANCE KeyExprSpec
                WITH Keys <- UNION {[1 .. n -> KeyChunks] : n \in 1 .. 3},
                     MaxChunks <- 3, MaxDoubleStars <- 2

\* Replies of different keys have different timestamps.
MCReplies == {[key |-> "a", ts |-> 1], [key |-> "a", ts |-> 3], [key |-> "b", ts |-> 2]}

\* The first entities of two peers: each peer counts from 1.
MCRemoteEntities == {<<"p", 1>>, <<"q", 1>>}

\* The first subscriber and the first query have the same number.
MCInterestNumber == [x \in Subscribers \cup LivelinessQueries |-> IF x \in WithoutHistory THEN 2 ELSE 1]

heapVars   == <<buffer, out>>
mapVars    == <<static, slots, freeHead, liveHead, size, op>>
exprVars   == <<raw, left, right>>

MCInit ==
    /\ part \in {"window", "heap", "map", "expressions", "replies", "tokens", "filter", "listeners", "admin"}
    /\ WindowInit /\ Heap!HeapInit /\ Map!MapInit /\ KeyExprs!KeInit /\ Init
    /\ LivelinessInit /\ WriteFilterInit /\ ConnInit /\ AdminInit
    /\ part # "map" => static
    /\ part # "listeners" => ~client

structureVars == <<windowVars, heapVars, mapVars, exprVars, vars>>
sessionVars   == <<livelinessVars, filterVars, connVars, adminVars>>

MCNext ==
    \/ /\ UNCHANGED <<part, sessionVars>>
       /\ \/ part = "window" /\ WindowNext /\ UNCHANGED <<heapVars, mapVars, exprVars, vars>>
          \/ part = "heap" /\ Heap!HeapNext /\ UNCHANGED <<windowVars, mapVars, exprVars, vars>>
          \/ part = "map" /\ Map!MapNext /\ UNCHANGED <<windowVars, heapVars, exprVars, vars>>
          \/ part = "expressions" /\ KeyExprs!KeNext /\ UNCHANGED <<windowVars, heapVars, mapVars, vars>>
          \/ part = "replies" /\ Next /\ UNCHANGED <<windowVars, heapVars, mapVars, exprVars>>
    \/ /\ UNCHANGED <<part, structureVars>>
       /\ \/ part = "tokens" /\ LivelinessNext /\ UNCHANGED <<filterVars, connVars, adminVars>>
          \/ part = "filter" /\ WriteFilterNext /\ UNCHANGED <<livelinessVars, connVars, adminVars>>
          \/ part = "listeners" /\ ConnNext /\ UNCHANGED <<livelinessVars, filterVars, adminVars>>
          \/ part = "admin" /\ AdminNext /\ UNCHANGED <<livelinessVars, filterVars, connVars>>

MCSpec == MCInit /\ [][MCNext]_<<part, structureVars, sessionVars>>

\* The keys of the tokens are interchangeable and so are their ids, and the callers
\* of the admin space; one exchange of all but the ids is enough, for no other part
\* has more than one pair.
Symmetry == {p \in Permutations({k1, k2, a1, a2}) :
                 /\ {p[k1], p[k2]} = {k1, k2} /\ {p[a1], p[a2]} = {a1, a2}
                 /\ (p[k1] = k1 <=> p[a1] = a1)}
            \cup Permutations({t1, t2})

-----------------------------------------------------------------------------
\* The structures do what their abstract forms do: the reorder window judges every
\* number by what was received before (Judged), its words step as the set of
\* distances they stand for (SetWindow's step), the heap implements a priority queue
\* (HeapPQueue's ImplementsPQueue), and the pool of slots of a hash map is whole
\* and steps as a map (PoolWhole, ImplementsMap's step).
StructuresImplement ==
    /\ []Judged /\ [][part = "window" => SetWindowStep]_windowVars
    /\ Heap!ImplementsPQueue
    /\ [](part = "map" => Map!PoolWhole) /\ [][part = "map" => Map!MapStep]_mapVars

\* Canonization keeps the keys of an expression; intersection and inclusion say
\* what they mean.
KeyExprsRight == part = "expressions" => KeyExprs!KeyExprsRight
=============================================================================
