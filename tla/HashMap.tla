------------------------------- MODULE HashMap -------------------------------
(***************************************************************************)
(* The hash map and hash set templates                                     *)
(* (src/include/zenoh-pico/collections/internal/                           *)
(* hashmap_template_internal.h): a pool of slots, each of which is also    *)
(* the head of a bucket.  A slot is on the chain of its bucket and on the  *)
(* doubly linked list of live slots, or on the free list; free slots and   *)
(* chains share the link _next.  A map starts with its final pool          *)
(* (static) or with none, and then doubles it when it is full.  The hash   *)
(* of a key is the key.  Iterators are indices of slots: they stay good    *)
(* while the pool grows and other keys are removed.                        *)
(***************************************************************************)
EXTENDS Integers, FiniteSets

CONSTANTS Keys, Vals,
          InitialCapacity,   \* _ZP_HASHMAP_TEMPLATE_INITIAL_CAPACITY, or the static capacity
          MaxCapacity,       \* of a map that grows
          NONE               \* _ZP_HASHMAP_TEMPLATE_INDEX_NONE

VARIABLES static,    \* _ZP_HASHMAP_TEMPLATE_IS_STATIC
          slots,     \* index -> [key, val, next, bucket, nextLive, prevLive]
          freeHead, liveHead, size,
          op         \* the last operation and what it returned

mapVars == <<static, slots, freeHead, liveHead, size, op>>
m       == [slots |-> slots, freeHead |-> freeHead, liveHead |-> liveHead, size |-> size]

Capacity(map) == Cardinality(DOMAIN map.slots)

Unused == [key |-> NONE, val |-> NONE, next |-> NONE, bucket |-> NONE, nextLive |-> NONE, prevLive |-> NONE]

NullMap == [slots |-> <<>>, freeHead |-> NONE, liveHead |-> NONE, size |-> 0]

StaticMap ==
    [slots |-> [i \in 0 .. InitialCapacity - 1 |->
                   [Unused EXCEPT !.next = IF i + 1 < InitialCapacity THEN i + 1 ELSE NONE]],
     freeHead |-> 0, liveHead |-> NONE, size |-> 0]

Is(map) == slots = map.slots /\ freeHead = map.freeHead /\ liveHead = map.liveHead /\ size = map.size

MapInit == static \in BOOLEAN /\ Is(IF static THEN StaticMap ELSE NullMap) /\ op = [name |-> "init"]

\* The slots on a list of next links, from a slot on.
Chain(map, from) ==
    LET cap == Capacity(map)
        walk[n \in 0 .. cap, i \in DOMAIN map.slots \cup {NONE}] ==
            IF i = NONE \/ n = 0 THEN {} ELSE {i} \cup walk[n - 1, map.slots[i].next]
    IN  walk[cap, from]

Bucket(map, k) == k % Capacity(map)

IsLive(map, i) == map.slots[i].prevLive # NONE \/ map.liveHead = i

\* get_iter: the first slot of the bucket's chain with this key.  Keys are unique.
GetIter(map, k) ==
    LET found == IF Capacity(map) = 0 THEN {}
                 ELSE {i \in Chain(map, map.slots[Bucket(map, k)].bucket) : map.slots[i].key = k}
    IN  IF found = {} THEN NONE ELSE CHOOSE i \in found : TRUE

-----------------------------------------------------------------------------
\* Mutation: the entries stay in the buckets of the old capacity.
GrowNoRehash(map, capacity) ==
    LET old == Capacity(map)
    IN  [map EXCEPT !.freeHead = old,
            !.slots = [i \in 0 .. capacity - 1 |->
                          IF i < old THEN map.slots[i]
                          ELSE [Unused EXCEPT !.next = IF i + 1 < capacity THEN i + 1 ELSE map.freeHead]]]

\* grow: the new slots go in front of the free list, and every live slot, in the
\* order of the indices, to the front of its new bucket's chain.
Grow(map, capacity) ==
    LET old  == Capacity(map)
        pool == [i \in 0 .. capacity - 1 |->
                    IF i < old THEN [map.slots[i] EXCEPT !.bucket = NONE]
                    ELSE [Unused EXCEPT !.next = IF i + 1 < capacity THEN i + 1 ELSE map.freeHead]]
        rehash[n \in 0 .. old] ==
            IF n = 0 THEN pool
            ELSE LET i == n - 1
                     b == pool[i].key % capacity
                 IN  IF IsLive(map, i) THEN [[rehash[i] EXCEPT ![i].next = rehash[i][b].bucket] EXCEPT ![b].bucket = i]
                     ELSE rehash[i]
    IN  [map EXCEPT !.slots = rehash[old], !.freeHead = old]

\* pool_alloc: the head of the free list becomes the head of the live list.
PoolAlloc(map) ==
    LET i == map.freeHead
        s == [map.slots EXCEPT ![i].nextLive = map.liveHead]
    IN  [map EXCEPT !.freeHead = map.slots[i].next, !.liveHead = i,
                    !.slots = IF map.liveHead = NONE THEN s ELSE [s EXCEPT ![map.liveHead].prevLive = i]]

\* Mutation: the next live slot keeps its link to the one that is freed.
PoolFreeHalf(map, i) ==
    LET prev == map.slots[i].prevLive
        s    == [map.slots EXCEPT ![i].next = map.freeHead]
        unlinked == IF prev = NONE THEN s ELSE [s EXCEPT ![prev].nextLive = map.slots[i].nextLive]
    IN  [map EXCEPT !.freeHead = i, !.liveHead = IF prev = NONE THEN map.slots[i].nextLive ELSE @,
                    !.slots = [unlinked EXCEPT ![i].nextLive = NONE, ![i].prevLive = NONE]]

\* pool_free
PoolFree(map, i) ==
    LET prev == map.slots[i].prevLive
        nxt  == map.slots[i].nextLive
        s    == [map.slots EXCEPT ![i].next = map.freeHead]
        unlinked == IF prev = NONE THEN s ELSE [s EXCEPT ![prev].nextLive = nxt]
        relinked == IF nxt = NONE THEN unlinked ELSE [unlinked EXCEPT ![nxt].prevLive = prev]
    IN  [map EXCEPT !.freeHead = i, !.liveHead = IF prev = NONE THEN nxt ELSE @,
                    !.slots = [relinked EXCEPT ![i].nextLive = NONE, ![i].prevLive = NONE]]

\* remove_at: the slot leaves the chain of its key's bucket and the live list.
RemoveAt(map, i) ==
    LET b    == Bucket(map, map.slots[i].key)
        prev == {j \in Chain(map, map.slots[b].bucket) : map.slots[j].next = i}
        s    == IF map.slots[b].bucket = i THEN [map.slots EXCEPT ![b].bucket = map.slots[i].next]
                ELSE [map.slots EXCEPT ![CHOOSE j \in prev : TRUE].next = map.slots[i].next]
        freed == PoolFree([map EXCEPT !.slots = s], i)
    IN  [freed EXCEPT !.size = @ - 1, !.slots[i].key = NONE, !.slots[i].val = NONE]

\* The new entry of insert, in front of its bucket's chain.
NewEntry(map, k, v) ==
    LET i == map.freeHead
        p == PoolAlloc(map)
        b == Bucket(map, k)
    IN  [p EXCEPT !.size = @ + 1,
                  !.slots = [[@ EXCEPT ![i].key = k, ![i].val = v, ![i].next = p.slots[b].bucket] EXCEPT ![b].bucket = i]]

Become(map) ==
    /\ slots' = map.slots /\ freeHead' = map.freeHead /\ liveHead' = map.liveHead /\ size' = map.size
    /\ UNCHANGED static

-----------------------------------------------------------------------------
\* insert; an allocation may fail.
Insert(k, v) ==
    LET based == IF static \/ Capacity(m) > 0 THEN m ELSE Grow(m, InitialCapacity)
        at    == GetIter(based, k)
        room  == IF based.size < Capacity(based) THEN based
                 ELSE Grow(based, IF 2 * Capacity(based) > MaxCapacity THEN MaxCapacity ELSE 2 * Capacity(based))
    IN  \/ /\ at # NONE
           /\ Become([based EXCEPT !.slots[at].val = v])
           /\ op' = [name |-> "insert", key |-> k, val |-> v, ret |-> at]
        \/ /\ at = NONE
           /\ based.size < Capacity(based) \/ (~static /\ Capacity(based) < MaxCapacity)
           /\ Become(NewEntry(room, k, v))
           /\ op' = [name |-> "insert", key |-> k, val |-> v, ret |-> room.freeHead]
        \/ /\ size = Capacity(m) /\ (Capacity(m) > 0 => at = NONE)
           /\ Become(m)
           /\ op' = [name |-> "insert", key |-> k, val |-> v, ret |-> NONE]

\* remove, by key.
Remove(k) ==
    LET at == GetIter(m, k)
    IN  /\ IF at = NONE THEN Become(m) ELSE Become(RemoveAt(m, at))
        /\ op' = [name |-> "remove", key |-> k, ret |-> at]

\* reserve
Reserve ==
    /\ ~static /\ Capacity(m) < MaxCapacity
    /\ Become(Grow(m, Capacity(m) + 1))
    /\ op' = [name |-> "reserve"]

\* clear: removes the head of the live list until there is none.
Clear ==
    LET removing[n \in 0 .. Capacity(m)] ==
            IF n = 0 THEN m
            ELSE LET r == removing[n - 1] IN IF r.liveHead = NONE THEN r ELSE RemoveAt(r, r.liveHead)
    IN  /\ Become(removing[Capacity(m)])
        /\ op' = [name |-> "clear"]

MapNext == Reserve \/ Clear \/ \E k \in Keys : Remove(k) \/ \E v \in Vals : Insert(k, v)

MapSpec == MapInit /\ [][MapNext]_mapVars

-----------------------------------------------------------------------------
\* What the map holds, as its readers find it.
Content == [k \in {k \in Keys : GetIter(m, k) # NONE} |-> slots[GetIter(m, k)].val]

Live == LET walk[n \in 0 .. Capacity(m), i \in DOMAIN slots \cup {NONE}] ==
                IF i = NONE \/ n = 0 THEN {} ELSE {i} \cup walk[n - 1, slots[i].nextLive]
        IN  walk[Capacity(m), liveHead]

\* Every slot is either free or live, an iteration meets exactly the keys that a
\* look-up finds, its links agree in both directions, and the size is theirs.
PoolWhole ==
    /\ Live \cap Chain(m, freeHead) = {} /\ Live \cup Chain(m, freeHead) = DOMAIN slots
    /\ {slots[i].key : i \in Live} = DOMAIN Content
    /\ size = Cardinality(Live) /\ size = Cardinality(DOMAIN Content)
    /\ \A i \in Live : slots[i].nextLive # NONE => slots[slots[i].nextLive].prevLive = i
    /\ liveHead # NONE => slots[liveHead].prevLive = NONE
    /\ \A i \in Live : i \in Chain(m, slots[Bucket(m, slots[i].key)].bucket)

\* The content after an operation, from the content before it.
Applied(content, o) ==
    CASE o.name = "insert" /\ o.ret # NONE ->
             [k \in DOMAIN content \cup {o.key} |-> IF k = o.key THEN o.val ELSE content[k]]
      [] o.name = "remove" -> [k \in DOMAIN content \ {o.key} |-> content[k]]
      [] o.name = "clear"  -> <<>>
      [] OTHER -> content

\* The template is a map: every operation does to the content what it says, and
\* an iterator stays with its key, also when the pool grows.
MapStep ==
    /\ Content' = Applied(Content, op')
    /\ \A k \in DOMAIN Content \cap DOMAIN Content' : op'.name # "clear" => GetIter(m, k)' = GetIter(m, k)
    /\ op'.name = "insert" /\ op'.ret = NONE => size = Cardinality(DOMAIN slots')

ImplementsMap == [][MapStep]_mapVars
=============================================================================
