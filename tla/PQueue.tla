------------------------------- MODULE PQueue -------------------------------
(***************************************************************************)
(* The array-backed binary heap of static_pqueue_template.h as operators   *)
(* on sequences: position i of the C buffer is position i + 1 here, so the *)
(* parent of i is i \div 2 and its children are 2i and 2i + 1.             *)
(*                                                                         *)
(* A turn of a loop is an operator on the heap and the position i of the   *)
(* element that moves.  A turn that swaps nothing ends the C loop; a path  *)
(* between the root and a leaf has no more positions than the heap, so as  *)
(* many turns as there are elements are enough.                            *)
(***************************************************************************)
EXTENDS Integers, Sequences

Swap(h, i, j) == [h EXCEPT ![i] = h[j], ![j] = h[i]]

LoopStates(h) == [heap : [DOMAIN h -> {h[i] : i \in DOMAIN h}], at : DOMAIN h]

\* The state that N turns from x lead to.
Iterate(turn, x, N) ==
    LET loop[n \in 0..N] == IF n = 0 THEN x ELSE turn[loop[n - 1]]
    IN  loop[N]

\* A turn of sift_up: the element rises if it is strictly smaller than its parent.
Rise(s, key) ==
    LET parent == s.at \div 2
    IN  IF s.at > 1 /\ key[s.heap[s.at]] < key[s.heap[parent]]
        THEN [heap |-> Swap(s.heap, s.at, parent), at |-> parent]
        ELSE s

SiftUp(h, key, i) ==
    Iterate([s \in LoopStates(h) |-> Rise(s, key)], [heap |-> h, at |-> i], Len(h)).heap

\* The smallest of an element and its children; the element wins a tie, and the
\* left child wins one with the right.
Best(h, key, i) ==
    LET left  == 2 * i
        right == 2 * i + 1
        best  == IF left <= Len(h) /\ key[h[left]] < key[h[i]] THEN left ELSE i
    IN  IF right <= Len(h) /\ key[h[right]] < key[h[best]] THEN right ELSE best

\* A turn of sift_down: the element sinks to its smallest child.
Sink(s, key) ==
    LET best == Best(s.heap, key, s.at)
    IN  IF best = s.at THEN s ELSE [heap |-> Swap(s.heap, s.at, best), at |-> best]

SiftDown(h, key) ==
    Iterate([s \in LoopStates(h) |-> Sink(s, key)], [heap |-> h, at |-> 1], Len(h)).heap

\* push: refused when the buffer holds Size elements.
PQPush(h, key, Size, e) ==
    IF Len(h) = Size THEN h ELSE SiftUp(Append(h, e), key, Len(h) + 1)

\* pop: the last element replaces the root and sinks.
PQPop(h, key) ==
    IF Len(h) <= 1 THEN << >>
    ELSE SiftDown([SubSeq(h, 1, Len(h) - 1) EXCEPT ![1] = h[Len(h)]], key)
=============================================================================
