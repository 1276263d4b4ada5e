----------------------------- MODULE PQueueSpec -----------------------------
(* What a bounded priority queue promises: it holds each element as often   *)
(* as it was pushed, gives back a smallest one, and refuses an element when *)
(* it is full.                                                              *)
EXTENDS Integers

CONSTANTS Elems, Size

VARIABLES held,     \* how often each element is queued
          length,   \* how many elements are queued
          out       \* what the last pop returned

Smallest == CHOOSE e \in Elems : held[e] > 0 /\ \A x \in Elems : held[x] > 0 => e <= x

Init == held = [e \in Elems |-> 0] /\ length = 0 /\ out = -1

Push(e) ==
    /\ length < Size
    /\ held' = [held EXCEPT ![e] = @ + 1] /\ length' = length + 1
    /\ out' = out

Pop ==
    /\ length > 0
    /\ out' = Smallest
    /\ held' = [held EXCEPT ![Smallest] = @ - 1] /\ length' = length - 1

Next == Pop \/ \E e \in Elems : Push(e)

Spec == Init /\ [][Next]_<<held, length, out>>
=============================================================================
