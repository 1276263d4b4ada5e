----------------------------- MODULE HeapPQueue -----------------------------
(***************************************************************************)
(* The heap of static_pqueue_template.h driven by every sequence of pushes *)
(* and pops, shown to implement the abstract priority queue.               *)
(***************************************************************************)
EXTENDS PQueue, FiniteSets

CONSTANTS Elems,    \* the keys, compared as numbers
          Size      \* _ZP_STATIC_PQUEUE_TEMPLATE_SIZE

VARIABLES buffer,   \* _buffer[0 .. _size - 1]
          out       \* what the last pop wrote to *out

heapVars == <<buffer, out>>

Key == [e \in Elems |-> e]

HeapInit == buffer = << >> /\ out = -1

HeapPush(e) == buffer' = PQPush(buffer, Key, Size, e) /\ out' = out

HeapPop ==
    /\ buffer # << >>
    /\ out' = Head(buffer)
    /\ buffer' = PQPop(buffer, Key)

HeapNext == HeapPop \/ \E e \in Elems : HeapPush(e)

HeapSpec == HeapInit /\ [][HeapNext]_heapVars

-----------------------------------------------------------------------------
Content == [e \in Elems |-> Cardinality({i \in DOMAIN buffer : buffer[i] = e})]

AbstractQueue == INSTANCE PQueueSpec WITH held <- Content, length <- Len(buffer)

\* The heap implements the abstract queue: sift_up and sift_down neither lose
\* nor duplicate an element, ties included, and every pop returns a smallest one.
ImplementsPQueue == AbstractQueue!Spec
=============================================================================
