-------------------------- MODULE UnicastTransport --------------------------
(***************************************************************************)
(* A sender (UnicastTx), a link and a receiver (UnicastRx).  A stream link *)
(* hands over what it took in order and once; a datagram link loses,       *)
(* duplicates and reorders, within half the space of sequence numbers      *)
(* (2^27 numbers in the default build).                                    *)
(***************************************************************************)
EXTENDS UnicastTx, UnicastRx

VARIABLES newest  \* the last position of the wire received, for each channel

vars == <<txVars, rxVars, newest>>

Init == TxInit /\ RxInit /\ newest = [r \in Channels |-> 0]

Send == TxNext /\ UNCHANGED <<rxVars, newest>>

\* Sequence numbers used on the channel between two positions of the wire.
Between(r, i, j) ==
    Cardinality({k \in DOMAIN wire : wire[k].kind # "keepAlive" /\ wire[k].rel = r
                                     /\ ((i < k /\ k <= j) \/ (j < k /\ k <= i))})

Seen(i) ==
    newest' = [r \in Channels |->
        IF i > newest[r] /\ (~Datagram \/ (wire[i].kind # "keepAlive" /\ wire[i].rel = r))
        THEN i ELSE newest[r]]

\* External: the stream link.
StreamDelivers ==
    LET i == newest["reliable"] + 1
    IN  ~Datagram /\ i \in DOMAIN wire /\ Handle(wire[i]) /\ Seen(i) /\ UNCHANGED txVars

\* External: the datagram link.
DatagramDelivers(i) ==
    /\ Datagram /\ i \in DOMAIN wire /\ wire[i].kind # "keepAlive"
    /\ Between(wire[i].rel, i, newest[wire[i].rel]) <= Half(SnRes)
    /\ Handle(wire[i]) /\ Seen(i) /\ UNCHANGED txVars

Next == Send \/ StreamDelivers \/ \E i \in DOMAIN wire : DatagramDelivers(i)

Spec == Init /\ [][Next]_vars

-----------------------------------------------------------------------------
(* Properties.                                                             *)

Received(r) ==
    LET on == SelectSeq(got, LAMBDA g : g.rel = r) IN [k \in DOMAIN on |-> on[k].id]

ReliableChannel   == INSTANCE OrderedChannel
                         WITH sent <- Len(msgs), delivered <- Received("reliable")
BestEffortChannel == INSTANCE OrderedChannel
                         WITH sent <- Len(msgs),
                              delivered <- IF Datagram THEN << >> ELSE Received("bestEffort")

\* The reliable channel delivers at most once and in order, on every link and
\* whatever was batched, fragmented, resent or lost, and so does the best-effort
\* channel of a stream link; fragments are never put together to something that
\* was not sent.
ChannelsInOrder == ReliableChannel!Spec /\ BestEffortChannel!Spec

\* On a stream link without failures nothing is lost: what has been received is
\* exactly what was sent, except messages beyond the size of the buffer.
StreamComplete ==
    LET past == {i \in DOMAIN wire : i <= newest["reliable"]}
        whole == (UNION {Contents(wire[i]) : i \in past})
                 \cup {wire[i].id : i \in {j \in past : wire[j].kind = "fragment" /\ ~wire[j].more}}
    IN  fails = 0 => {got[k].id : k \in DOMAIN got} = {id \in whole : msgs[id].size <= FragMax}

NoGarbage == \A k \in DOMAIN got : got[k].id # Garbage

OnceOn(r) == \A j, k \in DOMAIN got : got[j].rel = r /\ got[k].rel = r /\ got[j].id = got[k].id => j = k

\* The reorder window suppresses duplicates of best-effort datagrams, as long as
\* no best-effort message is fragmented, and reassembly never mixes messages.
DatagramsOnce ==
    /\ NoGarbage
    /\ OnceOn("bestEffort")
       \/ \E i \in DOMAIN wire : wire[i].kind = "fragment" /\ wire[i].rel = "bestEffort"
=============================================================================
