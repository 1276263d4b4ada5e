--------------------------- MODULE OrderedChannel ---------------------------
(***************************************************************************)
(* What one channel of a transport promises to the session at its end:     *)
(* messages may be lost, but those that arrive arrive once and in the      *)
(* order in which they were sent.                                          *)
(***************************************************************************)
EXTENDS Integers, Sequences

VARIABLES sent,      \* the number of messages sent: they are 1 .. sent
          delivered  \* the messages delivered, in order

Increasing(s) == \A j, k \in DOMAIN s : j < k => s[j] < s[k]

Init == sent = 0 /\ delivered = << >>

Send == sent' = sent + 1 /\ UNCHANGED delivered

DeliverSome ==
    /\ Len(delivered') > Len(delivered)
    /\ SubSeq(delivered', 1, Len(delivered)) = delivered
    /\ Increasing(delivered')
    /\ \A k \in DOMAIN delivered' : delivered'[k] \in 1 .. sent
    /\ UNCHANGED sent

Spec == Init /\ [][Send \/ DeliverSome]_<<sent, delivered>>
=============================================================================
