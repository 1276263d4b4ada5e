---------------------------- MODULE SyncGroupSpec ----------------------------
(***************************************************************************)
(* What a sync group promises its users: notifiers are handed out until    *)
(* the group is closed; one wait succeeds, when none is alive, and closes  *)
(* it; every other wait learns that the group is closed, or times out.     *)
(***************************************************************************)
CONSTANTS Notifiers, Threads

VARIABLES closed, alive, call, ret

Init ==
    /\ closed = FALSE /\ alive = {}
    /\ call = [t \in Threads |-> "none"] /\ ret = [t \in Threads |-> "none"]

Create(n) ==
    /\ ~closed /\ alive' = alive \cup {n}
    /\ UNCHANGED <<closed, call, ret>>

Drop(n) ==
    /\ alive' = alive \ {n}
    /\ UNCHANGED <<closed, call, ret>>

Close == closed' = TRUE /\ UNCHANGED <<alive, call, ret>>

Call(t, kind) ==
    /\ call[t] = "none" /\ call' = [call EXCEPT ![t] = kind]
    /\ UNCHANGED <<closed, alive, ret>>

Return(t, r) ==
    /\ call[t] # "none" /\ call' = [call EXCEPT ![t] = "none"]
    /\ ret' = [ret EXCEPT ![t] = r] /\ UNCHANGED alive

Succeed(t)   == Return(t, "ok") /\ ~closed /\ alive = {} /\ closed' = TRUE
FindClosed(t) == Return(t, "closed") /\ closed /\ UNCHANGED closed
TimeOut(t)   == Return(t, "timedout") /\ ~closed /\ call[t] = "timedwait" /\ UNCHANGED closed

Next ==
    \/ \E n \in Notifiers : Create(n) \/ Drop(n)
    \/ \E t \in Threads : \/ Call(t, "wait") \/ Call(t, "timedwait")
                          \/ Succeed(t) \/ FindClosed(t) \/ TimeOut(t)
    \/ Close

Spec == Init /\ [][Next]_<<closed, alive, call, ret>>
=============================================================================
