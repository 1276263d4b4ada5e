---------------------------- MODULE Cancellation ----------------------------
(***************************************************************************)
(* The cancellation token of src/src/session/cancellation.c: threads that  *)
(* cancel it, concurrently and repeatedly, and the operations (pending     *)
(* gets) registered with it, each by a handler and a notifier of the       *)
(* token's sync group, or by a notifier alone.                             *)
(*                                                                         *)
(* The sync group is SyncGroupSpec, which SyncGroup implements.  A step    *)
(* ends where the token's mutex, the group or _cancel_result is touched.   *)
(* An operation registers and ends under the session's mutex, which its    *)
(* handler takes too: hence the guard on opst in the handler's call.       *)
(***************************************************************************)
EXTENDS Integers, FiniteSets

CONSTANTS Threads,   \* threads that cancel
          Ops,       \* operations registered with a handler and a notifier
          Bare,      \* operations registered with a notifier only
          Core,      \* the notifier kept with the handlers
          MaxCalls   \* thread -> bound on its cancel calls

Notifiers == Ops \cup Bare \cup {Core}

VARIABLES closed, alive, call, ret,   \* _sync_group
          stored,   \* ct->_handlers: the handlers, and Core as its notifier
          taken,    \* the storage a thread took: local variable s
          result,   \* _cancel_result
          opst,     \* where each operation is in its life
          fate,     \* how often each handler's _on_drop was called
          pc, kind, \* where each thread is, with or without a deadline
          out,      \* what its last call returned
          calls, cleared,
          calling,  \* operations whose callback the thread that found them has yet to call
          foundLate \* history: operations found so after a cancel had succeeded

G == INSTANCE SyncGroupSpec

group == <<closed, alive, call, ret>>
token == <<stored, taken, result, fate>>
reply == <<calling, foundLate>>
vars  == <<group, token, opst, pc, kind, out, calls, cleared, reply>>

\* _z_cancellation_token_create, with a notifier for the handlers themselves.
Init ==
    /\ closed = FALSE /\ alive = {Core}
    /\ call = [t \in Threads |-> "none"] /\ ret = [t \in Threads |-> "none"]
    /\ stored = {Core} /\ taken = [t \in Threads |-> {}]
    /\ result = "ok" /\ fate = [o \in Ops |-> 0]
    /\ opst = [o \in Ops \cup Bare |-> "none"]
    /\ pc = [t \in Threads |-> "idle"] /\ kind = [t \in Threads |-> "wait"]
    /\ out = [t \in Threads |-> "none"]
    /\ calls = [t \in Threads |-> 0] /\ cleared = FALSE
    /\ calling = {} /\ foundLate = {}

Goto(t, l)     == pc' = [pc EXCEPT ![t] = l]
OpTo(o, s)     == opst' = [opst EXCEPT ![o] = s]
DropHandlers(S) == fate' = [o \in Ops |-> IF o \in S THEN fate[o] + 1 ELSE fate[o]]

-----------------------------------------------------------------------------
(* Operations.                                                             *)

\* add_on_cancel_handler: refused once a cancel has taken the storage; the
\* caller then drops the handler itself.
AddHandler(o) ==
    /\ ~cleared /\ opst[o] = "none"
    /\ \/ /\ Core \in stored
          /\ stored' = stored \cup {o} /\ OpTo(o, "adding") /\ UNCHANGED fate
       \/ /\ Core \notin stored
          /\ DropHandlers({o}) /\ OpTo(o, "ended") /\ UNCHANGED stored
    /\ UNCHANGED <<group, taken, result, pc, kind, out, calls, cleared, reply>>

\* get_notifier after add_on_cancel_handler; when the group is already closed
\* the handler is removed again.
GetNotifier(o) ==
    /\ opst[o] = "adding"
    /\ \/ /\ G!Create(o) /\ OpTo(o, "active")
          /\ UNCHANGED <<stored, fate>>
       \/ /\ closed /\ OpTo(o, "ended")
          /\ stored' = stored \ {o} /\ DropHandlers({o} \cap stored)
          /\ UNCHANGED group
    /\ UNCHANGED <<taken, result, pc, kind, out, calls, cleared, reply>>

GetBareNotifier(o) ==
    /\ ~cleared /\ opst[o] = "none"
    /\ \/ G!Create(o) /\ OpTo(o, "active")
       \/ closed /\ OpTo(o, "ended") /\ UNCHANGED group
    /\ UNCHANGED <<token, pc, kind, out, calls, cleared, reply>>

\* The operation ends by itself: _z_pending_query_cancellation_data_clear
\* removes the handler, then drops the notifier.
RemoveHandler(o) ==
    /\ opst[o] = "active" /\ OpTo(o, "finishing")
    /\ stored' = stored \ {o} /\ DropHandlers({o} \cap stored)
    /\ UNCHANGED <<group, taken, result, pc, kind, out, calls, cleared, reply>>

FinishOp(o) ==
    /\ opst[o] = "finishing" /\ OpTo(o, "ended") /\ G!Drop(o)
    /\ UNCHANGED <<token, pc, kind, out, calls, cleared, reply>>

\* A reply comes: _z_trigger_query_reply_partial_inner and _err look the pending
\* query up under the session's mutex, which they release before they call its
\* callback, without a notifier: the operation may end meanwhile.
FindQuery(o) ==
    /\ opst[o] = "active" /\ o \notin calling /\ calling' = calling \cup {o}
    /\ foundLate' = IF \E t \in Threads : out[t] = "ok" THEN foundLate \cup {o} ELSE foundLate
    /\ UNCHANGED <<group, token, opst, pc, kind, out, calls, cleared>>

CallCallback(o) ==
    /\ o \in calling /\ calling' = calling \ {o}
    /\ UNCHANGED <<group, token, opst, pc, kind, out, calls, cleared, foundLate>>

-----------------------------------------------------------------------------
(* Cancel.                                                                 *)

Cancel(t, k) ==
    /\ ~cleared /\ pc[t] = "idle" /\ calls[t] < MaxCalls[t]
    /\ calls' = [calls EXCEPT ![t] = @ + 1]
    /\ kind' = [kind EXCEPT ![t] = k] /\ Goto(t, "take")
    /\ out' = [out EXCEPT ![t] = "none"]
    /\ UNCHANGED <<group, token, opst, cleared, reply>>

\* call_handlers, under the mutex: only the first cancel finds a notifier.
TakeHandlers(t) ==
    /\ pc[t] = "take"
    /\ taken' = [taken EXCEPT ![t] = stored] /\ stored' = {}
    /\ IF Core \in stored THEN Goto(t, "handlers") /\ result' = "ok"
                          ELSE Goto(t, "wait") /\ UNCHANGED result
    /\ UNCHANGED <<group, fate, opst, kind, out, calls, cleared, reply>>

Callable(t, o) ==
    /\ pc[t] = "handlers" /\ result = "ok"
    /\ o \in taken[t] /\ opst[o] \notin {"adding", "finishing"}

\* Mutant: the handler is not forgotten once it has been called and dropped.
CallHandlerKeeps(t, o) ==
    /\ Callable(t, o)
    /\ DropHandlers({o})
    /\ IF opst[o] = "active" THEN OpTo(o, "ended") /\ G!Drop(o) ELSE UNCHANGED <<opst, group>>
    /\ UNCHANGED <<stored, taken, result, pc, kind, out, calls, cleared, reply>>

\* handlers_storage_cancel, one handler: _on_cancel ends the operation unless it
\* has already ended, then the handler is dropped.
CallHandler(t, o) ==
    /\ Callable(t, o)
    /\ taken' = [taken EXCEPT ![t] = @ \ {o}] /\ DropHandlers({o})
    /\ IF opst[o] = "active" THEN OpTo(o, "ended") /\ G!Drop(o) ELSE UNCHANGED <<opst, group>>
    /\ UNCHANGED <<stored, result, pc, kind, out, calls, cleared, reply>>

\* _on_cancel fails: the loop ends, the operation goes on.
CallHandlerFails(t, o) ==
    /\ Callable(t, o)
    /\ taken' = [taken EXCEPT ![t] = @ \ {o}] /\ DropHandlers({o})
    /\ result' = "err"
    /\ UNCHANGED <<group, stored, opst, pc, kind, out, calls, cleared, reply>>

\* handlers_storage_clear: handlers that were not called are only dropped ...
ClearHandlers(t) ==
    /\ pc[t] = "handlers" /\ (result = "err" \/ taken[t] \subseteq {Core})
    /\ DropHandlers(taken[t] \cap Ops) /\ taken' = [taken EXCEPT ![t] = @ \cap {Core}]
    /\ Goto(t, "notify")
    /\ UNCHANGED <<group, stored, result, opst, kind, out, calls, cleared, reply>>

\* ... and then the notifier, "in the end to ensure that all concurrent cancel
\* calls return only once all work is done".
DropCoreNotifier(t) ==
    /\ pc[t] = "notify" /\ G!Drop(Core)
    /\ taken' = [taken EXCEPT ![t] = {}] /\ Goto(t, "close")
    /\ UNCHANGED <<stored, result, fate, opst, kind, out, calls, cleared, reply>>

\* Mutant: the group is closed whatever the handlers returned.
CloseAlways(t) ==
    /\ pc[t] = "close" /\ Goto(t, "wait") /\ G!Close
    /\ UNCHANGED <<token, opst, kind, out, calls, cleared, reply>>

\* Mutant: the group is not closed after an error.
CloseNever(t) ==
    /\ pc[t] = "close" /\ Goto(t, "wait")
    /\ UNCHANGED <<group, token, opst, kind, out, calls, cleared, reply>>

CloseOnError(t) ==
    /\ pc[t] = "close" /\ Goto(t, "wait")
    /\ IF result = "err" THEN G!Close ELSE UNCHANGED group
    /\ UNCHANGED <<token, opst, kind, out, calls, cleared, reply>>

WaitGroup(t) ==
    /\ pc[t] = "wait" /\ G!Call(t, kind[t]) /\ Goto(t, "waiting")
    /\ UNCHANGED <<token, opst, kind, out, calls, cleared, reply>>

Waited(t) ==
    /\ pc[t] = "waiting" /\ (G!Succeed(t) \/ G!FindClosed(t) \/ G!TimeOut(t))
    /\ Goto(t, "return")
    /\ UNCHANGED <<token, opst, kind, out, calls, cleared, reply>>

\* Whatever else the wait returned, cancel returns _cancel_result.
CancelReturns(t) ==
    /\ pc[t] = "return" /\ Goto(t, "idle")
    /\ out' = [out EXCEPT ![t] = IF ret[t] = "timedout" THEN "timedout" ELSE result]
    /\ UNCHANGED <<group, token, opst, kind, calls, cleared, reply>>

\* _z_cancellation_token_clear, with the last reference; operations hold one.
Clear ==
    /\ ~cleared /\ cleared' = TRUE
    /\ \A t \in Threads : pc[t] = "idle"
    /\ \A o \in Ops \cup Bare : opst[o] \in {"none", "ended"}
    /\ stored' = {} /\ DropHandlers(stored \cap Ops)
    /\ alive' = alive \ stored
    /\ UNCHANGED <<closed, call, ret, taken, result, opst, pc, kind, out, calls, reply>>

-----------------------------------------------------------------------------
CancelStep(t) ==
    \/ TakeHandlers(t) \/ ClearHandlers(t) \/ DropCoreNotifier(t) \/ CloseOnError(t)
    \/ WaitGroup(t) \/ Waited(t) \/ CancelReturns(t)
    \/ \E o \in Ops : CallHandler(t, o) \/ CallHandlerFails(t, o)

Next ==
    \/ \E o \in Ops : AddHandler(o) \/ GetNotifier(o) \/ FindQuery(o) \/ CallCallback(o)
    \/ \E o \in Ops \cup Bare : RemoveHandler(o) \/ FinishOp(o)
    \/ \E o \in Bare : GetBareNotifier(o)
    \/ \E t \in Threads : CancelStep(t) \/ Cancel(t, "wait") \/ Cancel(t, "timedwait")
    \/ Clear

\* Threads that can go on do; an operation whose registration or end has begun
\* completes it; an operation without a handler ends by itself.
Fairness ==
    /\ \A t \in Threads : WF_vars(CancelStep(t))
    /\ \A o \in Ops : WF_vars(GetNotifier(o) \/ FinishOp(o))
    /\ \A o \in Bare : WF_vars(RemoveHandler(o) \/ FinishOp(o))

Spec     == Init /\ [][Next]_vars
FairSpec == Spec /\ Fairness

-----------------------------------------------------------------------------
(* Properties.                                                             *)

\* Registered, with its notifier: the operation can still be found.
Running(o) == opst[o] \in {"active", "finishing"}

\* primitives.h, z_cancellation_token_cancel: "in case of success [...] all
\* pending operations are guaranteed to be cancelled or terminated".  When a
\* cancel has succeeded no operation is registered, also for the cancel that did
\* not call the handlers and for operations that were registering when it began,
\* none starts later, and no reply finds one; and "all concurrent cancel calls
\* return only once all work is done".  It does not say that calling is empty: the
\* callback of a reply that had found its query before may still run.
CancelledIsQuiet ==
    /\ foundLate = {}
    /\ \A t \in Threads :
        /\ out[t] = "ok" => \A o \in Ops \cup Bare : ~Running(o)
        /\ out[t] \in {"ok", "err"} => \A u \in Threads : pc[u] \notin {"handlers", "notify"}

\* A handler is owned once: it is dropped exactly once, by the cancel that
\* called it, by the cancel that stopped before it, by the end of its
\* operation, by a refused registration or with the token.
HandlerDroppedOnce ==
    \A o \in Ops : /\ fate[o] <= 1
                   /\ cleared /\ opst[o] = "ended" => fate[o] = 1

\* Every cancel returns, with or without a deadline, although operations that
\* have a handler never end by themselves and handlers may fail.
CancelEnds == \A t \in Threads : []<>(pc[t] = "idle")
=============================================================================
