------------------------------ MODULE Reconnect ------------------------------
(***************************************************************************)
(* A client's transport: the read, lease and keep-alive tasks, the failure *)
(* of the transport and its reopening (src/src/transport/unicast/lease.c   *)
(* and _z_client_reopen_task_fn of src/src/net/session.c), while           *)
(* application threads declare and undeclare subscribers and liveliness    *)
(* tokens.  Tasks run in turn on the runtime's thread, one call of a task  *)
(* function is one step except for the reopening, which the application's  *)
(* sends interleave with: they do not take the transport mutex.  Time is   *)
(* counted in ticks; the lease task runs when it is due.                   *)
(***************************************************************************)
EXTENDS Naturals

CONSTANTS Subscribers, Tokens,  \* what the application declares, each once
          Lease,                \* _lease, in ticks
          MaxFailures           \* bound on the times the link or a reopening fails

VARIABLES tpState,      \* _state: "OPEN", "RECONNECTING" or "CLOSED"
          tpType,       \* _tp._type: "UNICAST" or "NONE"
          link,         \* whether the router is there to receive and answer
          weakRefs,     \* weak references to the session held by the transport
          tasks,        \* task -> "running", "suspended" or "done"
          reopen,       \* how far the reopen task is
          replaying,    \* the clone of a list it is to send
          received,     \* _received of the router's peer
          silence,      \* ticks since the router was last heard
          leaseDue,     \* ticks until the lease task runs
          expired,      \* the silence at the last expiry, or 0
          registered,   \* entities in the session's lists
          declState,    \* entity -> where its declaration is
          routerKnows,  \* entities declared to the router on the present link
          failures

reconnectVars == <<tpState, tpType, link, weakRefs, tasks, reopen, replaying, received, silence, leaseDue,
                   expired, registered, declState, routerKnows, failures>>
transportVars == <<tpState, tpType, link, weakRefs, tasks, reopen, replaying, received, silence, leaseDue, expired, failures>>

TransportTasks == {"read", "lease", "keep_alive"}
Declarations   == Subscribers \cup Tokens

ReconnectInit ==
    /\ tpState = "OPEN" /\ tpType = "UNICAST" /\ link = TRUE /\ weakRefs = 1
    /\ tasks = [k \in TransportTasks |-> "running"] /\ reopen = "none" /\ replaying = {}
    /\ received = TRUE /\ silence = 0 /\ leaseDue = 0 /\ expired = 0
    /\ registered = {} /\ declState = [e \in Declarations |-> "new"] /\ routerKnows = {} /\ failures = 0

-----------------------------------------------------------------------------
\* Time and the router (the environment).  While the router is there, its
\* keep-alives come often enough: one tick before the lease ends at the latest.
Tick ==
    /\ leaseDue > 0 \/ tasks["lease"] # "running" \/ tpState = "CLOSED"
    /\ reopen \in {"none", "waiting"} /\ silence < 3 * Lease
    /\ link => silence + 1 < Lease
    /\ silence' = IF tpState = "OPEN" THEN silence + 1 ELSE 0
    /\ leaseDue' = IF leaseDue > 0 THEN leaseDue - 1 ELSE 0
    /\ silence' # silence \/ leaseDue' # leaseDue
    /\ UNCHANGED <<tpState, tpType, link, weakRefs, tasks, reopen, replaying, received, expired, registered,
                   declState, routerKnows, failures>>

LinkLost ==
    /\ link /\ failures < MaxFailures
    /\ link' = FALSE /\ failures' = failures + 1
    /\ UNCHANGED <<tpState, tpType, weakRefs, tasks, reopen, replaying, received, silence, leaseDue, expired,
                   registered, declState, routerKnows>>

-----------------------------------------------------------------------------
\* _zp_unicast_failed_result, called by task k: close and clear the transport,
\* keep a weak session for the reopening and spawn its task; k suspends.  When
\* the task cannot be spawned the transport is closed for good and k ends.
FailedResult(k) ==
    /\ tpType' = "NONE"
    /\ \/ /\ tpState' = "RECONNECTING" /\ reopen' = "waiting"
          /\ tasks' = [tasks EXCEPT ![k] = "suspended"]
          /\ UNCHANGED weakRefs
       \/ /\ tpState' = "CLOSED" /\ weakRefs' = weakRefs - 1
          /\ tasks' = [tasks EXCEPT ![k] = "done"]
          /\ UNCHANGED reopen

\* The first lines of every task: end on a closed transport, suspend on one that
\* is reconnecting.
TaskStops(k) ==
    /\ tasks[k] = "running" /\ tpState # "OPEN" /\ (k = "lease" => leaseDue = 0)
    /\ tasks' = [tasks EXCEPT ![k] = IF tpState = "CLOSED" THEN "done" ELSE "suspended"]
    /\ UNCHANGED <<tpState, tpType, link, weakRefs, reopen, replaying, received, silence, leaseDue, expired,
                   registered, declState, routerKnows, failures>>

\* _zp_unicast_read_task_fn: a message of the router, or a failure of the link.
ReadTask ==
    /\ tasks["read"] = "running" /\ tpState = "OPEN"
    /\ \/ /\ link /\ received' = TRUE /\ silence' = 0 /\ (~received \/ silence > 0)
          /\ UNCHANGED <<tpState, tpType, weakRefs, tasks, reopen>>
       \/ ~link /\ FailedResult("read") /\ UNCHANGED <<received, silence>>
    /\ UNCHANGED <<link, replaying, leaseDue, expired, registered, declState, routerKnows, failures>>

\* _zp_unicast_lease_task_fn.
LeaseTask ==
    /\ tasks["lease"] = "running" /\ tpState = "OPEN" /\ leaseDue = 0
    /\ IF received
       THEN /\ received' = FALSE /\ leaseDue' = Lease
            /\ UNCHANGED <<tpState, tpType, weakRefs, tasks, reopen, expired>>
       ELSE FailedResult("lease") /\ expired' = silence /\ UNCHANGED <<received, leaseDue>>
    /\ UNCHANGED <<link, replaying, silence, registered, declState, routerKnows, failures>>

\* _zp_unicast_keep_alive_task_fn, when its message cannot be sent.
KeepAliveTask ==
    /\ tasks["keep_alive"] = "running" /\ tpState = "OPEN" /\ ~link
    /\ FailedResult("keep_alive")
    /\ UNCHANGED <<link, replaying, received, silence, leaseDue, expired, registered, declState, routerKnows, failures>>

-----------------------------------------------------------------------------
\* _z_client_reopen_task_fn.  The weak session is upgraded and dropped, then
\* _z_open makes a new transport; a failure is retried after a second or, for
\* other errors, ends in a closed transport.
Reopen ==
    /\ reopen = "waiting"
    /\ \/ /\ reopen' = "subscribers" /\ tpType' = "UNICAST" /\ tpState' = "OPEN"
          /\ link' = TRUE /\ routerKnows' = {} /\ received' = TRUE /\ silence' = 0
          /\ weakRefs' = (weakRefs - 1) + 1
          /\ replaying' = registered \cap Subscribers
          /\ UNCHANGED failures
       \/ /\ failures < MaxFailures /\ failures' = failures + 1
          /\ weakRefs' = (weakRefs - 1) + 1
          /\ UNCHANGED <<reopen, tpType, tpState, link, routerKnows, received, silence, replaying>>
       \/ /\ failures < MaxFailures /\ failures' = failures + 1
          /\ reopen' = "none" /\ tpState' = "CLOSED" /\ weakRefs' = weakRefs - 1
          /\ UNCHANGED <<tpType, link, routerKnows, received, silence, replaying>>
    /\ UNCHANGED <<tasks, leaseDue, expired, registered, declState>>

\* Mutation: what was declared is not sent.
PushDeclarationsForgets ==
    /\ reopen \in {"subscribers", "tokens"}
    /\ reopen' = IF reopen = "subscribers" THEN "tokens" ELSE "resume"
    /\ UNCHANGED <<tpState, tpType, link, weakRefs, tasks, replaying, received, silence, leaseDue, expired,
                   registered, declState, routerKnows, failures>>

\* _z_interest_push_declarations_to_peer sends a clone of each list; a failure
\* clears the transport again and is retried.
PushDeclarations ==
    /\ reopen \in {"subscribers", "tokens"}
    /\ \/ /\ link /\ routerKnows' = routerKnows \cup replaying
          /\ reopen' = IF reopen = "subscribers" THEN "tokens" ELSE "resume"
          /\ replaying' = IF reopen = "subscribers" THEN registered \cap Tokens ELSE {}
          /\ UNCHANGED <<tpType, tpState, weakRefs>>
       \/ /\ ~link /\ reopen' = "waiting" /\ replaying' = {}
          /\ tpType' = "NONE" /\ tpState' = "RECONNECTING" /\ weakRefs' = (weakRefs - 1) + 1
          /\ UNCHANGED routerKnows
    /\ UNCHANGED <<link, tasks, received, silence, leaseDue, expired, registered, declState, failures>>

\* Mutation: only the task that failed is resumed.
ResumeLease ==
    /\ reopen = "resume" /\ reopen' = "none"
    /\ tasks' = [tasks EXCEPT !["lease"] = IF @ = "suspended" THEN "running" ELSE @]
    /\ leaseDue' = IF tasks["lease"] = "suspended" THEN 0 ELSE leaseDue
    /\ UNCHANGED <<tpState, tpType, link, weakRefs, replaying, received, silence, expired, registered, declState,
                   routerKnows, failures>>

\* The siblings that suspended are resumed.
Resume ==
    /\ reopen = "resume" /\ reopen' = "none"
    /\ tasks' = [k \in TransportTasks |-> IF tasks[k] = "suspended" THEN "running" ELSE tasks[k]]
    /\ leaseDue' = IF tasks["lease"] = "suspended" THEN 0 ELSE leaseDue
    /\ UNCHANGED <<tpState, tpType, link, weakRefs, replaying, received, silence, expired, registered, declState,
                   routerKnows, failures>>

-----------------------------------------------------------------------------
\* The application.  _z_register_subscriber lists the entity and then sends;
\* _z_declare_liveliness_token sends first.  A send on a link that is lost may
\* still succeed; without a transport it fails.
SendFails == tpType = "NONE" \/ ~link
SendOk    == tpType = "UNICAST"

List(e, from) ==
    /\ declState[e] = from
    /\ registered' = registered \cup {e}
    /\ declState' = [declState EXCEPT ![e] = IF from = "new" THEN "listed" ELSE "declared"]
    /\ UNCHANGED <<transportVars, routerKnows>>

SendDeclare(e, from) ==
    /\ declState[e] = from
    /\ \/ /\ SendOk
          /\ routerKnows' = IF link THEN routerKnows \cup {e} ELSE routerKnows
          /\ declState' = [declState EXCEPT ![e] = IF from = "new" THEN "sent" ELSE "declared"]
          /\ UNCHANGED registered
       \/ /\ SendFails
          /\ declState' = [declState EXCEPT ![e] = "failed"]
          /\ registered' = registered \ {e}
          /\ UNCHANGED routerKnows
    /\ UNCHANGED transportVars

DeclareSubscriber(e) == List(e, "new") \/ SendDeclare(e, "listed")
DeclareToken(e)      == SendDeclare(e, "new") \/ List(e, "sent")

SendUndeclare(e, from, to) ==
    /\ declState[e] = from /\ declState' = [declState EXCEPT ![e] = to]
    /\ \/ SendOk /\ routerKnows' = IF link THEN routerKnows \ {e} ELSE routerKnows
       \/ SendFails /\ UNCHANGED routerKnows
    /\ UNCHANGED <<transportVars, registered>>

Unlist(e, from, to) ==
    /\ declState[e] = from /\ declState' = [declState EXCEPT ![e] = to]
    /\ registered' = registered \ {e}
    /\ UNCHANGED <<transportVars, routerKnows>>

\* _z_undeclare_subscriber sends first, _z_undeclare_liveliness_token last.
UndeclareSubscriber(e) == SendUndeclare(e, "declared", "unsent") \/ Unlist(e, "unsent", "undeclared")
UndeclareToken(e)      == Unlist(e, "declared", "unlisted") \/ SendUndeclare(e, "unlisted", "undeclared")

LeaseStep  == reopen \in {"none", "waiting"} /\ (LeaseTask \/ TaskStops("lease"))
ReopenStep == Reopen \/ PushDeclarations \/ Resume
TaskStep   == ReadTask \/ LeaseTask \/ KeepAliveTask \/ \E k \in TransportTasks : TaskStops(k)
AppStep    == \/ \E e \in Subscribers : DeclareSubscriber(e) \/ UndeclareSubscriber(e)
              \/ \E e \in Tokens : DeclareToken(e) \/ UndeclareToken(e)

ReconnectNext == Tick \/ LinkLost \/ ReopenStep \/ (reopen \in {"none", "waiting"} /\ TaskStep) \/ AppStep

\* The runtime gives every task its turn and time passes.
ReconnectSpec ==
    /\ ReconnectInit /\ [][ReconnectNext]_reconnectVars
    /\ WF_reconnectVars(ReopenStep) /\ WF_reconnectVars(Tick)
    /\ WF_reconnectVars(LeaseStep)

-----------------------------------------------------------------------------
RouterKnows(entities) ==
    tpState = "OPEN" /\ link /\ reopen = "none"
    => \A e \in entities : declState[e] = "declared" => e \in routerKnows

\* However declaring, failing and reopening interleave, a router over an open
\* transport whose reopening is done knows every subscriber whose declaration has
\* returned, which is what _z_interest_push_declarations_to_peer is for; then no
\* task stays suspended either.  The transport holds exactly one weak session
\* while it is or will be open, and none once it is closed; and the lease expires
\* only a router that was silent for a whole lease.
ReconnectSafe ==
    /\ RouterKnows(Subscribers)
    /\ tpState = "OPEN" /\ reopen = "none" => \A k \in TransportTasks : tasks[k] = "running"
    /\ weakRefs = IF tpState = "CLOSED" THEN 0 ELSE 1
    /\ expired # 0 => expired >= Lease

\* A router that is gone is noticed, and a failed transport becomes open, with
\* its tasks running, or closed.
Reconnects ==
    /\ []<>(link \/ tpState = "CLOSED")
    /\ []<>(tpState = "CLOSED" \/ \A k \in TransportTasks : tasks[k] = "running")
=============================================================================
