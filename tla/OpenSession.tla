---------------------------- MODULE OpenSession ----------------------------
(***************************************************************************)
(* How z_open establishes its links: _z_open and what it calls             *)
(* (src/src/net/session.c), _z_add_peers and the task that goes on adding  *)
(* peers (src/src/transport/manager.c).  An attempt at a locator succeeds, *)
(* fails with an error that _z_transport_open_error_is_retryable accepts   *)
(* ("OPEN_FAILED" for all of them) or with another one ("FATAL"); see      *)
(* PeerLinks for the attempt itself.  Time is counted in back-off sleeps.  *)
(***************************************************************************)
EXTENDS Integers, FiniteSetsExt

CONSTANTS MaxLocators, \* bound on the connect locators
          Timeouts     \* values of the time-outs: 0, -1 or positive

VARIABLES config,      \* the mode, whether it listens, time-outs and exit-on-failure flags
          stage,       \* where z_open or the task is
          locState,    \* connect locator, in their order -> _state of its _z_pending_peer_t
          next,        \* the locator a pass goes on with
          primary,     \* the type of the primary transport, or "none"
          elapsed,     \* since the clock of the stage was read
          spent,       \* since the first attempt to connect
          remaining,   \* _timeout_ms of the pending peers
          failed,      \* last_non_retryable_ret is set
          result,      \* what z_open returned, or "none"
          links        \* the number of links each locator was given

openVars == <<config, stage, locState, next, primary, elapsed, spent, remaining, failed, result, links>>

Locators == DOMAIN locState

Latest == Max(Timeouts \cup {1})

Later(t) == IF t < Latest THEN t + 1 ELSE t

OpenInit ==
    /\ config \in [mode : {"client", "peer"}, listen : BOOLEAN, listenTimeout : Timeouts, listenExit : BOOLEAN,
                   timeout : Timeouts, exit : BOOLEAN]
    /\ config.mode = "client" => ~config.listen
    /\ ~config.listen => config.listenTimeout = 0 /\ ~config.listenExit
    /\ stage = IF config.listen THEN "listen" ELSE "connect"
    /\ \E n \in {0, MaxLocators} :
          /\ n = 0 => config.listen
          /\ locState = [l \in 1 .. n |-> "PENDING"] /\ links = [l \in 1 .. n |-> 0]
    /\ next = 1 /\ primary = "none" /\ elapsed = 0 /\ spent = 0 /\ remaining = config.timeout
    /\ failed = FALSE /\ result = "none"

Pending == {l \in Locators : locState[l] = "PENDING"}
Ahead   == {l \in Pending : l >= next}

\* _z_backoff_sleep returns true.
MayRetry(timeout) == timeout = -1 \/ (timeout > 0 /\ elapsed < timeout)

\* _z_get_remaining_timeout_ms
RemainingTimeout(t) ==
    IF config.timeout <= 0 THEN config.timeout ELSE IF t >= config.timeout THEN 0 ELSE config.timeout - t

Return(r) == stage' = "returned" /\ result' = r

\* With a primary transport and locators that are pending, a peer adds them.
GoOn(pending) ==
    IF pending = {} \/ config.mode = "client" THEN Return("OK") ELSE stage' = "add" /\ UNCHANGED result

-----------------------------------------------------------------------------
\* _z_open_bind_listener, one turn of its loop, and what _z_open_locators_peer
\* does with its result.
BindListener ==
    /\ stage = "listen"
    /\ \/ /\ primary' \in {"unicast", "multicast"}
          /\ elapsed' = 0 /\ GoOn(Pending)
       \/ /\ MayRetry(config.listenTimeout)
          /\ elapsed' = Later(elapsed)
          /\ UNCHANGED <<stage, primary, result>>
       \/ \E r \in {"OPEN_FAILED", "FATAL"} :
             /\ r = "OPEN_FAILED" => ~MayRetry(config.listenTimeout)
             /\ IF config.listenExit THEN Return(r)
                ELSE IF Locators = {} THEN Return("OPEN_FAILED")
                ELSE stage' = "connect" /\ UNCHANGED result
             /\ elapsed' = 0 /\ UNCHANGED primary
    /\ UNCHANGED <<config, locState, next, spent, remaining, failed, links>>

-----------------------------------------------------------------------------
\* _z_open_connect_locator, the attempt at the next pending locator, which may
\* take some time.
ConnectSucceeds ==
    /\ stage = "connect" /\ Ahead # {}
    /\ \E late \in {elapsed, Later(elapsed)} : remaining' = RemainingTimeout(late) /\ spent' = late
    /\ locState' = [locState EXCEPT ![Min(Ahead)] = "DONE"]
    /\ links' = [links EXCEPT ![Min(Ahead)] = @ + 1]
    /\ primary' \in {"unicast", "multicast"}
    /\ next' = 1 /\ elapsed' = 0
    /\ failed' = FALSE
    /\ GoOn(Pending \ {Min(Ahead)})
    /\ UNCHANGED config

ConnectFails ==
    /\ stage = "connect" /\ Ahead # {}
    /\ elapsed' \in {elapsed, Later(elapsed)} /\ spent' = elapsed'
    /\ next' = Min(Ahead) + 1
    /\ \E fatal \in BOOLEAN :
          /\ failed' = (failed \/ fatal)
          /\ locState' = IF fatal THEN [locState EXCEPT ![Min(Ahead)] = "FAILED"] ELSE locState
          /\ IF fatal /\ config.mode = "peer" /\ config.exit THEN Return("FATAL") ELSE UNCHANGED <<stage, result>>
    /\ UNCHANGED <<config, primary, remaining, links>>

ConnectPassEnds ==
    /\ stage = "connect" /\ Ahead = {}
    /\ IF Pending # {} /\ MayRetry(config.timeout)
       THEN /\ next' = 1 /\ elapsed' = Later(elapsed) /\ spent' = elapsed'
            /\ UNCHANGED <<stage, result>>
       ELSE Return(IF failed THEN "FATAL" ELSE "OPEN_FAILED") /\ UNCHANGED <<next, elapsed, spent>>
    /\ UNCHANGED <<config, locState, primary, remaining, failed, links>>

-----------------------------------------------------------------------------
\* Mutation: a locator that was added is tried again.
AddPeerForgets ==
    /\ (stage = "add" /\ primary = "unicast") \/ stage = "task"
    /\ Ahead # {}
    /\ links' = [links EXCEPT ![Min(Ahead)] = @ + 1]
    /\ next' = Min(Ahead) + 1
    /\ UNCHANGED <<config, stage, locState, primary, elapsed, spent, remaining, failed, result>>

\* _z_add_peers_impl, the attempt at the next pending locator: from z_open or
\* from _zp_add_peers_task_fn.
AddPeer ==
    /\ (stage = "add" /\ primary = "unicast") \/ stage = "task"
    /\ Ahead # {}
    /\ \E s \in {"DONE", "PENDING", "FAILED"} :
          /\ locState' = [locState EXCEPT ![Min(Ahead)] = s]
          /\ links' = IF s = "DONE" THEN [links EXCEPT ![Min(Ahead)] = @ + 1] ELSE links
          /\ failed' = (failed \/ s = "FAILED")
    /\ next' = Min(Ahead) + 1
    /\ \/ UNCHANGED <<elapsed, spent>>
       \/ elapsed' = Later(elapsed) /\ spent' = Later(spent)
    /\ UNCHANGED <<config, stage, primary, remaining, result>>

\* Mutation: once a locator has failed for good, the others are not waited for.
AddPassEndsEarly ==
    /\ stage = "add" /\ (primary = "multicast" \/ Ahead = {})
    /\ IF primary = "multicast" \/ Pending = {} \/ failed THEN Return("OK")
       ELSE stage' = "task" /\ result' = "OK"
    /\ next' = 1 /\ failed' = FALSE
    /\ UNCHANGED <<config, locState, primary, elapsed, spent, remaining, links>>

\* The rest of the loop of _z_add_peers, after a pass.  _z_open_locators_peer
\* returns "PARTIAL" for "OPEN_FAILED", and leaves what is pending to the task.
AddPassEnds ==
    /\ stage = "add" /\ (primary = "multicast" \/ Ahead = {})
    /\ CASE primary = "multicast" -> Return("OK") /\ UNCHANGED <<elapsed, spent>>
         [] primary = "unicast" /\ failed /\ config.exit -> Return("FATAL") /\ UNCHANGED <<elapsed, spent>>
         [] primary = "unicast" /\ ~(failed /\ config.exit) /\ Pending = {} ->
                Return("OK") /\ UNCHANGED <<elapsed, spent>>
         [] primary = "unicast" /\ Pending # {} /\ ~config.exit ->
                /\ stage' = IF remaining = 0 THEN "returned" ELSE "task"
                /\ result' = "OK" /\ UNCHANGED <<elapsed, spent>>
         [] OTHER ->
                IF MayRetry(remaining)
                THEN elapsed' = Later(elapsed) /\ spent' = Later(spent) /\ UNCHANGED <<stage, result>>
                ELSE Return("PARTIAL") /\ UNCHANGED <<elapsed, spent>>
    /\ next' = 1 /\ failed' = FALSE
    /\ UNCHANGED <<config, locState, primary, remaining, links>>

\* The end of a call of _zp_add_peers_task_fn: the task is done, or sleeps.
TaskPassEnds ==
    /\ stage = "task" /\ Ahead = {}
    /\ IF Pending = {} \/ (remaining > 0 /\ elapsed >= remaining)
       THEN stage' = "returned" /\ UNCHANGED <<elapsed, spent>>
       ELSE elapsed' = Later(elapsed) /\ spent' = Later(spent) /\ UNCHANGED stage
    /\ next' = 1 /\ failed' = FALSE
    /\ UNCHANGED <<config, locState, primary, remaining, result, links>>

\* The session is closed: the task finds the transport closed or no session.
CloseSession ==
    /\ result = "OK" /\ stage # "closed"
    /\ stage' = "closed"
    /\ UNCHANGED <<config, locState, next, primary, elapsed, spent, remaining, failed, result, links>>

OpenStep == BindListener \/ ConnectSucceeds \/ ConnectFails \/ ConnectPassEnds \/ AddPeer \/ AddPassEnds \/ TaskPassEnds

OpenNext == OpenStep \/ CloseSession

OpenSpec == OpenInit /\ [][OpenNext]_openVars /\ WF_openVars(OpenStep)

-----------------------------------------------------------------------------
\* Each locator is linked at most once, whoever tries it.  z_open says OK only
\* with a primary transport and, for a peer that must have them all over
\* unicast, with every locator linked; it never fails when it has them all; and
\* a locator that may still come is given up only when its time is over.
OpenRight ==
    /\ \A l \in Locators : links[l] = IF locState[l] = "DONE" THEN 1 ELSE 0
    /\ result = "OK" => primary # "none"
    /\ result = "OK" /\ config.mode = "peer" /\ config.exit /\ primary = "unicast" =>
           \A l \in Locators : locState[l] = "DONE"
    /\ result \in {"OPEN_FAILED", "FATAL", "PARTIAL"} =>
           primary = "none" \/ \E l \in Locators : locState[l] # "DONE"
    /\ config.mode = "client" => (result = "OK") <=> (\E l \in Locators : links[l] = 1)
    /\ stage = "returned" /\ config.mode = "peer" /\ primary = "unicast" /\ result # "FATAL" /\ Pending # {} =>
           config.timeout # -1 /\ spent >= config.timeout

\* z_open comes back unless it may retry for ever, and what is pending for a
\* task without time limit is tried again and again.
OpenProceeds ==
    /\ []<>(stage \in {"task", "returned", "closed"} \/ config.timeout = -1 \/ config.listenTimeout = -1)
    /\ \A l \in 1 .. MaxLocators : []<>(stage # "task" \/ l \notin Pending \/ (Ahead # {} /\ Min(Ahead) = l))
=============================================================================
