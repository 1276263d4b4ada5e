------------------------------ MODULE Locking ------------------------------
(***************************************************************************)
(* Who holds which mutex and wants which: the operations of a session over *)
(* unicast links as the sequences of mutexes they take, in the thread of   *)
(* the executor and in the application's threads, with the callbacks they  *)
(* run on the way.                                                         *)
(*                                                                         *)
(* The peer and the transport mutex are recursive, the others are not.     *)
(* The transmission mutex and the one for the last timestamp are left out: *)
(* no other is taken while they are held.  A callback does nothing,        *)
(* publishes, asks for the transports, or pushes into a full channel.      *)
(***************************************************************************)
EXTENDS Naturals, Sequences, FiniteSets

CONSTANTS ExecThread,    \* the thread of the background executor
          AppThreads,
          NoOwner

LockThreads == {ExecThread} \cup AppThreads

ASSUME LockAssumption == NoOwner \notin LockThreads

Mutexes     == {"admin", "transport", "peer", "session", "filter"}
Recursives  == {"transport", "peer"}

VARIABLES clientMode,    \* a client reads and sends without the peer mutex
          owner, depth,  \* mutex -> the thread that holds it, how many times
          steps,         \* thread -> the steps that are left of its operation
          slotFull       \* a channel with one slot

lockVars == <<clientMode, owner, depth, steps, slotFull>>

-----------------------------------------------------------------------------
(* A step may wait for a mutex; what it frees it frees at once, for that   *)
(* never waits.  A mutex that is taken, freed and taken again at once is   *)
(* taken once here.                                                        *)

Lock(m)  == [do |-> "lock", mutex |-> m, free |-> << >>, inside |-> "none"]
Touch(m) == [do |-> "lock", mutex |-> m, free |-> <<m>>, inside |-> "none"]
Step(do) == [do |-> do, mutex |-> "none", free |-> << >>, inside |-> "none"]
Call     == Step("call")

Freeing(body, ms) == [body EXCEPT ![Len(body)].free = @ \o ms]

Under(m, body) == <<Lock(m)>> \o Freeing(body, <<m>>)

\* _z_send_n_msg: peers are sent to under the peer mutex.
Send == IF clientMode THEN << >> ELSE <<Touch("peer")>>

\* _zp_unicast_process_peer_event: messages of peers are handled under the mutex.
Read(body) == IF clientMode THEN body ELSE Under("peer", body)

\* The write filters of an entity that comes or goes, and their matching listeners.
Filters == Under("filter", <<Call>>)

\* _z_connectivity_dispatch_...: the listeners, that of the admin space among them,
\* which looks at the transport and publishes for local subscribers.
DispatchEvents == <<Touch("session"), Touch("transport"), Touch("session"), Call>>

\* _ze_admin_space_pico_query_handler: transports and peers are encoded under the
\* session mutex, the single peers without it.
PicoHandler == Under("session", <<Touch("peer")>>) \o <<Touch("peer")>>

\* _ze_admin_space_session_query_handler.
SessionHandler == Under("transport", <<Touch("peer")>>)

\* _z_trigger_query_reply_final: the last callbacks of a get, and its dropper.
Final == Under("session", <<Call>>)

\* _z_write: sent, then delivered to the session's own subscribers.
Put == Send \o <<Touch("session"), Call>>

\* Mutant: listeners are told of a lost peer with the peer mutex held.
DropPeerLocked ==
    Under("peer", <<Touch("session")>> \o Filters \o DispatchEvents)

\* The read task drops a peer.
DropPeer == Under("peer", <<Touch("session")>> \o Filters) \o DispatchEvents \o <<Touch("peer")>>

\* What the tasks of the executor do.
ExecOp(op) ==
    CASE op = "readSample"  -> Read(<<Touch("session"), Call>>)
      [] op = "readPico"    -> Read(PicoHandler \o Send)
      [] op = "readFinal"   -> Read(Final)
      [] op = "readDeclare" -> Read(<<Touch("session")>> \o Filters)
      [] op = "dropPeer"    -> DropPeer
      [] op = "expirePeers" -> <<Touch("peer"), Touch("session")>> \o Filters \o DispatchEvents
      [] op = "accept"      -> <<Touch("peer"), Touch("session"), Touch("peer")>> \o DispatchEvents
      [] op = "failed"      -> <<Touch("session"), Call, Touch("peer")>> \o DispatchEvents \o <<Touch("transport")>>
      [] op = "reopen"      -> Under("transport", <<Touch("session")>>)

PeerOnly   == {"dropPeer", "expirePeers", "accept"}
ClientOnly == {"failed", "reopen"}
ExecOps == {"readSample", "readPico", "readFinal", "readDeclare"} \cup (IF clientMode THEN ClientOnly ELSE PeerOnly)

\* What the application calls.
AppOp(op) ==
    CASE op = "put"          -> Put
      [] op = "get"          -> <<Touch("session")>> \o Send \o <<Touch("session"), Call>> \o Final
      [] op = "getPico"      -> PicoHandler \o Final
      [] op = "getSession"   -> <<Touch("session")>> \o SessionHandler \o Final
      [] op = "info"         -> Under("transport", Under("peer", <<Call>>))
      [] op = "listen"       -> Under("peer", <<Call, Touch("session")>>)
      [] op = "matching"     -> Filters
      [] op = "declareLocal" -> <<Touch("session")>> \o Filters \o Send
      [] op = "startAdmin"   -> Under("admin", <<Touch("session")>> \o Send \o <<Touch("session")>>)
      [] op = "undeclare"    -> Send \o <<Touch("session"), Step("wait")>>
      [] op = "consume"      -> <<Step("pull")>>

AppOps == {"put", "get", "getPico", "getSession", "info", "listen", "matching", "declareLocal", "startAdmin",
           "undeclare", "consume"}

\* What a callback does in turn.
Nested(cb) ==
    CASE cb = "put"  -> Send \o <<Touch("session")>>
      [] cb = "info" -> Under("transport", <<Touch("peer")>>)
      [] cb = "push" -> <<Step("push")>>

Callbacks == {"put", "info", "push"}

-----------------------------------------------------------------------------
LockInit ==
    /\ clientMode \in BOOLEAN
    /\ owner = [m \in Mutexes |-> NoOwner] /\ depth = [m \in Mutexes |-> 0]
    /\ steps = [t \in LockThreads |-> << >>]
    /\ slotFull = FALSE

Begin(t) ==
    /\ steps[t] = << >>
    /\ \/ /\ t = ExecThread
          /\ \E op \in ExecOps : steps' = [steps EXCEPT ![t] = ExecOp(op)]
       \/ /\ t \in AppThreads
          /\ \E op \in AppOps : steps' = [steps EXCEPT ![t] = AppOp(op)]
    /\ UNCHANGED <<clientMode, owner, depth, slotFull>>

At(t, do) == steps[t] # << >> /\ Head(steps[t]).do = do

\* The depths of the mutexes once s has been done, and who holds them then.
Depths(s) ==
    [m \in Mutexes |-> depth[m] + (IF s.do = "lock" /\ s.mutex = m THEN 1 ELSE 0)
                                - Cardinality({i \in DOMAIN s.free : s.free[i] = m})]

Done(t) ==
    LET s == Head(steps[t])
    IN  /\ depth' = Depths(s)
        /\ owner' = [m \in Mutexes |-> IF Depths(s)[m] = 0 THEN NoOwner
                                       ELSE IF s.do = "lock" /\ s.mutex = m THEN t ELSE owner[m]]
        /\ steps' = [steps EXCEPT ![t] = Tail(@)]

Available(t, m) == owner[m] = NoOwner \/ (owner[m] = t /\ m \in Recursives)

Acquire(t) ==
    /\ At(t, "lock") /\ Available(t, Head(steps[t]).mutex) /\ Done(t)
    /\ UNCHANGED <<clientMode, slotFull>>

\* A callback that does nothing, or does something before it returns.
Callback(t) ==
    /\ At(t, "call")
    /\ \/ Done(t)
       \/ \E cb \in Callbacks :
              LET body == [i \in DOMAIN Nested(cb) |-> [Nested(cb)[i] EXCEPT !.inside = cb]]
              IN  /\ steps' = [steps EXCEPT ![t] = Freeing(body, Head(@).free) \o Tail(@)]
                  /\ UNCHANGED <<owner, depth>>
    /\ UNCHANGED <<clientMode, slotFull>>

\* _z_fifo_mt_push and _z_fifo_mt_pull.
Push(t) ==
    /\ At(t, "push") /\ ~slotFull /\ slotFull' = TRUE /\ Done(t)
    /\ UNCHANGED clientMode

Pull(t) ==
    /\ At(t, "pull") /\ slotFull /\ slotFull' = FALSE /\ Done(t)
    /\ UNCHANGED clientMode

InCallback(t) == steps[t] # << >> /\ Head(steps[t]).inside # "none"

\* An undeclaration waits for the callbacks that run.
Quiet(t) ==
    /\ At(t, "wait") /\ (\A u \in LockThreads \ {t} : ~InCallback(u)) /\ Done(t)
    /\ UNCHANGED <<clientMode, slotFull>>

ThreadStep(t) == Begin(t) \/ Acquire(t) \/ Callback(t) \/ Push(t) \/ Pull(t) \/ Quiet(t)

LockNext == \E t \in LockThreads : ThreadStep(t)

LockSpec == LockInit /\ [][LockNext]_lockVars

-----------------------------------------------------------------------------
(* Properties.                                                             *)

\* The threads one of which must proceed before t does.  Any thread of the
\* application might empty the channel.
Blockers(t) ==
    CASE At(t, "lock") /\ ~Available(t, Head(steps[t]).mutex) -> {owner[Head(steps[t]).mutex]}
      [] At(t, "push") /\ slotFull                            -> AppThreads \ {t}
      [] At(t, "wait")                                        -> {u \in LockThreads \ {t} : InCallback(u)}
      [] OTHER                                                -> {}

Deadlocked(D) == D # {} /\ \A t \in D : Blockers(t) # {} /\ Blockers(t) \subseteq D

Holds(t, m) == owner[m] = t

\* Uses that are known to invert the order of the mutexes.
Inverts(t) ==
    \* a query of the admin space encodes the peers with the session mutex held
    \/ At(t, "lock") /\ Head(steps[t]).mutex = "peer" /\ Holds(t, "session") /\ ~InCallback(t)
    \* a callback or a dropper at the end of a get
    \/ InCallback(t) /\ Holds(t, "session")
    \* a callback that asks for the transports with the peer mutex held
    \/ InCallback(t) /\ Head(steps[t]).inside = "info" /\ Holds(t, "peer")
    \* a matching listener called in a thread of the application
    \/ InCallback(t) /\ Holds(t, "filter") /\ t \in AppThreads
    \* a callback that waits for room in a channel, for whoever would make room
    \* may wait for a mutex that the callback's thread holds, or for the callback
    \/ At(t, "push")

\* Threads that wait for each other: only through one of the uses above.  All
\* other operations take the mutexes in an order that excludes it, although the
\* tasks call back and publish with the peer mutex held.
OnlyKnownDeadlocks ==
    \A D \in SUBSET LockThreads : Deadlocked(D) => \E t \in D : Inverts(t)
=============================================================================
