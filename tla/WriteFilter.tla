----------------------------- MODULE WriteFilter -----------------------------
(***************************************************************************)
(* The write filter of a publisher or querier (src/src/net/filtering.c),   *)
(* fed by the interests and remote declarations of the session             *)
(* (src/src/session/interest.c) and by the local entities, and the         *)
(* matching listener on it (src/src/net/matching.c).  All entities match   *)
(* the filter's key.  The read task handles the messages of the peers; the *)
(* application creates the filter and declares local entities.  Steps      *)
(* under the session mutex or the filter mutex are atomic.  Declarations   *)
(* carry no interest id, or the 0 of _z_interest_push_declarations_to_peer.*)
(* Every peer counts its entities from 1: ids of different peers coincide. *)
(***************************************************************************)
EXTENDS Naturals, FiniteSets

CONSTANTS RemoteEntities,  \* <<peer, id>>: the id is that peer's _z_get_entity_id
          LocalEntities,
          WantsComplete    \* is_complete of the filter: only complete queryables count

VARIABLES remoteState,     \* remote entity -> what its peer has told: "absent", "partial" or "complete"
          remoteDeclares,  \* _remote_declares: [id, peer, complete], found by id
          eclipsed,        \* history: entities that are neither stored nor were told to the filter
          readTask,        \* the message whose interest callbacks are still to run
          filterStep,      \* how far _z_write_filter_create or _z_write_filter_clear is
          replay,          \* the clone of _remote_declares still to be replayed
          targets, localTargets, state,
          matchListener,   \* what the matching listener was last told, or "none"
          localState,      \* local entity -> where its declaration is
          localList        \* those in the session's list

filterVars == <<remoteState, remoteDeclares, eclipsed, readTask, filterStep, replay, targets, localTargets, state,
                matchListener, localState, localList>>

NoMsg == [type |-> "NONE"]

WriteFilterInit ==
    /\ remoteState = [r \in RemoteEntities |-> "absent"] /\ remoteDeclares = {} /\ eclipsed = {} /\ readTask = NoMsg
    /\ filterStep = "new" /\ replay = {} /\ targets = {} /\ localTargets = 0 /\ state = "ACTIVE"
    /\ matchListener = "none" /\ localState = [l \in LocalEntities |-> "new"] /\ localList = {}

Declares(id)   == {d \in remoteDeclares : d.id = id}
Stands(d, r)   == d.id = r[2] /\ d.peer = r[1]
\* The interest is in _local_interests,
Interested     == filterStep \in {"registered", "replaying", "replayed", "linked", "unlinked"}
\* the filter in _write_filters.
Linked         == filterStep = "linked"

-----------------------------------------------------------------------------
\* _z_write_filter_ctx_update_state, at the end of every change: a change of the
\* state is told to the listeners.
UpdateState(t, n) ==
    /\ targets' = t /\ localTargets' = n
    /\ state' = IF t = {} /\ n = 0 THEN "ACTIVE" ELSE "OFF"
    /\ matchListener' = IF matchListener # "none" /\ state' # state THEN state' ELSE matchListener

\* _z_write_filter_callback: a (re)declared entity counts unless it is not
\* complete and must be; an undeclared one, or those of a lost peer, go.
FilterCallback(msg, peer) ==
    UpdateState(
        CASE msg.type = "DECL" ->
                 (targets \ {<<peer, msg.id>>}) \cup IF WantsComplete => msg.complete THEN {<<peer, msg.id>>} ELSE {}
          [] msg.type = "UNDECL" -> targets \ {<<peer, msg.id>>}
          [] msg.type = "CONNECTION_DROPPED" -> {t \in targets : t[1] # peer},
        localTargets)

\* _z_interest_process_declares, under the mutex: the declaration with this id is
\* updated, whoever sent it, or a new one stored; the interests to tell are
\* collected.
ProcessDeclare(r, complete) ==
    /\ readTask = NoMsg
    /\ remoteState' = [remoteState EXCEPT ![r] = IF complete THEN "complete" ELSE "partial"]
    /\ remoteDeclares' =
           IF Declares(r[2]) # {}
           THEN (remoteDeclares \ Declares(r[2])) \cup {[d EXCEPT !.complete = complete] : d \in Declares(r[2])}
           ELSE remoteDeclares \cup {[id |-> r[2], peer |-> r[1], complete |-> complete]}
    /\ eclipsed' = IF Interested \/ \E d \in remoteDeclares' : Stands(d, r)
                   THEN eclipsed \ {r} ELSE eclipsed \cup {r}
    /\ readTask' = [type |-> "DECL", id |-> r[2], peer |-> r[1], complete |-> complete, told |-> Interested]
    /\ UNCHANGED <<filterStep, replay, targets, localTargets, state, matchListener, localState, localList>>

\* _z_interest_process_undeclares: an id that is not stored is an error; one that
\* is stored goes, whoever declared it.
ProcessUndeclare(r) ==
    /\ readTask = NoMsg /\ remoteState[r] # "absent"
    /\ remoteState' = [remoteState EXCEPT ![r] = "absent"]
    /\ remoteDeclares' = remoteDeclares \ Declares(r[2])
    /\ eclipsed' = (eclipsed \ {r}) \cup
           {s \in RemoteEntities \ {r} : /\ filterStep \in {"new", "registered"} /\ s \notin targets
                                        /\ \E d \in Declares(r[2]) : Stands(d, s)}
    /\ readTask' = IF Declares(r[2]) = {} THEN NoMsg
                   ELSE [type |-> "UNDECL", id |-> r[2], peer |-> r[1], told |-> Interested]
    /\ UNCHANGED <<filterStep, replay, targets, localTargets, state, matchListener, localState, localList>>

\* _z_interest_peer_disconnected: the stored declarations of the peer stay.
PeerDisconnected(p) ==
    /\ readTask = NoMsg /\ \E r \in RemoteEntities : r[1] = p /\ remoteState[r] # "absent"
    /\ remoteState' = [r \in RemoteEntities |-> IF r[1] = p THEN "absent" ELSE remoteState[r]]
    /\ readTask' = [type |-> "CONNECTION_DROPPED", peer |-> p, told |-> Interested]
    /\ UNCHANGED <<remoteDeclares, eclipsed, filterStep, replay, targets, localTargets, state, matchListener, localState, localList>>

\* The callbacks run after the mutex is released.
RunCallbacks ==
    /\ readTask # NoMsg /\ readTask' = NoMsg
    /\ IF readTask.told THEN FilterCallback(readTask, readTask.peer)
       ELSE UNCHANGED <<targets, localTargets, state, matchListener>>
    /\ UNCHANGED <<remoteState, remoteDeclares, eclipsed, filterStep, replay, localState, localList>>

-----------------------------------------------------------------------------
\* _z_write_filter_create: _z_add_interest registers the interest and replays a
\* clone of the declarations, _complete of which _z_declare_data_copy leaves
\* uninitialized; then the filter is linked and counts the local entities.
AddInterest ==
    /\ filterStep = "new" /\ filterStep' = "registered"
    /\ UNCHANGED <<remoteState, remoteDeclares, eclipsed, readTask, replay, targets, localTargets, state, matchListener, localState, localList>>

\* Mutation: the declarations are cloned before the interest is registered.
CloneDeclaresLate ==
    /\ filterStep = "registered" /\ filterStep' = "replaying"
    /\ \E before \in SUBSET remoteDeclares : replay' = before
    /\ UNCHANGED <<remoteState, remoteDeclares, eclipsed, readTask, targets, localTargets, state, matchListener, localState, localList>>

CloneDeclares ==
    /\ filterStep = "registered" /\ filterStep' = "replaying"
    /\ replay' = remoteDeclares
    /\ UNCHANGED <<remoteState, remoteDeclares, eclipsed, readTask, targets, localTargets, state, matchListener, localState, localList>>

Replay ==
    /\ filterStep = "replaying"
    /\ \/ \E d \in replay, complete \in BOOLEAN :
             /\ replay' = replay \ {d}
             /\ FilterCallback([type |-> "DECL", id |-> d.id, complete |-> complete], d.peer)
             /\ UNCHANGED filterStep
       \/ /\ replay = {} /\ filterStep' = "replayed"
          /\ UNCHANGED <<replay, targets, localTargets, state, matchListener>>
    /\ UNCHANGED <<remoteState, remoteDeclares, eclipsed, readTask, localState, localList>>

\* _z_write_filter_session_register, all under the session mutex.
SessionRegister ==
    /\ filterStep = "replayed" /\ filterStep' = "linked"
    /\ UpdateState(targets, localTargets + Cardinality(localList))
    /\ UNCHANGED <<remoteState, remoteDeclares, eclipsed, readTask, replay, localState, localList>>

\* _z_write_filter_clear: unlink, remove the interest, forget the listeners.
SessionUnregister ==
    /\ filterStep = "linked" /\ filterStep' = "unlinked"
    /\ UNCHANGED <<remoteState, remoteDeclares, eclipsed, readTask, replay, targets, localTargets, state, matchListener, localState, localList>>

RemoveInterest ==
    /\ filterStep = "unlinked" /\ filterStep' = "cleared" /\ matchListener' = "none"
    /\ UNCHANGED <<remoteState, remoteDeclares, eclipsed, readTask, replay, targets, localTargets, state, localState, localList>>

\* _z_write_filter_ctx_add_callback: a listener is told at once of a match, and
\* knows "ACTIVE" (not matching) otherwise.
AddListener ==
    /\ Linked /\ matchListener = "none" /\ matchListener' = state
    /\ UNCHANGED <<remoteState, remoteDeclares, eclipsed, readTask, filterStep, replay, targets, localTargets, state, localState, localList>>

-----------------------------------------------------------------------------
\* A local subscriber or queryable enters the list; then the filters linked at
\* that time are told of it (_z_write_filter_notify_local_entity), outside the
\* mutex.  An undeclare tells them first and leaves the list afterwards.
LocalRegister(l) ==
    /\ localState[l] = "new" /\ localState' = [localState EXCEPT ![l] = "listed"]
    /\ localList' = localList \cup {l}
    /\ UNCHANGED <<remoteState, remoteDeclares, eclipsed, readTask, filterStep, replay, targets, localTargets, state, matchListener>>

CollectFilters(l) ==
    /\ localState[l] \in {"listed", "declared"}
    /\ localState' = [localState EXCEPT ![l] =
           IF @ = "listed" THEN IF Linked THEN "add" ELSE "declared"
           ELSE IF Linked THEN "remove" ELSE "removed"]
    /\ UNCHANGED <<remoteState, remoteDeclares, eclipsed, readTask, filterStep, replay, targets, localTargets, state, matchListener, localList>>

NotifyFilter(l) ==
    /\ \/ /\ localState[l] = "add"
          /\ UpdateState(targets, localTargets + 1)
          /\ localState' = [localState EXCEPT ![l] = "declared"]
       \/ /\ localState[l] = "remove"
          /\ UpdateState(targets, IF localTargets > 0 THEN localTargets - 1 ELSE 0)
          /\ localState' = [localState EXCEPT ![l] = "removed"]
    /\ UNCHANGED <<remoteState, remoteDeclares, eclipsed, readTask, filterStep, replay, localList>>

LocalUnregister(l) ==
    /\ localState[l] = "removed" /\ localState' = [localState EXCEPT ![l] = "gone"]
    /\ localList' = localList \ {l}
    /\ UNCHANGED <<remoteState, remoteDeclares, eclipsed, readTask, filterStep, replay, targets, localTargets, state, matchListener>>

WriteFilterNext ==
    \/ \E r \in RemoteEntities :
          ProcessUndeclare(r) \/ PeerDisconnected(r[1]) \/ \E complete \in BOOLEAN : ProcessDeclare(r, complete)
    \/ RunCallbacks \/ AddInterest \/ CloneDeclares \/ Replay \/ SessionRegister
    \/ SessionUnregister \/ RemoveInterest \/ AddListener
    \/ \E l \in LocalEntities : LocalRegister(l) \/ CollectFilters(l) \/ NotifyFilter(l) \/ LocalUnregister(l)

WriteFilterSpec == WriteFilterInit /\ [][WriteFilterNext]_filterVars

-----------------------------------------------------------------------------
\* A remote entity the filter should know of: its message is handled.
Settled(r) ==
    /\ remoteState[r] = "complete" \/ (remoteState[r] = "partial" /\ ~WantsComplete)
    /\ ~(readTask # NoMsg /\ readTask.peer = r[1])

\* "if there are any subscribers matching its key expression" (primitives.h): a
\* filter that is created never drops the writes while a remote or a local
\* entity that was declared matches, however its creation interleaves with
\* declarations, undeclarations and lost peers; its listener was told last what
\* the filter's state is.  The exception is what the session no longer knew when
\* the filter was created: an entity declared before, while an entity of another
\* peer with the same id was stored or before that one was undeclared.
FilterLetsThrough ==
    Linked =>
        /\ state = "ACTIVE" => /\ \A r \in RemoteEntities \ eclipsed : ~Settled(r)
                               /\ \A l \in LocalEntities : localState[l] # "declared"
        /\ matchListener \in {"none", state}
=============================================================================
