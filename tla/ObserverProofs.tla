--------------------------- MODULE ObserverProofs ---------------------------
(***************************************************************************)
(* What a session observes of its peers, for any number of them.           *)
(*                                                                         *)
(* A write filter never drops what somebody matches, for any number of     *)
(* remote and local entities whose ids may coincide, but for those the     *)
(* session no longer knew, when the filter counts partial entities too:    *)
(* _complete of a replayed declaration is not initialized.                 *)
(*                                                                         *)
(* Listeners of connectivity events believe what is true and are quiet     *)
(* once undeclared, for any number of listeners.                           *)
(*                                                                         *)
(* The admin space of an open session is there as a whole or not at all,   *)
(* and an observer of it is right, for any number of callers and peers.    *)
(*                                                                         *)
(* The liveliness subscribers of a client are told of every token what is  *)
(* so, for any number of tokens, subscribers and queries.                  *)
(***************************************************************************)
EXTENDS WriteFilter, Connectivity, AdminSpace, Liveliness, FiniteSetTheorems, TLAPS

(***************************************************************************)
(* Write filters.                                                          *)
(***************************************************************************)
\* Remote entities are pairs of a peer and an id; ids of different peers may coincide.
EntitiesArePairs == \A r \in RemoteEntities : r = <<r[1], r[2]>>

Stored == [id : {r[2] : r \in RemoteEntities}, peer : {r[1] : r \in RemoteEntities}, complete : BOOLEAN]

FilterTypeInv ==
    /\ remoteState \in [RemoteEntities -> {"absent", "partial", "complete"}]
    /\ remoteDeclares \in SUBSET Stored /\ replay \in SUBSET Stored
    /\ localState \in [LocalEntities -> {"new", "listed", "add", "declared", "remove", "removed", "gone"}]
    /\ localList \in SUBSET LocalEntities /\ localTargets \in Nat

\* The message whose callbacks are to run says what has become of its entities,
\* for the read task handles no other one before.
ReadInv ==
    \/ readTask = NoMsg
    \/ /\ readTask.type = "DECL" /\ <<readTask.peer, readTask.id>> \in RemoteEntities
    \/ /\ readTask.type = "UNDECL" /\ <<readTask.peer, readTask.id>> \in RemoteEntities
       /\ remoteState[<<readTask.peer, readTask.id>>] = "absent"
    \/ /\ readTask.type = "CONNECTION_DROPPED"
       /\ \A r \in RemoteEntities : r[1] = readTask.peer => remoteState[r] = "absent"

Coming(r) == readTask.type = "DECL" /\ readTask.told /\ readTask.id = r[2] /\ readTask.peer = r[1]

Replayed(r) == filterStep = "replaying" /\ \E d \in replay : d.id = r[2] /\ d.peer = r[1]

\* Until the clone an entity may be known by its stored declaration only.
StoredYet(r) == filterStep \in {"new", "registered"} /\ \E d \in remoteDeclares : Stands(d, r)

\* An entity is a target, on its way to become one, or still stored.
TargetInv ==
    filterStep \in {"new", "registered", "replaying", "replayed", "linked"} =>
        \A r \in RemoteEntities \ eclipsed :
            remoteState[r] # "absent" => r \in targets \/ Coming(r) \/ Replayed(r) \/ StoredYet(r)

\* Local entities that a linked filter has counted and not yet discounted.
Counted == {l \in LocalEntities : localState[l] \in {"declared", "remove"}}

LocalInv ==
    /\ Counted \subseteq localList
    /\ \A l \in LocalEntities : localState[l] \in {"listed", "add"} => l \in localList
    /\ Linked => Cardinality(Counted) <= localTargets

StateInv ==
    /\ state = IF targets = {} /\ localTargets = 0 THEN "ACTIVE" ELSE "OFF"
    /\ matchListener \in {"none", state}

FilterInv == FilterTypeInv /\ ReadInv /\ TargetInv /\ LocalInv /\ StateInv

-----------------------------------------------------------------------------
\* Every step keeps the types.
LEMMA FilterTypeCorrect ==
    ASSUME EntitiesArePairs, IsFiniteSet(LocalEntities), FilterTypeInv, [WriteFilterNext]_filterVars
    PROVE  FilterTypeInv'
<1>0. Cardinality(localList) \in Nat
  BY FS_Subset, FS_CardinalityType DEF FilterTypeInv
<1>1. ASSUME NEW r \in RemoteEntities, ProcessUndeclare(r) \/ PeerDisconnected(r[1])
      PROVE  FilterTypeInv'
  BY <1>1 DEF FilterTypeInv, ProcessUndeclare, PeerDisconnected
<1>2. ASSUME NEW r \in RemoteEntities, NEW complete \in BOOLEAN, ProcessDeclare(r, complete)
      PROVE  FilterTypeInv'
  <2>1. remoteDeclares' \in SUBSET Stored
    BY <1>2 DEF FilterTypeInv, ProcessDeclare, Stored, Declares
  <2> QED
    BY <1>2, <2>1 DEF FilterTypeInv, ProcessDeclare
<1>3. ASSUME RunCallbacks \/ AddInterest \/ CloneDeclares \/ Replay
      PROVE  FilterTypeInv'
  BY <1>3 DEF FilterTypeInv, RunCallbacks, AddInterest, CloneDeclares, Replay, FilterCallback, UpdateState
<1>4. CASE SessionRegister
  <2>1. localTargets' \in Nat
    BY <1>0, <1>4 DEF FilterTypeInv, SessionRegister, UpdateState
  <2> QED
    BY <1>4, <2>1 DEF FilterTypeInv, SessionRegister
<1>7. CASE SessionUnregister \/ RemoveInterest \/ AddListener
  BY <1>7 DEF FilterTypeInv, SessionUnregister, RemoveInterest, AddListener
<1>5. ASSUME NEW l \in LocalEntities,
             LocalRegister(l) \/ CollectFilters(l) \/ NotifyFilter(l) \/ LocalUnregister(l)
      PROVE  FilterTypeInv'
  BY <1>5 DEF FilterTypeInv, LocalRegister, CollectFilters, NotifyFilter, LocalUnregister, UpdateState
<1>6. CASE UNCHANGED filterVars
  BY <1>6 DEF FilterTypeInv, filterVars
<1> QED
  BY <1>1, <1>2, <1>3, <1>4, <1>5, <1>6, <1>7 DEF WriteFilterNext

\* A message stays true until its callbacks have run: no other one is handled.
LEMMA ReadStep ==
    ASSUME EntitiesArePairs, FilterTypeInv, ReadInv, [WriteFilterNext]_filterVars
    PROVE  ReadInv'
<1>1. ASSUME NEW r \in RemoteEntities, ProcessUndeclare(r)
      PROVE  ReadInv'
  BY <1>1 DEF EntitiesArePairs, FilterTypeInv, ReadInv, ProcessUndeclare
<1>2. ASSUME NEW r \in RemoteEntities, PeerDisconnected(r[1])
      PROVE  ReadInv'
  BY <1>2 DEF FilterTypeInv, ReadInv, PeerDisconnected
<1>3. ASSUME NEW r \in RemoteEntities, NEW complete \in BOOLEAN, ProcessDeclare(r, complete)
      PROVE  ReadInv'
  BY <1>3 DEF EntitiesArePairs, ReadInv, ProcessDeclare
<1>4. CASE RunCallbacks
  BY <1>4 DEF ReadInv, RunCallbacks
<1>5. CASE UNCHANGED <<remoteState, readTask>>
  BY <1>5 DEF ReadInv
<1> QED
  BY <1>1, <1>2, <1>3, <1>4, <1>5
     DEF WriteFilterNext, filterVars, AddInterest, CloneDeclares, Replay, SessionRegister, SessionUnregister,
         RemoveInterest, AddListener, LocalRegister, CollectFilters, NotifyFilter, LocalUnregister

\* No entity is lost between the clone of the declarations and the messages that
\* are handled while it is replayed.
LEMMA TargetStep ==
    ASSUME ~WantsComplete, EntitiesArePairs, FilterTypeInv, ReadInv, TargetInv, [WriteFilterNext]_filterVars
    PROVE  TargetInv'
<1>1. ASSUME NEW r \in RemoteEntities, ProcessUndeclare(r)
      PROVE  TargetInv'
  <2> SUFFICES ASSUME filterStep \in {"new", "registered", "replaying", "replayed", "linked"},
                      NEW s \in RemoteEntities, s \notin eclipsed', remoteState'[s] # "absent"
               PROVE  (s \in targets \/ Coming(s) \/ Replayed(s) \/ StoredYet(s))'
    BY <1>1 DEF TargetInv, ProcessUndeclare
  <2>1. s # r /\ s \notin eclipsed /\ remoteState[s] # "absent"
    BY <1>1 DEF FilterTypeInv, ProcessUndeclare
  <2>2. ~Coming(s) /\ UNCHANGED <<filterStep, replay, targets>>
    BY <1>1 DEF Coming, ProcessUndeclare, NoMsg
  <2>3. ASSUME StoredYet(s)
        PROVE  s \in targets \/ StoredYet(s)'
    BY <1>1, <2>1, <2>3 DEF StoredYet, ProcessUndeclare, Declares
  <2> QED
    BY <2>1, <2>2, <2>3 DEF TargetInv, Replayed
<1>2. ASSUME NEW r \in RemoteEntities, PeerDisconnected(r[1])
      PROVE  TargetInv'
  BY <1>2 DEF FilterTypeInv, TargetInv, Coming, Replayed, StoredYet, PeerDisconnected, NoMsg
<1>3. ASSUME NEW r \in RemoteEntities, NEW complete \in BOOLEAN, ProcessDeclare(r, complete)
      PROVE  TargetInv'
  <2> SUFFICES ASSUME filterStep \in {"new", "registered", "replaying", "replayed", "linked"},
                      NEW s \in RemoteEntities, s \notin eclipsed', remoteState'[s] # "absent"
               PROVE  (s \in targets \/ Coming(s) \/ Replayed(s) \/ StoredYet(s))'
    BY <1>3 DEF TargetInv, ProcessDeclare
  <2>1. CASE s = r
    <3>1. CASE Interested
      BY <1>3, <2>1, <3>1 DEF Coming, ProcessDeclare
    <3>2. CASE ~Interested
      BY <1>3, <2>1, <3>2 DEF StoredYet, ProcessDeclare, Interested
    <3> QED
      BY <3>1, <3>2
  <2>2. CASE s # r
    <3>1. s \notin eclipsed /\ remoteState[s] # "absent"
      BY <1>3, <2>2 DEF FilterTypeInv, ProcessDeclare
    <3>2. ~Coming(s) /\ UNCHANGED <<filterStep, replay, targets>>
      BY <1>3 DEF Coming, ProcessDeclare, NoMsg
    <3>3. ASSUME NEW d \in remoteDeclares
          PROVE  \E e \in remoteDeclares' : e.id = d.id /\ e.peer = d.peer
      <4>1. CASE d \in Declares(r[2])
        <5>1. [d EXCEPT !.complete = complete] \in remoteDeclares'
          BY <1>3, <4>1 DEF ProcessDeclare
        <5>2. /\ [d EXCEPT !.complete = complete].id = d.id
              /\ [d EXCEPT !.complete = complete].peer = d.peer
          BY DEF FilterTypeInv, Stored
        <5> QED
          BY <5>1, <5>2
      <4>2. CASE d \notin Declares(r[2])
        BY <1>3, <4>2 DEF ProcessDeclare
      <4> QED
        BY <4>1, <4>2
    <3>4. StoredYet(s) => StoredYet(s)'
      BY <3>2, <3>3 DEF StoredYet, Stands
    <3> QED
      BY <3>1, <3>2, <3>4 DEF TargetInv, Replayed
  <2> QED
    BY <2>1, <2>2
<1>4. CASE RunCallbacks
  <2>1. UNCHANGED <<remoteState, remoteDeclares, eclipsed, filterStep, replay>>
    BY <1>4 DEF RunCallbacks
  <2>2. ASSUME NEW r \in RemoteEntities, remoteState[r] # "absent", r \in targets \/ Coming(r)
        PROVE  r \in targets'
    <3>1. CASE ~readTask.told
      BY <1>4, <2>2, <3>1 DEF RunCallbacks, Coming
    <3>2. CASE readTask.told /\ readTask.type = "DECL"
      BY <1>4, <2>2, <3>2 DEF EntitiesArePairs, RunCallbacks, Coming, FilterCallback, UpdateState
    <3>3. CASE readTask.told /\ readTask.type = "UNDECL"
      BY <1>4, <2>2, <3>3 DEF EntitiesArePairs, ReadInv, RunCallbacks, Coming, FilterCallback, UpdateState, NoMsg
    <3>4. CASE readTask.told /\ readTask.type = "CONNECTION_DROPPED"
      BY <1>4, <2>2, <3>4 DEF ReadInv, RunCallbacks, Coming, FilterCallback, UpdateState, NoMsg
    <3> QED
      BY <1>4, <3>1, <3>2, <3>3, <3>4 DEF RunCallbacks, ReadInv
  <2> QED
    BY <2>1, <2>2 DEF TargetInv, Replayed, StoredYet
<1>5. CASE AddInterest
  BY <1>5 DEF TargetInv, Coming, Replayed, StoredYet, AddInterest
<1>10. CASE SessionUnregister \/ RemoveInterest
  BY <1>10 DEF TargetInv, SessionUnregister, RemoveInterest
<1>6. CASE CloneDeclares
  BY <1>6 DEF TargetInv, Coming, Replayed, StoredYet, Stands, CloneDeclares
<1>7. CASE Replay
  <2>1. UNCHANGED <<remoteState, eclipsed, readTask>> /\ targets \subseteq targets' \cup targets
    BY <1>7 DEF Replay
  <2>2. CASE replay = {} /\ filterStep' = "replayed" /\ UNCHANGED targets
    BY <2>1, <2>2, <1>7 DEF TargetInv, Coming, Replayed, StoredYet, Replay
  <2>3. ASSUME NEW d \in replay, NEW complete \in BOOLEAN, replay' = replay \ {d}, UNCHANGED filterStep,
               FilterCallback([type |-> "DECL", id |-> d.id, complete |-> complete], d.peer)
        PROVE  TargetInv'
    <3>1. targets' = targets \cup {<<d.peer, d.id>>}
      BY <2>3 DEF FilterCallback, UpdateState
    <3>2. \A r \in RemoteEntities : d.id = r[2] /\ d.peer = r[1] => r \in targets'
      BY <3>1 DEF EntitiesArePairs
    <3> QED
      BY <1>7, <2>1, <2>3, <3>1, <3>2 DEF TargetInv, Coming, Replayed, StoredYet, Replay
  <2> QED
    BY <1>7, <2>2, <2>3 DEF Replay
<1>8. CASE SessionRegister
  BY <1>8 DEF TargetInv, Coming, Replayed, StoredYet, SessionRegister, UpdateState
<1>9. CASE UNCHANGED <<remoteState, remoteDeclares, eclipsed, readTask, filterStep, replay, targets>>
  BY <1>9 DEF TargetInv, Coming, Replayed, StoredYet
<1> QED
  BY <1>1, <1>2, <1>3, <1>4, <1>5, <1>6, <1>7, <1>8, <1>9, <1>10
     DEF WriteFilterNext, filterVars, AddListener, LocalRegister, CollectFilters, NotifyFilter, LocalUnregister,
         UpdateState

\* A linked filter counts every local entity that is declared.
LEMMA LocalStep ==
    ASSUME IsFiniteSet(LocalEntities), FilterTypeInv, LocalInv, [WriteFilterNext]_filterVars
    PROVE  LocalInv'
<1>1. /\ IsFiniteSet(Counted) /\ Cardinality(Counted) \in Nat
      /\ IsFiniteSet(localList) /\ Cardinality(localList) \in Nat
  BY FS_Subset, FS_CardinalityType DEF FilterTypeInv, Counted
<1>2. CASE SessionRegister
  <2>1. Cardinality(Counted) <= Cardinality(localList)
    BY <1>1, FS_Subset DEF LocalInv
  <2> QED
    BY <1>1, <1>2, <2>1 DEF FilterTypeInv, LocalInv, Counted, SessionRegister, UpdateState, Linked
<1>3. ASSUME NEW l \in LocalEntities, LocalRegister(l)
      PROVE  LocalInv'
  <2>1. Counted' = Counted
    BY <1>3 DEF FilterTypeInv, Counted, LocalRegister
  <2> QED
    BY <1>3, <2>1 DEF FilterTypeInv, LocalInv, LocalRegister, Linked
<1>4. ASSUME NEW l \in LocalEntities, CollectFilters(l)
      PROVE  LocalInv'
  <2>1. CASE Linked
    <3>1. Counted' = Counted
      BY <1>4, <2>1 DEF FilterTypeInv, Counted, CollectFilters
    <3> QED
      BY <1>4, <2>1, <3>1 DEF FilterTypeInv, LocalInv, CollectFilters, Counted, Linked
  <2>2. CASE ~Linked
    BY <1>4, <2>2 DEF FilterTypeInv, LocalInv, CollectFilters, Counted, Linked
  <2> QED
    BY <2>1, <2>2
<1>5. ASSUME NEW l \in LocalEntities, NotifyFilter(l)
      PROVE  LocalInv'
  <2>1. CASE localState[l] = "add"
    <3>1. Counted' = Counted \cup {l} /\ l \notin Counted
      BY <1>5, <2>1 DEF FilterTypeInv, Counted, NotifyFilter
    <3>2. Cardinality(Counted') = Cardinality(Counted) + 1
      BY <1>1, <3>1, FS_AddElement
    <3>3. localTargets' = localTargets + 1
      BY <1>5, <2>1 DEF NotifyFilter, UpdateState
    <3>4. UNCHANGED <<filterStep, localList>> /\ \A k \in LocalEntities : k # l => localState'[k] = localState[k]
      BY <1>5, <2>1 DEF FilterTypeInv, NotifyFilter
    <3> QED
      BY <1>1, <2>1, <1>5, <3>1, <3>2, <3>3, <3>4 DEF FilterTypeInv, LocalInv, Linked, NotifyFilter
  <2>2. CASE localState[l] = "remove"
    <3>1. Counted' = Counted \ {l} /\ l \in Counted
      BY <1>5, <2>2 DEF FilterTypeInv, Counted, NotifyFilter
    <3>2. Cardinality(Counted') = Cardinality(Counted) - 1
      BY <1>1, <3>1, FS_RemoveElement
    <3>3. Cardinality(Counted') \in Nat
      BY <1>1, <3>1, FS_RemoveElement, FS_CardinalityType
    <3>4. localTargets' = IF localTargets > 0 THEN localTargets - 1 ELSE 0
      BY <1>5, <2>2 DEF NotifyFilter, UpdateState
    <3>5. UNCHANGED <<filterStep, localList>> /\ \A k \in LocalEntities : k # l => localState'[k] = localState[k]
      BY <1>5, <2>2 DEF FilterTypeInv, NotifyFilter
    <3>6. localState'[l] = "removed"
      BY <1>5, <2>2 DEF FilterTypeInv, NotifyFilter
    <3> QED
      BY <1>1, <3>1, <3>2, <3>3, <3>4, <3>5, <3>6 DEF FilterTypeInv, LocalInv, Linked
  <2> QED
    BY <1>5, <2>1, <2>2 DEF NotifyFilter
<1>6. ASSUME NEW l \in LocalEntities, LocalUnregister(l)
      PROVE  LocalInv'
  <2>1. Counted' = Counted
    BY <1>6 DEF FilterTypeInv, Counted, LocalUnregister
  <2>2. l \notin Counted
    BY <1>6 DEF Counted, LocalUnregister
  <2> QED
    BY <1>6, <2>1, <2>2 DEF FilterTypeInv, LocalInv, LocalUnregister, Linked
<1>7. CASE SessionUnregister
  BY <1>7 DEF LocalInv, Counted, SessionUnregister, Linked
<1>8. CASE UNCHANGED <<localState, localList, localTargets>> /\ (Linked' => Linked)
  BY <1>8 DEF LocalInv, Counted
<1> QED
  BY <1>2, <1>3, <1>4, <1>5, <1>6, <1>7, <1>8
     DEF WriteFilterNext, filterVars, ProcessUndeclare, PeerDisconnected, ProcessDeclare, RunCallbacks, FilterCallback,
         UpdateState, AddInterest, CloneDeclares, Replay, RemoveInterest, AddListener, Linked

\* The state is that of the targets, and the listener was told last what it is:
\* both are set in _z_write_filter_ctx_update_state.
LEMMA StateStep ==
    ASSUME FilterTypeInv, StateInv, [WriteFilterNext]_filterVars
    PROVE  StateInv'
<1>1. ASSUME NEW t, NEW n, UpdateState(t, n)
      PROVE  StateInv'
  BY <1>1 DEF StateInv, UpdateState
<1>2. CASE UNCHANGED <<targets, localTargets, state>> /\ matchListener' \in {"none", state, matchListener}
  BY <1>2 DEF StateInv
<1> QED
  BY <1>1, <1>2
     DEF WriteFilterNext, filterVars, ProcessUndeclare, PeerDisconnected, ProcessDeclare, RunCallbacks, FilterCallback,
         AddInterest, CloneDeclares, Replay, SessionRegister, SessionUnregister, RemoveInterest, AddListener,
         LocalRegister, CollectFilters, NotifyFilter, LocalUnregister

\* Nothing is declared at first.
LEMMA FilterInitHolds ==
    ASSUME WriteFilterInit
    PROVE  FilterInv
<1>1. Counted = {}
  BY DEF WriteFilterInit, Counted
<1> QED
  BY <1>1 DEF WriteFilterInit, FilterInv, FilterTypeInv, ReadInv, TargetInv, LocalInv, StateInv, Linked

\* "if there are any subscribers matching its key expression" (primitives.h): a
\* write filter that is created lets writes through while a declared entity
\* matches that an entity of another peer with the same id has not eclipsed, and
\* its listener knows its state (FilterLetsThrough).
THEOREM FilterLetsThroughAlways ==
    ASSUME ~WantsComplete, EntitiesArePairs, IsFiniteSet(LocalEntities)
    PROVE  WriteFilterSpec => []FilterLetsThrough
<1>1. WriteFilterInit => FilterInv
  BY FilterInitHolds
<1>2. FilterInv /\ [WriteFilterNext]_filterVars => FilterInv'
  BY FilterTypeCorrect, ReadStep, TargetStep, LocalStep, StateStep DEF FilterInv
<1>3. FilterInv => FilterLetsThrough
  <2>1. SUFFICES ASSUME FilterInv, Linked, state = "ACTIVE"
                 PROVE  /\ \A r \in RemoteEntities \ eclipsed : ~Settled(r)
                        /\ \A l \in LocalEntities : localState[l] # "declared"
    BY DEF FilterLetsThrough, FilterInv, StateInv
  <2>2. targets = {} /\ localTargets = 0
    BY <2>1 DEF FilterInv, StateInv
  <2>3. \A r \in RemoteEntities \ eclipsed : ~Settled(r)
    BY <2>1, <2>2 DEF FilterInv, FilterTypeInv, TargetInv, Settled, Coming, Replayed, StoredYet, Linked, NoMsg
  <2>4. Counted = {}
    <3>1. IsFiniteSet(Counted)
      BY FS_Subset DEF Counted
    <3>2. Cardinality(Counted) \in Nat /\ Cardinality(Counted) <= 0
      BY <2>1, <2>2, <3>1, FS_CardinalityType DEF FilterInv, LocalInv
    <3> QED
      BY <3>1, <3>2, FS_EmptySet
  <2> QED
    BY <2>3, <2>4 DEF Counted
<1> QED
  BY <1>1, <1>2, <1>3, PTL DEF WriteFilterSpec

(***************************************************************************)
(* Connectivity events.                                                    *)
(***************************************************************************)
Snapshots == [all : SUBSET Listeners, left : SUBSET Listeners]

\* Nothing differs from what it stands for the absence of.
NothingDiffers == Nothing \notin Listeners \cup ConnPeers \cup Snapshots

Stages == {"new", "failed", "locking", "history", "registering", "declared", "undeclaring", "undeclared"}

Changes == [kind : {"PUT", "DELETE"}, peer : ConnPeers, of : {"transport", "link"}]
Records == [at : Stages, history : BOOLEAN, only : Filters \cup {Nothing}, todo : SUBSET ConnPeers]

TypeInv ==
    /\ connected \in SUBSET ConnPeers /\ peerMutex \in Listeners \cup {Nothing}
    /\ events \in Seq(Changes)
    /\ givenUp \in ConnPeers \cup {Nothing} /\ snapshot \in Snapshots \cup {Nothing}
    /\ calling \in Listeners \cup {Nothing} /\ registered \in SUBSET Listeners
    /\ listener \in [Listeners -> Records]
    /\ view \in [Listeners -> [ConnPeers -> {"none", "PUT", "DELETE"}]]
    /\ closing \in {"open", "stopping", "waiting", "closed"}

\* A callback that the runtime runs is one of its snapshot, which it keeps alive;
\* listeners are in the maps only while they are declared and the session lives.
CallInv ==
    /\ calling # Nothing => snapshot # Nothing /\ calling \in snapshot.all
    /\ snapshot # Nothing =>
           /\ events # << >> /\ snapshot.left \subseteq snapshot.all
           /\ \A l \in snapshot.all : listener[l].at \in {"declared", "undeclaring"}
    /\ \A l \in registered : listener[l].at = "declared"
    /\ closing \in {"waiting", "closed"} => registered = {}

\* The runtime calls only listeners that the event concerns.
SnapshotInv == snapshot # Nothing => \A l \in snapshot.left : Concerns(l, Head(events).peer)

\* Nothing keeps a callback once the session is closed.
ClosedInv == closing = "closed" => \A l \in Listeners : ~CallbackAlive(l)

\* A router that is being given up is as good as gone.
Present == {p \in connected : p # givenUp}

\* Events tell what is so, and nothing changes before they are dispatched.
EventInv ==
    \A k \in DOMAIN events :
        /\ events[k].kind = "PUT" => events[k].peer \in Present
        /\ events[k].kind = "DELETE" => events[k].peer \notin Present
        /\ givenUp # Nothing => events[k].peer = givenUp

\* A client has one router; only a client gives one up.
ClientInv ==
    /\ givenUp # Nothing => client /\ givenUp \in connected
    /\ client => \A p, q \in connected : p = q

\* What a listener was told before it is registered: nothing, or what the list
\* under the peer mutex says.  Without a transport there is neither.
BeforeInv ==
    \A l \in Listeners :
        /\ listener[l].at \in {"new", "locking", "registering"} => \A p \in ConnPeers : view[l][p] = "none"
        /\ listener[l].at = "registering" => ~listener[l].history
        /\ listener[l].at = "locking" => listener[l].history
        /\ listener[l].at = "history" /\ l \notin misled =>
               /\ \/ peerMutex = l
                  \/ /\ client /\ (connected = {} \/ l \in unannounced)
                     /\ listener[l].todo = {} /\ \A p \in ConnPeers : view[l][p] = "none"
               /\ listener[l].history
               /\ \A p \in ConnPeers :
                      /\ view[l][p] # "DELETE" /\ (view[l][p] = "PUT" => p \in connected)
                      /\ p \in connected /\ Concerns(l, p) /\ l \notin unannounced => view[l][p] = "PUT" \/ p \in listener[l].todo
                      /\ p \in listener[l].todo => p \in connected /\ Concerns(l, p)
                      /\ ~Concerns(l, p) => view[l][p] = "none"

\* The runtime has still to tell l of p.
Pending(l, p) ==
    \E k \in DOMAIN events : /\ events[k].of = Kind(l) /\ events[k].peer = p
                             /\ k > 1 \/ snapshot = Nothing \/ l \in snapshot.left

\* What a registered listener believes is so, unless it has still to be told.
ViewInv ==
    \A l \in registered \ misled : \A p \in ConnPeers :
        /\ ~Concerns(l, p) => view[l][p] = "none"
        /\ Concerns(l, p) /\ ~Pending(l, p) =>
               /\ view[l][p] = "PUT" => p \in Present
               /\ p \in Present /\ listener[l].history /\ l \notin unannounced => view[l][p] = "PUT"
               /\ view[l][p] = "DELETE" /\ l \notin unannounced => p \notin Present

Inv == TypeInv /\ CallInv /\ SnapshotInv /\ ClosedInv /\ EventInv /\ ClientInv /\ BeforeInv /\ ViewInv

-----------------------------------------------------------------------------
\* A listener's stage and what is left of its history are changed in place.
LEMMA RecordsKept ==
    ASSUME NEW f \in [Listeners -> Records], NEW l \in Listeners, NEW stage \in Stages, NEW left \in SUBSET ConnPeers
    PROVE  /\ [f EXCEPT ![l].at = stage] \in [Listeners -> Records]
           /\ [f EXCEPT ![l].todo = left] \in [Listeners -> Records]
           /\ [f EXCEPT ![l].at = stage, ![l].todo = left] \in [Listeners -> Records]
<1>1. f[l] \in Records
  OBVIOUS
<1>2. /\ [f[l] EXCEPT !.at = stage] \in Records
      /\ [f[l] EXCEPT !.todo = left] \in Records
      /\ [f[l] EXCEPT !.at = stage, !.todo = left] \in Records
  BY <1>1 DEF Records
<1> QED
  BY <1>2

\* Every step keeps the types.
LEMMA TypeCorrect ==
    ASSUME NothingDiffers, TypeInv, CallInv, [ConnNext]_connVars
    PROVE  TypeInv'
<1>1. ASSUME NEW p \in ConnPeers, PeerAdded(p)
      PROVE  TypeInv'
  BY <1>1 DEF NothingDiffers, TypeInv, Changes, PeerAdded, RuntimeIdle, Connects, Event
<1>2. ASSUME NEW p \in ConnPeers, PeerDropped(p)
      PROVE  TypeInv'
  BY <1>2 DEF NothingDiffers, TypeInv, Changes, PeerDropped, RuntimeIdle, Disconnects, Event
<1>3. ASSUME NEW p \in ConnPeers, RouterGivenUp(p)
      PROVE  TypeInv'
  BY <1>3 DEF NothingDiffers, TypeInv, Changes, RouterGivenUp, RuntimeIdle, Disconnects, Event
<1>4. CASE TransportCleared
  <2>1. \A l \in Listeners : [listener EXCEPT ![l].todo = {}] \in [Listeners -> Records]
    BY RecordsKept DEF TypeInv, Stages
  <2>2. listener' \in [Listeners -> Records]
    BY <1>4, <2>1 DEF TypeInv, TransportCleared
  <2> QED
    BY <1>4, <2>2 DEF TypeInv, TransportCleared
<1>5. CASE TakeSnapshot
  BY <1>5 DEF NothingDiffers, TypeInv, Snapshots, Stages, TakeSnapshot, Concerns, Kind
<1>6. ASSUME NEW l \in Listeners, Call(l)
      PROVE  TypeInv'
  <2>1. snapshot' \in Snapshots
    BY <1>6 DEF TypeInv, Snapshots, Call
  <2>2. events # << >>
    BY <1>6 DEF CallInv, Call
  <2>3. Head(events) \in Changes
    BY <2>2 DEF TypeInv
  <2>4. view' \in [Listeners -> [ConnPeers -> {"none", "PUT", "DELETE"}]]
    BY <1>6, <2>3 DEF TypeInv, Call, Changes
  <2> QED
    BY <1>6, <2>1, <2>4 DEF TypeInv, Call
<1>7. CASE CallReturns
  BY <1>7 DEF NothingDiffers, TypeInv, Snapshots, Stages, CallReturns
<1>8. CASE Dispatched
  BY <1>8 DEF TypeInv, CallInv, Dispatched
<1>9. ASSUME NEW l \in Listeners, Declare(l)
      PROVE  TypeInv'
  <2>1. PICK r \in Records : listener' = [listener EXCEPT ![l] = r]
    BY <1>9 DEF Declare, Records, Stages
  <2> QED
    BY <1>9, <2>1 DEF TypeInv, Declare
<1>10. ASSUME NEW l \in Listeners, DeclareRefused(l)
      PROVE  TypeInv'
  <2>1. listener' \in [Listeners -> Records]
    BY <1>10, RecordsKept DEF TypeInv, Stages, DeclareRefused
  <2> QED
    BY <1>10, <2>1 DEF TypeInv, DeclareRefused
<1>11. ASSUME NEW l \in Listeners, HistoryStarts(l)
      PROVE  TypeInv'
  <2>1. listener' \in [Listeners -> Records]
    BY <1>11, RecordsKept DEF TypeInv, Stages, HistoryStarts
  <2> QED
    BY <1>11, <2>1 DEF TypeInv, HistoryStarts
<1>12. ASSUME NEW l \in Listeners, NEW p \in ConnPeers, ReplayHistory(l, p)
      PROVE  TypeInv'
  <2>1. listener[l].todo \ {p} \in SUBSET ConnPeers
    BY DEF TypeInv, Records
  <2>2. [listener EXCEPT ![l].todo = listener[l].todo \ {p}] \in [Listeners -> Records]
    BY <2>1, RecordsKept DEF TypeInv, Stages
  <2>3. listener' \in [Listeners -> Records]
    BY <1>12, <2>2 DEF ReplayHistory
  <2> QED
    BY <1>12, <2>3 DEF TypeInv, ReplayHistory
<1>13. ASSUME NEW l \in Listeners, Register(l)
      PROVE  TypeInv'
  <2>1. /\ [listener EXCEPT ![l].at = "declared"] \in [Listeners -> Records]
        /\ [listener EXCEPT ![l].at = "failed"] \in [Listeners -> Records]
    BY RecordsKept DEF TypeInv, Stages
  <2>2. listener' \in [Listeners -> Records]
    BY <1>13, <2>1 DEF Register
  <2> QED
    BY <1>13, <2>2 DEF TypeInv, Register
<1>14. ASSUME NEW l \in Listeners, Undeclare(l)
      PROVE  TypeInv'
  <2>1. listener' \in [Listeners -> Records]
    BY <1>14, RecordsKept DEF TypeInv, Stages, Undeclare
  <2> QED
    BY <1>14, <2>1 DEF TypeInv, Undeclare
<1>15. ASSUME NEW l \in Listeners, UndeclareReturns(l)
      PROVE  TypeInv'
  <2>1. listener' \in [Listeners -> Records]
    BY <1>15, RecordsKept DEF TypeInv, Stages, UndeclareReturns
  <2> QED
    BY <1>15, <2>1 DEF TypeInv, UndeclareReturns
<1>16. CASE CloseSession
  BY <1>16 DEF NothingDiffers, TypeInv, Snapshots, Stages, CloseSession
<1>17. CASE ListenersCleared
  BY <1>17 DEF NothingDiffers, TypeInv, Snapshots, Stages, ListenersCleared, RuntimeIdle
<1>18. CASE CloseReturns
  BY <1>18 DEF NothingDiffers, TypeInv, Snapshots, Stages, CloseReturns, CallbackAlive
<1>19. CASE UNCHANGED connVars
  BY <1>19 DEF NothingDiffers, TypeInv, Snapshots, Stages, connVars
<1>20. ASSUME NEW p \in ConnPeers, RouterAdded(p)
      PROVE  TypeInv'
  BY <1>20 DEF NothingDiffers, TypeInv, Changes, RouterAdded, RuntimeIdle
<1> QED
  BY <1>1, <1>2, <1>3, <1>4, <1>5, <1>6, <1>7, <1>8, <1>9, <1>10, <1>11, <1>12, <1>13, <1>14, <1>15, <1>16, <1>17, <1>18, <1>19, <1>20 DEF ConnNext, RuntimeStep, ListenerStep

\* A listener leaves the snapshot before its undeclaration returns.
LEMMA CallStep ==
    ASSUME NothingDiffers, TypeInv, CallInv, [ConnNext]_connVars
    PROVE  CallInv'
<1>1. ASSUME NEW p \in ConnPeers, PeerAdded(p)
      PROVE  CallInv'
  BY <1>1 DEF NothingDiffers, TypeInv, Snapshots, CallInv, PeerAdded, RuntimeIdle, Connects, Event
<1>2. ASSUME NEW p \in ConnPeers, PeerDropped(p)
      PROVE  CallInv'
  BY <1>2 DEF NothingDiffers, TypeInv, Snapshots, CallInv, PeerDropped, RuntimeIdle, Disconnects, Event
<1>3. ASSUME NEW p \in ConnPeers, RouterGivenUp(p)
      PROVE  CallInv'
  BY <1>3 DEF NothingDiffers, TypeInv, Snapshots, CallInv, RouterGivenUp, RuntimeIdle, Disconnects, Event
<1>4. CASE TransportCleared
  <2>1. \A l \in Listeners : listener'[l].at = listener[l].at
    BY <1>4 DEF TypeInv, Records, TransportCleared
  <2> QED
    BY <1>4, <2>1 DEF TypeInv, Snapshots, CallInv, TransportCleared
<1>5. CASE TakeSnapshot
  BY <1>5 DEF NothingDiffers, TypeInv, Snapshots, CallInv, TakeSnapshot, Concerns, Kind
<1>6. ASSUME NEW l \in Listeners, Call(l)
      PROVE  CallInv'
  BY <1>6 DEF NothingDiffers, TypeInv, Snapshots, CallInv, Call
<1>7. CASE CallReturns
  BY <1>7 DEF NothingDiffers, TypeInv, Snapshots, CallInv, CallReturns
<1>8. CASE Dispatched
  BY <1>8 DEF NothingDiffers, TypeInv, Snapshots, CallInv, Dispatched
<1>9. ASSUME NEW l \in Listeners, Declare(l)
      PROVE  CallInv'
  BY <1>9 DEF NothingDiffers, TypeInv, Snapshots, CallInv, Declare, At
<1>10. ASSUME NEW l \in Listeners, DeclareRefused(l)
      PROVE  CallInv'
  BY <1>10 DEF NothingDiffers, TypeInv, Snapshots, CallInv, DeclareRefused, At
<1>11. ASSUME NEW l \in Listeners, HistoryStarts(l)
      PROVE  CallInv'
  BY <1>11 DEF NothingDiffers, TypeInv, Snapshots, CallInv, HistoryStarts, At, Concerns
<1>12. ASSUME NEW l \in Listeners, NEW p \in ConnPeers, ReplayHistory(l, p)
      PROVE  CallInv'
  BY <1>12 DEF NothingDiffers, TypeInv, Snapshots, CallInv, ReplayHistory, At
<1>13. ASSUME NEW l \in Listeners, Register(l)
      PROVE  CallInv'
  <2>1. \A k \in Listeners : k # l => listener'[k] = listener[k]
    BY <1>13 DEF TypeInv, Register
  <2>2. l \in registered' => l \in registered \/ (closing = "open" /\ listener'[l].at = "declared")
    BY <1>13 DEF TypeInv, Records, Register
  <2>3. listener[l].at \notin {"declared", "undeclaring"}
    BY <1>13 DEF Register, At
  <2> QED
    BY <1>13, <2>1, <2>2, <2>3 DEF TypeInv, Snapshots, CallInv, Register
<1>14. ASSUME NEW l \in Listeners, Undeclare(l)
      PROVE  CallInv'
  BY <1>14 DEF NothingDiffers, TypeInv, Snapshots, CallInv, Undeclare, At
<1>15. ASSUME NEW l \in Listeners, UndeclareReturns(l)
      PROVE  CallInv'
  BY <1>15 DEF NothingDiffers, TypeInv, Snapshots, CallInv, UndeclareReturns, At, CallbackAlive
<1>16. CASE CloseSession
  BY <1>16 DEF NothingDiffers, TypeInv, Snapshots, CallInv, CloseSession
<1>17. CASE ListenersCleared
  BY <1>17 DEF NothingDiffers, TypeInv, Snapshots, CallInv, ListenersCleared, RuntimeIdle
<1>18. CASE CloseReturns
  BY <1>18 DEF NothingDiffers, TypeInv, Snapshots, CallInv, CloseReturns, CallbackAlive
<1>19. CASE UNCHANGED connVars
  BY <1>19 DEF NothingDiffers, TypeInv, Snapshots, CallInv, connVars
<1>20. ASSUME NEW p \in ConnPeers, RouterAdded(p)
      PROVE  CallInv'
  BY <1>20 DEF NothingDiffers, TypeInv, Snapshots, CallInv, RouterAdded, RuntimeIdle
<1> QED
  BY <1>1, <1>2, <1>3, <1>4, <1>5, <1>6, <1>7, <1>8, <1>9, <1>10, <1>11, <1>12, <1>13, <1>14, <1>15, <1>16, <1>17, <1>18, <1>19, <1>20 DEF ConnNext, RuntimeStep, ListenerStep

\* The snapshot is taken of the listeners that the event concerns, and their
\* restriction does not change.
LEMMA SnapshotStep ==
    ASSUME NothingDiffers, TypeInv, CallInv, SnapshotInv, [ConnNext]_connVars
    PROVE  SnapshotInv'
<1>1. CASE TakeSnapshot
  BY <1>1 DEF NothingDiffers, TypeInv, SnapshotInv, TakeSnapshot, Concerns
<1>2. ASSUME ~TakeSnapshot, snapshot' # Nothing
      PROVE  snapshot # Nothing /\ snapshot'.left \subseteq snapshot.left /\ events' = events
  <2>1. ASSUME NEW p \in ConnPeers, PeerAdded(p) \/ RouterAdded(p) \/ PeerDropped(p) \/ RouterGivenUp(p)
        PROVE  FALSE
    BY <1>2, <2>1 DEF CallInv, PeerAdded, RouterAdded, PeerDropped, RouterGivenUp, RuntimeIdle
  <2>2. ASSUME NEW l \in Listeners, Call(l)
        PROVE  snapshot # Nothing /\ snapshot'.left \subseteq snapshot.left /\ events' = events
    BY <2>2 DEF NothingDiffers, TypeInv, Snapshots, Call
  <2>3. CASE UNCHANGED <<snapshot, events>>
    BY <1>2, <2>3
  <2>4. ASSUME NEW l \in Listeners, ListenerStep(l)
        PROVE  UNCHANGED <<snapshot, events>>
    BY <2>4 DEF ListenerStep, Declare, DeclareRefused, HistoryStarts, ReplayHistory, Register, Undeclare, UndeclareReturns
  <2>5. TransportCleared \/ CallReturns \/ CloseSession \/ ListenersCleared \/ CloseReturns \/ UNCHANGED connVars
           => UNCHANGED <<snapshot, events>>
    BY DEF TransportCleared, CallReturns, CloseSession, ListenersCleared, CloseReturns, connVars
  <2>6. ~Dispatched
    BY <1>2 DEF Dispatched
  <2> QED
    BY <1>2, <2>1, <2>2, <2>3, <2>4, <2>5, <2>6 DEF ConnNext, RuntimeStep
<1>3. ASSUME NEW l \in Listeners, listener[l].at # "new"
      PROVE  listener'[l].only = listener[l].only
  <2>1. UNCHANGED listener \/ TransportCleared \/ \E k \in Listeners : ListenerStep(k)
    BY DEF ConnNext, RuntimeStep, PeerAdded, RouterAdded, PeerDropped, RouterGivenUp, TakeSnapshot, Call, CallReturns,
       Dispatched, CloseSession, ListenersCleared, CloseReturns, connVars
  <2>2. CASE TransportCleared
    BY <2>2 DEF TypeInv, Records, TransportCleared
  <2>3. ASSUME NEW k \in Listeners, ListenerStep(k)
        PROVE  listener'[l].only = listener[l].only
    <3>1. CASE Declare(k)
      BY <1>3, <3>1 DEF TypeInv, Declare, At
    <3>2. CASE DeclareRefused(k) \/ Undeclare(k) \/ UndeclareReturns(k)
      BY <3>2 DEF TypeInv, Records, DeclareRefused, Undeclare, UndeclareReturns
    <3>3. CASE HistoryStarts(k)
      BY <3>3 DEF TypeInv, Records, HistoryStarts
    <3>4. ASSUME NEW p \in ConnPeers, ReplayHistory(k, p)
          PROVE  listener'[l].only = listener[l].only
      BY <3>4 DEF TypeInv, Records, ReplayHistory
    <3>5. CASE Register(k)
      BY <3>5 DEF TypeInv, Records, Register
    <3> QED
      BY <2>3, <3>1, <3>2, <3>3, <3>4, <3>5 DEF ListenerStep
  <2> QED
    BY <2>1, <2>2, <2>3
<1>4. ASSUME snapshot # Nothing, NEW l \in snapshot.left
      PROVE  l \in Listeners /\ listener[l].at # "new"
  BY <1>4 DEF TypeInv, Snapshots, CallInv
<1> QED
  BY <1>1, <1>2, <1>3, <1>4 DEF SnapshotInv, Concerns

\* The closing waits for every callback, and no listener is declared afterwards.
LEMMA ClosedStep ==
    ASSUME NothingDiffers, TypeInv, CallInv, ClosedInv, [ConnNext]_connVars
    PROVE  ClosedInv'
<1> SUFFICES ASSUME closing' = "closed", NEW l \in Listeners
             PROVE  ~CallbackAlive(l)'
  BY DEF ClosedInv
<1>1. CASE CloseReturns
  BY <1>1 DEF CloseReturns, CallbackAlive
<1>2. ASSUME ~CloseReturns
      PROVE  closing = "closed"
  BY <1>2 DEF ConnNext, RuntimeStep, ListenerStep, PeerAdded, RouterAdded, PeerDropped, RouterGivenUp, TakeSnapshot, Call, CallReturns,
     Dispatched, TransportCleared, Declare, DeclareRefused, HistoryStarts, ReplayHistory, Register, Undeclare,
     UndeclareReturns, CloseSession, ListenersCleared, connVars
<1>3. ASSUME ~CloseReturns
      PROVE  registered = {} /\ ~CallbackAlive(l)
  BY <1>2, <1>3 DEF CallInv, ClosedInv
<1>4. ASSUME ~CloseReturns
      PROVE  registered' = {} /\ (snapshot' # Nothing => l \notin snapshot'.all)
  <2>1. closing = "closed" /\ registered = {} /\ (snapshot # Nothing => l \notin snapshot.all)
    BY <1>2, <1>3, <1>4 DEF CallbackAlive
  <2>2. CASE TakeSnapshot
    BY <2>1, <2>2 DEF TakeSnapshot
  <2>3. ASSUME NEW k \in Listeners, Call(k)
        PROVE  registered' = {} /\ (snapshot' # Nothing => l \notin snapshot'.all)
    BY <2>1, <2>3 DEF TypeInv, Snapshots, Call
  <2>4. CASE Dispatched
    BY <2>1, <2>4 DEF Dispatched
  <2>5. ASSUME NEW k \in Listeners, ListenerStep(k)
        PROVE  registered' = {} /\ snapshot' = snapshot
    BY <2>1, <2>5 DEF ListenerStep, Declare, DeclareRefused, HistoryStarts, ReplayHistory, Register, Undeclare,
       UndeclareReturns
  <2>6. ASSUME NEW p \in ConnPeers, PeerAdded(p) \/ RouterAdded(p) \/ PeerDropped(p) \/ RouterGivenUp(p)
        PROVE  UNCHANGED <<registered, snapshot>>
    BY <2>6 DEF PeerAdded, RouterAdded, PeerDropped, RouterGivenUp
  <2>7. TransportCleared \/ CallReturns \/ CloseSession \/ UNCHANGED connVars => UNCHANGED <<registered, snapshot>>
    BY DEF TransportCleared, CallReturns, CloseSession, connVars
  <2>8. ~ListenersCleared
    BY <2>1 DEF ListenersCleared
  <2> QED
    BY <1>4, <2>1, <2>2, <2>3, <2>4, <2>5, <2>6, <2>7, <2>8 DEF ConnNext, RuntimeStep
<1>5. ASSUME ~CloseReturns
      PROVE  listener'[l].at \notin {"locking", "history", "registering"}
  <2>1. UNCHANGED listener \/ TransportCleared \/ \E k \in Listeners : ListenerStep(k)
    BY DEF ConnNext, RuntimeStep, PeerAdded, RouterAdded, PeerDropped, RouterGivenUp, TakeSnapshot, Call, CallReturns,
       Dispatched, CloseSession, ListenersCleared, CloseReturns, connVars
  <2>2. CASE TransportCleared
    BY <1>3, <1>5, <2>2 DEF TypeInv, Records, TransportCleared, CallbackAlive
  <2>3. ASSUME NEW k \in Listeners, ListenerStep(k)
        PROVE  listener'[l].at \notin {"locking", "history", "registering"}
    BY <1>2, <1>3, <1>5, <2>3 DEF TypeInv, Records, ClosedInv, CallbackAlive, ListenerStep, Declare, DeclareRefused, HistoryStarts, ReplayHistory, Register,
       Undeclare, UndeclareReturns, At
  <2> QED
    BY <1>3, <1>5, <2>1, <2>2, <2>3 DEF CallbackAlive
<1> QED
  BY <1>1, <1>4, <1>5 DEF CallbackAlive

\* Nothing changes before the events of the last change are dispatched.
LEMMA EventStep ==
    ASSUME NothingDiffers, TypeInv, EventInv, [ConnNext]_connVars
    PROVE  EventInv'
<1>1. ASSUME NEW p \in ConnPeers, PeerAdded(p)
      PROVE  EventInv'
  BY <1>1 DEF NothingDiffers, TypeInv, EventInv, Present, PeerAdded, RuntimeIdle, Connects, Event
<1>2. ASSUME NEW p \in ConnPeers, PeerDropped(p)
      PROVE  EventInv'
  BY <1>2 DEF NothingDiffers, TypeInv, EventInv, Present, PeerDropped, RuntimeIdle, Disconnects, Event
<1>3. ASSUME NEW p \in ConnPeers, RouterGivenUp(p)
      PROVE  EventInv'
  BY <1>3 DEF NothingDiffers, TypeInv, EventInv, Present, RouterGivenUp, RuntimeIdle, Disconnects, Event
<1>4. CASE TransportCleared
  BY <1>4 DEF NothingDiffers, TypeInv, EventInv, Present, TransportCleared
<1>5. CASE TakeSnapshot
  BY <1>5 DEF NothingDiffers, TypeInv, EventInv, Present, TakeSnapshot, Concerns, Kind
<1>6. ASSUME NEW l \in Listeners, Call(l)
      PROVE  EventInv'
  BY <1>6 DEF NothingDiffers, TypeInv, EventInv, Present, Call
<1>7. CASE CallReturns
  BY <1>7 DEF NothingDiffers, TypeInv, EventInv, Present, CallReturns
<1>8. CASE Dispatched
  BY <1>8 DEF NothingDiffers, TypeInv, EventInv, Present, Dispatched
<1>9. ASSUME NEW l \in Listeners, Declare(l)
      PROVE  EventInv'
  BY <1>9 DEF NothingDiffers, TypeInv, EventInv, Present, Declare, At
<1>10. ASSUME NEW l \in Listeners, DeclareRefused(l)
      PROVE  EventInv'
  BY <1>10 DEF NothingDiffers, TypeInv, EventInv, Present, DeclareRefused, At
<1>11. ASSUME NEW l \in Listeners, HistoryStarts(l)
      PROVE  EventInv'
  BY <1>11 DEF NothingDiffers, TypeInv, EventInv, Present, HistoryStarts, At, Concerns
<1>12. ASSUME NEW l \in Listeners, NEW p \in ConnPeers, ReplayHistory(l, p)
      PROVE  EventInv'
  BY <1>12 DEF NothingDiffers, TypeInv, EventInv, Present, ReplayHistory, At
<1>13. ASSUME NEW l \in Listeners, Register(l)
      PROVE  EventInv'
  BY <1>13 DEF NothingDiffers, TypeInv, EventInv, Present, Register, At, WillBeTold
<1>14. ASSUME NEW l \in Listeners, Undeclare(l)
      PROVE  EventInv'
  BY <1>14 DEF NothingDiffers, TypeInv, EventInv, Present, Undeclare, At
<1>15. ASSUME NEW l \in Listeners, UndeclareReturns(l)
      PROVE  EventInv'
  BY <1>15 DEF NothingDiffers, TypeInv, EventInv, Present, UndeclareReturns, At, CallbackAlive
<1>16. CASE CloseSession
  BY <1>16 DEF NothingDiffers, TypeInv, EventInv, Present, CloseSession
<1>17. CASE ListenersCleared
  BY <1>17 DEF NothingDiffers, TypeInv, EventInv, Present, ListenersCleared, RuntimeIdle
<1>18. CASE CloseReturns
  BY <1>18 DEF NothingDiffers, TypeInv, EventInv, Present, CloseReturns, CallbackAlive
<1>19. CASE UNCHANGED connVars
  BY <1>19 DEF NothingDiffers, TypeInv, EventInv, Present, connVars
<1>20. ASSUME NEW p \in ConnPeers, RouterAdded(p)
      PROVE  EventInv'
  BY <1>20 DEF NothingDiffers, TypeInv, EventInv, Present, RouterAdded, RuntimeIdle
<1> QED
  BY <1>1, <1>2, <1>3, <1>4, <1>5, <1>6, <1>7, <1>8, <1>9, <1>10, <1>11, <1>12, <1>13, <1>14, <1>15, <1>16, <1>17, <1>18, <1>19, <1>20 DEF ConnNext, RuntimeStep, ListenerStep

\* A client's list of peers is filled when it is empty, and cleared as a whole.
LEMMA ClientStep ==
    ASSUME TypeInv, ClientInv, [ConnNext]_connVars
    PROVE  ClientInv'
<1>1. ASSUME NEW p \in ConnPeers, PeerAdded(p) \/ RouterAdded(p) \/ PeerDropped(p) \/ RouterGivenUp(p)
      PROVE  ClientInv'
  BY <1>1 DEF ClientInv, PeerAdded, RouterAdded, PeerDropped, RouterGivenUp, RuntimeIdle
<1>2. CASE TransportCleared
  BY <1>2 DEF ClientInv, TransportCleared
<1>3. CASE UNCHANGED <<client, connected, givenUp>>
  BY <1>3 DEF ClientInv
<1> QED
  BY <1>1, <1>2, <1>3
     DEF ConnNext, RuntimeStep, ListenerStep, TakeSnapshot, Call, CallReturns, Dispatched, Declare, DeclareRefused,
         HistoryStarts, ReplayHistory, Register, Undeclare, UndeclareReturns, CloseSession, ListenersCleared,
         CloseReturns, connVars

\* The list does not change under a listener that replays it.
LEMMA BeforeStep ==
    ASSUME NothingDiffers, TypeInv, CallInv, ClientInv, BeforeInv, [ConnNext]_connVars
    PROVE  BeforeInv'
<1>1. ASSUME NEW p \in ConnPeers, PeerAdded(p)
      PROVE  BeforeInv'
  BY <1>1 DEF NothingDiffers, TypeInv, CallInv, BeforeInv, Concerns, PeerAdded, RuntimeIdle, Connects, Event
<1>2. ASSUME NEW p \in ConnPeers, PeerDropped(p)
      PROVE  BeforeInv'
  BY <1>2 DEF NothingDiffers, TypeInv, CallInv, BeforeInv, Concerns, PeerDropped, RuntimeIdle, Disconnects, Event
<1>3. ASSUME NEW p \in ConnPeers, RouterGivenUp(p)
      PROVE  BeforeInv'
  BY <1>3 DEF NothingDiffers, TypeInv, CallInv, BeforeInv, Concerns, RouterGivenUp, RuntimeIdle, Disconnects, Event
<1>4. CASE TransportCleared
  <2>1. \A l \in Listeners : /\ listener'[l].at = listener[l].at /\ listener'[l].history = listener[l].history
                             /\ listener'[l].only = listener[l].only
                             /\ peerMutex # l => listener'[l] = listener[l]
    BY <1>4 DEF TypeInv, Records, TransportCleared
  <2>2. client' /\ connected' = {}
    BY <1>4 DEF ClientInv, TransportCleared
  <2>3. UNCHANGED view /\ misled \subseteq misled'
    BY <1>4 DEF TransportCleared
  <2>4. \A l \in Listeners : l \notin misled' => peerMutex # l
    BY <1>4 DEF TransportCleared
  <2> QED
    BY <1>4, <2>1, <2>2, <2>3, <2>4 DEF BeforeInv, TransportCleared
<1>5. CASE TakeSnapshot
  BY <1>5 DEF NothingDiffers, TypeInv, CallInv, BeforeInv, Concerns, TakeSnapshot, Concerns, Kind
<1>6. ASSUME NEW l \in Listeners, Call(l)
      PROVE  BeforeInv'
  BY <1>6 DEF NothingDiffers, TypeInv, CallInv, BeforeInv, Concerns, Call
<1>7. CASE CallReturns
  BY <1>7 DEF NothingDiffers, TypeInv, CallInv, BeforeInv, Concerns, CallReturns
<1>8. CASE Dispatched
  BY <1>8 DEF NothingDiffers, TypeInv, CallInv, BeforeInv, Concerns, Dispatched
<1>9. ASSUME NEW l \in Listeners, Declare(l)
      PROVE  BeforeInv'
  BY <1>9 DEF NothingDiffers, TypeInv, CallInv, BeforeInv, Concerns, Declare, At
<1>10. ASSUME NEW l \in Listeners, DeclareRefused(l)
      PROVE  BeforeInv'
  BY <1>10 DEF NothingDiffers, TypeInv, CallInv, BeforeInv, Concerns, DeclareRefused, At
<1>11. ASSUME NEW l \in Listeners, HistoryStarts(l)
      PROVE  BeforeInv'
  <2>1. \A k \in Listeners : k # l => listener'[k] = listener[k]
    BY <1>11 DEF TypeInv, HistoryStarts
  <2>2. /\ listener'[l].at = "history" /\ listener'[l].history = listener[l].history
        /\ listener'[l].only = listener[l].only
        /\ listener'[l].todo = {p \in connected : listener[l].only \in {Nothing, p}}
    BY <1>11 DEF TypeInv, Records, HistoryStarts, Concerns
  <2>3. /\ listener[l].at = "locking" /\ (peerMutex' = l \/ (client /\ connected = {}))
        /\ \A k \in Listeners : listener[k].at = "history" => peerMutex # k
    BY <1>11 DEF NothingDiffers, BeforeInv, HistoryStarts, At, NoTransport
  <2>4. UNCHANGED <<client, connected, view, misled, unannounced>>
    BY <1>11 DEF HistoryStarts
  <2>5. \A p \in ConnPeers : view[l][p] = "none"
    BY <2>3 DEF BeforeInv
  <2> QED
    BY <2>1, <2>2, <2>3, <2>4, <2>5 DEF TypeInv, BeforeInv, Concerns
<1>12. ASSUME NEW l \in Listeners, NEW p \in ConnPeers, ReplayHistory(l, p)
      PROVE  BeforeInv'
  BY <1>12 DEF NothingDiffers, TypeInv, CallInv, BeforeInv, Concerns, ReplayHistory, At
<1>13. ASSUME NEW l \in Listeners, Register(l)
      PROVE  BeforeInv'
  <2>1. \A k \in Listeners : k # l => listener'[k] = listener[k]
    BY <1>13 DEF TypeInv, Register
  <2>2. listener'[l].at \in {"declared", "failed"}
    BY <1>13 DEF TypeInv, Records, Register
  <2>3. UNCHANGED <<view, client, connected, unannounced>> /\ misled \subseteq misled'
    BY <1>13 DEF Register
  <2>4. \A k \in Listeners : k # l /\ peerMutex = k => peerMutex' = k
    BY <1>13 DEF Register
  <2> QED
    BY <2>1, <2>2, <2>3, <2>4 DEF BeforeInv, Concerns
<1>14. ASSUME NEW l \in Listeners, Undeclare(l)
      PROVE  BeforeInv'
  BY <1>14 DEF NothingDiffers, TypeInv, CallInv, BeforeInv, Concerns, Undeclare, At
<1>15. ASSUME NEW l \in Listeners, UndeclareReturns(l)
      PROVE  BeforeInv'
  BY <1>15 DEF NothingDiffers, TypeInv, CallInv, BeforeInv, Concerns, UndeclareReturns, At, CallbackAlive
<1>16. CASE CloseSession
  BY <1>16 DEF NothingDiffers, TypeInv, CallInv, BeforeInv, Concerns, CloseSession
<1>17. CASE ListenersCleared
  BY <1>17 DEF NothingDiffers, TypeInv, CallInv, BeforeInv, Concerns, ListenersCleared, RuntimeIdle
<1>18. CASE CloseReturns
  BY <1>18 DEF NothingDiffers, TypeInv, CallInv, BeforeInv, Concerns, CloseReturns, CallbackAlive
<1>19. CASE UNCHANGED connVars
  BY <1>19 DEF NothingDiffers, TypeInv, CallInv, BeforeInv, Concerns, connVars
<1>20. ASSUME NEW p \in ConnPeers, RouterAdded(p)
      PROVE  BeforeInv'
  BY <1>20 DEF NothingDiffers, TypeInv, CallInv, BeforeInv, Concerns, RouterAdded, RuntimeIdle, HasLooked
<1> QED
  BY <1>1, <1>2, <1>3, <1>4, <1>5, <1>6, <1>7, <1>8, <1>9, <1>10, <1>11, <1>12, <1>13, <1>14, <1>15, <1>16, <1>17, <1>18, <1>19, <1>20 DEF ConnNext, RuntimeStep, ListenerStep

\* A change that waits for the events of the one before is told to every listener.
LEMMA ChangeTold ==
    ASSUME TypeInv, CallInv, ViewInv, RuntimeIdle, NEW p \in ConnPeers,
           events' = Connects(p) \/ events' = Disconnects(p),
           UNCHANGED <<snapshot, listener, registered, view, misled, unannounced>>,
           \A q \in ConnPeers : q # p => (q \in Present <=> q \in Present')
    PROVE  ViewInv'
<1>1. snapshot = Nothing /\ events = << >>
  BY DEF CallInv, RuntimeIdle
<1>2. ASSUME NEW l \in Listeners
      PROVE  Pending(l, p)'
  <2>1. \E k \in {1, 2} : events'[k].of = Kind(l) /\ events'[k].peer = p
    BY DEF Connects, Disconnects, Event, Kind
  <2>2. DOMAIN events' = {1, 2}
    BY DEF Connects, Disconnects
  <2> QED
    BY <1>1, <2>1, <2>2 DEF Pending
<1>3. \A l \in Listeners, q \in ConnPeers : ~Pending(l, q)
  BY <1>1 DEF Pending
<1> QED
  BY <1>2, <1>3 DEF TypeInv, ViewInv, Concerns

\* A registered listener is told of every change it does not know of.
LEMMA ViewStep ==
    ASSUME NothingDiffers, TypeInv, CallInv, SnapshotInv, EventInv, ClientInv, BeforeInv, ViewInv, [ConnNext]_connVars
    PROVE  ViewInv'
<1>1. ASSUME NEW p \in ConnPeers, PeerAdded(p)
      PROVE  ViewInv'
  <2>1. \A q \in ConnPeers : q # p => (q \in Present <=> q \in Present')
    BY <1>1 DEF NothingDiffers, Present, RuntimeIdle, PeerAdded
  <2> QED
    BY <1>1, <2>1, ChangeTold DEF PeerAdded
<1>2. ASSUME NEW p \in ConnPeers, PeerDropped(p)
      PROVE  ViewInv'
  <2>1. \A q \in ConnPeers : q # p => (q \in Present <=> q \in Present')
    BY <1>2 DEF NothingDiffers, Present, RuntimeIdle, PeerDropped
  <2> QED
    BY <1>2, <2>1, ChangeTold DEF PeerDropped
<1>3. ASSUME NEW p \in ConnPeers, RouterGivenUp(p)
      PROVE  ViewInv'
  <2>1. \A q \in ConnPeers : q # p => (q \in Present <=> q \in Present')
    BY <1>3 DEF NothingDiffers, Present, RuntimeIdle, RouterGivenUp
  <2> QED
    BY <1>3, <2>1, ChangeTold DEF RouterGivenUp
<1>4. CASE TransportCleared
  <2>1. snapshot = Nothing /\ events = << >> /\ Present = {} /\ Present' = {}
    BY <1>4 DEF CallInv, ClientInv, TransportCleared, Present
  <2>2. \A l \in Listeners, q \in ConnPeers : ~Pending(l, q)
    BY <2>1 DEF Pending
  <2>3. UNCHANGED <<view, registered>> /\ misled \subseteq misled'
    BY <1>4 DEF TransportCleared
  <2>4. \A l \in registered : listener'[l].only = listener[l].only
    BY <1>4 DEF TypeInv, Records, TransportCleared
  <2> QED
    BY <2>1, <2>2, <2>3, <2>4 DEF TypeInv, ViewInv, Concerns
<1>5. CASE TakeSnapshot
  BY <1>5 DEF NothingDiffers, TypeInv, CallInv, EventInv, BeforeInv, ViewInv, Concerns, Present, Pending, TakeSnapshot, Concerns, Kind
<1>6. ASSUME NEW l \in Listeners, Call(l)
      PROVE  ViewInv'
  <2> DEFINE q == Head(events).peer
  <2>1. events # << >> /\ snapshot # Nothing /\ l \in snapshot.left /\ Concerns(l, q)
    BY <1>6 DEF CallInv, SnapshotInv, Call
  <2>2. snapshot' \in Snapshots /\ snapshot' # Nothing /\ snapshot'.left = snapshot.left \ {l}
    BY <1>6, <2>1 DEF NothingDiffers, TypeInv, Snapshots, Call
  <2>3. Head(events) = events[1] /\ 1 \in DOMAIN events /\ Head(events) \in Changes
    BY <2>1 DEF TypeInv
  <2>4. /\ view'[l][q] = events[1].kind
        /\ \A p \in ConnPeers : p # q => view'[l][p] = view[l][p]
        /\ \A k \in Listeners : k # l => view'[k] = view[k]
    BY <1>6, <2>3 DEF TypeInv, Call, Changes
  <2>5. UNCHANGED <<events, listener, registered, misled, unannounced>> /\ Present' = Present
    BY <1>6 DEF Call, Present
  <2>6. \A k \in Listeners, p \in ConnPeers : k # l \/ p # q => (Pending(k, p) => Pending(k, p)')
    <3> SUFFICES ASSUME NEW k \in Listeners, NEW p \in ConnPeers, k # l \/ p # q, Pending(k, p)
                 PROVE  Pending(k, p)'
      OBVIOUS
    <3>1. PICK i \in DOMAIN events : /\ events[i].of = Kind(k) /\ events[i].peer = p
                                     /\ i > 1 \/ snapshot = Nothing \/ k \in snapshot.left
      BY DEF Pending
    <3>2. i > 1 \/ i = 1
      BY <2>1, <3>1 DEF TypeInv
    <3>3. i > 1 \/ k \in snapshot'.left
      BY <2>1, <2>2, <2>3, <3>1, <3>2
    <3> QED
      BY <2>5, <3>1, <3>3 DEF Pending
  <2>7. /\ events[1].kind \in {"PUT", "DELETE"}
        /\ events[1].kind = "PUT" => q \in Present
        /\ events[1].kind = "DELETE" => q \notin Present
    BY <2>3 DEF EventInv, Changes
  <2> HIDE DEF q
  <2>8. \A p \in ConnPeers : Concerns(l, p)' = Concerns(l, p)
    BY <2>5 DEF Concerns
  <2> QED
    BY <2>1, <2>4, <2>5, <2>6, <2>7, <2>8 DEF TypeInv, ViewInv, Concerns
<1>7. CASE CallReturns
  BY <1>7 DEF NothingDiffers, TypeInv, CallInv, EventInv, BeforeInv, ViewInv, Concerns, Present, Pending, CallReturns
<1>8. CASE Dispatched
  <2>1. events # << >> /\ snapshot # Nothing /\ snapshot.left = {} /\ snapshot' = Nothing /\ events' = Tail(events)
    BY <1>8 DEF CallInv, Dispatched
  <2>2. /\ DOMAIN events = 1 .. Len(events) /\ DOMAIN events' = 1 .. Len(events) - 1 /\ Len(events) \in Nat
        /\ \A k \in DOMAIN events' : events'[k] = events[k + 1]
    BY <2>1 DEF TypeInv
  <2>3. ASSUME NEW l \in Listeners, NEW p \in ConnPeers, Pending(l, p)
        PROVE  Pending(l, p)'
    <3>1. PICK k \in DOMAIN events : events[k].of = Kind(l) /\ events[k].peer = p /\ k > 1
      BY <2>1, <2>3 DEF Pending
    <3>2. k - 1 \in DOMAIN events' /\ events'[k - 1] = events[k]
      BY <2>2, <3>1
    <3> QED
      BY <2>1, <3>1, <3>2 DEF Pending
  <2>4. UNCHANGED <<listener, registered, view, misled, unannounced>> /\ Present' = Present
    BY <1>8 DEF Dispatched, Present
  <2> QED
    BY <2>3, <2>4 DEF TypeInv, ViewInv, Concerns
<1>9. ASSUME NEW l \in Listeners, Declare(l)
      PROVE  ViewInv'
  BY <1>9 DEF NothingDiffers, TypeInv, CallInv, EventInv, BeforeInv, ViewInv, Concerns, Present, Pending, Declare, At
<1>10. ASSUME NEW l \in Listeners, DeclareRefused(l)
      PROVE  ViewInv'
  BY <1>10 DEF NothingDiffers, TypeInv, CallInv, EventInv, BeforeInv, ViewInv, Concerns, Present, Pending, DeclareRefused, At
<1>11. ASSUME NEW l \in Listeners, HistoryStarts(l)
      PROVE  ViewInv'
  BY <1>11 DEF NothingDiffers, TypeInv, CallInv, EventInv, BeforeInv, ViewInv, Concerns, Present, Pending, HistoryStarts, At, Concerns
<1>12. ASSUME NEW l \in Listeners, NEW p \in ConnPeers, ReplayHistory(l, p)
      PROVE  ViewInv'
  BY <1>12 DEF NothingDiffers, TypeInv, CallInv, EventInv, BeforeInv, ViewInv, Concerns, Present, Pending, ReplayHistory, At
<1>13. ASSUME NEW l \in Listeners, Register(l)
      PROVE  ViewInv'
  <2>1. UNCHANGED <<view, events, snapshot, connected, givenUp, unannounced>> /\ Present' = Present
    BY <1>13 DEF Register, Present
  <2>2. \A k \in Listeners : k # l => listener'[k] = listener[k]
    BY <1>13 DEF TypeInv, Register
  <2>3. listener'[l].history = listener[l].history /\ listener'[l].only = listener[l].only
    BY <1>13 DEF TypeInv, Records, Register
  <2>4. \A k \in Listeners, p \in ConnPeers : Pending(k, p)' = Pending(k, p)
    BY <2>1 DEF Pending
  <2>5. registered' \subseteq registered \cup {l} /\ misled \subseteq misled'
    BY <1>13 DEF Register
  <2>6. ASSUME l \notin misled', NEW p \in ConnPeers
        PROVE  /\ ~Concerns(l, p) => view[l][p] = "none"
               /\ Concerns(l, p) /\ ~Pending(l, p) =>
                      /\ view[l][p] = "PUT" => p \in Present
                      /\ p \in Present /\ listener[l].history /\ l \notin unannounced => view[l][p] = "PUT"
                      /\ view[l][p] # "DELETE"
    <3>1. CASE At(l, "registering")
      BY <3>1 DEF BeforeInv, At
    <3>2. CASE At(l, "history") /\ listener[l].todo = {}
      <4>1. /\ listener[l].history /\ view[l][p] # "DELETE" /\ (view[l][p] = "PUT" => p \in connected)
            /\ p \in connected /\ Concerns(l, p) /\ l \notin unannounced => view[l][p] = "PUT"
            /\ ~Concerns(l, p) => view[l][p] = "none"
        BY <2>5, <2>6, <3>2 DEF BeforeInv, At
      <4>2. ASSUME p = givenUp
            PROVE  Pending(l, p)
        <5>1. WillBeTold(l)
          BY <1>13, <2>6, <4>1, <4>2 DEF NothingDiffers, Register
        <5> QED
          BY <4>2, <5>1 DEF NothingDiffers, WillBeTold, EventInv, Pending
      <4> QED
        BY <4>1, <4>2 DEF Present
    <3> QED
      BY <1>13, <3>1, <3>2 DEF Register
  <2> QED
    BY <2>1, <2>2, <2>3, <2>4, <2>5, <2>6 DEF TypeInv, ViewInv, Concerns
<1>14. ASSUME NEW l \in Listeners, Undeclare(l)
      PROVE  ViewInv'
  BY <1>14 DEF NothingDiffers, TypeInv, CallInv, EventInv, BeforeInv, ViewInv, Concerns, Present, Pending, Undeclare, At
<1>15. ASSUME NEW l \in Listeners, UndeclareReturns(l)
      PROVE  ViewInv'
  BY <1>15 DEF NothingDiffers, TypeInv, CallInv, EventInv, BeforeInv, ViewInv, Concerns, Present, Pending, UndeclareReturns, At, CallbackAlive
<1>16. CASE CloseSession
  BY <1>16 DEF NothingDiffers, TypeInv, CallInv, EventInv, BeforeInv, ViewInv, Concerns, Present, Pending, CloseSession
<1>17. CASE ListenersCleared
  BY <1>17 DEF NothingDiffers, TypeInv, CallInv, EventInv, BeforeInv, ViewInv, Concerns, Present, Pending, ListenersCleared, RuntimeIdle
<1>18. CASE CloseReturns
  BY <1>18 DEF NothingDiffers, TypeInv, CallInv, EventInv, BeforeInv, ViewInv, Concerns, Present, Pending, CloseReturns, CallbackAlive
<1>19. CASE UNCHANGED connVars
  BY <1>19 DEF NothingDiffers, TypeInv, CallInv, EventInv, BeforeInv, ViewInv, Concerns, Present, Pending, connVars
<1>20. ASSUME NEW p \in ConnPeers, RouterAdded(p)
      PROVE  ViewInv'
  <2>1. snapshot = Nothing /\ events = << >> /\ connected = {} /\ Present = {}
    BY <1>20 DEF CallInv, RuntimeIdle, RouterAdded, Present
  <2>2. \A l \in Listeners, q \in ConnPeers : ~Pending(l, q)
    BY <2>1 DEF Pending
  <2>3. UNCHANGED <<view, registered, listener, misled>> /\ registered \subseteq unannounced'
    BY <1>20 DEF RouterAdded, HasLooked, TypeInv
  <2> QED
    BY <2>1, <2>2, <2>3 DEF TypeInv, ViewInv, Concerns
<1> QED
  BY <1>1, <1>2, <1>3, <1>4, <1>5, <1>6, <1>7, <1>8, <1>9, <1>10, <1>11, <1>12, <1>13, <1>14, <1>15, <1>16, <1>17, <1>18, <1>19, <1>20 DEF ConnNext, RuntimeStep, ListenerStep

-----------------------------------------------------------------------------
\* No listener and no peer to begin with.
LEMMA InitHolds ==
    ASSUME NothingDiffers, ConnInit
    PROVE  Inv
<1>1. TypeInv
  BY DEF NothingDiffers, ConnInit, TypeInv, Records, Stages
<1>2. CallInv /\ SnapshotInv /\ ClosedInv /\ EventInv /\ ClientInv
  BY DEF ConnInit, CallInv, SnapshotInv, ClosedInv, EventInv, ClientInv
<1>3. BeforeInv /\ ViewInv
  BY DEF ConnInit, BeforeInv, ViewInv
<1> QED
  BY <1>1, <1>2, <1>3 DEF Inv

\* The invariant says what listeners believe whenever the runtime is idle, and that
\* only listeners that are declared or being undeclared are called.
LEMMA InvSuffices ==
    ASSUME NothingDiffers, Inv
    PROVE  ListenersRight
<1>1. ASSUME RuntimeIdle
      PROVE  ViewsRight
  <2>1. \A l \in Listeners, p \in ConnPeers : ~Pending(l, p)
    BY <1>1 DEF RuntimeIdle, Pending
  <2>2. \A p \in ConnPeers : p \in Present <=> p \in connected
    BY <1>1 DEF NothingDiffers, RuntimeIdle, Present
  <2> QED
    BY <2>1, <2>2 DEF Inv, TypeInv, ViewInv, ViewsRight
<1>2. ASSUME NEW l \in Listeners, At(l, "undeclared")
      PROVE  calling # l /\ ~CallbackAlive(l)
  BY <1>2 DEF NothingDiffers, Inv, CallInv, At, CallbackAlive
<1>3. ASSUME NEW l \in Listeners, closing = "closed"
      PROVE  calling # l /\ ~CallbackAlive(l)
  BY <1>3 DEF NothingDiffers, Inv, CallInv, ClosedInv, CallbackAlive
<1> QED
  BY <1>1, <1>2, <1>3 DEF ListenersRight, ViewsRight, QuietOnceUndeclared

\* Whatever comes and goes while listeners are declared and undeclared and the session
\* is closed, a registered listener believes what is so once the runtime has told it,
\* and none is called after its undeclaration or the closing returned
\* (src/src/api/connectivity.c).
THEOREM ListenersRightAlways ==
    ASSUME NothingDiffers
    PROVE  ConnSpec => []ListenersRight
<1>1. ConnInit => Inv
  BY InitHolds
<1>2. Inv /\ [ConnNext]_connVars => Inv'
  BY TypeCorrect, CallStep, SnapshotStep, ClosedStep, EventStep, ClientStep, BeforeStep, ViewStep DEF Inv
<1>3. Inv => ListenersRight
  BY InvSuffices
<1> QED
  BY <1>1, <1>2, <1>3, PTL DEF ConnSpec

(***************************************************************************)
(* The admin space.                                                        *)
(***************************************************************************)
\* What may be left to do of each operation.
StartSteps == {<<"pico", "send", "session", "transport", "link">>, <<"send", "session", "transport", "link">>,
               <<"session", "transport", "link">>, <<"transport", "link">>, <<"link">>, << >>}
UndoSteps  == {<<"transport", "session", "pico">>, <<"session", "pico">>, <<"pico">>, << >>}
StopSteps  == {<<"transport", "link", "session", "pico">>, <<"link", "session", "pico">>} \cup UndoSteps
QuerySteps == {<<"read">>, << >>}

AdminRecs == [op : {"none", "start", "stop", "undo", "query"},
              todo : StartSteps \cup StopSteps \cup QuerySteps, read : SUBSET AdminPeers]

CloseSteps == {"open", "closed", "stopped", "flushed", "cleared", "waiting", "done"}

AdminTypes ==
    /\ adminMutex \in AdminCallers \cup {Nobody} /\ ids \in [Kinds -> Nat] /\ fresh \in Nat \ {0}
    /\ call \in [AdminCallers -> AdminRecs] /\ closeStep \in CloseSteps /\ linked \subseteq AdminPeers
    /\ belief \in [AdminPeers -> [{"transport", "link"} -> {"none", "PUT", "DELETE"}]]
    /\ synced \in BOOLEAN /\ unsent \in BOOLEAN /\ overtaken \subseteq AdminPeers

\* The mutex is held by the thread that starts, stops or undoes, and each does the
\* steps of its operation.
HolderInv ==
    \A c \in AdminCallers :
        /\ (call[c].op \in {"start", "stop", "undo"}) <=> (adminMutex = c)
        /\ call[c].op = "start" => call[c].todo \in StartSteps
        /\ call[c].op = "stop" => call[c].todo \in StopSteps
        /\ call[c].op = "undo" => call[c].todo \in UndoSteps
        /\ call[c].op = "query" => call[c].todo \in QuerySteps

OnlyOn(S) == \A k \in Kinds : (ids[k] # 0) <=> (k \in S)
Exact(S)  == OnlyOn(S) /\ entries = {Entry(k, ids[k]) : k \in S}
Stuck     == unsent /\ OnlyOn({"pico"}) /\ entries = {}

Elems(s) == {s[i] : i \in DOMAIN s}

\* Of an open session there is exactly what the operation has got to.
StartedSoFar(c) ==
    IF call[c].todo # << >> /\ Head(call[c].todo) = "send"
    THEN OnlyOn({}) /\ entries = {Entry("pico", fresh - 1)} /\ fresh > 1
    ELSE Exact(Kinds \ Elems(call[c].todo))
StoppedSoFar(c) == Exact(Elems(call[c].todo)) \/ Stuck

WholeInv ==
    IsOpen =>
        /\ adminMutex = Nobody => Exact({}) \/ Exact(Kinds) \/ Stuck
        /\ \A c \in AdminCallers : /\ call[c].op = "start" => StartedSoFar(c)
                                   /\ call[c].op \in {"stop", "undo"} => StoppedSoFar(c)

\* Nothing is declared twice.
UniqueInv == \A e, f \in entries : e.kind = f.kind => e = f

ClosingInv ==
    /\ closeStep \notin {"open", "closed"} => due = << >>
    /\ closeStep \in {"cleared", "waiting", "done"} => entries = {}
    /\ closeStep \in {"waiting", "done"} =>
          /\ OnlyOn({})
          /\ \A c \in AdminCallers : call[c].op = "start" => call[c].todo # << >> /\ Head(call[c].todo) = "pico"

\* Events that wait tell what is so.
DueInv ==
    \/ due = << >> /\ informed = {Nobody}
    \/ \E p \in linked : due \in {<< <<"PUT", p, "transport">>, <<"PUT", p, "link">> >>, << <<"PUT", p, "link">> >>}
    \/ \E p \in AdminPeers \ linked :
          due \in {<< <<"DELETE", p, "link">>, <<"DELETE", p, "transport">> >>, << <<"DELETE", p, "transport">> >>}

Querying(c)  == call[c].op = "query"
AboutToRead(c) == Doing(c, "query", "read")

SyncInv ==
    /\ synced /\ IsOpen => Running
    /\ \A c, d \in AdminCallers : Querying(c) /\ Querying(d) => c = d
    /\ \A c \in AdminCallers : AboutToRead(c) => overtaken = {}

\* An event that will be published.
EventComing(p, of) == \E i \in DOMAIN due : due[i][2] = p /\ due[i][3] = of /\ (i = 1 => informed # {})

\* What the observer believes, or is about to believe, is so.
Agrees(p, of) ==
    /\ (\A c \in AdminCallers : ~Querying(c)) => ((belief[p][of] = "PUT") <=> (p \in linked))
    /\ \A c \in AdminCallers :
          /\ AboutToRead(c) => p \in linked \/ belief[p][of] # "PUT"
          /\ c \in Reading => ((p \in call[c].read \/ belief[p][of] = "PUT") <=> (p \in linked))

\* An observer that is in step is right about a peer, or an event is coming.
AdminViewInv ==
    synced /\ IsOpen =>
        \A p \in AdminPeers \ overtaken : \A of \in {"transport", "link"} : EventComing(p, of) \/ Agrees(p, of)

AdminInv == AdminTypes /\ HolderInv /\ WholeInv /\ UniqueInv /\ ClosingInv /\ DueInv /\ SyncInv /\ AdminViewInv

\* The steps of zp_start_admin_space in their order, and what is declared before each.
LEMMA StartStepsLemma ==
    ASSUME NEW s \in StartSteps
    PROVE  /\ s # << >> => Tail(s) \in StartSteps
           /\ s = << >> => Kinds \ Elems(s) = Kinds
           /\ s # << >> /\ Head(s) = "pico" =>
                 Kinds \ Elems(s) = {} /\ Tail(s) # << >> /\ Head(Tail(s)) = "send"
           /\ s # << >> /\ Head(s) = "send" =>
                 Kinds \ Elems(Tail(s)) = {"pico"} /\ Tail(s) # << >> /\ Head(Tail(s)) = "session"
           /\ s # << >> /\ Head(s) = "session" =>
                 /\ Kinds \ Elems(s) = {"pico"} /\ Kinds \ Elems(Tail(s)) = {"pico", "session"}
                 /\ Tail(s) # << >> /\ Head(Tail(s)) = "transport"
           /\ s # << >> /\ Head(s) = "transport" =>
                 /\ Kinds \ Elems(s) = {"pico", "session"} /\ Kinds \ Elems(Tail(s)) = {"pico", "session", "transport"}
                 /\ Tail(s) # << >> /\ Head(Tail(s)) = "link"
           /\ s # << >> /\ Head(s) = "link" =>
                 Kinds \ Elems(s) = {"pico", "session", "transport"} /\ Tail(s) = << >>
<1>1. /\ Elems(<< >>) = {} /\ Elems(<<"link">>) = {"link"} /\ Elems(<<"transport", "link">>) = {"transport", "link"}
      /\ Elems(<<"session", "transport", "link">>) = {"session", "transport", "link"}
    BY DEF Elems
<1>2. "pico" \in Elems(<<"pico", "send", "session", "transport", "link">>)
    BY DEF Elems
<1>3. /\ "session" \in Elems(<<"pico", "send", "session", "transport", "link">>)
      /\ "transport" \in Elems(<<"pico", "send", "session", "transport", "link">>)
      /\ "link" \in Elems(<<"pico", "send", "session", "transport", "link">>)
    BY DEF Elems
<1>4. CASE s = <<"pico", "send", "session", "transport", "link">>
    BY <1>2, <1>3, <1>4 DEF StartSteps, Kinds
<1>5. CASE s = <<"send", "session", "transport", "link">>
    BY <1>1, <1>5 DEF StartSteps, Kinds
<1>6. CASE s = <<"session", "transport", "link">>
    BY <1>1, <1>6 DEF StartSteps, Kinds
<1>7. CASE s = <<"transport", "link">>
    BY <1>1, <1>7 DEF StartSteps, Kinds
<1>8. CASE s = <<"link">>
    BY <1>1, <1>8 DEF StartSteps, Kinds
<1>9. CASE s = << >>
    BY <1>1, <1>9 DEF StartSteps, Kinds
<1>q. QED
    BY <1>4, <1>5, <1>6, <1>7, <1>8, <1>9 DEF StartSteps

\* Each step of a stop or of an undoing takes one kind away.
LEMMA StopStepsLemma ==
    ASSUME NEW s \in StopSteps
    PROVE  /\ Elems(s) \subseteq Kinds
           /\ s = << >> => Elems(s) = {}
           /\ s # << >> => /\ Tail(s) \in StopSteps /\ Head(s) \in Elems(s) /\ Elems(Tail(s)) = Elems(s) \ {Head(s)}
                           /\ s \in UndoSteps => Tail(s) \in UndoSteps
           /\ s # << >> => Head(s) # "send"
<1>1. /\ Elems(<< >>) = {} /\ Elems(<<"pico">>) = {"pico"} /\ Elems(<<"session", "pico">>) = {"session", "pico"}
      /\ Elems(<<"link", "session", "pico">>) = {"link", "session", "pico"}
      /\ Elems(<<"transport", "session", "pico">>) = {"transport", "session", "pico"}
      /\ Elems(<<"transport", "link", "session", "pico">>) = {"transport", "link", "session", "pico"}
    BY DEF Elems
<1>2. CASE s = <<"transport", "link", "session", "pico">>
    BY <1>1, <1>2 DEF StopSteps, UndoSteps, Kinds
<1>3. CASE s = <<"link", "session", "pico">>
    BY <1>1, <1>3 DEF StopSteps, UndoSteps, Kinds
<1>4. CASE s = <<"transport", "session", "pico">>
    BY <1>1, <1>4 DEF StopSteps, UndoSteps, Kinds
<1>5. CASE s = <<"session", "pico">>
    BY <1>1, <1>5 DEF StopSteps, UndoSteps, Kinds
<1>6. CASE s = <<"pico">>
    BY <1>1, <1>6 DEF StopSteps, UndoSteps, Kinds
<1>7. CASE s = << >>
    BY <1>1, <1>7 DEF StopSteps, UndoSteps, Kinds
<1>q. QED
    BY <1>2, <1>3, <1>4, <1>5, <1>6, <1>7 DEF StopSteps, UndoSteps

\* The labels err_... that a failed declaration jumps to undeclare what came before it.
LEMMA UndoLemma ==
    ASSUME NEW kind \in Kinds \cup {"send"}
    PROVE  /\ Undo(kind) \in UndoSteps
           /\ kind \in {"pico", "send"} => Elems(Undo(kind)) = {}
           /\ kind = "session" => Elems(Undo(kind)) = {"pico"}
           /\ kind = "transport" => Elems(Undo(kind)) = {"pico", "session"}
           /\ kind = "link" => Elems(Undo(kind)) = {"pico", "session", "transport"}
<1>1. /\ Elems(<< >>) = {} /\ Elems(<<"pico">>) = {"pico"} /\ Elems(<<"session", "pico">>) = {"pico", "session"}
      /\ Elems(<<"transport", "session", "pico">>) = {"pico", "session", "transport"}
    BY DEF Elems
<1>2. CASE kind \in {"pico", "send"}
    BY <1>1, <1>2 DEF Undo, UndoSteps
<1>3. CASE kind = "session"
    BY <1>1, <1>3 DEF Undo, UndoSteps
<1>4. CASE kind = "transport"
    BY <1>1, <1>4 DEF Undo, UndoSteps
<1>5. CASE kind = "link"
    BY <1>1, <1>5 DEF Undo, UndoSteps
<1>q. QED
    BY <1>2, <1>3, <1>4, <1>5 DEF Kinds

\* The update of what is left of an operation.
LEMMA TodoLemma ==
    ASSUME NEW r \in AdminRecs, NEW s
    PROVE  [r EXCEPT !.todo = s] = [op |-> r.op, todo |-> s, read |-> r.read]
BY DEF AdminRecs

\* A step of an operation takes the first of what is left.
LEMMA CrossOffLemma ==
    ASSUME AdminTypes, NEW c \in AdminCallers, call' = CrossOff(c)
    PROVE  /\ call' = [call EXCEPT ![c] = [op |-> call[c].op, todo |-> Tail(call[c].todo), read |-> call[c].read]]
           /\ call'[c].op = call[c].op /\ call'[c].todo = Tail(call[c].todo) /\ call'[c].read = call[c].read
           /\ \A d \in AdminCallers \ {c} : call'[d] = call[d]
<1>1. call \in [AdminCallers -> AdminRecs] /\ call[c] \in AdminRecs
    BY DEF AdminTypes
<1>2. [call[c] EXCEPT !.todo = Tail(@)] = [op |-> call[c].op, todo |-> Tail(call[c].todo), read |-> call[c].read]
    BY <1>1, TodoLemma
<1>q. QED
    BY <1>1, <1>2 DEF CrossOff

\* A session that has exactly S and takes one of S away has the rest.
LEMMA ExactRemove ==
    ASSUME ids \in [Kinds -> Nat], NEW S \in SUBSET Kinds, NEW k \in S, Exact(S),
           entries' = entries \ {Entry(k, ids[k])}, ids' = [ids EXCEPT ![k] = 0]
    PROVE  Exact(S \ {k})'
<1>1. \A j \in Kinds : ids'[j] = IF j = k THEN 0 ELSE ids[j]
    OBVIOUS
<1>2. OnlyOn(S \ {k})'
    BY <1>1 DEF Exact, OnlyOn
<1>3. entries' = {Entry(j, ids'[j]) : j \in S \ {k}}
    BY <1>1 DEF Exact, Entry
<1>q. QED
    BY <1>2, <1>3 DEF Exact

\* A session that has exactly S and declares another kind has that too.
LEMMA ExactAdd ==
    ASSUME ids \in [Kinds -> Nat], NEW S \in SUBSET Kinds, NEW k \in Kinds \ S, Exact(S), fresh \in Nat \ {0},
           entries' = entries \cup {Entry(k, fresh)}, ids' \in [Kinds -> Nat], ids'[k] = fresh,
           \A j \in Kinds \ {k} : ids'[j] = ids[j] \/ (ids'[j] = 0 /\ j \notin S)
    PROVE  Exact(S \cup {k})'
<1>1. \A j \in S : ids'[j] = ids[j]
    BY DEF Exact, OnlyOn
<1>2. OnlyOn(S \cup {k})'
    BY DEF Exact, OnlyOn
<1>3. entries' = {Entry(j, ids'[j]) : j \in S \cup {k}}
    BY <1>1 DEF Exact, Entry
<1>q. QED
    BY <1>2, <1>3 DEF Exact

\* The handler of a query reads the peers, all of them or, once closed, none.
LEMMA ReadLemma ==
    ASSUME AdminTypes, NEW c \in AdminCallers, NEW r, call' = [CrossOff(c) EXCEPT ![c].read = r]
    PROVE  call' = [call EXCEPT ![c] = [op |-> call[c].op, todo |-> Tail(call[c].todo), read |-> r]]
<1>1. call \in [AdminCallers -> AdminRecs] /\ call[c] \in AdminRecs
    BY DEF AdminTypes
<1>2. [call[c] EXCEPT !.todo = Tail(@)] = [op |-> call[c].op, todo |-> Tail(call[c].todo), read |-> call[c].read]
    BY <1>1, TodoLemma
<1>3. CrossOff(c) = [call EXCEPT ![c] = [op |-> call[c].op, todo |-> Tail(call[c].todo), read |-> call[c].read]]
    BY <1>1, <1>2 DEF CrossOff
<1>4. PICK rec : rec = CrossOff(c)[c]
    OBVIOUS
<1>5. rec = [op |-> call[c].op, todo |-> Tail(call[c].todo), read |-> call[c].read]
    BY <1>1, <1>3, <1>4
<1>6. [rec EXCEPT !.read = r] = [op |-> call[c].op, todo |-> Tail(call[c].todo), read |-> r]
  <2>1. PICK o, t, x : o = call[c].op /\ t = Tail(call[c].todo) /\ x = call[c].read
    OBVIOUS
  <2>2. rec = [op |-> o, todo |-> t, read |-> x]
    BY <1>5, <2>1
  <2>3. [rec EXCEPT !.read = r] = [op |-> o, todo |-> t, read |-> r]
    BY <2>2
  <2>q. QED
    BY <2>1, <2>3
<1>7. call' = [CrossOff(c) EXCEPT ![c] = [rec EXCEPT !.read = r]]
    BY <1>4
<1>q. QED
    BY <1>1, <1>3, <1>6, <1>7

\* The first event tells of a peer that it came, or that it is gone.
LEMMA HeadDue ==
    ASSUME DueInv, linked \subseteq AdminPeers, due # << >>
    PROVE  \E p \in AdminPeers, of \in {"transport", "link"}, event \in {"PUT", "DELETE"} :
               /\ Head(due) = <<event, p, of>> /\ ((event = "PUT") <=> (p \in linked))
<1>1. CASE \E p \in linked : due \in {<< <<"PUT", p, "transport">>, <<"PUT", p, "link">> >>, << <<"PUT", p, "link">> >>}
  <2>1. PICK p \in linked : \E of \in {"transport", "link"} : Head(due) = <<"PUT", p, of>>
    BY <1>1
  <2>q. QED
    BY <2>1
<1>2. CASE \E p \in AdminPeers \ linked :
              due \in {<< <<"DELETE", p, "link">>, <<"DELETE", p, "transport">> >>, << <<"DELETE", p, "transport">> >>}
  <2>1. PICK p \in AdminPeers \ linked : \E of \in {"transport", "link"} : Head(due) = <<"DELETE", p, of>>
    BY <1>2
  <2>q. QED
    BY <2>1
<1>q. QED
    BY <1>1, <1>2 DEF DueInv

\* The steps of the operations stay what they are.
LEMMA TailLemma ==
    ASSUME AdminTypes, HolderInv, NEW c \in AdminCallers, call[c].op # "none", call[c].todo # << >>
    PROVE  /\ call[c].op = "start" => Tail(call[c].todo) \in StartSteps
           /\ call[c].op = "stop" => Tail(call[c].todo) \in StopSteps
           /\ call[c].op = "undo" => Tail(call[c].todo) \in UndoSteps
           /\ call[c].op = "query" => Tail(call[c].todo) \in QuerySteps
           /\ Tail(call[c].todo) \in StartSteps \cup StopSteps \cup QuerySteps
<1>1. call[c] \in AdminRecs
    BY DEF AdminTypes
<1>2. call[c].op = "start" => Tail(call[c].todo) \in StartSteps
    BY StartStepsLemma DEF HolderInv
<1>3. /\ call[c].op = "stop" => Tail(call[c].todo) \in StopSteps
      /\ call[c].op = "undo" => Tail(call[c].todo) \in UndoSteps
    BY StopStepsLemma DEF HolderInv, StopSteps
<1>4. call[c].op = "query" => Tail(call[c].todo) \in QuerySteps
  <2>1. call[c].op = "query" => call[c].todo = <<"read">>
    BY DEF HolderInv, QuerySteps
  <2>2. Tail(<<"read">>) = << >>
    OBVIOUS
  <2>q. QED
    BY <2>1, <2>2 DEF QuerySteps
<1>q. QED
    BY <1>1, <1>2, <1>3, <1>4 DEF AdminRecs, StopSteps

\* A step that takes the first of what is left keeps the types and the mutex.
LEMMA CrossOffKeeps ==
    ASSUME AdminTypes, HolderInv, NEW c \in AdminCallers, call[c].op # "none", call[c].todo # << >>,
           call' = CrossOff(c), adminMutex' = adminMutex
    PROVE  call' \in [AdminCallers -> AdminRecs] /\ HolderInv'
<1>1. call \in [AdminCallers -> AdminRecs] /\ call[c] \in AdminRecs
    BY DEF AdminTypes
<1>2. call' = [call EXCEPT ![c] = [op |-> call[c].op, todo |-> Tail(call[c].todo), read |-> call[c].read]]
    BY CrossOffLemma
<1>3. [op |-> call[c].op, todo |-> Tail(call[c].todo), read |-> call[c].read] \in AdminRecs
    BY <1>1, TailLemma DEF AdminRecs
<1>4. call' \in [AdminCallers -> AdminRecs]
    BY <1>1, <1>2, <1>3
<1>5. HolderInv'
    BY <1>1, <1>2, TailLemma DEF HolderInv
<1>q. QED
    BY <1>4, <1>5

\* A thread that fails has its declarations to undo.
LEMMA FailsKeeps ==
    ASSUME AdminTypes, HolderInv, NEW c \in AdminCallers, NEW kind \in Kinds \cup {"send"}, call[c].op = "start",
           Fails(c, kind), adminMutex' = adminMutex
    PROVE  /\ call' \in [AdminCallers -> AdminRecs] /\ HolderInv'
           /\ call'[c] = [op |-> "undo", todo |-> Undo(kind), read |-> {}]
           /\ \A d \in AdminCallers \ {c} : call'[d] = call[d]
<1>1. call \in [AdminCallers -> AdminRecs] /\ call[c] \in AdminRecs
    BY DEF AdminTypes
<1>2. Undo(kind) \in UndoSteps
    BY UndoLemma
<1>3. [op |-> "undo", todo |-> Undo(kind), read |-> {}] \in AdminRecs
    BY <1>2 DEF AdminRecs, StopSteps
<1>4. call' \in [AdminCallers -> AdminRecs]
    BY <1>1, <1>3 DEF Fails
<1>5. call'[c] = [op |-> "undo", todo |-> Undo(kind), read |-> {}] /\ \A d \in AdminCallers \ {c} : call'[d] = call[d]
    BY <1>1 DEF Fails
<1>6. HolderInv'
    BY <1>2, <1>5 DEF HolderInv
<1>q. QED
    BY <1>4, <1>5, <1>6

\* Types, and who holds the mutex.
LEMMA AdminTypesInit == AdminInit => AdminTypes /\ HolderInv
<1> SUFFICES ASSUME AdminInit PROVE AdminTypes /\ HolderInv
    OBVIOUS
<1>1. Idle \in AdminRecs
    BY DEF Idle, AdminRecs, StartSteps
<1>2. AdminTypes
  <2>1. call \in [AdminCallers -> AdminRecs] /\ ids \in [Kinds -> Nat]
    BY <1>1 DEF AdminInit
  <2>2. belief \in [AdminPeers -> [{"transport", "link"} -> {"none", "PUT", "DELETE"}]]
    BY DEF AdminInit
  <2>3. synced \in BOOLEAN /\ unsent \in BOOLEAN
    BY DEF AdminInit
  <2>q. QED
    BY <2>1, <2>2, <2>3 DEF AdminInit, AdminTypes, CloseSteps
<1>3. HolderInv
    BY AdminAssumption DEF AdminInit, HolderInv, Idle
<1>q. QED
    BY <1>2, <1>3

\* Every step keeps the types and has the mutex held by the thread that changes what
\* is declared.
LEMMA AdminTypesStep == AdminTypes /\ HolderInv /\ DueInv /\ [AdminNext]_adminVars => AdminTypes' /\ HolderInv'
<1> SUFFICES ASSUME AdminTypes, HolderInv, DueInv, [AdminNext]_adminVars PROVE AdminTypes' /\ HolderInv'
    OBVIOUS
<1>0. call \in [AdminCallers -> AdminRecs] /\ Idle \in AdminRecs
    BY DEF AdminTypes, Idle, AdminRecs, StartSteps
<1>1. ASSUME NEW c \in AdminCallers, Start(c) PROVE AdminTypes' /\ HolderInv'
  <2>1. CASE ids["pico"] # 0
    BY <1>1, <2>1 DEF Start, AdminTypes, HolderInv
  <2>2. CASE ~(ids["pico"] # 0)
    <3> DEFINE new == [op |-> "start", read |-> {}, todo |-> <<"pico", "send", "session", "transport", "link">>]
    <3>1. new \in AdminRecs /\ new.op = "start" /\ new.todo \in StartSteps
      BY DEF AdminRecs, StartSteps
    <3>2. adminMutex = Nobody /\ adminMutex' = c /\ call' = [call EXCEPT ![c] = new]
      BY <1>1, <2>2 DEF Start
    <3> HIDE DEF new
    <3>3. AdminTypes'
      BY <1>0, <1>1, <3>1, <3>2 DEF Start, AdminTypes
    <3>4. HolderInv'
      BY <1>0, <3>1, <3>2, AdminAssumption DEF HolderInv
    <3>q. QED
      BY <3>3, <3>4
  <2>q. QED
    BY <2>1, <2>2
<1>2. ASSUME NEW c \in AdminCallers, RegisterPico(c) PROVE AdminTypes' /\ HolderInv'
  <2>1. call[c].op = "start" /\ call[c].todo # << >> /\ adminMutex' = adminMutex
    BY <1>2 DEF RegisterPico, Doing
  <2>2. CASE call' = CrossOff(c)
    BY <1>2, <2>1, <2>2, CrossOffKeeps DEF RegisterPico, AdminTypes
  <2>3. CASE Fails(c, "pico")
    BY <1>2, <2>1, <2>3, FailsKeeps DEF RegisterPico, AdminTypes, Kinds
  <2>q. QED
    BY <1>2, <2>2, <2>3 DEF RegisterPico
<1>3. ASSUME NEW c \in AdminCallers, SendPico(c) PROVE AdminTypes' /\ HolderInv'
  <2>1. call[c].op = "start" /\ call[c].todo # << >> /\ adminMutex' = adminMutex /\ fresh - 1 \in Nat
    BY <1>3 DEF SendPico, Doing, AdminTypes
  <2>2. ids' \in [Kinds -> Nat]
    BY <1>3, <2>1 DEF SendPico, AdminTypes
  <2>3. CASE call' = CrossOff(c)
    BY <1>3, <2>1, <2>2, <2>3, CrossOffKeeps DEF SendPico, AdminTypes
  <2>4. CASE Fails(c, "send")
    BY <1>3, <2>1, <2>2, <2>4, FailsKeeps DEF SendPico, AdminTypes
  <2>q. QED
    BY <1>3, <2>3, <2>4 DEF SendPico
<1>4. ASSUME NEW c \in AdminCallers, NEW kind \in Kinds \ {"pico"}, DeclareLocal(c, kind) PROVE AdminTypes' /\ HolderInv'
  <2>1. call[c].op = "start" /\ call[c].todo # << >> /\ adminMutex' = adminMutex
    BY <1>4 DEF DeclareLocal, Doing
  <2>2. ids' \in [Kinds -> Nat]
    BY <1>4 DEF DeclareLocal, AdminTypes
  <2>3. CASE call' = CrossOff(c)
    BY <1>4, <2>1, <2>2, <2>3, CrossOffKeeps DEF DeclareLocal, AdminTypes
  <2>4. CASE Fails(c, kind)
    <3>1. kind \in Kinds \cup {"send"}
      OBVIOUS
    <3>2. call' \in [AdminCallers -> AdminRecs] /\ HolderInv'
      BY <2>1, <2>4, <3>1, FailsKeeps
    <3>3. fresh' \in Nat \ {0}
      BY <1>4 DEF DeclareLocal, AdminTypes
    <3>q. QED
      BY <1>4, <2>2, <3>2, <3>3 DEF DeclareLocal, AdminTypes
  <2>q. QED
    BY <1>4, <2>3, <2>4 DEF DeclareLocal
<1>5. ASSUME NEW c \in AdminCallers, Stop(c) PROVE AdminTypes' /\ HolderInv'
  <2>1. CASE \A k \in Kinds : ids[k] = 0
    BY <1>5, <2>1 DEF Stop, AdminTypes, HolderInv
  <2>2. CASE ~(\A k \in Kinds : ids[k] = 0)
    <3> DEFINE new == [op |-> "stop", read |-> {}, todo |-> <<"transport", "link", "session", "pico">>]
    <3>1. new \in AdminRecs /\ new.op = "stop" /\ new.todo \in StopSteps
      BY DEF AdminRecs, StopSteps
    <3>2. adminMutex = Nobody /\ adminMutex' = c /\ call' = [call EXCEPT ![c] = new] /\ synced' = FALSE
      BY <1>5, <2>2 DEF Stop
    <3> HIDE DEF new
    <3>3. AdminTypes'
      BY <1>0, <1>5, <3>1, <3>2 DEF Stop, AdminTypes
    <3>4. HolderInv'
      BY <1>0, <3>1, <3>2, AdminAssumption DEF HolderInv
    <3>q. QED
      BY <3>3, <3>4
  <2>q. QED
    BY <2>1, <2>2
<1>6. ASSUME NEW c \in AdminCallers, NEW kind \in {"transport", "link"}, UndeclareListener(c, kind)
      PROVE  AdminTypes' /\ HolderInv'
  <2>1. call[c].op \in {"stop", "undo"} /\ call[c].todo # << >> /\ adminMutex' = adminMutex /\ call' = CrossOff(c)
    BY <1>6 DEF UndeclareListener, Doing
  <2>2. call' \in [AdminCallers -> AdminRecs] /\ HolderInv'
    BY <2>1, CrossOffKeeps
  <2>q. QED
    BY <1>6, <2>2 DEF UndeclareListener, AdminTypes
<1>7. ASSUME NEW c \in AdminCallers, NEW kind \in Queryables, UndeclareQueryable(c, kind) PROVE AdminTypes' /\ HolderInv'
  <2>1. call[c].op \in {"stop", "undo"} /\ call[c].todo # << >> /\ adminMutex' = adminMutex /\ call' = CrossOff(c)
    BY <1>7 DEF UndeclareQueryable, Doing
  <2>2. call' \in [AdminCallers -> AdminRecs] /\ HolderInv'
    BY <2>1, CrossOffKeeps
  <2>3. ids' \in [Kinds -> Nat] /\ unsent' \in BOOLEAN
    <3>1. kind \in Kinds
      BY DEF Queryables, Kinds
    <3>2. \/ ids' = [ids EXCEPT ![kind] = 0] /\ unsent' = unsent
          \/ unsent' = TRUE /\ ids' = ids
          \/ ids' = ids /\ unsent' = unsent
      BY <1>7 DEF UndeclareQueryable
    <3>3. ids' \in [Kinds -> Nat]
      BY <3>1, <3>2 DEF AdminTypes
    <3>4. unsent' \in BOOLEAN
      BY <3>2 DEF AdminTypes
    <3>q. QED
      BY <3>3, <3>4
  <2>q. QED
    BY <1>7, <2>2, <2>3 DEF UndeclareQueryable, AdminTypes
<1>8. ASSUME NEW c \in AdminCallers, Return(c) PROVE AdminTypes' /\ HolderInv'
  <2>1. call' = [call EXCEPT ![c] = Idle] /\ adminMutex' = Nobody /\ Idle.op = "none" /\ adminMutex = c
    BY <1>8 DEF Return, Idle, HolderInv
  <2>2. AdminTypes'
    BY <1>0, <1>8, <2>1 DEF Return, AdminTypes
  <2>3. HolderInv'
    BY <1>0, <2>1, AdminAssumption DEF HolderInv
  <2>q. QED
    BY <2>2, <2>3
<1>9. ASSUME NEW c \in AdminCallers, Query(c) PROVE AdminTypes' /\ HolderInv'
  <2> DEFINE new == [op |-> "query", todo |-> <<"read">>, read |-> {}]
  <2>1. new \in AdminRecs /\ new.op = "query" /\ new.todo \in QuerySteps
    BY DEF AdminRecs, QuerySteps
  <2>2. call' = [call EXCEPT ![c] = new] /\ call[c].op = "none" /\ adminMutex' = adminMutex
    BY <1>9 DEF Query
  <2> HIDE DEF new
  <2>3. belief' \in [AdminPeers -> [{"transport", "link"} -> {"none", "PUT", "DELETE"}]] /\ overtaken' = {}
        /\ synced' \in BOOLEAN
    BY <1>9 DEF Query, AdminTypes
  <2>4. AdminTypes'
    BY <1>0, <1>9, <2>1, <2>2, <2>3 DEF Query, AdminTypes
  <2>5. HolderInv'
    BY <1>0, <2>1, <2>2 DEF HolderInv
  <2>q. QED
    BY <2>4, <2>5
<1>10. ASSUME NEW c \in AdminCallers, QueryReads(c) PROVE AdminTypes' /\ HolderInv'
  <2>1. PICK r \in SUBSET AdminPeers :
            call' = [call EXCEPT ![c] = [op |-> call[c].op, todo |-> Tail(call[c].todo), read |-> r]]
    BY <1>10, ReadLemma DEF QueryReads, AdminTypes
  <2>2. call[c].op = "query" /\ call[c].todo # << >> /\ adminMutex' = adminMutex
    BY <1>10 DEF QueryReads, Doing
  <2>3. Tail(call[c].todo) \in QuerySteps
    BY <2>2, TailLemma
  <2>4. AdminTypes'
    <3>1. [op |-> call[c].op, todo |-> Tail(call[c].todo), read |-> r] \in AdminRecs
      BY <2>2, <2>3 DEF AdminRecs
    <3>2. call' \in [AdminCallers -> AdminRecs]
      BY <1>0, <2>1, <3>1
    <3>q. QED
      BY <1>10, <3>2 DEF QueryReads, AdminTypes
  <2>5. HolderInv'
    BY <1>0, <2>1, <2>2, <2>3 DEF HolderInv
  <2>q. QED
    BY <2>4, <2>5
<1>11. ASSUME NEW c \in AdminCallers, QueryReplies(c) PROVE AdminTypes' /\ HolderInv'
  <2>1. call' = [call EXCEPT ![c] = Idle] /\ adminMutex' = adminMutex /\ Idle.op = "none" /\ call[c].op = "query"
    BY <1>11 DEF QueryReplies, Idle, Reading
  <2>2. belief' \in [AdminPeers -> [{"transport", "link"} -> {"none", "PUT", "DELETE"}]]
    BY <1>11 DEF QueryReplies, AdminTypes
  <2>3. AdminTypes'
    BY <1>0, <1>11, <2>1, <2>2 DEF QueryReplies, AdminTypes
  <2>4. HolderInv'
    BY <1>0, <2>1 DEF HolderInv
  <2>q. QED
    BY <2>3, <2>4
<1>12. CASE Close
  <2>1. closeStep' \in CloseSteps /\ ids' \in [Kinds -> Nat]
    BY <1>12 DEF Close, CloseTo, CloseSteps, AdminTypes
  <2>q. QED
    BY <1>12, <2>1 DEF Close, AdminTypes, HolderInv
<1>13. ASSUME NEW p \in AdminPeers, PeerChange(p) PROVE AdminTypes' /\ HolderInv'
  <2>1. linked' \subseteq AdminPeers
    BY <1>13 DEF PeerChange, AdminTypes
  <2>q. QED
    BY <1>13, <2>1 DEF PeerChange, AdminTypes, HolderInv
<1>14. CASE CloneListeners
    BY <1>14 DEF CloneListeners, AdminTypes, HolderInv
<1>15. CASE Publish
  <2>1. PICK p \in AdminPeers, of \in {"transport", "link"}, event \in {"PUT", "DELETE"} :
            Head(due) = <<event, p, of>>
    BY <1>15, HeadDue DEF Publish, AdminTypes
  <2>2. belief' \in [AdminPeers -> [{"transport", "link"} -> {"none", "PUT", "DELETE"}]]
    <3>1. belief' = belief \/ belief' = [belief EXCEPT ![p] = [belief[p] EXCEPT ![of] = event]]
      BY <1>15, <2>1 DEF Publish
    <3>2. [belief[p] EXCEPT ![of] = event] \in [{"transport", "link"} -> {"none", "PUT", "DELETE"}]
      BY DEF AdminTypes
    <3>q. QED
      BY <3>1, <3>2 DEF AdminTypes
  <2>3. overtaken' \subseteq AdminPeers
    BY <1>15, <2>1 DEF Publish, AdminTypes
  <2>q. QED
    BY <1>15, <2>2, <2>3 DEF Publish, AdminTypes, HolderInv
<1>16. CASE UNCHANGED adminVars
    BY <1>16 DEF adminVars, AdminTypes, HolderInv
<1>q. QED
    BY <1>1, <1>2, <1>3, <1>4, <1>5, <1>6, <1>7, <1>8, <1>9, <1>10, <1>11, <1>12, <1>13, <1>14, <1>15, <1>16
    DEF AdminNext, AdminCall

\* What the holder of the mutex has got to is all there is to say of a session while
\* the mutex is held.
LEMMA WholeFor ==
    ASSUME NEW c \in AdminCallers, HolderInv', adminMutex' = c,
           IsOpen' => /\ call'[c].op = "start" => StartedSoFar(c)'
                      /\ call'[c].op \in {"stop", "undo"} => StoppedSoFar(c)'
    PROVE  WholeInv'
<1>1. \A d \in AdminCallers : call'[d].op \in {"start", "stop", "undo"} => d = c
    BY DEF HolderInv
<1>2. adminMutex' # Nobody
    BY AdminAssumption
<1>3. IsOpen' => \A d \in AdminCallers : /\ call'[d].op = "start" => StartedSoFar(d)'
                                         /\ call'[d].op \in {"stop", "undo"} => StoppedSoFar(d)'
    BY <1>1
<1>q. QED
    BY <1>2, <1>3 DEF WholeInv

\* Steps that leave the declarations and those who declare alone.
LEMMA WholeKeeps ==
    ASSUME WholeInv, adminMutex' = adminMutex, ids' = ids, entries' = entries, fresh' = fresh, unsent' = unsent,
           closeStep' = closeStep,
           \A d \in AdminCallers : call'[d].op \in {"start", "stop", "undo"} => call'[d] = call[d]
    PROVE  WholeInv'
BY DEF WholeInv, IsOpen, Exact, OnlyOn, Stuck, StartedSoFar, StoppedSoFar

\* A step that takes one kind away.
LEMMA StoppedLess ==
    ASSUME AdminTypes, HolderInv, HolderInv', WholeInv, NEW c \in AdminCallers, NEW kind \in Kinds,
           call[c].op \in {"stop", "undo"}, call[c].todo # << >>, Head(call[c].todo) = kind, call' = CrossOff(c),
           adminMutex' = adminMutex, closeStep' = closeStep,
           IsOpen => \/ /\ entries' = entries \ {Entry(kind, ids[kind])} /\ ids' = [ids EXCEPT ![kind] = 0]
                        /\ unsent' = unsent /\ (Stuck => Stuck')
                     \/ Stuck'
    PROVE  WholeInv'
<1>1. adminMutex' = c /\ call[c].todo \in StopSteps
    BY DEF HolderInv, StopSteps
<1>2. call'[c].op = call[c].op /\ call'[c].todo = Tail(call[c].todo)
    BY CrossOffLemma
<1>3. PICK S \in SUBSET Kinds : S = Elems(call[c].todo)
    BY <1>1, StopStepsLemma
<1>4. kind \in S /\ Elems(call'[c].todo) = S \ {kind}
    BY <1>1, <1>2, <1>3, StopStepsLemma
<1>5. IsOpen' => StoppedSoFar(c)'
  <2> SUFFICES ASSUME IsOpen, ~Stuck' PROVE Exact(Elems(call[c].todo))'
    BY DEF IsOpen, StoppedSoFar
  <2>1. /\ entries' = entries \ {Entry(kind, ids[kind])} /\ ids' = [ids EXCEPT ![kind] = 0] /\ ~Stuck
    OBVIOUS
  <2>2. Exact(S)
    BY <1>3, <2>1 DEF WholeInv, StoppedSoFar
  <2>3. Exact(S \ {kind})'
    BY <1>4, <2>1, <2>2, ExactRemove DEF AdminTypes
  <2>q. QED
    BY <1>4, <2>3
<1>q. QED
    BY <1>1, <1>2, <1>5, WholeFor

\* The admin space of an open session is there as far as its operation has got.
LEMMA WholeStep ==
    AdminTypes /\ HolderInv /\ HolderInv' /\ WholeInv /\ [AdminNext]_adminVars => WholeInv'
<1> SUFFICES ASSUME AdminTypes, HolderInv, HolderInv', WholeInv, [AdminNext]_adminVars PROVE WholeInv'
    OBVIOUS
<1>0. call \in [AdminCallers -> AdminRecs] /\ ids \in [Kinds -> Nat] /\ fresh \in Nat \ {0}
    BY DEF AdminTypes
<1>1. ASSUME NEW c \in AdminCallers, Start(c) PROVE WholeInv'
  <2>1. CASE ids["pico"] # 0
    BY <1>1, <2>1, WholeKeeps DEF Start
  <2>2. CASE ~(ids["pico"] # 0)
    <3>1. adminMutex = Nobody /\ adminMutex' = c /\ ids' = ids /\ entries' = entries /\ closeStep' = closeStep
      BY <1>1, <2>2 DEF Start
    <3>2. call'[c].op = "start" /\ call'[c].todo = <<"pico", "send", "session", "transport", "link">>
      BY <1>0, <1>1, <2>2 DEF Start
    <3>3. IsOpen => Exact({})
      BY <2>2, <3>1 DEF WholeInv, Exact, OnlyOn, Stuck, Kinds
    <3>4. Kinds \ Elems(call'[c].todo) = {} /\ call'[c].todo # << >> /\ Head(call'[c].todo) = "pico"
      BY <3>2, StartStepsLemma DEF StartSteps
    <3>5. IsOpen' => StartedSoFar(c)'
      BY <3>1, <3>3, <3>4 DEF StartedSoFar, IsOpen, Exact, OnlyOn
    <3>q. QED
      BY <3>1, <3>2, <3>5, WholeFor
  <2>q. QED
    BY <2>1, <2>2
<1>2. ASSUME NEW c \in AdminCallers, RegisterPico(c) PROVE WholeInv'
  <2>1. /\ call[c].op = "start" /\ call[c].todo # << >> /\ Head(call[c].todo) = "pico"
        /\ adminMutex' = adminMutex /\ ids' = ids /\ closeStep' = closeStep /\ adminMutex = c
        /\ call[c].todo \in StartSteps
    BY <1>2 DEF RegisterPico, Doing, HolderInv
  <2>2. IsOpen => Exact({})
    BY <2>1, StartStepsLemma DEF WholeInv, StartedSoFar
  <2>3. CASE entries' = entries \cup {Entry("pico", fresh)} /\ fresh' = fresh + 1 /\ call' = CrossOff(c)
    <3>1. call'[c].op = "start" /\ call'[c].todo # << >> /\ Head(call'[c].todo) = "send"
      BY <2>1, <2>3, CrossOffLemma, StartStepsLemma
    <3>2. IsOpen => entries' = {Entry("pico", fresh' - 1)} /\ OnlyOn({})' /\ fresh' > 1
      BY <1>0, <2>1, <2>2, <2>3 DEF Exact, OnlyOn
    <3>q. QED
      BY <2>1, <3>1, <3>2, WholeFor DEF StartedSoFar, IsOpen
  <2>4. CASE Fails(c, "pico") /\ UNCHANGED <<entries, fresh>>
    <3>1. call'[c].op = "undo" /\ Elems(call'[c].todo) = {}
      BY <2>1, <2>4, FailsKeeps, UndoLemma DEF Kinds
    <3>2. IsOpen => Exact({})'
      BY <2>1, <2>2, <2>4 DEF Exact, OnlyOn
    <3>q. QED
      BY <2>1, <3>1, <3>2, WholeFor DEF StoppedSoFar, IsOpen
  <2>q. QED
    BY <1>2, <2>3, <2>4 DEF RegisterPico
<1>3. ASSUME NEW c \in AdminCallers, SendPico(c) PROVE WholeInv'
  <2>1. /\ call[c].op = "start" /\ call[c].todo # << >> /\ Head(call[c].todo) = "send"
        /\ adminMutex' = adminMutex /\ closeStep' = closeStep /\ adminMutex = c /\ fresh' = fresh
        /\ call[c].todo \in StartSteps
    BY <1>3 DEF SendPico, Doing, HolderInv
  <2>2. IsOpen => OnlyOn({}) /\ entries = {Entry("pico", fresh - 1)} /\ fresh > 1
    BY <2>1 DEF WholeInv, StartedSoFar
  <2>3. CASE ids' = [ids EXCEPT !["pico"] = fresh - 1] /\ call' = CrossOff(c) /\ UNCHANGED entries
    <3>1. /\ call'[c].op = "start" /\ call'[c].todo # << >> /\ Head(call'[c].todo) = "session"
          /\ Kinds \ Elems(call'[c].todo) = {"pico"}
      BY <2>1, <2>3, CrossOffLemma, StartStepsLemma
    <3>2. IsOpen => Exact({"pico"})'
      <4> SUFFICES ASSUME IsOpen PROVE Exact({"pico"})'
        OBVIOUS
      <4>1. ids'["pico"] = fresh - 1 /\ fresh - 1 # 0 /\ \A k \in Kinds \ {"pico"} : ids'[k] = 0
        BY <1>0, <2>2, <2>3 DEF OnlyOn, Kinds
      <4>2. OnlyOn({"pico"})'
        BY <4>1 DEF OnlyOn
      <4>3. entries' = {Entry(k, ids'[k]) : k \in {"pico"}}
        BY <2>2, <2>3, <4>1
      <4>q. QED
        BY <4>2, <4>3 DEF Exact
    <3>3. IsOpen' => StartedSoFar(c)'
      BY <2>1, <3>1, <3>2 DEF StartedSoFar, IsOpen
    <3>q. QED
      BY <2>1, <3>1, <3>3, WholeFor
  <2>4. CASE entries' = entries \ {Entry("pico", fresh - 1)} /\ Fails(c, "send") /\ UNCHANGED ids
    <3>1. call'[c].op = "undo" /\ Elems(call'[c].todo) = {}
      <4>1. "send" \in Kinds \cup {"send"}
        OBVIOUS
      <4>2. call'[c] = [op |-> "undo", todo |-> Undo("send"), read |-> {}]
        BY <2>1, <2>4, <4>1, FailsKeeps
      <4>q. QED
        BY <4>1, <4>2, UndoLemma
    <3>2. IsOpen => Exact({})'
      BY <2>1, <2>2, <2>4 DEF Exact, OnlyOn
    <3>q. QED
      BY <2>1, <3>1, <3>2, WholeFor DEF StoppedSoFar, IsOpen
  <2>q. QED
    BY <1>3, <2>3, <2>4 DEF SendPico
<1>4. ASSUME NEW c \in AdminCallers, NEW kind \in Kinds \ {"pico"}, DeclareLocal(c, kind) PROVE WholeInv'
  <2>1. /\ call[c].op = "start" /\ call[c].todo # << >> /\ Head(call[c].todo) = kind
        /\ adminMutex' = adminMutex /\ closeStep' = closeStep /\ adminMutex = c /\ call[c].todo \in StartSteps
    BY <1>4 DEF DeclareLocal, Doing, HolderInv
  <2>2. kind \in {"session", "transport", "link"} /\ kind # "send"
    BY DEF Kinds
  <2>3. PICK S \in SUBSET Kinds : S = Kinds \ Elems(call[c].todo)
    OBVIOUS
  <2>4. /\ kind \notin S /\ "pico" \in S /\ (kind = "session" => S \subseteq Queryables)
        /\ Kinds \ Elems(Tail(call[c].todo)) = S \cup {kind}
        /\ Tail(call[c].todo) # << >> => Head(Tail(call[c].todo)) # "send"
    <3> DEFINE s == call[c].todo
    <3>1. CASE kind = "session"
      <4>1. S = {"pico"} /\ Kinds \ Elems(Tail(s)) = {"pico", "session"} /\ Head(Tail(s)) = "transport"
        BY <2>1, <2>3, <3>1, StartStepsLemma
      <4>q. QED
        BY <3>1, <4>1 DEF Queryables
    <3>2. CASE kind = "transport"
      <4>1. S = {"pico", "session"} /\ Kinds \ Elems(Tail(s)) = {"pico", "session", "transport"} /\ Head(Tail(s)) = "link"
        BY <2>1, <2>3, <3>2, StartStepsLemma
      <4>q. QED
        BY <3>2, <4>1
    <3>3. CASE kind = "link"
      <4>1. S = {"pico", "session", "transport"} /\ Tail(s) = << >> /\ Tail(s) \in StartSteps
        BY <2>1, <2>3, <3>3, StartStepsLemma
      <4>2. Kinds \ Elems(Tail(s)) = Kinds
        BY <4>1, StartStepsLemma
      <4>q. QED
        BY <3>3, <4>1, <4>2 DEF Kinds
    <3>q. QED
      BY <2>2, <3>1, <3>2, <3>3
  <2>5. IsOpen => Exact(S)
    BY <2>1, <2>2, <2>3 DEF WholeInv, StartedSoFar
  <2>6. CASE /\ IsOpen /\ entries' = entries \cup {Entry(kind, fresh)}
             /\ ids' = [k \in Kinds |-> IF k = kind THEN fresh
                                        ELSE IF kind = "session" /\ k \notin Queryables THEN 0 ELSE ids[k]]
             /\ call' = CrossOff(c)
    <3>1. call'[c].op = "start" /\ call'[c].todo = Tail(call[c].todo)
      BY <2>1, <2>6, CrossOffLemma
    <3>2. /\ ids' \in [Kinds -> Nat] /\ ids'[kind] = fresh
          /\ \A j \in Kinds \ {kind} : ids'[j] = ids[j] \/ (ids'[j] = 0 /\ j \notin S)
      BY <1>0, <2>4, <2>6
    <3>3. Exact(S \cup {kind})'
      BY <1>0, <2>4, <2>5, <2>6, <3>2, ExactAdd
    <3>4. StartedSoFar(c)'
      BY <2>4, <3>1, <3>3 DEF StartedSoFar
    <3>q. QED
      BY <2>1, <3>1, <3>4, WholeFor
  <2>7. CASE Fails(c, kind) /\ UNCHANGED <<ids, entries, fresh>>
    <3>1. call'[c].op = "undo" /\ Elems(call'[c].todo) = S
      <4>1. call'[c] = [op |-> "undo", todo |-> Undo(kind), read |-> {}]
        BY <2>1, <2>7, FailsKeeps
      <4>2. Elems(Undo(kind)) = S
        BY <2>1, <2>2, <2>3, UndoLemma, StartStepsLemma
      <4>q. QED
        BY <4>1, <4>2
    <3>2. IsOpen => Exact(S)'
      BY <2>5, <2>7 DEF Exact, OnlyOn
    <3>q. QED
      BY <2>1, <3>1, <3>2, WholeFor DEF StoppedSoFar, IsOpen
  <2>q. QED
    BY <1>4, <2>6, <2>7 DEF DeclareLocal
<1>5. ASSUME NEW c \in AdminCallers, Stop(c) PROVE WholeInv'
  <2>1. CASE \A k \in Kinds : ids[k] = 0
    BY <1>5, <2>1, WholeKeeps DEF Stop
  <2>2. CASE ~(\A k \in Kinds : ids[k] = 0)
    <3>1. /\ adminMutex = Nobody /\ adminMutex' = c /\ ids' = ids /\ entries' = entries /\ closeStep' = closeStep
          /\ unsent' = unsent
      BY <1>5, <2>2 DEF Stop
    <3>2. call'[c].op = "stop" /\ call'[c].todo = <<"transport", "link", "session", "pico">>
      BY <1>0, <1>5, <2>2 DEF Stop
    <3>3. IsOpen => Exact(Kinds) \/ Stuck
      BY <2>2, <3>1 DEF WholeInv, Exact, OnlyOn
    <3>4. Elems(call'[c].todo) = Kinds
      BY <3>2 DEF Elems, Kinds
    <3>5. IsOpen' => StoppedSoFar(c)'
      BY <3>1, <3>3, <3>4 DEF StoppedSoFar, IsOpen, Exact, OnlyOn, Stuck
    <3>q. QED
      BY <3>1, <3>2, <3>5, WholeFor
  <2>q. QED
    BY <2>1, <2>2
<1>6. ASSUME NEW c \in AdminCallers, NEW kind \in {"transport", "link"}, UndeclareListener(c, kind) PROVE WholeInv'
  <2>1. /\ call[c].op \in {"stop", "undo"} /\ call[c].todo # << >> /\ Head(call[c].todo) = kind
        /\ adminMutex' = adminMutex /\ call' = CrossOff(c) /\ closeStep' = closeStep /\ unsent' = unsent
        /\ entries' = entries \ {Entry(kind, ids[kind])} /\ ids' = [ids EXCEPT ![kind] = 0]
    BY <1>6 DEF UndeclareListener, Doing
  <2>2. kind \in Kinds
    BY DEF Kinds
  <2>3. Stuck => Stuck'
    BY <1>0, <2>1 DEF Stuck, OnlyOn
  <2>q. QED
    BY <2>1, <2>2, <2>3, StoppedLess
<1>7. ASSUME NEW c \in AdminCallers, NEW kind \in Queryables, UndeclareQueryable(c, kind) PROVE WholeInv'
  <2>1. /\ call[c].op \in {"stop", "undo"} /\ call[c].todo # << >> /\ Head(call[c].todo) = kind
        /\ adminMutex' = adminMutex /\ call' = CrossOff(c) /\ closeStep' = closeStep /\ kind \in Kinds
        /\ call[c].todo \in StopSteps
    BY <1>7 DEF UndeclareQueryable, Doing, Queryables, Kinds, HolderInv, StopSteps
  <2>2. CASE ~IsOpen
    BY <2>1, <2>2, StoppedLess
  <2>3. CASE IsOpen /\ Stuck
    <3>1. ids' = ids /\ entries' = entries /\ unsent' = unsent
      BY <1>7, <2>3 DEF UndeclareQueryable, Stuck
    <3>2. Stuck'
      BY <2>3, <3>1 DEF Stuck, OnlyOn
    <3>q. QED
      BY <2>1, <3>2, StoppedLess
  <2>4. CASE IsOpen /\ ~Stuck
    <3>1. Exact(Elems(call[c].todo)) /\ kind \in Elems(call[c].todo)
      BY <2>1, <2>4, StopStepsLemma DEF WholeInv, StoppedSoFar
    <3>2. Entry(kind, ids[kind]) \in entries
      BY <3>1 DEF Exact
    <3>3. entries' = entries \ {Entry(kind, ids[kind])}
      BY <1>7, <2>4, <3>2 DEF UndeclareQueryable
    <3>4. CASE ids' = [ids EXCEPT ![kind] = 0] /\ unsent' = unsent
      BY <2>1, <2>4, <3>3, <3>4, StoppedLess
    <3>5. CASE kind = "pico" /\ unsent' = TRUE /\ ids' = ids
      <4>1. call[c].todo = <<"pico">>
        BY <2>1, <3>5 DEF StopSteps, UndoSteps
      <4>2. Elems(call[c].todo) = {"pico"}
        BY <4>1 DEF Elems
      <4>3. Stuck'
        BY <3>1, <3>3, <3>5, <4>2 DEF Stuck, Exact, OnlyOn
      <4>q. QED
        BY <2>1, <4>3, StoppedLess
    <3>q. QED
      BY <1>7, <2>4, <3>2, <3>4, <3>5 DEF UndeclareQueryable
  <2>q. QED
    BY <2>2, <2>3, <2>4
<1>8. ASSUME NEW c \in AdminCallers, Return(c) PROVE WholeInv'
  <2>1. /\ call' = [call EXCEPT ![c] = Idle] /\ Idle.op = "none" /\ adminMutex = c /\ call[c].todo = << >>
        /\ ids' = ids /\ entries' = entries /\ unsent' = unsent /\ closeStep' = closeStep /\ adminMutex' = Nobody
    BY <1>8 DEF Return, Idle, HolderInv
  <2>2. \A d \in AdminCallers : call'[d].op \notin {"start", "stop", "undo"}
    BY <2>1, AdminAssumption DEF HolderInv
  <2>3. Elems(call[c].todo) = {} /\ Kinds \ Elems(call[c].todo) = Kinds
    BY <2>1 DEF Elems
  <2>4. IsOpen => Exact({}) \/ Exact(Kinds) \/ Stuck
    BY <1>8, <2>1, <2>3 DEF Return, WholeInv, StartedSoFar, StoppedSoFar
  <2>5. IsOpen' => (Exact({}) \/ Exact(Kinds) \/ Stuck)'
    BY <2>1, <2>4 DEF IsOpen, Exact, OnlyOn, Stuck
  <2>q. QED
    BY <2>2, <2>5 DEF WholeInv
<1>9. ASSUME NEW c \in AdminCallers, Query(c) PROVE WholeInv'
  <2>1. \A d \in AdminCallers : call'[d].op \in {"start", "stop", "undo"} => call'[d] = call[d]
    BY <1>0, <1>9 DEF Query
  <2>q. QED
    BY <1>9, <2>1, WholeKeeps DEF Query
<1>10. ASSUME NEW c \in AdminCallers, QueryReads(c) PROVE WholeInv'
  <2>1. PICK r : call' = [call EXCEPT ![c] = [op |-> call[c].op, todo |-> Tail(call[c].todo), read |-> r]]
    BY <1>10, ReadLemma DEF QueryReads
  <2>2. call[c].op = "query"
    BY <1>10 DEF QueryReads, Doing
  <2>3. \A d \in AdminCallers : call'[d].op \in {"start", "stop", "undo"} => call'[d] = call[d]
    BY <1>0, <2>1, <2>2
  <2>q. QED
    BY <1>10, <2>3, WholeKeeps DEF QueryReads
<1>11. ASSUME NEW c \in AdminCallers, QueryReplies(c) PROVE WholeInv'
  <2>1. \A d \in AdminCallers : call'[d].op \in {"start", "stop", "undo"} => call'[d] = call[d]
    BY <1>0, <1>11 DEF QueryReplies, Idle
  <2>q. QED
    BY <1>11, <2>1, WholeKeeps DEF QueryReplies
<1>12. CASE Close
    BY <1>12 DEF Close, CloseTo, WholeInv, IsOpen
<1>13. ASSUME NEW p \in AdminPeers, PeerChange(p) PROVE WholeInv'
    BY <1>13, WholeKeeps DEF PeerChange
<1>14. CASE CloneListeners
    BY <1>14, WholeKeeps DEF CloneListeners
<1>15. CASE Publish
    BY <1>15, WholeKeeps DEF Publish
<1>16. CASE UNCHANGED adminVars
    BY <1>16, WholeKeeps DEF adminVars
<1>q. QED
    BY <1>1, <1>2, <1>3, <1>4, <1>5, <1>6, <1>7, <1>8, <1>9, <1>10, <1>11, <1>12, <1>13, <1>14, <1>15, <1>16
    DEF AdminNext, AdminCall

\* Nothing is declared twice: an open session has exactly what its operation has got
\* to, and a closed one declares nothing more.
LEMMA UniqueStep == WholeInv /\ WholeInv' /\ HolderInv' /\ AdminTypes' /\ UniqueInv /\ [AdminNext]_adminVars => UniqueInv'
<1> SUFFICES ASSUME WholeInv, WholeInv', HolderInv', AdminTypes', UniqueInv, [AdminNext]_adminVars PROVE UniqueInv'
    OBVIOUS
<1>1. CASE ~IsOpen'
  <2>1. entries' \subseteq entries
    <3>1. ASSUME NEW c \in AdminCallers, Start(c) \/ Stop(c) \/ Return(c) \/ Query(c) \/ QueryReads(c) \/ QueryReplies(c)
          PROVE  entries' = entries
      BY <3>1 DEF Start, Stop, Return, Query, QueryReads, QueryReplies
    <3>2. ASSUME NEW c \in AdminCallers, RegisterPico(c) PROVE entries' \subseteq entries
      BY <1>1, <3>2 DEF RegisterPico, IsOpen
    <3>3. ASSUME NEW c \in AdminCallers, SendPico(c) PROVE entries' \subseteq entries
      BY <3>3 DEF SendPico
    <3>4. ASSUME NEW c \in AdminCallers, NEW kind \in Kinds \ {"pico"}, DeclareLocal(c, kind) PROVE entries' \subseteq entries
      BY <1>1, <3>4 DEF DeclareLocal, IsOpen
    <3>5. ASSUME NEW c \in AdminCallers, NEW kind \in {"transport", "link"}, UndeclareListener(c, kind)
          PROVE  entries' \subseteq entries
      BY <3>5 DEF UndeclareListener
    <3>6. ASSUME NEW c \in AdminCallers, NEW kind \in Queryables, UndeclareQueryable(c, kind) PROVE entries' \subseteq entries
      BY <3>6 DEF UndeclareQueryable
    <3>7. CASE Close
      BY <3>7 DEF Close
    <3>8. CASE (\E p \in AdminPeers : PeerChange(p)) \/ CloneListeners \/ Publish \/ UNCHANGED adminVars
      BY <3>8 DEF PeerChange, CloneListeners, Publish, adminVars
    <3>q. QED
      BY <3>1, <3>2, <3>3, <3>4, <3>5, <3>6, <3>7, <3>8 DEF AdminNext, AdminCall
  <2>q. QED
    BY <2>1 DEF UniqueInv
<1>2. CASE IsOpen' /\ adminMutex' = Nobody
  <2>1. CASE Stuck'
    BY <2>1 DEF Stuck, UniqueInv
  <2>2. CASE Exact({})'
    BY <2>2 DEF Exact, UniqueInv, Entry
  <2>3. CASE Exact(Kinds)'
    BY <2>3 DEF Exact, UniqueInv, Entry
  <2>q. QED
    BY <1>2, <2>1, <2>2, <2>3 DEF WholeInv
<1>3. CASE IsOpen' /\ adminMutex' # Nobody
  <2>1. PICK c \in AdminCallers : call'[c].op \in {"start", "stop", "undo"}
    BY <1>3 DEF HolderInv, AdminTypes
  <2>2. CASE Stuck' \/ entries' = {Entry("pico", fresh' - 1)}
    BY <2>2 DEF Stuck, UniqueInv
  <2>3. CASE Exact(Kinds \ Elems(call[c].todo))'
    BY <2>3 DEF Exact, UniqueInv, Entry
  <2>4. CASE Exact(Elems(call[c].todo))'
    BY <2>4 DEF Exact, UniqueInv, Entry
  <2>q. QED
    BY <1>3, <2>1, <2>2, <2>3, <2>4 DEF WholeInv, StartedSoFar, StoppedSoFar
<1>q. QED
    BY <1>1, <1>2, <1>3

\* Nothing outlives the session: what is still being started when the ids are
\* cleared is not declared yet, and never will be.
LEMMA ClosingStep ==
    AdminTypes /\ HolderInv /\ HolderInv' /\ ClosingInv /\ [AdminNext]_adminVars => ClosingInv'
<1> SUFFICES ASSUME AdminTypes, HolderInv, HolderInv', ClosingInv, [AdminNext]_adminVars PROVE ClosingInv'
    OBVIOUS
<1>0. call \in [AdminCallers -> AdminRecs] /\ ids \in [Kinds -> Nat] /\ closeStep \in CloseSteps
    BY DEF AdminTypes
<1> DEFINE Late == closeStep \in {"waiting", "done"}
<1>1. ASSUME NEW c \in AdminCallers, Start(c) PROVE ClosingInv'
  <2>1. CASE ids["pico"] # 0
    BY <1>1, <2>1 DEF Start, ClosingInv, OnlyOn
  <2>2. CASE ~(ids["pico"] # 0)
    <3>1. call'[c].op = "start" /\ call'[c].todo # << >> /\ Head(call'[c].todo) = "pico"
          /\ \A d \in AdminCallers \ {c} : call'[d] = call[d]
      BY <1>0, <1>1, <2>2 DEF Start
    <3>q. QED
      BY <1>1, <3>1 DEF Start, ClosingInv, OnlyOn
  <2>q. QED
    BY <2>1, <2>2
<1>2. ASSUME NEW c \in AdminCallers, RegisterPico(c) PROVE ClosingInv'
  <2>1. CASE IsOpen
    BY <1>2, <2>1 DEF RegisterPico, ClosingInv, IsOpen
  <2>2. CASE ~IsOpen
    <3>1. call[c].op = "start" /\ Fails(c, "pico") /\ adminMutex' = adminMutex /\ UNCHANGED <<ids, entries, due, closeStep>>
      BY <1>2, <2>2 DEF RegisterPico, Doing
    <3>2. "pico" \in Kinds \cup {"send"}
      BY DEF Kinds
    <3>3. /\ call'[c] = [op |-> "undo", todo |-> Undo("pico"), read |-> {}]
          /\ \A d \in AdminCallers \ {c} : call'[d] = call[d]
      BY <3>1, <3>2, FailsKeeps
    <3>q. QED
      BY <3>1, <3>3 DEF ClosingInv, OnlyOn
  <2>q. QED
    BY <2>1, <2>2
<1>3. ASSUME NEW c \in AdminCallers, SendPico(c) PROVE ClosingInv'
  <2>1. ~Late
    BY <1>3 DEF SendPico, Doing, ClosingInv
  <2>q. QED
    BY <1>3, <2>1 DEF SendPico, ClosingInv
<1>4. ASSUME NEW c \in AdminCallers, NEW kind \in Kinds \ {"pico"}, DeclareLocal(c, kind) PROVE ClosingInv'
  <2>1. ~Late
    BY <1>4 DEF DeclareLocal, Doing, ClosingInv
  <2>q. QED
    BY <1>4, <2>1 DEF DeclareLocal, ClosingInv, IsOpen
<1>5. ASSUME NEW c \in AdminCallers, Stop(c) PROVE ClosingInv'
  <2>1. \A d \in AdminCallers : call'[d].op = "start" => call'[d] = call[d]
    BY <1>0, <1>5 DEF Stop
  <2>q. QED
    BY <1>5, <2>1 DEF Stop, ClosingInv, OnlyOn
<1>6. ASSUME NEW c \in AdminCallers, NEW kind \in {"transport", "link"}, UndeclareListener(c, kind) PROVE ClosingInv'
  <2>1. call' = CrossOff(c) /\ call[c].op # "start"
    BY <1>6 DEF UndeclareListener, Doing
  <2>2. \A d \in AdminCallers : call'[d].op = "start" => call'[d] = call[d]
    BY <2>1, CrossOffLemma
  <2>3. Late => OnlyOn({})'
    BY <1>0, <1>6 DEF UndeclareListener, ClosingInv, OnlyOn
  <2>4. entries = {} => entries' = {}
    BY <1>6 DEF UndeclareListener
  <2>q. QED
    BY <1>6, <2>2, <2>3, <2>4 DEF UndeclareListener, ClosingInv
<1>7. ASSUME NEW c \in AdminCallers, NEW kind \in Queryables, UndeclareQueryable(c, kind) PROVE ClosingInv'
  <2>1. call' = CrossOff(c) /\ call[c].op # "start"
    BY <1>7 DEF UndeclareQueryable, Doing
  <2>2. \A d \in AdminCallers : call'[d].op = "start" => call'[d] = call[d]
    BY <2>1, CrossOffLemma
  <2>3. Late => ids' = ids
    BY <1>7 DEF UndeclareQueryable, IsOpen
  <2>4. entries = {} => entries' = {}
    BY <1>7 DEF UndeclareQueryable
  <2>q. QED
    BY <1>7, <2>2, <2>3, <2>4 DEF UndeclareQueryable, ClosingInv, OnlyOn
<1>8. ASSUME NEW c \in AdminCallers, Return(c) \/ QueryReplies(c) PROVE ClosingInv'
  <2>1. \A d \in AdminCallers : call'[d].op = "start" => call'[d] = call[d]
    BY <1>0, <1>8 DEF Return, QueryReplies, Idle
  <2>q. QED
    BY <1>8, <2>1 DEF Return, QueryReplies, ClosingInv, OnlyOn
<1>9. ASSUME NEW c \in AdminCallers, Query(c) PROVE ClosingInv'
    BY <1>9 DEF Query, ClosingInv, IsOpen
<1>10. ASSUME NEW c \in AdminCallers, QueryReads(c) PROVE ClosingInv'
  <2>1. PICK r : call' = [call EXCEPT ![c] = [op |-> call[c].op, todo |-> Tail(call[c].todo), read |-> r]]
    BY <1>10, ReadLemma DEF QueryReads
  <2>2. call[c].op = "query"
    BY <1>10 DEF QueryReads, Doing
  <2>3. \A d \in AdminCallers : call'[d].op = "start" => call'[d] = call[d]
    BY <1>0, <2>1, <2>2
  <2>q. QED
    BY <1>10, <2>3 DEF QueryReads, ClosingInv, OnlyOn
<1>11. CASE Close
  <2>1. CASE CloseTo("open", "closed") \/ CloseTo("closed", "stopped")
    BY <1>11, <2>1 DEF Close, CloseTo, ClosingInv
  <2>2. CASE CloseTo("stopped", "flushed")
    BY <1>11, <2>2 DEF Close, CloseTo, ClosingInv
  <2>3. CASE CloseTo("flushed", "cleared")
    BY <1>11, <2>3 DEF Close, CloseTo, ClosingInv
  <2>4. CASE CloseTo("cleared", "waiting")
    <3>1. /\ adminMutex = Nobody /\ ids' = [k \in Kinds |-> 0] /\ call' = call /\ due' = due /\ entries' = entries
          /\ closeStep = "cleared" /\ closeStep' = "waiting"
      BY <1>11, <2>4 DEF Close, CloseTo
    <3>2. \A c \in AdminCallers : call[c].op # "start"
      BY <3>1, AdminAssumption DEF HolderInv
    <3>q. QED
      BY <3>1, <3>2 DEF ClosingInv, OnlyOn
  <2>5. CASE CloseTo("waiting", "done")
    BY <1>11, <2>5 DEF Close, CloseTo, ClosingInv, OnlyOn
  <2>q. QED
    BY <1>11, <2>1, <2>2, <2>3, <2>4, <2>5 DEF Close
<1>12. ASSUME NEW p \in AdminPeers, PeerChange(p) PROVE ClosingInv'
    BY <1>12 DEF PeerChange, ClosingInv
<1>13. CASE CloneListeners
    BY <1>13 DEF CloneListeners, ClosingInv, OnlyOn
<1>14. CASE Publish
  <2>1. closeStep \in {"open", "closed"}
    BY <1>0, <1>14 DEF Publish, ClosingInv
  <2>q. QED
    BY <1>14, <2>1 DEF Publish, ClosingInv
<1>15. CASE UNCHANGED adminVars
    BY <1>15 DEF adminVars, ClosingInv, OnlyOn
<1>q. QED
    BY <1>1, <1>2, <1>3, <1>4, <1>5, <1>6, <1>7, <1>8, <1>9, <1>10, <1>11, <1>12, <1>13, <1>14, <1>15
    DEF AdminNext, AdminCall

\* An event is dispatched for the listeners of its moment, then it is dropped.
LEMMA TailDue ==
    ASSUME DueInv, linked \subseteq AdminPeers, due # << >>, due' = Tail(due), linked' = linked, informed' = {Nobody}
    PROVE  DueInv'
<1>0. \A a, b : Tail(<<a, b>>) = <<b>> /\ Tail(<<b>>) = << >>
    OBVIOUS
<1>1. CASE \E p \in linked : due \in {<< <<"PUT", p, "transport">>, <<"PUT", p, "link">> >>, << <<"PUT", p, "link">> >>}
  <2>1. PICK p \in linked : due \in {<< <<"PUT", p, "transport">>, <<"PUT", p, "link">> >>, << <<"PUT", p, "link">> >>}
    BY <1>1
  <2>2. due' \in {<< <<"PUT", p, "link">> >>, << >>}
    BY <1>0, <2>1, Zenon
  <2>q. QED
    BY <2>2 DEF DueInv
<1>2. CASE \E p \in AdminPeers \ linked :
              due \in {<< <<"DELETE", p, "link">>, <<"DELETE", p, "transport">> >>, << <<"DELETE", p, "transport">> >>}
  <2>1. PICK p \in AdminPeers \ linked :
              due \in {<< <<"DELETE", p, "link">>, <<"DELETE", p, "transport">> >>, << <<"DELETE", p, "transport">> >>}
    BY <1>2
  <2>2. due' \in {<< <<"DELETE", p, "transport">> >>, << >>}
    BY <1>0, <2>1, Zenon
  <2>q. QED
    BY <2>2 DEF DueInv
<1>q. QED
    BY <1>1, <1>2 DEF DueInv

\* The events that wait are those of the last peer that came or went.
LEMMA DueStep == AdminTypes /\ DueInv /\ [AdminNext]_adminVars => DueInv'
<1> SUFFICES ASSUME AdminTypes, DueInv, [AdminNext]_adminVars PROVE DueInv'
    OBVIOUS
<1>1. ASSUME NEW c \in AdminCallers, AdminCall(c) PROVE DueInv'
  <2>1. UNCHANGED <<due, informed, linked>>
    BY <1>1 DEF AdminCall, Start, RegisterPico, SendPico, DeclareLocal, Stop, UndeclareListener, UndeclareQueryable,
                Return, Query, QueryReads, QueryReplies
  <2>q. QED
    BY <2>1 DEF DueInv
<1>2. CASE Close
  <2>1. UNCHANGED <<due, informed, linked>>
    BY <1>2 DEF Close
  <2>q. QED
    BY <2>1 DEF DueInv
<1>3. ASSUME NEW p \in AdminPeers, PeerChange(p) PROVE DueInv'
  <2>1. CASE p \in linked' /\ due' = << <<"PUT", p, "transport">>, <<"PUT", p, "link">> >>
    BY <2>1 DEF DueInv
  <2>2. CASE p \notin linked' /\ due' = << <<"DELETE", p, "link">>, <<"DELETE", p, "transport">> >>
    BY <2>2 DEF DueInv
  <2>q. QED
    BY <1>3, <2>1, <2>2 DEF PeerChange
<1>4. CASE CloneListeners
    BY <1>4 DEF CloneListeners, DueInv
<1>5. CASE Publish
    BY <1>5, TailDue DEF Publish, AdminTypes
<1>6. CASE UNCHANGED adminVars
    BY <1>6 DEF adminVars, DueInv
<1>q. QED
    BY <1>1, <1>2, <1>3, <1>4, <1>5, <1>6 DEF AdminNext

\* An observer that is in step keeps its admin space running, one thread at a time
\* queries, and nothing overtakes a query that has not read the peers.
LEMMA SyncStep ==
    AdminTypes /\ HolderInv /\ HolderInv' /\ WholeInv /\ SyncInv /\ [AdminNext]_adminVars => SyncInv'
<1> SUFFICES ASSUME AdminTypes, HolderInv, HolderInv', WholeInv, SyncInv, [AdminNext]_adminVars PROVE SyncInv'
    OBVIOUS
<1>0. call \in [AdminCallers -> AdminRecs] /\ ids \in [Kinds -> Nat]
    BY DEF AdminTypes
<1>A. ASSUME NEW c \in AdminCallers, adminMutex = c, UNCHANGED <<synced, closeStep, overtaken>>,
             \A d \in AdminCallers : call'[d].op = "query" => call'[d] = call[d]
      PROVE  SyncInv'
  <2>1. ~(synced /\ IsOpen)
    BY <1>A, AdminAssumption DEF SyncInv, Running
  <2>q. QED
    BY <1>A, <2>1 DEF SyncInv, IsOpen, Querying, AboutToRead, Doing
<1>B. ASSUME NEW c \in AdminCallers, adminMutex = c, call[c].op \in {"start", "stop", "undo"}, call' = CrossOff(c),
             UNCHANGED <<synced, closeStep, overtaken>>
      PROVE  SyncInv'
  <2>1. \A d \in AdminCallers : call'[d].op = "query" => call'[d] = call[d]
    BY <1>B, CrossOffLemma
  <2>q. QED
    BY <1>A, <1>B, <2>1
<1>C. ASSUME NEW c \in AdminCallers, NEW kind, adminMutex = c, Fails(c, kind), UNCHANGED <<synced, closeStep, overtaken>>
      PROVE  SyncInv'
  <2>1. \A d \in AdminCallers : call'[d].op = "query" => call'[d] = call[d]
    BY <1>0, <1>C DEF Fails
  <2>q. QED
    BY <1>A, <1>C, <2>1
<1>D. ASSUME UNCHANGED <<synced, closeStep, overtaken, call, ids, adminMutex>> PROVE SyncInv'
    BY <1>D DEF SyncInv, IsOpen, Querying, AboutToRead, Doing, Running
<1>1. ASSUME NEW c \in AdminCallers, Start(c) PROVE SyncInv'
  <2>1. CASE ids["pico"] # 0
    BY <1>1, <2>1, <1>D DEF Start
  <2>2. CASE ~(ids["pico"] # 0)
    <3>1. ~(synced /\ IsOpen)
      BY <2>2 DEF SyncInv, Running, Kinds
    <3>2. \A d \in AdminCallers : call'[d].op = "query" => call'[d] = call[d]
      BY <1>0, <1>1, <2>2 DEF Start
    <3>q. QED
      BY <1>1, <3>1, <3>2 DEF Start, SyncInv, IsOpen, Querying, AboutToRead, Doing
  <2>q. QED
    BY <2>1, <2>2
<1>2. ASSUME NEW c \in AdminCallers, RegisterPico(c) \/ SendPico(c) PROVE SyncInv'
  <2>1. call[c].op = "start" /\ adminMutex = c /\ UNCHANGED <<synced, closeStep, overtaken>>
    BY <1>2 DEF RegisterPico, SendPico, Doing, HolderInv
  <2>2. call' = CrossOff(c) \/ Fails(c, "pico") \/ Fails(c, "send")
    BY <1>2 DEF RegisterPico, SendPico
  <2>q. QED
    BY <1>B, <1>C, <2>1, <2>2
<1>3. ASSUME NEW c \in AdminCallers, NEW kind \in Kinds \ {"pico"}, DeclareLocal(c, kind) PROVE SyncInv'
  <2>1. call[c].op = "start" /\ adminMutex = c /\ UNCHANGED <<synced, closeStep, overtaken>>
    BY <1>3 DEF DeclareLocal, Doing, HolderInv
  <2>2. call' = CrossOff(c) \/ Fails(c, kind)
    BY <1>3 DEF DeclareLocal
  <2>q. QED
    BY <1>B, <1>C, <2>1, <2>2
<1>4. ASSUME NEW c \in AdminCallers, Stop(c) PROVE SyncInv'
  <2>1. CASE \A k \in Kinds : ids[k] = 0
    BY <1>4, <2>1, <1>D DEF Stop
  <2>2. CASE ~(\A k \in Kinds : ids[k] = 0)
    <3>1. synced' = FALSE /\ \A d \in AdminCallers : call'[d].op = "query" => call'[d] = call[d]
      BY <1>0, <1>4, <2>2 DEF Stop
    <3>q. QED
      BY <1>4, <3>1 DEF Stop, SyncInv, IsOpen, Querying, AboutToRead, Doing
  <2>q. QED
    BY <2>1, <2>2
<1>5. ASSUME NEW c \in AdminCallers, NEW kind \in {"transport", "link"}, UndeclareListener(c, kind) PROVE SyncInv'
  <2>1. call[c].op \in {"stop", "undo"} /\ adminMutex = c /\ UNCHANGED <<synced, closeStep, overtaken>> /\ call' = CrossOff(c)
    BY <1>5 DEF UndeclareListener, Doing, HolderInv
  <2>q. QED
    BY <1>B, <2>1
<1>6. ASSUME NEW c \in AdminCallers, NEW kind \in Queryables, UndeclareQueryable(c, kind) PROVE SyncInv'
  <2>1. call[c].op \in {"stop", "undo"} /\ adminMutex = c /\ UNCHANGED <<synced, closeStep, overtaken>> /\ call' = CrossOff(c)
    BY <1>6 DEF UndeclareQueryable, Doing, HolderInv
  <2>q. QED
    BY <1>B, <2>1
<1>7. ASSUME NEW c \in AdminCallers, Return(c) PROVE SyncInv'
  <2>1. adminMutex = c /\ UNCHANGED <<synced, closeStep, overtaken>>
    BY <1>7 DEF Return, HolderInv
  <2>2. \A d \in AdminCallers : call'[d].op = "query" => call'[d] = call[d]
    BY <1>0, <1>7 DEF Return, Idle
  <2>q. QED
    BY <1>A, <2>1, <2>2
<1>8. ASSUME NEW c \in AdminCallers, Query(c) PROVE SyncInv'
  <2>1. \A d \in AdminCallers \ {c} : call'[d].op # "query"
    BY <1>0, <1>8 DEF Query
  <2>2. synced' /\ IsOpen' => Running'
    BY <1>8 DEF Query, SyncInv, IsOpen, Running
  <2>q. QED
    BY <1>8, <2>1, <2>2 DEF Query, SyncInv, Querying
<1>9. ASSUME NEW c \in AdminCallers, QueryReads(c) PROVE SyncInv'
  <2>1. PICK r : call' = [call EXCEPT ![c] = [op |-> call[c].op, todo |-> Tail(call[c].todo), read |-> r]]
    BY <1>9, ReadLemma DEF QueryReads
  <2>2. call[c].op = "query" /\ call[c].todo = <<"read">>
    BY <1>9 DEF QueryReads, Doing, HolderInv, QuerySteps
  <2>3. call'[c].op = "query" /\ call'[c].todo = << >> /\ \A d \in AdminCallers \ {c} : call'[d] = call[d]
    BY <1>0, <2>1, <2>2
  <2>4. UNCHANGED <<synced, closeStep, overtaken, ids, adminMutex>>
    BY <1>9 DEF QueryReads
  <2>5. \A d, e \in AdminCallers : (Querying(d) /\ Querying(e))' => d = e
    BY <2>2, <2>3 DEF SyncInv, Querying
  <2>6. \A d \in AdminCallers : AboutToRead(d)' => AboutToRead(d)
    BY <2>3 DEF AboutToRead, Doing
  <2>q. QED
    BY <2>4, <2>5, <2>6 DEF SyncInv, IsOpen, Running
<1>10. ASSUME NEW c \in AdminCallers, QueryReplies(c) PROVE SyncInv'
  <2>1. \A d \in AdminCallers : call'[d].op = "query" => call'[d] = call[d]
    BY <1>0, <1>10 DEF QueryReplies, Idle
  <2>q. QED
    BY <1>10, <2>1 DEF QueryReplies, SyncInv, IsOpen, Querying, AboutToRead, Doing, Running
<1>11. CASE Close
  <2>1. ~IsOpen' /\ UNCHANGED <<call, overtaken>>
    BY <1>11 DEF Close, CloseTo, IsOpen
  <2>q. QED
    BY <2>1 DEF SyncInv, Querying, AboutToRead, Doing
<1>12. ASSUME NEW p \in AdminPeers, PeerChange(p) PROVE SyncInv'
    BY <1>12, <1>D DEF PeerChange
<1>13. CASE CloneListeners
    BY <1>13, <1>D DEF CloneListeners
<1>14. CASE Publish
  <2>1. UNCHANGED <<synced, closeStep, call, ids, adminMutex>>
    BY <1>14 DEF Publish
  <2>2. Reading = {} => overtaken' = overtaken
    BY <1>14 DEF Publish
  <2>3. ASSUME NEW d \in AdminCallers, AboutToRead(d) PROVE Reading = {}
    BY <2>3 DEF SyncInv, Querying, AboutToRead, Doing, Reading
  <2>q. QED
    BY <2>1, <2>2, <2>3 DEF SyncInv, IsOpen, Querying, AboutToRead, Doing, Running
<1>15. CASE UNCHANGED adminVars
    BY <1>15, <1>D DEF adminVars
<1>q. QED
    BY <1>1, <1>2, <1>3, <1>4, <1>5, <1>6, <1>7, <1>8, <1>9, <1>10, <1>11, <1>12, <1>13, <1>14, <1>15
    DEF AdminNext, AdminCall

\* One event or two wait.
LEMMA DueShape ==
    ASSUME DueInv, due # << >>
    PROVE  \E a, b : due = <<a>> \/ due = <<a, b>>
BY DEF DueInv

\* What was coming is what is published, or it is still coming.
LEMMA StillComing ==
    ASSUME DueInv, due # << >>, due' = Tail(due), informed' = {Nobody}, NEW p, NEW of, EventComing(p, of)
    PROVE  (Head(due)[2] = p /\ Head(due)[3] = of /\ informed # {}) \/ EventComing(p, of)'
<1>1. PICK a, b : due = <<a>> \/ due = <<a, b>>
    BY DueShape
<1>2. CASE due = <<a>>
  <2>1. Head(due) = a /\ DOMAIN due = {1} /\ due[1] = a
    BY <1>2
  <2>q. QED
    BY <2>1 DEF EventComing
<1>3. CASE due = <<a, b>>
  <2>1. Head(due) = a /\ DOMAIN due = {1, 2} /\ due[1] = a /\ due[2] = b
    BY <1>3
  <2>2. due' = <<b>>
    BY <1>3
  <2>3. DOMAIN due' = {1} /\ due'[1] = b
    <3>1. \A x : DOMAIN <<x>> = {1} /\ <<x>>[1] = x
      OBVIOUS
    <3>q. QED
      BY <2>2, <3>1, Zenon
  <2>4. b[2] = p /\ b[3] = of => EventComing(p, of)'
    BY <2>3 DEF EventComing
  <2>q. QED
    BY <2>1, <2>4 DEF EventComing
<1>q. QED
    BY <1>1, <1>2, <1>3

\* Steps that leave the observer, its peers and its queries alone.
LEMMA AdminViewKeeps ==
    ASSUME AdminViewInv, synced' /\ IsOpen' => synced /\ IsOpen, overtaken' = overtaken, belief' = belief, linked' = linked,
           due' = due, informed' = informed,
           \A d \in AdminCallers : (call[d].op = "query" \/ call'[d].op = "query") => call'[d] = call[d]
    PROVE  AdminViewInv'
<1>1. \A p, of : EventComing(p, of) => EventComing(p, of)'
    BY DEF EventComing
<1>2. \A d \in AdminCallers : /\ Querying(d)' <=> Querying(d)
                              /\ AboutToRead(d)' => AboutToRead(d)
                              /\ d \in Reading' => d \in Reading /\ call'[d].read = call[d].read
    BY DEF Querying, AboutToRead, Doing, Reading
<1>3. \A p, of : Agrees(p, of) => Agrees(p, of)'
    BY <1>2 DEF Agrees
<1>q. QED
    BY <1>1, <1>3 DEF AdminViewInv

\* The query and the events fit together without a gap.
LEMMA AdminViewStep ==
    AdminTypes /\ HolderInv /\ WholeInv /\ DueInv /\ SyncInv /\ AdminViewInv /\ [AdminNext]_adminVars => AdminViewInv'
<1> SUFFICES ASSUME AdminTypes, HolderInv, WholeInv, DueInv, SyncInv, AdminViewInv, [AdminNext]_adminVars PROVE AdminViewInv'
    OBVIOUS
<1>0. /\ call \in [AdminCallers -> AdminRecs] /\ linked \subseteq AdminPeers
      /\ belief \in [AdminPeers -> [{"transport", "link"} -> {"none", "PUT", "DELETE"}]]
    BY DEF AdminTypes
<1>A. ASSUME ~(synced /\ IsOpen), UNCHANGED <<synced, closeStep>> PROVE AdminViewInv'
    BY <1>A DEF AdminViewInv, IsOpen
<1>B. ASSUME NEW c \in AdminCallers, adminMutex = c PROVE ~(synced /\ IsOpen)
    BY <1>B, AdminAssumption DEF SyncInv, Running
<1>1. ASSUME NEW c \in AdminCallers, Start(c) PROVE AdminViewInv'
  <2>1. CASE ids["pico"] # 0
    BY <1>1, <2>1, AdminViewKeeps DEF Start, IsOpen
  <2>2. CASE ~(ids["pico"] # 0)
    <3>1. ~(synced /\ IsOpen)
      BY <2>2 DEF SyncInv, Running, Kinds
    <3>q. QED
      BY <1>1, <1>A, <3>1 DEF Start
  <2>q. QED
    BY <2>1, <2>2
<1>2. ASSUME NEW c \in AdminCallers, RegisterPico(c) \/ SendPico(c) \/ Return(c) PROVE AdminViewInv'
  <2>1. adminMutex = c /\ UNCHANGED <<synced, closeStep>>
    BY <1>2 DEF RegisterPico, SendPico, Return, Doing, HolderInv
  <2>q. QED
    BY <1>A, <1>B, <2>1
<1>3. ASSUME NEW c \in AdminCallers, NEW kind \in Kinds \ {"pico"}, DeclareLocal(c, kind) PROVE AdminViewInv'
  <2>1. adminMutex = c /\ UNCHANGED <<synced, closeStep>>
    BY <1>3 DEF DeclareLocal, Doing, HolderInv
  <2>q. QED
    BY <1>A, <1>B, <2>1
<1>4. ASSUME NEW c \in AdminCallers, Stop(c) PROVE AdminViewInv'
  <2>1. CASE \A k \in Kinds : ids[k] = 0
    BY <1>4, <2>1, AdminViewKeeps DEF Stop, IsOpen
  <2>2. CASE ~(\A k \in Kinds : ids[k] = 0)
    BY <1>4, <2>2 DEF Stop, AdminViewInv
  <2>q. QED
    BY <2>1, <2>2
<1>5. ASSUME NEW c \in AdminCallers, NEW kind \in {"transport", "link"}, UndeclareListener(c, kind) PROVE AdminViewInv'
  <2>1. adminMutex = c /\ UNCHANGED <<synced, closeStep>>
    BY <1>5 DEF UndeclareListener, Doing, HolderInv
  <2>q. QED
    BY <1>A, <1>B, <2>1
<1>6. ASSUME NEW c \in AdminCallers, NEW kind \in Queryables, UndeclareQueryable(c, kind) PROVE AdminViewInv'
  <2>1. adminMutex = c /\ UNCHANGED <<synced, closeStep>>
    BY <1>6 DEF UndeclareQueryable, Doing, HolderInv
  <2>q. QED
    BY <1>A, <1>B, <2>1
<1>7. ASSUME NEW c \in AdminCallers, Query(c) PROVE AdminViewInv'
  <2>1. /\ call'[c].op = "query" /\ call'[c].todo = <<"read">>
        /\ \A d \in AdminCallers \ {c} : call'[d].op # "query"
    BY <1>0, <1>7 DEF Query
  <2>2. \A p \in AdminPeers : \A of \in {"transport", "link"} : belief'[p][of] = "none"
    BY <1>7 DEF Query
  <2>3. Querying(c)' /\ \A d \in AdminCallers : d \notin Reading'
    BY <2>1 DEF Querying, Reading
  <2>4. \A p \in AdminPeers : \A of \in {"transport", "link"} : Agrees(p, of)'
    BY <2>2, <2>3 DEF Agrees
  <2>q. QED
    BY <2>4 DEF AdminViewInv
<1>8. ASSUME NEW c \in AdminCallers, QueryReads(c) PROVE AdminViewInv'
  <2>1. /\ UNCHANGED <<synced, closeStep, linked, due, informed, belief, overtaken>> /\ call[c].op = "query"
        /\ call[c].todo = <<"read">> /\ AboutToRead(c)
    BY <1>8 DEF QueryReads, AboutToRead, Doing, HolderInv, QuerySteps
  <2>2. CASE ~IsOpen
    BY <2>1, <2>2 DEF AdminViewInv, IsOpen
  <2>3. CASE IsOpen
    <3>1. call' = [call EXCEPT ![c] = [op |-> call[c].op, todo |-> Tail(call[c].todo), read |-> linked]]
      BY <1>8, <2>3, ReadLemma DEF QueryReads
    <3>2. /\ call'[c].op = "query" /\ call'[c].todo = << >> /\ call'[c].read = linked
          /\ \A d \in AdminCallers \ {c} : call'[d] = call[d] /\ call[d].op # "query"
      BY <1>0, <2>1, <3>1 DEF SyncInv, Querying
    <3>3. Querying(c)' /\ \A d \in AdminCallers : ~AboutToRead(d)' /\ (d \in Reading' => d = c)
      BY <3>2 DEF Querying, AboutToRead, Doing, Reading
    <3>4. \A p, of : Agrees(p, of) => Agrees(p, of)'
      BY <2>1, <3>2, <3>3 DEF Agrees
    <3>5. \A p, of : EventComing(p, of) => EventComing(p, of)'
      BY <2>1 DEF EventComing
    <3>q. QED
      BY <2>1, <3>4, <3>5 DEF AdminViewInv, IsOpen
  <2>q. QED
    BY <2>2, <2>3
<1>9. ASSUME NEW c \in AdminCallers, QueryReplies(c) PROVE AdminViewInv'
  <2>1. /\ UNCHANGED <<synced, closeStep, linked, due, informed, overtaken>> /\ call[c].op = "query" /\ c \in Reading
        /\ call' = [call EXCEPT ![c] = Idle] /\ Idle.op = "none"
    BY <1>9 DEF QueryReplies, Reading, Idle
  <2>2. \A d \in AdminCallers : ~Querying(d)' /\ ~AboutToRead(d)' /\ d \notin Reading'
    BY <1>0, <2>1 DEF SyncInv, Querying, AboutToRead, Doing, Reading
  <2>3. \A p \in AdminPeers : \A of \in {"transport", "link"} :
            (belief'[p][of] = "PUT") <=> (p \in call[c].read \/ belief[p][of] = "PUT")
    BY <1>9 DEF QueryReplies
  <2>4. \A p \in AdminPeers : \A of \in {"transport", "link"} : Agrees(p, of) => Agrees(p, of)'
    BY <2>1, <2>2, <2>3 DEF Agrees
  <2>5. \A p, of : EventComing(p, of) => EventComing(p, of)'
    BY <2>1 DEF EventComing
  <2>q. QED
    BY <2>1, <2>4, <2>5 DEF AdminViewInv, IsOpen
<1>10. CASE Close
    BY <1>10 DEF Close, CloseTo, AdminViewInv, IsOpen
<1>11. ASSUME NEW p \in AdminPeers, PeerChange(p) PROVE AdminViewInv'
  <2>1. /\ UNCHANGED <<synced, closeStep, informed, belief, overtaken, call>> /\ due = << >> /\ informed = {Nobody}
        /\ \A q \in AdminPeers \ {p} : (q \in linked') <=> (q \in linked)
    BY <1>11 DEF PeerChange, DueInv
  <2>2. PICK x, of1, of2 : due' = << <<x, p, of1>>, <<x, p, of2>> >> /\ {of1, of2} = {"transport", "link"}
    BY <1>11 DEF PeerChange
  <2>3. \A of \in {"transport", "link"} : EventComing(p, of)'
    <3>1. DOMAIN due' = {1, 2} /\ due'[1] = <<x, p, of1>> /\ due'[2] = <<x, p, of2>> /\ informed' # {}
      BY <2>1, <2>2
    <3>2. EventComing(p, of1)' /\ EventComing(p, of2)'
      BY <3>1 DEF EventComing
    <3>q. QED
      BY <2>2, <3>2
  <2>4. \A q \in AdminPeers \ {p} : \A of \in {"transport", "link"} : Agrees(q, of) => Agrees(q, of)'
    BY <2>1 DEF Agrees, Querying, AboutToRead, Doing, Reading
  <2>5. \A q, of : ~EventComing(q, of)
    BY <2>1 DEF EventComing
  <2>q. QED
    BY <2>1, <2>3, <2>4, <2>5 DEF AdminViewInv, IsOpen
<1>12. CASE CloneListeners
  <2>1. /\ UNCHANGED <<synced, closeStep, linked, due, belief, overtaken, call>> /\ due # << >>
        /\ informed' = {e \in entries : e.kind = Head(due)[3]}
    BY <1>12 DEF CloneListeners
  <2>2. synced /\ IsOpen => informed' # {}
    <3> SUFFICES ASSUME synced, IsOpen PROVE informed' # {}
      OBVIOUS
    <3>1. PICK q \in AdminPeers, of \in {"transport", "link"}, event \in {"PUT", "DELETE"} : Head(due) = <<event, q, of>>
      BY <1>0, <2>1, HeadDue
    <3>2. Exact(Kinds)
      BY DEF SyncInv, Running, WholeInv, Exact, OnlyOn, Stuck, Kinds
    <3>3. of \in Kinds /\ Entry(of, ids[of]) \in entries
      BY <3>2 DEF Exact, Kinds
    <3>4. Entry(of, ids[of]).kind = of
      BY DEF Entry
    <3>q. QED
      BY <2>1, <3>1, <3>3, <3>4
  <2>3. synced /\ IsOpen => \A p, of : EventComing(p, of) => EventComing(p, of)'
    BY <2>1, <2>2 DEF EventComing
  <2>4. \A p, of : Agrees(p, of) => Agrees(p, of)'
    BY <2>1 DEF Agrees, Querying, AboutToRead, Doing, Reading
  <2>q. QED
    BY <2>1, <2>3, <2>4 DEF AdminViewInv, IsOpen
<1>13. CASE Publish
  <2>1. /\ UNCHANGED <<synced, closeStep, linked, call>> /\ due # << >> /\ due' = Tail(due) /\ informed' = {Nobody}
    BY <1>13 DEF Publish
  <2>2. PICK q \in AdminPeers, kind \in {"transport", "link"}, event \in {"PUT", "DELETE"} :
            Head(due) = <<event, q, kind>> /\ ((event = "PUT") <=> (q \in linked))
    BY <1>0, <2>1, HeadDue
  <2>3. Head(due)[1] = event /\ Head(due)[2] = q /\ Head(due)[3] = kind
    BY <2>2
  <2> SUFFICES ASSUME synced, IsOpen, NEW p \in AdminPeers \ overtaken', NEW of \in {"transport", "link"},
                      ~EventComing(p, of)'
               PROVE  Agrees(p, of)'
    BY <2>1 DEF AdminViewInv, IsOpen
  <2>4. p \notin overtaken
    BY <1>13 DEF Publish
  <2>5. EventComing(p, of) => q = p /\ kind = of /\ informed # {}
    BY <2>1, <2>3, StillComing
  <2>6. CASE informed # {} /\ q = p /\ kind = of
    <3>1. belief'[p][of] = event
      BY <1>0, <1>13, <2>3, <2>6 DEF Publish
    <3>2. Reading = {}
      BY <1>13, <2>3, <2>6 DEF Publish
    <3>3. \A d \in AdminCallers : d \notin Reading'
      BY <2>1, <3>2 DEF Reading
    <3>q. QED
      BY <2>1, <2>2, <2>6, <3>1, <3>3 DEF Agrees
  <2>7. CASE ~(informed # {} /\ q = p /\ kind = of)
    <3>1. belief'[p][of] = belief[p][of]
      <4>1. belief' = belief \/ (belief' = [belief EXCEPT ![q] = [belief[q] EXCEPT ![kind] = event]] /\ informed # {})
        BY <1>13, <2>3 DEF Publish
      <4>q. QED
        BY <1>0, <2>7, <4>1
    <3>2. Agrees(p, of)
      BY <2>4, <2>5, <2>7 DEF AdminViewInv
    <3>q. QED
      BY <2>1, <3>1, <3>2 DEF Agrees, Querying, AboutToRead, Doing, Reading
  <2>q. QED
    BY <2>6, <2>7
<1>14. CASE UNCHANGED adminVars
    BY <1>14, AdminViewKeeps DEF adminVars, IsOpen
<1>q. QED
    BY <1>1, <1>2, <1>3, <1>4, <1>5, <1>6, <1>7, <1>8, <1>9, <1>10, <1>11, <1>12, <1>13, <1>14
    DEF AdminNext, AdminCall

\* A new session has no admin space and no observer.
LEMMA AdminInitInv == AdminInit => AdminInv
<1> SUFFICES ASSUME AdminInit PROVE AdminInv
    OBVIOUS
<1>1. AdminTypes /\ HolderInv
    BY AdminTypesInit
<1>2. WholeInv
  <2>1. Exact({})
    BY DEF AdminInit, Exact, OnlyOn
  <2>2. \A c \in AdminCallers : call[c].op = "none"
    BY DEF AdminInit, Idle
  <2>q. QED
    BY <2>1, <2>2 DEF WholeInv
<1>3. UniqueInv /\ ClosingInv /\ DueInv
    BY DEF AdminInit, UniqueInv, ClosingInv, DueInv
<1>4. SyncInv /\ AdminViewInv
    BY DEF AdminInit, SyncInv, AdminViewInv, Querying, AboutToRead, Doing, Idle
<1>q. QED
    BY <1>1, <1>2, <1>3, <1>4 DEF AdminInv

\* The parts together are inductive.
LEMMA AdminStep == AdminInv /\ [AdminNext]_adminVars => AdminInv'
<1> SUFFICES ASSUME AdminInv, [AdminNext]_adminVars PROVE AdminInv'
    OBVIOUS
<1>1. AdminTypes' /\ HolderInv'
    BY AdminTypesStep DEF AdminInv
<1>2. WholeInv'
    BY <1>1, WholeStep DEF AdminInv
<1>3. UniqueInv'
    BY <1>1, <1>2, UniqueStep DEF AdminInv
<1>4. ClosingInv'
    BY <1>1, ClosingStep DEF AdminInv
<1>5. DueInv'
    BY DueStep DEF AdminInv
<1>6. SyncInv'
    BY <1>1, SyncStep DEF AdminInv
<1>7. AdminViewInv'
    BY AdminViewStep DEF AdminInv
<1>q. QED
    BY <1>1, <1>2, <1>3, <1>4, <1>5, <1>6, <1>7 DEF AdminInv

\* The inductive invariant gives what the callers and the observer see.
LEMMA AdminInvGives == AdminInv => AdminSpaceRight
<1> SUFFICES ASSUME AdminInv PROVE AdminSpaceRight
    OBVIOUS
<1>1. WholeOrNothing
  <2> SUFFICES ASSUME adminMutex = Nobody, IsOpen
               PROVE  LET on == {k \in Kinds : ids[k] # 0}
                      IN  \/ on \in {{}, Kinds} /\ entries = {Entry(k, ids[k]) : k \in on}
                          \/ unsent /\ on = {"pico"} /\ entries = {}
    BY DEF WholeOrNothing
  <2> DEFINE on == {k \in Kinds : ids[k] # 0}
  <2>1. CASE Exact({})
    <3>1. on = {}
      BY <2>1 DEF Exact, OnlyOn
    <3>2. entries = {Entry(k, ids[k]) : k \in on}
      BY <2>1, <3>1 DEF Exact
    <3>q. QED
      BY <3>1, <3>2
  <2>2. CASE Exact(Kinds)
    <3>1. on = Kinds
      BY <2>2 DEF Exact, OnlyOn
    <3>2. entries = {Entry(k, ids[k]) : k \in on}
      BY <2>2, <3>1 DEF Exact
    <3>q. QED
      BY <3>1, <3>2
  <2>3. CASE Stuck
    <3>1. on = {"pico"}
      BY <2>3 DEF Stuck, OnlyOn, Kinds
    <3>q. QED
      BY <2>3, <3>1 DEF Stuck
  <2>q. QED
    BY <2>1, <2>2, <2>3 DEF AdminInv, WholeInv
<1>2. NothingLeftOver
  <2>1. \A e, f \in entries : e.kind = f.kind => e = f
    BY DEF AdminInv, UniqueInv
  <2>2. closeStep = "done" => entries = {} /\ (\A k \in Kinds : ids[k] = 0) /\ due = << >>
    BY DEF AdminInv, ClosingInv, OnlyOn
  <2>q. QED
    BY <2>1, <2>2 DEF NothingLeftOver
<1>3. ObserverRight
  <2> SUFFICES ASSUME synced, IsOpen, due = << >>, \A c \in AdminCallers : call[c].op # "query",
                      NEW p \in AdminPeers \ overtaken, NEW of \in {"transport", "link"}
               PROVE  (belief[p][of] = "PUT") = (p \in linked)
    BY DEF ObserverRight
  <2>1. ~EventComing(p, of)
    BY DEF EventComing
  <2>2. Agrees(p, of)
    BY <2>1 DEF AdminInv, AdminViewInv
  <2>3. (belief[p][of] = "PUT") <=> (p \in linked)
    BY <2>2 DEF Agrees, Querying
  <2>q. QED
    BY <2>3
<1>q. QED
    BY <1>1, <1>2, <1>3 DEF AdminSpaceRight

\* Whatever fails on the way and whenever the session is closed, between calls the
\* admin space of an open session is there as a whole or not at all, nothing is
\* declared twice or outlives the session, and an observer that has queried is right
\* about every peer once the events are out: for any callers and peers, and for any
\* number of starts and events.
THEOREM AdminSpaceRightAlways == AdminSpec => []AdminSpaceRight
<1>1. AdminInit => AdminInv
    BY AdminInitInv
<1>2. AdminInv /\ [AdminNext]_adminVars => AdminInv'
    BY AdminStep
<1>3. AdminInv => AdminSpaceRight
    BY AdminInvGives
<1>q. QED
    BY <1>1, <1>2, <1>3, PTL DEF AdminSpec

(***************************************************************************)
(* Liveliness.                                                             *)
(***************************************************************************)
\* A client has one router.
OneRouter == IsClient /\ \E r : Remotes = {r}

TokenMaps == [TokenIds -> TokenKeys \cup {NoKey}]
Interests == Subscribers \cup LivelinessQueries \cup {NoInterest}
Messages  ==
    [tag : {"DECL_TOKEN"}, from : Remotes, id : TokenIds, key : TokenKeys, interest : Interests]
    \cup [tag : {"UNDECL_TOKEN"}, from : Remotes, id : TokenIds]
    \cup [tag : {"DECL_FINAL"}, from : Remotes, interest : Interests]

LiveTypes ==
    /\ alive \in [Remotes -> TokenMaps] /\ told \in [Remotes -> TokenMaps] /\ wire \in Seq(Messages) /\ remoteTokens \in TokenMaps
    /\ triggers \in Seq([kind : {"PUT", "DELETE"}, key : TokenKeys])
    /\ subscriber \in [Subscribers -> {"new", "listed", "telling", "declared", "failed"}]
    /\ tokenHistory \in [Subscribers -> SUBSET TokenKeys]
    /\ lastSample \in [Subscribers -> [TokenKeys -> {"none", "PUT", "DELETE"}]]
    /\ tokenQuery \in [LivelinessQueries -> {"new", "registered", "ended"}]
    /\ dropped \in [LivelinessQueries -> Nat] /\ rxErrors \in Nat /\ misread \in BOOLEAN

\* What the router has declared before and after a message: a key is declared under a
\* free id and under no other, or repeated; an undeclared id has a key; the reply to a
\* query declares nothing.
Applied(m, a, b) ==
    \/ /\ m.tag = "DECL_TOKEN" /\ m.interest \notin LivelinessQueries
       /\ a[m.id] = NoKey /\ (\A j \in TokenIds : a[j] # m.key) /\ b = [a EXCEPT ![m.id] = m.key]
    \/ m.tag = "DECL_TOKEN" /\ (a[m.id] = m.key \/ m.interest \in LivelinessQueries) /\ b = a
    \/ m.tag = "UNDECL_TOKEN" /\ a[m.id] # NoKey /\ b = [a EXCEPT ![m.id] = NoKey]
    \/ m.tag = "DECL_FINAL" /\ b = a

\* The messages of w, in their order, lead from the tokens a to the tokens b.
LeadTo(w, a, b) ==
    \E st \in [0 .. Len(w) -> TokenMaps] :
        /\ st[0] = a /\ st[Len(w)] = b
        /\ \A n \in 1 .. Len(w) : Applied(w[n], st[n - 1], st[n])

\* A router has a key under one id, declares what it has, and all of it once a
\* subscriber with history has asked.
RouterInv ==
    \A r \in Remotes :
        /\ \A i, j \in TokenIds : alive[r][i] = alive[r][j] /\ alive[r][i] # NoKey => i = j
        /\ \A i \in TokenIds : told[r][i] \in {NoKey, alive[r][i]}
        /\ (\E s \in WithHistory : subscriber[s] = "declared") => told[r] = alive[r]

\* The messages on their way lead from the tokens the session knows to those the
\* router has declared; no key is under two ids.
WireInv ==
    /\ \A r \in Remotes : LeadTo(wire, remoteTokens, told[r])
    /\ \A i, j \in TokenIds : remoteTokens[i] = remoteTokens[j] /\ remoteTokens[i] # NoKey => i = j

On(k) == \E i \in TokenIds : remoteTokens[i] = k

\* Samples that wait tell what is so.
TriggerInv == \A n \in DOMAIN triggers : (triggers[n].kind = "PUT") <=> On(triggers[n].key)

Waiting(k) == \E n \in DOMAIN triggers : triggers[n].key = k

ToldOf(s, k) ==
    /\ On(k) => \/ lastSample[s][k] = "PUT"
                \/ s \in WithoutHistory /\ lastSample[s][k] = "none"
                \/ s \in WithHistory /\ (subscriber[s] \in {"new", "listed"} \/ k \in tokenHistory[s])
    /\ ~On(k) => lastSample[s][k] # "PUT" \/ s \in WithHistory

\* A subscriber has been told of every key what is so, or will be: by the sample that
\* waits, or from its clone of the tokens.
SubscriberInv ==
    \A s \in Subscribers :
        /\ subscriber[s] = "new" => \A k \in TokenKeys : lastSample[s][k] = "none"
        /\ subscriber[s] # "telling" \/ s \notin WithHistory => tokenHistory[s] = {}
        /\ subscriber[s] # "failed" => \A k \in TokenKeys : Waiting(k) \/ ToldOf(s, k)

EndedInv == \A q \in LivelinessQueries : dropped[q] = IF tokenQuery[q] = "ended" THEN 1 ELSE 0

\* What is so until an answer is misread.
ReadRight == WireInv /\ TriggerInv /\ SubscriberInv /\ rxErrors = 0

LiveInv == LiveTypes /\ RouterInv /\ EndedInv /\ (misread \/ ReadRight)

\* With no message on its way the tokens are the same.
LEMMA LeadToNil == ASSUME NEW a, NEW b, LeadTo(<< >>, a, b) PROVE a = b
BY DEF LeadTo

\* No message leads anywhere else.
LEMMA LeadToSelf == ASSUME NEW a \in TokenMaps PROVE LeadTo(<< >>, a, a)
<1> DEFINE st == [n \in 0 .. Len(<< >>) |-> a]
<1>1. /\ st \in [0 .. Len(<< >>) -> TokenMaps] /\ st[0] = a /\ st[Len(<< >>)] = a
      /\ \A n \in 1 .. Len(<< >>) : Applied(<< >>[n], st[n - 1], st[n])
    OBVIOUS
<1>q. QED
    BY <1>1 DEF LeadTo

\* A message sent.
LEMMA LeadToMore ==
    ASSUME NEW w \in Seq(Messages), NEW m \in Messages, NEW a, NEW b, NEW c \in TokenMaps, LeadTo(w, a, b), Applied(m, b, c)
    PROVE  LeadTo(Append(w, m), a, c)
<1> DEFINE v == Append(w, m)
<1>1. PICK st \in [0 .. Len(w) -> TokenMaps] : /\ st[0] = a /\ st[Len(w)] = b
                                              /\ \A n \in 1 .. Len(w) : Applied(w[n], st[n - 1], st[n])
    BY DEF LeadTo
<1>2. Len(v) = Len(w) + 1 /\ Len(w) \in Nat /\ v[Len(w) + 1] = m /\ \A n \in 1 .. Len(w) : v[n] = w[n]
    OBVIOUS
<1> DEFINE new == [n \in 0 .. Len(v) |-> IF n = Len(v) THEN c ELSE st[n]]
<1>3. new \in [0 .. Len(v) -> TokenMaps] /\ new[0] = a /\ new[Len(v)] = c
    BY <1>1, <1>2
<1>4. ASSUME NEW n \in 1 .. Len(v) PROVE Applied(v[n], new[n - 1], new[n])
  <2>1. CASE n = Len(v)
    <3>1. v[n] = m /\ new[n - 1] = b /\ new[n] = c
      BY <1>1, <1>2, <2>1
    <3>q. QED
      BY <3>1
  <2>2. CASE n # Len(v)
    <3>1. n \in 1 .. Len(w) /\ v[n] = w[n] /\ new[n - 1] = st[n - 1] /\ new[n] = st[n]
      BY <1>2, <2>2
    <3>q. QED
      BY <1>1, <3>1
  <2>q. QED
    BY <2>1, <2>2
<1> HIDE DEF new
<1>q. QED
    BY <1>3, <1>4 DEF LeadTo

\* Messages sent together.
LEMMA LeadToMany ==
    ASSUME NEW w \in Seq(Messages), NEW x \in Seq(Messages), NEW a, NEW b, NEW c, LeadTo(w, a, b), LeadTo(x, b, c)
    PROVE  LeadTo(w \o x, a, c)
<1> DEFINE v == w \o x
<1>1. PICK st \in [0 .. Len(w) -> TokenMaps] : /\ st[0] = a /\ st[Len(w)] = b
                                              /\ \A n \in 1 .. Len(w) : Applied(w[n], st[n - 1], st[n])
    BY DEF LeadTo
<1>0. PICK su \in [0 .. Len(x) -> TokenMaps] : /\ su[0] = b /\ su[Len(x)] = c
                                              /\ \A n \in 1 .. Len(x) : Applied(x[n], su[n - 1], su[n])
    BY DEF LeadTo
<1>2. /\ Len(v) = Len(w) + Len(x) /\ Len(w) \in Nat /\ Len(x) \in Nat
      /\ \A n \in 1 .. Len(v) : v[n] = IF n <= Len(w) THEN w[n] ELSE x[n - Len(w)]
    OBVIOUS
<1> DEFINE new == [n \in 0 .. Len(v) |-> IF n <= Len(w) THEN st[n] ELSE su[n - Len(w)]]
<1>3. new \in [0 .. Len(v) -> TokenMaps] /\ new[0] = a /\ new[Len(v)] = c
    BY <1>0, <1>1, <1>2
<1>4. ASSUME NEW n \in 1 .. Len(v) PROVE Applied(v[n], new[n - 1], new[n])
  <2>1. CASE n <= Len(w)
    <3>1. n \in 1 .. Len(w) /\ v[n] = w[n] /\ new[n - 1] = st[n - 1] /\ new[n] = st[n]
      BY <1>2, <2>1
    <3>q. QED
      BY <1>1, <3>1
  <2>2. CASE ~(n <= Len(w))
    <3> DEFINE l == n - Len(w)
    <3>1. l \in 1 .. Len(x) /\ v[n] = x[l]
      BY <1>2, <2>2
    <3>2. new[n] = su[l]
      BY <1>2, <2>2
    <3>3. new[n - 1] = su[l - 1]
      <4>1. CASE n - 1 = Len(w)
        <5>1. n - 1 \in 0 .. Len(v) /\ l - 1 = 0 /\ n - 1 <= Len(w)
          BY <1>2, <4>1
        <5>2. new[n - 1] = st[n - 1]
          BY <5>1
        <5>3. new[n - 1] = b /\ su[l - 1] = b
          BY <1>0, <1>1, <4>1, <5>1, <5>2
        <5>q. QED
          BY <5>3
      <4>2. CASE n - 1 # Len(w)
        <5>1. n - 1 \in 0 .. Len(v) /\ ~(n - 1 <= Len(w)) /\ (n - 1) - Len(w) = l - 1
          BY <1>2, <2>2, <4>2
        <5>q. QED
          BY <5>1
      <4>q. QED
        BY <4>1, <4>2
    <3> HIDE DEF l, new, v
    <3>q. QED
      BY <1>0, <3>1, <3>2, <3>3
  <2>q. QED
    BY <2>1, <2>2
<1> HIDE DEF new
<1>q. QED
    BY <1>3, <1>4 DEF LeadTo

\* A message read.
LEMMA LeadToNext ==
    ASSUME NEW w \in Seq(Messages), NEW a, NEW b, w # << >>, LeadTo(w, a, b)
    PROVE  \E c \in TokenMaps : Applied(Head(w), a, c) /\ LeadTo(Tail(w), c, b)
<1> DEFINE v == Tail(w)
<1>1. PICK st \in [0 .. Len(w) -> TokenMaps] : /\ st[0] = a /\ st[Len(w)] = b
                                              /\ \A n \in 1 .. Len(w) : Applied(w[n], st[n - 1], st[n])
    BY DEF LeadTo
<1>2. /\ Len(w) \in Nat /\ Len(w) > 0 /\ Len(v) = Len(w) - 1 /\ Head(w) = w[1]
      /\ \A n \in 1 .. Len(v) : v[n] = w[n + 1]
    OBVIOUS
<1>3. st[1] \in TokenMaps /\ Applied(Head(w), a, st[1])
    BY <1>1, <1>2
<1> DEFINE new == [n \in 0 .. Len(v) |-> st[n + 1]]
<1>4. new \in [0 .. Len(v) -> TokenMaps] /\ new[0] = st[1] /\ new[Len(v)] = b
    BY <1>1, <1>2
<1>5. ASSUME NEW n \in 1 .. Len(v) PROVE Applied(v[n], new[n - 1], new[n])
  <2>1. n + 1 \in 1 .. Len(w) /\ v[n] = w[n + 1] /\ new[n - 1] = st[(n + 1) - 1] /\ new[n] = st[n + 1]
    BY <1>2
  <2>q. QED
    BY <1>1, <2>1
<1> HIDE DEF new
<1>6. LeadTo(v, st[1], b)
    BY <1>4, <1>5 DEF LeadTo
<1>q. QED
    BY <1>3, <1>6

\* An answer to a query leaves what is declared alone; one to a subscriber declares
\* all that the router has.
LEMMA AnswersLead ==
    ASSUME LiveTypes, RouterInv, NEW r \in Remotes, NEW x \in Interests, NEW answer \in Answers(r, x)
    PROVE  /\ answer \in Seq(Messages)
           /\ LeadTo(answer, told[r], IF x \in LivelinessQueries THEN told[r] ELSE alive[r])
<1> DEFINE S == {i \in TokenIds : alive[r][i] # NoKey}
           N == Cardinality(S)
           Declared(i) == [tag |-> "DECL_TOKEN", from |-> r, id |-> i, key |-> alive[r][i], interest |-> x]
           last == [tag |-> "DECL_FINAL", from |-> r, interest |-> x]
<1>1. N \in Nat
    BY FS_Subset, FS_CardinalityType, LivelinessAssumption
<1>2. PICK tids \in Orders(S) : answer = [n \in DOMAIN tids |-> Declared(tids[n])] \o <<last>>
    BY DEF Answers
<1>3. /\ DOMAIN tids = 1 .. N /\ (\A n \in 1 .. N : tids[n] \in S)
      /\ \A i \in S : \E n \in 1 .. N : tids[n] = i
    BY <1>2 DEF Orders, Surjection
<1>4. alive[r] \in TokenMaps /\ told[r] \in TokenMaps /\ NoKey \notin TokenKeys
    BY LivelinessAssumption DEF LiveTypes
<1>5. \A i \in S : Declared(i) \in Messages
  <2> SUFFICES ASSUME NEW i \in S PROVE Declared(i) \in Messages
    OBVIOUS
  <2>1. i \in TokenIds /\ alive[r][i] \in TokenKeys
    BY <1>4 DEF TokenMaps
  <2>q. QED
    BY <2>1 DEF Messages
<1>6. last \in Messages /\ last.tag = "DECL_FINAL"
    BY DEF Messages
<1> DEFINE front == [n \in 1 .. N |-> Declared(tids[n])]
<1>7. front \in Seq(Messages) /\ Len(front) = N /\ \A n \in 1 .. N : front[n] = Declared(tids[n])
  <2>1. front \in [1 .. N -> Messages]
    BY <1>3, <1>5
  <2>2. \A n \in 1 .. N : front[n] = Declared(tids[n])
    OBVIOUS
  <2>3. front \in Seq(Messages) /\ Len(front) = N
    BY <1>1, <2>1
  <2>q. QED
    BY <2>2, <2>3
<1>8. answer = front \o <<last>>
    BY <1>2, <1>3
<1> HIDE DEF front, last, N
<1>a. \A f \in Seq(Messages) : \A y \in Messages :
          /\ f \o <<y>> \in Seq(Messages) /\ Len(f \o <<y>>) = Len(f) + 1 /\ (f \o <<y>>)[Len(f) + 1] = y
          /\ \A n \in 1 .. Len(f) : (f \o <<y>>)[n] = f[n]
    OBVIOUS
<1>9. /\ answer \in Seq(Messages) /\ Len(answer) = N + 1 /\ answer[N + 1] = last
      /\ \A n \in 1 .. N : answer[n] = Declared(tids[n])
    BY <1>6, <1>7, <1>8, <1>a
<1>10. \A n \in 1 .. Len(answer) : n \in 1 .. N \/ n = N + 1
    BY <1>1, <1>9
<1>11. CASE x \in LivelinessQueries
  <2> DEFINE st == [n \in 0 .. Len(answer) |-> told[r]]
  <2>1. /\ st \in [0 .. Len(answer) -> TokenMaps] /\ st[0] = told[r] /\ st[Len(answer)] = told[r]
        /\ \A n \in 1 .. Len(answer) : st[n - 1] = told[r] /\ st[n] = told[r]
    BY <1>1, <1>4, <1>9
  <2>2. Applied(last, told[r], told[r])
    BY <1>6 DEF Applied
  <2>3. ASSUME NEW i PROVE Applied(Declared(i), told[r], told[r])
    BY <1>11 DEF Applied
  <2>4. ASSUME NEW n \in 1 .. Len(answer) PROVE Applied(answer[n], told[r], told[r])
    BY <1>9, <1>10, <2>2, <2>3
  <2> HIDE DEF st
  <2>q. QED
    BY <1>9, <1>11, <2>1, <2>4 DEF LeadTo
<1>12. CASE x \notin LivelinessQueries
  <2> DEFINE Known(n, i) == \E l \in 1 .. N : l <= n /\ tids[l] = i
             st == [n \in 0 .. Len(answer) |-> [i \in TokenIds |-> IF Known(n, i) THEN alive[r][i] ELSE told[r][i]]]
  <2>1. st \in [0 .. Len(answer) -> TokenMaps]
    BY <1>4 DEF TokenMaps
  <2>2. st[0] = told[r]
    <3>1. \A i : ~Known(0, i)
      BY <1>1
    <3>2. st[0] = [i \in TokenIds |-> told[r][i]]
      BY <1>1, <1>9, <3>1
    <3>q. QED
      BY <1>4, <3>2 DEF TokenMaps
  <2>3. ASSUME NEW n \in {N, N + 1} PROVE st[n] = alive[r]
    <3>1. \A i \in TokenIds : ~Known(n, i) => told[r][i] = alive[r][i]
      <4> SUFFICES ASSUME NEW i \in TokenIds, ~Known(n, i) PROVE told[r][i] = alive[r][i]
        OBVIOUS
      <4>1. i \notin S
        BY <1>1, <1>3
      <4>q. QED
        BY <4>1 DEF RouterInv
    <3>a. n \in 0 .. Len(answer)
      BY <1>1, <1>9
    <3>b. st[n] = [i \in TokenIds |-> IF Known(n, i) THEN alive[r][i] ELSE told[r][i]]
      BY <3>a
    <3> HIDE DEF Known, st
    <3>2. st[n] = [i \in TokenIds |-> alive[r][i]]
      BY <3>1, <3>b
    <3>q. QED
      BY <1>4, <3>2 DEF TokenMaps
  <2>4. ASSUME NEW n \in 1 .. N PROVE Applied(answer[n], st[n - 1], st[n])
    <3> DEFINE i == tids[n]
               a == st[n - 1]
               b == st[n]
    <3>1. i \in S /\ i \in TokenIds /\ answer[n] = Declared(i)
      BY <1>3, <1>9
    <3>2. \A y \in TokenIds : a[y] = IF Known(n - 1, y) THEN alive[r][y] ELSE told[r][y]
      BY <1>1, <1>9
    <3>3. \A y \in TokenIds : b[y] = IF Known(n, y) THEN alive[r][y] ELSE told[r][y]
      BY <1>1, <1>9
    <3>4. a \in TokenMaps /\ b \in TokenMaps
      <4>1. n \in 0 .. Len(answer) /\ n - 1 \in 0 .. Len(answer)
        BY <1>1, <1>9
      <4> HIDE DEF st
      <4>q. QED
        BY <2>1, <4>1
    <3>5. b[i] = alive[r][i] /\ \A y \in TokenIds \ {i} : b[y] = a[y]
      <4>1. Known(n, i)
        OBVIOUS
      <4>2. \A y \in TokenIds \ {i} : Known(n, y) <=> Known(n - 1, y)
        BY <1>1
      <4> HIDE DEF Known, i, a, b
      <4>q. QED
        BY <3>1, <3>2, <3>3, <4>1, <4>2
    <3>6. \A y \in TokenIds : a[y] \in {NoKey, alive[r][y]}
      <4>1. \A y \in TokenIds : told[r][y] \in {NoKey, alive[r][y]}
        BY DEF RouterInv
      <4> HIDE DEF Known, a
      <4>q. QED
        BY <3>2, <4>1
    <3>7. alive[r][i] # NoKey
      BY <3>1
    <3>8. \A y \in TokenIds : alive[r][y] = alive[r][i] => y = i
      BY <3>1, <3>7 DEF RouterInv
    <3>9. /\ answer[n].tag = "DECL_TOKEN" /\ answer[n].id = i /\ answer[n].key = alive[r][i]
          /\ answer[n].interest \notin LivelinessQueries
      BY <1>12, <3>1
    <3> HIDE DEF i, a, b, S, st
    <3>10. CASE a[i] = alive[r][i]
      <4>1. b = a
        BY <3>1, <3>4, <3>5, <3>10 DEF TokenMaps
      <4>2. Applied(answer[n], a, b)
        BY <3>9, <3>10, <4>1 DEF Applied
      <4>q. QED
        BY <4>2 DEF a, b
    <3>11. CASE a[i] # alive[r][i]
      <4>1. a[i] = NoKey /\ \A y \in TokenIds : a[y] # alive[r][i]
        BY <3>1, <3>6, <3>7, <3>8, <3>11
      <4>2. b = [a EXCEPT ![i] = alive[r][i]]
        BY <3>1, <3>4, <3>5 DEF TokenMaps
      <4>3. Applied(answer[n], a, b)
        BY <3>9, <4>1, <4>2 DEF Applied
      <4>q. QED
        BY <4>3 DEF a, b
    <3>q. QED
      BY <3>10, <3>11
  <2>5. Applied(answer[N + 1], st[(N + 1) - 1], st[N + 1])
    <3>1. st[(N + 1) - 1] = st[N + 1]
      BY <1>1, <2>3
    <3>2. answer[N + 1].tag = "DECL_FINAL"
      BY <1>6, <1>9
    <3> HIDE DEF st
    <3>q. QED
      BY <3>1, <3>2 DEF Applied
  <2>6. st[Len(answer)] = alive[r]
    BY <1>9, <2>3
  <2> HIDE DEF st
  <2>7. \A n \in 1 .. Len(answer) : Applied(answer[n], st[n - 1], st[n])
    BY <1>10, <2>4, <2>5
  <2>q. QED
    BY <1>9, <1>12, <2>1, <2>2, <2>6, <2>7 DEF LeadTo
<1>q. QED
    BY <1>11, <1>12

\* A declaration that is read repeats what is known, or adds a key under a free id.
LEMMA ReadDeclareDoes ==
    ASSUME OneRouter, LiveTypes, WireInv, ReadDeclare, ~misread'
    PROVE  /\ \A r \in Remotes : LeadTo(wire', remoteTokens', told[r])
           /\ \/ remoteTokens' = remoteTokens /\ triggers' = << >>
              \/ \E i \in TokenIds, k \in TokenKeys :
                     /\ remoteTokens[i] = NoKey /\ (\A j \in TokenIds : remoteTokens[j] # k)
                     /\ remoteTokens' = [remoteTokens EXCEPT ![i] = k] /\ triggers' = <<[kind |-> "PUT", key |-> k]>>
<1>1. PICK r : Remotes = {r}
    BY DEF OneRouter
<1>2. PICK m \in Messages : m = Head(wire)
    BY DEF ReadDeclare, LiveTypes
<1>3. m.tag = "DECL_TOKEN" /\ wire # << >> /\ wire' = Tail(wire) /\ triggers = << >> /\ wire \in Seq(Messages)
    BY <1>2 DEF ReadDeclare, LiveTypes
<1>4. m.id \in TokenIds /\ m.key \in TokenKeys
    BY <1>3 DEF Messages
<1>5. PICK c \in TokenMaps : Applied(m, remoteTokens, c) /\ LeadTo(wire', c, told[r])
    BY <1>1, <1>2, <1>3, LeadToNext DEF WireInv
<1>6. remoteTokens \in TokenMaps /\ NoKey \notin TokenKeys
    BY LivelinessAssumption DEF LiveTypes
<1>m. Taken(m) = {m.interest} \cap LivelinessQueries
    BY <1>2 DEF ReadDeclare
<1>7. CASE (remoteTokens[m.id] = m.key \/ m.interest \in LivelinessQueries) /\ c = remoteTokens
  <2>2. remoteTokens' = remoteTokens /\ triggers' = << >>
    <3>1. CASE m.interest \in LivelinessQueries
      <4>1. Taken(m) # {}
        BY <1>m, <3>1
      <4>q. QED
        BY <1>2, <1>3, <4>1 DEF ReadDeclare
    <3>2. CASE remoteTokens[m.id] = m.key
      <4>1. [remoteTokens EXCEPT ![m.id] = m.key] = remoteTokens
        BY <1>4, <1>6, <3>2 DEF TokenMaps
      <4>q. QED
        BY <1>2, <1>3, <3>2, <4>1 DEF ReadDeclare, RemoteTokenDeclare
    <3>q. QED
      BY <1>7, <3>1, <3>2
  <2>q. QED
    BY <1>1, <1>5, <1>7, <2>2
<1>8. CASE /\ m.interest \notin LivelinessQueries /\ remoteTokens[m.id] = NoKey
           /\ (\A j \in TokenIds : remoteTokens[j] # m.key) /\ c = [remoteTokens EXCEPT ![m.id] = m.key]
  <2>1. Taken(m) = {}
    BY <1>8, <1>m
  <2>2. RemoteTokenDeclare(m)
    BY <1>2, <2>1 DEF ReadDeclare
  <2>3. remoteTokens' = c
    BY <1>8, <2>2 DEF RemoteTokenDeclare
  <2>4. triggers' = << >> \o <<[kind |-> "PUT", key |-> m.key]>>
    BY <1>4, <1>6, <1>8, <2>2 DEF RemoteTokenDeclare
  <2>5. triggers' = <<[kind |-> "PUT", key |-> m.key]>>
    <3>1. \A x : << >> \o <<x>> = <<x>>
      OBVIOUS
    <3>q. QED
      BY <2>4, <3>1
  <2>q. QED
    BY <1>1, <1>4, <1>5, <1>8, <2>3, <2>5
<1>q. QED
    BY <1>3, <1>5, <1>7, <1>8 DEF Applied

\* An undeclaration that is read is of a key that is known.
LEMMA ReadUndeclareDoes ==
    ASSUME OneRouter, LiveTypes, WireInv, ReadUndeclare
    PROVE  /\ \A r \in Remotes : LeadTo(wire', remoteTokens', told[r])
           /\ \E i \in TokenIds, k \in TokenKeys :
                  /\ remoteTokens[i] = k /\ rxErrors' = rxErrors
                  /\ remoteTokens' = [remoteTokens EXCEPT ![i] = NoKey] /\ triggers' = <<[kind |-> "DELETE", key |-> k]>>
<1>1. PICK r : Remotes = {r}
    BY DEF OneRouter
<1>2. PICK m \in Messages : m = Head(wire)
    BY DEF ReadUndeclare, LiveTypes
<1>3. m.tag = "UNDECL_TOKEN" /\ wire # << >> /\ wire' = Tail(wire) /\ wire \in Seq(Messages)
    BY <1>2 DEF ReadUndeclare, LiveTypes
<1>4. m.id \in TokenIds
    BY <1>3 DEF Messages
<1>5. PICK c \in TokenMaps : Applied(m, remoteTokens, c) /\ LeadTo(wire', c, told[r])
    BY <1>1, <1>2, <1>3, LeadToNext DEF WireInv
<1>6. remoteTokens[m.id] # NoKey /\ c = [remoteTokens EXCEPT ![m.id] = NoKey]
    BY <1>3, <1>5 DEF Applied
<1>7. remoteTokens[m.id] \in TokenKeys
    BY <1>4, <1>6 DEF LiveTypes, TokenMaps
<1>8. /\ remoteTokens' = c /\ rxErrors' = rxErrors /\ triggers' = <<[kind |-> "DELETE", key |-> remoteTokens[m.id]]>>
    BY <1>2, <1>6 DEF ReadUndeclare
<1>q. QED
    BY <1>1, <1>4, <1>5, <1>6, <1>7, <1>8

\* A lost router leaves a DELETE to tell for every key that was known.
LEMMA RemoteLostDoes ==
    ASSUME OneRouter, LiveTypes, NEW r \in Remotes, RemoteLost(r)
    PROVE  /\ wire' = << >> /\ remoteTokens' = [i \in TokenIds |-> NoKey] /\ \A x \in Remotes : told'[x] = remoteTokens'
           /\ triggers' \in Seq([kind : {"PUT", "DELETE"}, key : TokenKeys])
           /\ \A n \in DOMAIN triggers' : triggers'[n].kind = "DELETE"
           /\ \A k \in TokenKeys : On(k) => Waiting(k)'
<1>1. IsClient /\ Remotes = {r}
    BY DEF OneRouter
<1>2. wire' = << >> /\ remoteTokens' = [i \in TokenIds |-> NoKey] /\ \A x \in Remotes : told'[x] = remoteTokens'
    BY <1>1 DEF RemoteLost, LiveTypes
<1>3. PICK keys \in Orders(Live) : triggers' = [n \in DOMAIN keys |-> [kind |-> "DELETE", key |-> keys[n]]]
    BY <1>1 DEF RemoteLost
<1>4. Cardinality(Live) \in Nat /\ Live \subseteq TokenKeys
  <2>1. IsFiniteSet({remoteTokens[i] : i \in TokenIds})
    <3> DEFINE T == {remoteTokens[i] : i \in TokenIds}
    <3>1. [i \in TokenIds |-> remoteTokens[i]] \in Surjection(TokenIds, T)
      BY DEF Surjection
    <3>2. IsFiniteSet(TokenIds)
      BY LivelinessAssumption
    <3> HIDE DEF T
    <3>3. IsFiniteSet(T)
      BY <3>1, <3>2, FS_Surjection
    <3>q. QED
      BY <3>3 DEF T
  <2>2. IsFiniteSet(Live)
    BY <2>1, FS_Subset DEF Live
  <2>3. Cardinality(Live) \in Nat
    BY <2>2, FS_CardinalityType
  <2>4. Live \subseteq TokenKeys
    BY DEF Live, LiveTypes, TokenMaps
  <2>q. QED
    BY <2>3, <2>4
<1> DEFINE N == Cardinality(Live)
<1>5. DOMAIN keys = 1 .. N /\ (\A n \in 1 .. N : keys[n] \in Live) /\ \A k \in Live : \E n \in 1 .. N : keys[n] = k
    BY <1>3 DEF Orders, Surjection
<1>6. DOMAIN triggers' = 1 .. N /\ \A n \in 1 .. N : triggers'[n] = [kind |-> "DELETE", key |-> keys[n]]
    BY <1>3, <1>5
<1>7. triggers' \in [1 .. N -> [kind : {"PUT", "DELETE"}, key : TokenKeys]]
    BY <1>3, <1>4, <1>5
<1>8. triggers' \in Seq([kind : {"PUT", "DELETE"}, key : TokenKeys])
  <2>1. \A S : \A n \in Nat : \A f \in [1 .. n -> S] : f \in Seq(S)
    OBVIOUS
  <2>2. N \in Nat
    BY <1>4
  <2> HIDE DEF N
  <2>q. QED
    BY <1>7, <2>1, <2>2
<1>9. \A k \in TokenKeys : On(k) => Waiting(k)'
  <2> SUFFICES ASSUME NEW k \in TokenKeys, On(k) PROVE Waiting(k)'
    OBVIOUS
  <2>1. k \in Live
    BY LivelinessAssumption DEF On, Live
  <2>2. PICK n \in 1 .. N : keys[n] = k
    BY <1>5, <2>1
  <2>q. QED
    BY <1>6, <2>2 DEF Waiting
<1>q. QED
    BY <1>2, <1>6, <1>8, <1>9

\* A sequence of one sample.
LEMMA OneTrigger ==
    ASSUME NEW x \in {"PUT", "DELETE"}, NEW k \in TokenKeys, triggers' = <<[kind |-> x, key |-> k]>>
    PROVE  /\ triggers' \in Seq([kind : {"PUT", "DELETE"}, key : TokenKeys])
           /\ DOMAIN triggers' = {1} /\ triggers'[1].kind = x /\ triggers'[1].key = k
<1>1. PICK y \in [kind : {"PUT", "DELETE"}, key : TokenKeys] : y = [kind |-> x, key |-> k]
    OBVIOUS
<1>2. triggers' = <<y>> /\ y.kind = x /\ y.key = k
    BY <1>1
<1>q. QED
    BY <1>2

\* Each action keeps the types.
LEMMA LiveTypesStep == OneRouter /\ LiveTypes /\ RouterInv /\ [LivelinessNext]_livelinessVars => LiveTypes'
<1> SUFFICES ASSUME OneRouter, LiveTypes, RouterInv, [LivelinessNext]_livelinessVars PROVE LiveTypes'
    OBVIOUS
<1> DEFINE Samples == [kind : {"PUT", "DELETE"}, key : TokenKeys]
<1>a. \A r \in Remotes : \A i \in TokenIds : \A k \in TokenKeys \cup {NoKey} : \A f \in [Remotes -> TokenMaps] :
          [f EXCEPT ![r][i] = k] \in [Remotes -> TokenMaps]
  <2> SUFFICES ASSUME NEW r \in Remotes, NEW i \in TokenIds, NEW k \in TokenKeys \cup {NoKey},
                      NEW f \in [Remotes -> TokenMaps]
               PROVE  [f EXCEPT ![r] = [f[r] EXCEPT ![i] = k]] \in [Remotes -> TokenMaps]
    OBVIOUS
  <2>1. [f[r] EXCEPT ![i] = k] \in TokenMaps
    BY DEF TokenMaps
  <2>q. QED
    BY <2>1
<1>1. ASSUME NEW r \in Remotes, NEW i \in TokenIds, RemoteUndeclares(r, i) PROVE LiveTypes'
  <2>1. [tag |-> "UNDECL_TOKEN", from |-> r, id |-> i] \in Messages
    BY DEF Messages
  <2>2. wire' \in Seq(Messages)
    BY <1>1, <2>1 DEF RemoteUndeclares, LiveTypes
  <2>3. alive' \in [Remotes -> TokenMaps] /\ told' \in [Remotes -> TokenMaps]
    BY <1>1, <1>a DEF RemoteUndeclares, LiveTypes
  <2>q. QED
    BY <1>1, <2>2, <2>3 DEF RemoteUndeclares, queryVars, LiveTypes
<1>2. ASSUME NEW r \in Remotes, NEW i \in TokenIds, NEW k \in TokenKeys, RemoteDeclares(r, i, k) PROVE LiveTypes'
  <2>1. [tag |-> "DECL_TOKEN", from |-> r, id |-> i, key |-> k, interest |-> NoInterest] \in Messages
    BY DEF Messages, Interests
  <2>2. wire' \in Seq(Messages) /\ told' \in [Remotes -> TokenMaps]
    <3>1. CASE Pushes
      <4>1. /\ wire' = Append(wire, [tag |-> "DECL_TOKEN", from |-> r, id |-> i, key |-> k, interest |-> NoInterest])
            /\ told' = [told EXCEPT ![r][i] = k]
        BY <1>2, <3>1 DEF RemoteDeclares
      <4>2. wire' \in Seq(Messages)
        BY <2>1, <4>1 DEF LiveTypes
      <4>3. told' \in [Remotes -> TokenMaps]
        BY <1>a, <4>1 DEF LiveTypes
      <4>q. QED
        BY <4>2, <4>3
    <3>2. CASE ~Pushes
      BY <1>2, <3>2 DEF RemoteDeclares, LiveTypes
    <3>q. QED
      BY <3>1, <3>2
  <2>3. alive' \in [Remotes -> TokenMaps]
    BY <1>2, <1>a DEF RemoteDeclares, LiveTypes
  <2>q. QED
    BY <1>2, <2>2, <2>3 DEF RemoteDeclares, queryVars, LiveTypes
<1>3. ASSUME NEW r \in Remotes, RemoteLost(r) PROVE LiveTypes'
  <2>1. wire' = << >> /\ remoteTokens' \in TokenMaps /\ triggers' \in Seq(Samples)
    BY <1>3, RemoteLostDoes DEF TokenMaps
  <2>2. alive' \in [Remotes -> TokenMaps] /\ told' \in [Remotes -> TokenMaps]
    BY <1>3 DEF RemoteLost, LiveTypes, TokenMaps
  <2>q. QED
    BY <1>3, <2>1, <2>2 DEF RemoteLost, queryVars, LiveTypes
<1>b. remoteTokens \in TokenMaps /\ NoKey \notin TokenKeys
    BY LivelinessAssumption DEF LiveTypes
<1>4. CASE ReadDeclare
  <2>1. wire' \in Seq(Messages)
    BY <1>4 DEF ReadDeclare, LiveTypes
  <2>2. remoteTokens' \in TokenMaps /\ triggers' \in Seq(Samples)
    <3>1. PICK m \in Messages : m = Head(wire)
      BY <1>4 DEF ReadDeclare, LiveTypes
    <3>2. m.id \in TokenIds /\ m.key \in TokenKeys
      BY <1>4, <3>1 DEF ReadDeclare, Messages
    <3>3. CASE UNCHANGED <<remoteTokens, triggers>>
      BY <3>3 DEF LiveTypes
    <3>4. CASE RemoteTokenDeclare(m)
      <4>1. remoteTokens' \in TokenMaps
        BY <1>b, <3>2, <3>4 DEF RemoteTokenDeclare, TokenMaps
      <4> DEFINE known == remoteTokens[m.id]
                 del == [kind |-> "DELETE", key |-> known]
                 put == [kind |-> "PUT", key |-> m.key]
      <4>2. put \in Samples /\ (known # NoKey => del \in Samples)
        BY <1>b, <3>2 DEF TokenMaps
      <4>3. triggers' = IF known = m.key THEN << >> ELSE (IF known = NoKey THEN << >> ELSE <<del>>) \o <<put>>
        BY <3>4 DEF RemoteTokenDeclare
      <4> HIDE DEF known, del, put, Samples
      <4>4. (IF known = NoKey THEN << >> ELSE <<del>>) \in Seq(Samples) /\ <<put>> \in Seq(Samples)
        BY <4>2
      <4>5. triggers' \in Seq(Samples)
        BY <4>3, <4>4
      <4>q. QED
        BY <4>1, <4>5
    <3>q. QED
      BY <1>4, <3>1, <3>3, <3>4 DEF ReadDeclare
  <2>3. misread' \in BOOLEAN
    BY <1>4 DEF ReadDeclare
  <2>q. QED
    BY <1>4, <2>1, <2>2, <2>3 DEF ReadDeclare, queryVars, LiveTypes
<1>5. CASE ReadUndeclare
  <2>1. wire' \in Seq(Messages)
    BY <1>5 DEF ReadUndeclare, LiveTypes
  <2>2. PICK m \in Messages : m = Head(wire)
    BY <1>5 DEF ReadUndeclare, LiveTypes
  <2>3. m.id \in TokenIds
    BY <1>5, <2>2 DEF ReadUndeclare, Messages
  <2>4. remoteTokens' \in TokenMaps /\ rxErrors' \in Nat
    BY <1>5, <1>b, <2>2, <2>3 DEF ReadUndeclare, LiveTypes, TokenMaps
  <2>5. triggers' \in Seq(Samples)
    <3>1. CASE remoteTokens[m.id] = NoKey
      BY <1>5, <2>2, <3>1 DEF ReadUndeclare
    <3>2. CASE remoteTokens[m.id] # NoKey
      <4>1. remoteTokens[m.id] \in TokenKeys /\ triggers' = <<[kind |-> "DELETE", key |-> remoteTokens[m.id]]>>
        BY <1>5, <1>b, <2>2, <2>3, <3>2 DEF ReadUndeclare, TokenMaps
      <4>q. QED
        BY <4>1, OneTrigger
    <3>q. QED
      BY <3>1, <3>2
  <2>q. QED
    BY <1>5, <2>1, <2>4, <2>5 DEF ReadUndeclare, queryVars, LiveTypes
<1>6. CASE ReadFinal
  <2>1. wire' \in Seq(Messages)
    BY <1>6 DEF ReadFinal, LiveTypes
  <2>2. /\ tokenQuery' \in [LivelinessQueries -> {"new", "registered", "ended"}]
        /\ dropped' \in [LivelinessQueries -> Nat]
    BY <1>6 DEF ReadFinal, EndQueries, LiveTypes
  <2>q. QED
    BY <1>6, <2>1, <2>2 DEF ReadFinal, LiveTypes
<1>7. CASE Trigger
  <2>1. triggers' \in Seq(Samples) /\ Head(triggers) \in Samples
    <3>1. triggers \in Seq(Samples) /\ triggers # << >> /\ triggers' = Tail(triggers)
      BY <1>7 DEF Trigger, LiveTypes
    <3> HIDE DEF Samples
    <3>q. QED
      BY <3>1
  <2>2. PICK k \in TokenKeys, x \in {"PUT", "DELETE"} : Head(triggers).key = k /\ Head(triggers).kind = x
    BY <2>1
  <2>3. lastSample' \in [Subscribers -> [TokenKeys -> {"none", "PUT", "DELETE"}]]
    BY <1>7, <2>2 DEF Trigger, LiveTypes
  <2>q. QED
    BY <1>7, <2>1, <2>3 DEF Trigger, queryVars, LiveTypes
<1>8. ASSUME NEW s \in Subscribers, RegisterSubscriber(s) PROVE LiveTypes'
    BY <1>8 DEF RegisterSubscriber, queryVars, LiveTypes
<1>9. ASSUME NEW s \in Subscribers, TriggerHistory(s) PROVE LiveTypes'
  <2>1. Live \subseteq TokenKeys
    BY DEF Live, LiveTypes, TokenMaps
  <2>q. QED
    BY <1>9, <2>1 DEF TriggerHistory, queryVars, LiveTypes
<1>10. ASSUME NEW s \in Subscribers, HistorySample(s) PROVE LiveTypes'
  <2>1. PICK k \in tokenHistory[s] : /\ tokenHistory' = [tokenHistory EXCEPT ![s] = @ \ {k}]
                                     /\ lastSample' = [lastSample EXCEPT ![s] = [lastSample[s] EXCEPT ![k] = "PUT"]]
    BY <1>10 DEF HistorySample
  <2>2. k \in TokenKeys
    BY DEF LiveTypes
  <2>3. [lastSample[s] EXCEPT ![k] = "PUT"] \in [TokenKeys -> {"none", "PUT", "DELETE"}]
    BY <2>2 DEF LiveTypes
  <2>4. tokenHistory' \in [Subscribers -> SUBSET TokenKeys]
    BY <2>1 DEF LiveTypes
  <2>q. QED
    BY <1>10, <2>1, <2>3, <2>4 DEF HistorySample, queryVars, LiveTypes
<1>11. ASSUME NEW s \in Subscribers, SendInterest(s) PROVE LiveTypes'
  <2>1. wire' \in Seq(Messages)
    <3>1. CASE wire' = wire
      BY <3>1 DEF LiveTypes
    <3>2. ASSUME NEW r \in Remotes, NEW answer \in Answers(r, s), wire' = wire \o answer PROVE wire' \in Seq(Messages)
      <4>1. s \in Interests
        BY DEF Interests
      <4>2. answer \in Seq(Messages)
        BY <4>1, AnswersLead
      <4>q. QED
        BY <3>2, <4>2 DEF LiveTypes
    <3>q. QED
      BY <1>11, <3>1, <3>2 DEF SendInterest
  <2>2. told' \in [Remotes -> TokenMaps]
    <3>1. told' = told \/ \E r \in Remotes : told' = [told EXCEPT ![r] = alive[r]]
      BY <1>11 DEF SendInterest
    <3>q. QED
      BY <3>1 DEF LiveTypes
  <2>q. QED
    BY <1>11, <2>1, <2>2 DEF SendInterest, queryVars, LiveTypes
<1>12. ASSUME NEW q \in LivelinessQueries, QueryRegister(q) PROVE LiveTypes'
    BY <1>12 DEF QueryRegister, LiveTypes
<1>13. ASSUME NEW q \in LivelinessQueries, QuerySend(q) PROVE LiveTypes'
  <2>1. wire' \in Seq(Messages)
    <3>1. CASE wire' = wire
      BY <3>1 DEF LiveTypes
    <3>2. ASSUME NEW r \in Remotes, NEW answer \in Answers(r, q), wire' = wire \o answer PROVE wire' \in Seq(Messages)
      <4>1. q \in Interests
        BY DEF Interests
      <4>2. answer \in Seq(Messages)
        BY <4>1, AnswersLead
      <4>q. QED
        BY <3>2, <4>2 DEF LiveTypes
    <3>q. QED
      BY <1>13, <3>1, <3>2 DEF QuerySend
  <2>2. /\ tokenQuery' \in [LivelinessQueries -> {"new", "registered", "ended"}]
        /\ dropped' \in [LivelinessQueries -> Nat]
    <3>1. CASE UNCHANGED <<tokenQuery, dropped>>
      BY <3>1 DEF LiveTypes
    <3>2. CASE EndQueries({q})
      BY <3>2 DEF EndQueries, LiveTypes
    <3>q. QED
      BY <1>13, <3>1, <3>2 DEF QuerySend
  <2>q. QED
    BY <1>13, <2>1, <2>2 DEF QuerySend, LiveTypes
<1>14. ASSUME NEW q \in LivelinessQueries, QueryCancel(q) PROVE LiveTypes'
  <2>1. /\ tokenQuery' \in [LivelinessQueries -> {"new", "registered", "ended"}]
        /\ dropped' \in [LivelinessQueries -> Nat]
    BY <1>14 DEF QueryCancel, EndQueries, LiveTypes
  <2>q. QED
    BY <1>14, <2>1 DEF QueryCancel, LiveTypes
<1>15. CASE UNCHANGED livelinessVars
    BY <1>15 DEF livelinessVars, LiveTypes
<1>q. QED
    BY <1>1, <1>2, <1>3, <1>4, <1>5, <1>6, <1>7, <1>8, <1>9, <1>10, <1>11, <1>12, <1>13, <1>14, <1>15 DEF LivelinessNext

\* A router declares what it has.
LEMMA RouterStep == OneRouter /\ LiveTypes /\ RouterInv /\ [LivelinessNext]_livelinessVars => RouterInv'
<1> SUFFICES ASSUME OneRouter, LiveTypes, RouterInv, [LivelinessNext]_livelinessVars PROVE RouterInv'
    OBVIOUS
<1>a. /\ alive \in [Remotes -> TokenMaps] /\ told \in [Remotes -> TokenMaps] /\ NoKey \notin TokenKeys
      /\ subscriber \in [Subscribers -> {"new", "listed", "telling", "declared", "failed"}]
    BY LivelinessAssumption DEF LiveTypes
<1>b. ASSUME UNCHANGED <<alive, told>>, \A s \in Subscribers : subscriber'[s] = "declared" => subscriber[s] = "declared"
      PROVE  RouterInv'
    BY <1>b DEF RouterInv, Subscribers
<1>c. ASSUME NEW s \in Subscribers, NEW x \in {"listed", "telling", "failed"}, UNCHANGED <<alive, told>>,
             subscriber' = [subscriber EXCEPT ![s] = x]
      PROVE  RouterInv'
    BY <1>a, <1>b, <1>c
<1>0. PICK r0 : Remotes = {r0}
    BY DEF OneRouter
<1>1. ASSUME NEW r \in Remotes, NEW i \in TokenIds, RemoteUndeclares(r, i) PROVE RouterInv'
  <2>1. /\ alive' = [alive EXCEPT ![r][i] = NoKey] /\ told' = [told EXCEPT ![r][i] = NoKey] /\ subscriber' = subscriber
    BY <1>1 DEF RemoteUndeclares
  <2>2. alive'[r] = [alive[r] EXCEPT ![i] = NoKey] /\ told'[r] = [told[r] EXCEPT ![i] = NoKey] /\ Remotes = {r}
    BY <1>0, <1>a, <2>1
  <2>3. alive[r] \in TokenMaps /\ told[r] \in TokenMaps
    BY <1>a
  <2>q. QED
    BY <1>a, <2>1, <2>2, <2>3 DEF RouterInv, TokenMaps
<1>2. ASSUME NEW r \in Remotes, NEW i \in TokenIds, NEW k \in TokenKeys, RemoteDeclares(r, i, k) PROVE RouterInv'
  <2>1. /\ alive' = [alive EXCEPT ![r][i] = k] /\ subscriber' = subscriber /\ Remotes = {r}
        /\ alive[r][i] = NoKey /\ \A j \in TokenIds : alive[r][j] # k
    BY <1>0, <1>2 DEF RemoteDeclares
  <2>2. alive'[r] = [alive[r] EXCEPT ![i] = k] /\ alive[r] \in TokenMaps /\ told[r] \in TokenMaps
    BY <1>a, <2>1
  <2>3. CASE Pushes
    <3>1. told'[r] = [told[r] EXCEPT ![i] = k]
      BY <1>2, <1>a, <2>3 DEF RemoteDeclares
    <3>2. /\ alive'[r][i] = k /\ told'[r][i] = k
          /\ \A j \in TokenIds \ {i} : alive'[r][j] = alive[r][j] /\ told'[r][j] = told[r][j]
      BY <2>2, <3>1 DEF TokenMaps
    <3>3. \A j, l \in TokenIds : alive'[r][j] = alive'[r][l] /\ alive'[r][j] # NoKey => j = l
      BY <2>1, <3>2 DEF RouterInv
    <3>4. \A j \in TokenIds : told'[r][j] \in {NoKey, alive'[r][j]}
      BY <3>2 DEF RouterInv
    <3>5. told[r] = alive[r] => told'[r] = alive'[r]
      BY <2>2, <3>1
    <3>q. QED
      BY <2>1, <3>3, <3>4, <3>5 DEF RouterInv
  <2>4. CASE ~Pushes
    <3>1. told' = told /\ \A s \in WithHistory : subscriber[s] # "declared"
      BY <1>2, <2>4 DEF RemoteDeclares, Pushes, Subscribers
    <3>2. told[r][i] = NoKey
      BY <2>1 DEF RouterInv
    <3>q. QED
      BY <1>a, <2>1, <2>2, <3>1, <3>2 DEF RouterInv, TokenMaps
  <2>q. QED
    BY <2>3, <2>4
<1>3. ASSUME NEW r \in Remotes, RemoteLost(r) PROVE RouterInv'
    BY <1>0, <1>3, <1>a DEF RemoteLost, RouterInv
<1>4. CASE ReadDeclare \/ ReadUndeclare \/ ReadFinal \/ Trigger \/ UNCHANGED livelinessVars
    BY <1>4, <1>b DEF ReadDeclare, ReadUndeclare, ReadFinal, Trigger, livelinessVars
<1>5. ASSUME NEW s \in Subscribers, RegisterSubscriber(s) \/ TriggerHistory(s) \/ HistorySample(s) PROVE RouterInv'
    BY <1>5, <1>b, <1>c DEF RegisterSubscriber, TriggerHistory, HistorySample
<1>6. ASSUME NEW s \in Subscribers, SendInterest(s) PROVE RouterInv'
  <2>1. CASE subscriber' = [subscriber EXCEPT ![s] = "failed"] /\ UNCHANGED <<told, wire>>
    BY <1>6, <1>c, <2>1 DEF SendInterest
  <2>2. CASE subscriber' = [subscriber EXCEPT ![s] = "declared"] /\ s \in WithHistory
    <3>1. alive' = alive /\ told'[r0] = alive[r0]
      BY <1>0, <1>6, <1>a, <2>2 DEF SendInterest
    <3>q. QED
      BY <1>0, <3>1 DEF RouterInv
  <2>3. CASE subscriber' = [subscriber EXCEPT ![s] = "declared"] /\ s \notin WithHistory
    <3>1. alive' = alive /\ told' = told /\ \A x \in WithHistory : subscriber'[x] = subscriber[x]
      BY <1>6, <1>a, <2>3 DEF SendInterest, Subscribers
    <3>q. QED
      BY <3>1 DEF RouterInv
  <2>q. QED
    BY <1>6, <2>1, <2>2, <2>3 DEF SendInterest
<1>7. ASSUME NEW q \in LivelinessQueries, QueryRegister(q) \/ QuerySend(q) \/ QueryCancel(q) PROVE RouterInv'
    BY <1>7, <1>b DEF QueryRegister, QuerySend, QueryCancel
<1>q. QED
    BY <1>1, <1>2, <1>3, <1>4, <1>5, <1>6, <1>7 DEF LivelinessNext

\* The messages on their way lead to what the router has declared.
LEMMA WireStep ==
    OneRouter /\ LiveTypes /\ LiveTypes' /\ RouterInv /\ WireInv /\ ~misread' /\ [LivelinessNext]_livelinessVars => WireInv'
<1> SUFFICES ASSUME OneRouter, LiveTypes, LiveTypes', RouterInv, WireInv, ~misread', [LivelinessNext]_livelinessVars
             PROVE  WireInv'
    OBVIOUS
<1>0. PICK r0 : Remotes = {r0}
    BY DEF OneRouter
<1>a. told \in [Remotes -> TokenMaps] /\ wire \in Seq(Messages) /\ remoteTokens \in TokenMaps /\ NoKey \notin TokenKeys
    BY LivelinessAssumption DEF LiveTypes
<1>b. \A r \in Remotes : told[r] \in TokenMaps /\ LeadTo(wire, remoteTokens, told[r]) /\ told'[r] \in TokenMaps
    BY DEF LiveTypes, WireInv
<1>1. ASSUME NEW r \in Remotes, NEW i \in TokenIds, RemoteUndeclares(r, i) PROVE WireInv'
  <2>1. told'[r] = [told[r] EXCEPT ![i] = NoKey] /\ remoteTokens' = remoteTokens
    BY <1>1, <1>a DEF RemoteUndeclares
  <2>2. CASE told[r][i] = NoKey
    <3>1. wire' = wire /\ told'[r] = told[r]
      BY <1>1, <1>b, <2>1, <2>2 DEF RemoteUndeclares, TokenMaps
    <3>q. QED
      BY <1>0, <2>1, <3>1 DEF WireInv
  <2>3. CASE told[r][i] # NoKey
    <3>1. PICK m \in Messages : m = [tag |-> "UNDECL_TOKEN", from |-> r, id |-> i]
      BY DEF Messages
    <3>2. wire' = Append(wire, m)
      BY <1>1, <2>3, <3>1 DEF RemoteUndeclares
    <3>3. Applied(m, told[r], told'[r])
      BY <2>1, <2>3, <3>1 DEF Applied
    <3>4. LeadTo(wire', remoteTokens, told'[r])
      BY <1>a, <1>b, <3>2, <3>3, LeadToMore
    <3>q. QED
      BY <1>0, <2>1, <3>4 DEF WireInv
  <2>q. QED
    BY <2>2, <2>3
<1>2. ASSUME NEW r \in Remotes, NEW i \in TokenIds, NEW k \in TokenKeys, RemoteDeclares(r, i, k) PROVE WireInv'
  <2>1. CASE ~Pushes
    BY <1>2, <2>1 DEF RemoteDeclares, WireInv
  <2>2. CASE Pushes
    <3>1. PICK m \in Messages : m = [tag |-> "DECL_TOKEN", from |-> r, id |-> i, key |-> k, interest |-> NoInterest]
      BY DEF Messages, Interests
    <3>2. /\ alive[r][i] = NoKey /\ (\A j \in TokenIds : alive[r][j] # k) /\ told'[r] = [told[r] EXCEPT ![i] = k]
          /\ wire' = Append(wire, m) /\ remoteTokens' = remoteTokens
      BY <1>2, <1>a, <2>2, <3>1 DEF RemoteDeclares
    <3>3. told[r][i] = NoKey /\ \A j \in TokenIds : told[r][j] # k
      BY <1>a, <3>2 DEF RouterInv
    <3>4. Applied(m, told[r], told'[r])
      BY <3>1, <3>2, <3>3, LivelinessAssumption DEF Applied
    <3>5. LeadTo(wire', remoteTokens, told'[r])
      BY <1>a, <1>b, <3>2, <3>4, LeadToMore
    <3>q. QED
      BY <1>0, <3>2, <3>5 DEF WireInv
  <2>q. QED
    BY <2>1, <2>2
<1>3. ASSUME NEW r \in Remotes, RemoteLost(r) PROVE WireInv'
  <2>1. wire' = << >> /\ remoteTokens' = [i \in TokenIds |-> NoKey] /\ \A x \in Remotes : told'[x] = remoteTokens'
    BY <1>3, RemoteLostDoes
  <2>2. remoteTokens' \in TokenMaps
    BY <2>1 DEF TokenMaps
  <2>3. LeadTo(wire', remoteTokens', remoteTokens')
    BY <2>1, <2>2, LeadToSelf
  <2>q. QED
    BY <2>1, <2>3 DEF WireInv
<1>4. CASE ReadDeclare
  <2>1. \A r \in Remotes : LeadTo(wire', remoteTokens', told[r])
    BY <1>4, ReadDeclareDoes
  <2>2. told' = told
    BY <1>4 DEF ReadDeclare
  <2>3. \A i, j \in TokenIds : remoteTokens'[i] = remoteTokens'[j] /\ remoteTokens'[i] # NoKey => i = j
    <3>1. CASE remoteTokens' = remoteTokens
      BY <3>1 DEF WireInv
    <3>2. ASSUME NEW i \in TokenIds, NEW k \in TokenKeys, \A j \in TokenIds : remoteTokens[j] # k,
                 remoteTokens' = [remoteTokens EXCEPT ![i] = k]
          PROVE  \A x, y \in TokenIds : remoteTokens'[x] = remoteTokens'[y] /\ remoteTokens'[x] # NoKey => x = y
      BY <1>a, <3>2 DEF WireInv, TokenMaps
    <3>q. QED
      BY <1>4, <3>1, <3>2, ReadDeclareDoes
  <2>q. QED
    BY <2>1, <2>2, <2>3 DEF WireInv
<1>5. CASE ReadUndeclare
  <2>1. \A r \in Remotes : LeadTo(wire', remoteTokens', told[r])
    BY <1>5, ReadUndeclareDoes
  <2>2. told' = told
    BY <1>5 DEF ReadUndeclare
  <2>3. PICK i \in TokenIds : remoteTokens' = [remoteTokens EXCEPT ![i] = NoKey]
    BY <1>5, ReadUndeclareDoes
  <2>4. \A x, y \in TokenIds : remoteTokens'[x] = remoteTokens'[y] /\ remoteTokens'[x] # NoKey => x = y
    BY <1>a, <2>3 DEF WireInv, TokenMaps
  <2>q. QED
    BY <2>1, <2>2, <2>4 DEF WireInv
<1>6. CASE ReadFinal
  <2>1. wire # << >> /\ wire' = Tail(wire) /\ Head(wire).tag = "DECL_FINAL" /\ told' = told /\ remoteTokens' = remoteTokens
    BY <1>6 DEF ReadFinal
  <2>2. PICK c \in TokenMaps : Applied(Head(wire), remoteTokens, c) /\ LeadTo(wire', c, told[r0])
    BY <1>0, <1>a, <1>b, <2>1, LeadToNext
  <2>3. c = remoteTokens
    BY <2>1, <2>2 DEF Applied
  <2>q. QED
    BY <1>0, <2>1, <2>2, <2>3 DEF WireInv
<1>7. ASSUME NEW x \in Interests, NEW r \in Remotes, NEW answer \in Answers(r, x), wire' = wire \o answer,
             told'[r] = (IF x \in LivelinessQueries THEN told[r] ELSE alive[r]), remoteTokens' = remoteTokens
      PROVE  WireInv'
  <2>1. answer \in Seq(Messages) /\ LeadTo(answer, told[r], told'[r])
    BY <1>7, AnswersLead
  <2>2. LeadTo(wire', remoteTokens, told'[r])
    BY <1>7, <1>a, <1>b, <2>1, LeadToMany
  <2>q. QED
    BY <1>0, <1>7, <2>2 DEF WireInv
<1>8. CASE UNCHANGED <<wire, told, remoteTokens>>
    BY <1>8 DEF WireInv
<1>9. ASSUME NEW s \in Subscribers, SendInterest(s) PROVE WireInv'
  <2>1. s \in Interests /\ s \notin LivelinessQueries /\ remoteTokens' = remoteTokens
    BY <1>9, LivelinessAssumption DEF Interests, SendInterest
  <2>2. \/ wire' = wire /\ told' = told
        \/ \E r \in Remotes : \E answer \in Answers(r, s) : wire' = wire \o answer /\ told'[r] = alive[r]
    BY <1>9, <1>a DEF SendInterest
  <2>q. QED
    BY <1>7, <1>8, <2>1, <2>2
<1>10. ASSUME NEW q \in LivelinessQueries, QuerySend(q) PROVE WireInv'
  <2>1. q \in Interests /\ UNCHANGED <<told, remoteTokens>>
    BY <1>10 DEF Interests, QuerySend
  <2>2. wire' = wire \/ \E r \in Remotes : \E answer \in Answers(r, q) : wire' = wire \o answer
    BY <1>10 DEF QuerySend
  <2>q. QED
    BY <1>7, <1>8, <2>1, <2>2
<1>11. ASSUME Trigger \/ UNCHANGED livelinessVars
              \/ (\E s \in Subscribers : RegisterSubscriber(s) \/ TriggerHistory(s) \/ HistorySample(s))
              \/ (\E q \in LivelinessQueries : QueryRegister(q) \/ QueryCancel(q))
       PROVE  WireInv'
    BY <1>8, <1>11 DEF Trigger, livelinessVars, RegisterSubscriber, TriggerHistory, HistorySample, QueryRegister, QueryCancel
<1>q. QED
    BY <1>1, <1>2, <1>3, <1>4, <1>5, <1>6, <1>9, <1>10, <1>11 DEF LivelinessNext

\* The samples that wait, and what the subscribers have been told.
LEMMA SubscriberStep ==
    OneRouter /\ LiveTypes /\ WireInv /\ TriggerInv /\ SubscriberInv /\ ~misread' /\ [LivelinessNext]_livelinessVars =>
        TriggerInv' /\ SubscriberInv'
<1> SUFFICES ASSUME OneRouter, LiveTypes, WireInv, TriggerInv, SubscriberInv, ~misread', [LivelinessNext]_livelinessVars
             PROVE  TriggerInv' /\ SubscriberInv'
    OBVIOUS
<1>a. /\ remoteTokens \in TokenMaps /\ NoKey \notin TokenKeys
      /\ triggers \in Seq([kind : {"PUT", "DELETE"}, key : TokenKeys])
      /\ subscriber \in [Subscribers -> {"new", "listed", "telling", "declared", "failed"}]
      /\ tokenHistory \in [Subscribers -> SUBSET TokenKeys]
      /\ lastSample \in [Subscribers -> [TokenKeys -> {"none", "PUT", "DELETE"}]]
    BY LivelinessAssumption DEF LiveTypes
<1>b. CASE UNCHANGED <<remoteTokens, triggers, subscriber, tokenHistory, lastSample>>
    BY <1>b DEF TriggerInv, SubscriberInv, On, Waiting, ToldOf
\* A step of the read task: what changes is told by a sample that waits.
<1>c. ASSUME triggers = << >>, UNCHANGED <<subscriber, tokenHistory, lastSample>>, TriggerInv',
             \A k \in TokenKeys : Waiting(k)' \/ (On(k)' <=> On(k))
      PROVE  SubscriberInv'
  <2>1. \A k : ~Waiting(k)
    BY <1>c DEF Waiting
  <2>2. ASSUME NEW s \in Subscribers, NEW k \in TokenKeys, ToldOf(s, k), On(k)' <=> On(k) PROVE ToldOf(s, k)'
    BY <1>c, <2>2 DEF ToldOf
  <2>3. \A s \in Subscribers : \A k \in TokenKeys : ToldOf(s, k) => Waiting(k)' \/ ToldOf(s, k)'
    BY <1>c, <2>2
  <2>q. QED
    BY <1>c, <2>1, <2>3 DEF SubscriberInv
<1>1. ASSUME NEW r \in Remotes, NEW i \in TokenIds,
             RemoteUndeclares(r, i) \/ \E k \in TokenKeys : RemoteDeclares(r, i, k)
      PROVE  TriggerInv' /\ SubscriberInv'
    BY <1>1, <1>b DEF RemoteUndeclares, RemoteDeclares
<1>2. ASSUME NEW r \in Remotes, RemoteLost(r) PROVE TriggerInv' /\ SubscriberInv'
  <2>1. triggers = << >> /\ UNCHANGED <<subscriber, tokenHistory, lastSample>>
    BY <1>2 DEF RemoteLost
  <2>2. /\ remoteTokens' = [i \in TokenIds |-> NoKey] /\ \A n \in DOMAIN triggers' : triggers'[n].kind = "DELETE"
        /\ triggers' \in Seq([kind : {"PUT", "DELETE"}, key : TokenKeys])
        /\ \A k \in TokenKeys : On(k) => Waiting(k)'
    BY <1>2, RemoteLostDoes
  <2>3. \A k \in TokenKeys : ~On(k)'
    BY <1>a, <2>2 DEF On
  <2> DEFINE Samples == [kind : {"PUT", "DELETE"}, key : TokenKeys]
  <2>5. \A n \in DOMAIN triggers' : triggers'[n].key \in TokenKeys
    <3>1. triggers' \in Seq(Samples)
      BY <2>2
    <3>2. \A m \in Samples : m.key \in TokenKeys
      OBVIOUS
    <3> HIDE DEF Samples
    <3>3. \A n \in DOMAIN triggers' : triggers'[n] \in Samples
      BY <3>1
    <3>q. QED
      BY <3>2, <3>3
  <2>4. TriggerInv'
    BY <2>2, <2>3, <2>5 DEF TriggerInv
  <2>q. QED
    BY <1>c, <2>1, <2>2, <2>3, <2>4
<1>3. CASE ReadDeclare
  <2>1. triggers = << >> /\ UNCHANGED <<subscriber, tokenHistory, lastSample>>
    BY <1>3 DEF ReadDeclare
  <2>2. CASE remoteTokens' = remoteTokens /\ triggers' = << >>
    BY <1>b, <2>1, <2>2
  <2>3. ASSUME NEW i \in TokenIds, NEW k \in TokenKeys, remoteTokens[i] = NoKey,
               remoteTokens' = [remoteTokens EXCEPT ![i] = k], triggers' = <<[kind |-> "PUT", key |-> k]>>
        PROVE  TriggerInv' /\ SubscriberInv'
    <3>1. DOMAIN triggers' = {1} /\ triggers'[1].kind = "PUT" /\ triggers'[1].key = k
      BY <2>3, OneTrigger
    <3>2. remoteTokens'[i] = k /\ \A j \in TokenIds \ {i} : remoteTokens'[j] = remoteTokens[j]
      BY <1>a, <2>3 DEF TokenMaps
    <3>3. On(k)' /\ \A x \in TokenKeys \ {k} : On(x)' <=> On(x)
      BY <1>a, <2>3, <3>2 DEF On
    <3>4. TriggerInv' /\ Waiting(k)'
      BY <3>1, <3>3 DEF TriggerInv, Waiting
    <3>q. QED
      BY <1>c, <2>1, <3>3, <3>4
  <2>q. QED
    BY <1>3, <2>2, <2>3, ReadDeclareDoes
<1>4. CASE ReadUndeclare
  <2>1. triggers = << >> /\ UNCHANGED <<subscriber, tokenHistory, lastSample>>
    BY <1>4 DEF ReadUndeclare
  <2>2. PICK i \in TokenIds, k \in TokenKeys :
            /\ remoteTokens[i] = k /\ remoteTokens' = [remoteTokens EXCEPT ![i] = NoKey]
            /\ triggers' = <<[kind |-> "DELETE", key |-> k]>>
    BY <1>4, ReadUndeclareDoes
  <2>3. DOMAIN triggers' = {1} /\ triggers'[1].kind = "DELETE" /\ triggers'[1].key = k
    BY <2>2, OneTrigger
  <2>4. remoteTokens'[i] = NoKey /\ \A j \in TokenIds \ {i} : remoteTokens'[j] = remoteTokens[j]
    BY <1>a, <2>2 DEF TokenMaps
  <2>5. ~On(k)'
    BY <1>a, <2>2, <2>4 DEF On, WireInv
  <2>6. \A x \in TokenKeys \ {k} : On(x)' <=> On(x)
    BY <1>a, <2>2, <2>4 DEF On
  <2>7. TriggerInv' /\ Waiting(k)'
    BY <2>3, <2>5 DEF TriggerInv, Waiting
  <2>q. QED
    BY <1>c, <2>1, <2>6, <2>7
<1>5. CASE ReadFinal
    BY <1>5, <1>b DEF ReadFinal
<1>6. CASE Trigger
  <2>1. /\ triggers # << >> /\ triggers' = Tail(triggers) /\ UNCHANGED <<remoteTokens, subscriber, tokenHistory>>
        /\ lastSample' = [s \in Subscribers |->
               IF subscriber[s] \in {"new", "failed"} THEN lastSample[s]
               ELSE [lastSample[s] EXCEPT ![Head(triggers).key] = Head(triggers).kind]]
    BY <1>6 DEF Trigger
  <2> DEFINE Samples == [kind : {"PUT", "DELETE"}, key : TokenKeys]
  <2>2. /\ DOMAIN triggers = 1 .. Len(triggers) /\ Len(triggers) \in Nat \ {0} /\ Head(triggers) = triggers[1]
        /\ DOMAIN triggers' = 1 .. Len(triggers) - 1 /\ \A n \in 1 .. Len(triggers) - 1 : triggers'[n] = triggers[n + 1]
    <3>1. triggers \in Seq(Samples)
      BY <1>a
    <3> HIDE DEF Samples
    <3>q. QED
      BY <2>1, <3>1
  <2>3. PICK k0 \in TokenKeys, x \in {"PUT", "DELETE"} : triggers[1].key = k0 /\ triggers[1].kind = x
    <3>1. \A m \in Samples : m.key \in TokenKeys /\ m.kind \in {"PUT", "DELETE"}
      OBVIOUS
    <3>2. triggers \in Seq(Samples)
      BY <1>a
    <3> HIDE DEF Samples
    <3>3. triggers[1] \in Samples
      BY <2>2, <3>2
    <3>q. QED
      BY <3>1, <3>3
  <2>4. \A k : On(k)' <=> On(k)
    BY <2>1 DEF On
  <2>5. TriggerInv'
    BY <2>2, <2>4 DEF TriggerInv
  <2>6. \A k \in TokenKeys \ {k0} : Waiting(k) => Waiting(k)'
    <3> SUFFICES ASSUME NEW k \in TokenKeys \ {k0}, Waiting(k) PROVE Waiting(k)'
      OBVIOUS
    <3>1. PICK n \in 1 .. Len(triggers) : triggers[n].key = k
      BY <2>2 DEF Waiting
    <3>2. n # 1
      BY <2>3, <3>1
    <3>3. n - 1 \in DOMAIN triggers' /\ triggers'[n - 1] = triggers[n]
      BY <2>2, <3>1, <3>2
    <3>q. QED
      BY <3>1, <3>3 DEF Waiting
  <2>7. (x = "PUT") <=> On(k0)
    BY <2>2, <2>3 DEF TriggerInv
  <2>8. ASSUME NEW s \in Subscribers
        PROVE  /\ subscriber[s] \in {"new", "failed"} => lastSample'[s] = lastSample[s]
               /\ subscriber[s] \notin {"new", "failed"} =>
                      lastSample'[s][k0] = x /\ \A k \in TokenKeys \ {k0} : lastSample'[s][k] = lastSample[s][k]
    BY <1>a, <2>1, <2>2, <2>3
  <2>9. ASSUME NEW s \in Subscribers, NEW k \in TokenKeys, subscriber[s] # "failed", subscriber[s] # "new"
        PROVE  Waiting(k)' \/ ToldOf(s, k)'
    <3>1. CASE k = k0
      <4>1. lastSample'[s][k] = x
        BY <2>8, <2>9, <3>1
      <4>q. QED
        BY <2>4, <2>7, <3>1, <4>1 DEF ToldOf
    <3>2. CASE k # k0
      <4>1. lastSample'[s][k] = lastSample[s][k]
        BY <2>8, <2>9, <3>2
      <4>2. Waiting(k) \/ ToldOf(s, k)
        BY <2>9 DEF SubscriberInv
      <4>3. ToldOf(s, k) => ToldOf(s, k)'
        BY <2>1, <2>4, <4>1 DEF ToldOf
      <4>q. QED
        BY <2>6, <3>2, <4>2, <4>3
    <3>q. QED
      BY <3>1, <3>2
  <2>10. ASSUME NEW s \in Subscribers, NEW k \in TokenKeys, subscriber[s] = "new" PROVE ToldOf(s, k)'
    <3>1. lastSample'[s][k] = "none" /\ subscriber'[s] = "new" /\ (s \in WithHistory \/ s \in WithoutHistory)
      BY <2>1, <2>8, <2>10 DEF SubscriberInv, Subscribers
    <3>q. QED
      BY <3>1 DEF ToldOf
  <2>11. SubscriberInv'
    BY <2>1, <2>8, <2>9, <2>10 DEF SubscriberInv
  <2>q. QED
    BY <2>5, <2>11
<1>7. ASSUME NEW s \in Subscribers, RegisterSubscriber(s) PROVE TriggerInv' /\ SubscriberInv'
  <2>1. /\ subscriber[s] = "new" /\ subscriber' = [subscriber EXCEPT ![s] = "listed"]
        /\ UNCHANGED <<remoteTokens, triggers, tokenHistory, lastSample>>
    BY <1>7 DEF RegisterSubscriber
  <2>2. TriggerInv' /\ (\A k : (On(k)' <=> On(k)) /\ (Waiting(k)' <=> Waiting(k)))
    BY <2>1 DEF TriggerInv, On, Waiting
  <2>3. subscriber'[s] = "listed" /\ \A t \in Subscribers \ {s} : subscriber'[t] = subscriber[t]
    BY <1>a, <2>1
  <2>4. ASSUME NEW t \in Subscribers, NEW k \in TokenKeys, ToldOf(t, k) PROVE ToldOf(t, k)'
    BY <2>1, <2>2, <2>3, <2>4 DEF ToldOf
  <2>q. QED
    BY <2>1, <2>2, <2>3, <2>4 DEF SubscriberInv
<1>8. ASSUME NEW s \in Subscribers, TriggerHistory(s) PROVE TriggerInv' /\ SubscriberInv'
  <2>1. /\ subscriber[s] = "listed" /\ subscriber' = [subscriber EXCEPT ![s] = "telling"]
        /\ tokenHistory' = [tokenHistory EXCEPT ![s] = IF s \in WithHistory THEN Live ELSE {}]
        /\ UNCHANGED <<remoteTokens, triggers, lastSample>>
    BY <1>8 DEF TriggerHistory
  <2>2. TriggerInv' /\ (\A k : (On(k)' <=> On(k)) /\ (Waiting(k)' <=> Waiting(k)))
    BY <2>1 DEF TriggerInv, On, Waiting
  <2>3. /\ subscriber'[s] = "telling" /\ tokenHistory'[s] = (IF s \in WithHistory THEN Live ELSE {})
        /\ \A t \in Subscribers \ {s} : subscriber'[t] = subscriber[t] /\ tokenHistory'[t] = tokenHistory[t]
    BY <1>a, <2>1
  <2>4. \A k \in TokenKeys : On(k) => k \in Live
    BY <1>a DEF On, Live
  <2>5. ASSUME NEW t \in Subscribers, NEW k \in TokenKeys, ToldOf(t, k) PROVE ToldOf(t, k)'
    <3>1. CASE t = s
      BY <2>1, <2>2, <2>3, <2>4, <2>5, <3>1 DEF ToldOf
    <3>2. CASE t # s
      BY <2>1, <2>2, <2>3, <2>5, <3>2 DEF ToldOf
    <3>q. QED
      BY <3>1, <3>2
  <2>q. QED
    BY <2>1, <2>2, <2>3, <2>5 DEF SubscriberInv
<1>9. ASSUME NEW s \in Subscribers, HistorySample(s) PROVE TriggerInv' /\ SubscriberInv'
  <2>1. PICK k0 \in tokenHistory[s] : /\ tokenHistory' = [tokenHistory EXCEPT ![s] = @ \ {k0}]
                                      /\ lastSample' = [lastSample EXCEPT ![s] = [lastSample[s] EXCEPT ![k0] = "PUT"]]
    BY <1>9 DEF HistorySample
  <2>2. UNCHANGED <<remoteTokens, triggers, subscriber>>
    BY <1>9 DEF HistorySample
  <2>3. TriggerInv' /\ (\A k : (On(k)' <=> On(k)) /\ (Waiting(k)' <=> Waiting(k)))
    BY <2>2 DEF TriggerInv, On, Waiting
  <2>4. subscriber[s] = "telling" /\ s \in WithHistory /\ k0 \in TokenKeys
    BY <1>a DEF SubscriberInv
  <2>5. /\ tokenHistory'[s] = tokenHistory[s] \ {k0} /\ lastSample'[s][k0] = "PUT"
        /\ \A k \in TokenKeys \ {k0} : lastSample'[s][k] = lastSample[s][k]
        /\ \A t \in Subscribers \ {s} : lastSample'[t] = lastSample[t] /\ tokenHistory'[t] = tokenHistory[t]
    BY <1>a, <2>1, <2>4
  <2>6. ASSUME NEW t \in Subscribers, NEW k \in TokenKeys, ToldOf(t, k) \/ (t = s /\ k = k0) PROVE ToldOf(t, k)'
    <3>1. CASE t = s /\ k = k0
      BY <2>4, <2>5, <3>1 DEF ToldOf
    <3>2. CASE t = s /\ k # k0
      BY <2>2, <2>3, <2>5, <2>6, <3>2 DEF ToldOf
    <3>3. CASE t # s
      BY <2>2, <2>3, <2>5, <2>6, <3>3 DEF ToldOf
    <3>q. QED
      BY <3>1, <3>2, <3>3
  <2>q. QED
    BY <2>2, <2>3, <2>4, <2>5, <2>6 DEF SubscriberInv
<1>10. ASSUME NEW s \in Subscribers, SendInterest(s) PROVE TriggerInv' /\ SubscriberInv'
  <2>1. /\ subscriber[s] = "telling" /\ tokenHistory[s] = {} /\ UNCHANGED <<remoteTokens, triggers, tokenHistory, lastSample>>
    BY <1>10 DEF SendInterest
  <2>2. PICK x \in {"declared", "failed"} : subscriber' = [subscriber EXCEPT ![s] = x]
    BY <1>10 DEF SendInterest
  <2>3. TriggerInv' /\ (\A k : (On(k)' <=> On(k)) /\ (Waiting(k)' <=> Waiting(k)))
    BY <2>1 DEF TriggerInv, On, Waiting
  <2>4. subscriber'[s] = x /\ \A t \in Subscribers \ {s} : subscriber'[t] = subscriber[t]
    BY <1>a, <2>2
  <2>5. ASSUME NEW t \in Subscribers, NEW k \in TokenKeys, ToldOf(t, k) PROVE ToldOf(t, k)'
    BY <2>1, <2>3, <2>4, <2>5 DEF ToldOf
  <2>q. QED
    BY <2>1, <2>3, <2>4, <2>5 DEF SubscriberInv
<1>11. ASSUME NEW q \in LivelinessQueries, QueryRegister(q) \/ QuerySend(q) \/ QueryCancel(q)
       PROVE  TriggerInv' /\ SubscriberInv'
    BY <1>11, <1>b DEF QueryRegister, QuerySend, QueryCancel
<1>12. CASE UNCHANGED livelinessVars
    BY <1>12, <1>b DEF livelinessVars
<1>q. QED
    BY <1>1, <1>2, <1>3, <1>4, <1>5, <1>6, <1>7, <1>8, <1>9, <1>10, <1>11, <1>12 DEF LivelinessNext

\* A query ends once.
LEMMA EndedStep == LiveTypes /\ EndedInv /\ [LivelinessNext]_livelinessVars => EndedInv'
<1> SUFFICES ASSUME LiveTypes, EndedInv, [LivelinessNext]_livelinessVars PROVE EndedInv'
    OBVIOUS
<1>a. /\ tokenQuery \in [LivelinessQueries -> {"new", "registered", "ended"}]
      /\ dropped \in [LivelinessQueries -> Nat]
    BY DEF LiveTypes
<1>b. CASE UNCHANGED <<tokenQuery, dropped>>
    BY <1>b DEF EndedInv
<1>c. ASSUME NEW qs, EndQueries(qs) PROVE EndedInv'
  <2>1. ASSUME NEW q \in LivelinessQueries PROVE dropped'[q] = IF tokenQuery'[q] = "ended" THEN 1 ELSE 0
    <3>1. CASE q \in qs \cap PendingQueries
      BY <1>a, <1>c, <3>1 DEF EndQueries, EndedInv, PendingQueries
    <3>2. CASE q \notin qs \cap PendingQueries
      BY <1>a, <1>c, <3>2 DEF EndQueries, EndedInv
    <3>q. QED
      BY <3>1, <3>2
  <2>q. QED
    BY <2>1 DEF EndedInv
<1>1. ASSUME NEW r \in Remotes, NEW i \in TokenIds,
             RemoteUndeclares(r, i) \/ \E k \in TokenKeys : RemoteDeclares(r, i, k)
      PROVE  EndedInv'
    BY <1>1, <1>b DEF RemoteUndeclares, RemoteDeclares, queryVars
<1>2. ASSUME NEW r \in Remotes, RemoteLost(r) PROVE EndedInv'
    BY <1>2, <1>b DEF RemoteLost, queryVars
<1>3. CASE ReadDeclare \/ ReadUndeclare \/ Trigger \/ UNCHANGED livelinessVars
    BY <1>3, <1>b DEF ReadDeclare, ReadUndeclare, Trigger, livelinessVars, queryVars
<1>4. CASE ReadFinal
    BY <1>4, <1>c DEF ReadFinal
<1>5. ASSUME NEW s \in Subscribers, RegisterSubscriber(s) \/ TriggerHistory(s) \/ HistorySample(s) \/ SendInterest(s)
      PROVE  EndedInv'
    BY <1>5, <1>b DEF RegisterSubscriber, TriggerHistory, HistorySample, SendInterest, queryVars
<1>6. ASSUME NEW q \in LivelinessQueries, QueryRegister(q) PROVE EndedInv'
    BY <1>6, <1>a DEF QueryRegister, EndedInv
<1>7. ASSUME NEW q \in LivelinessQueries, QuerySend(q) PROVE EndedInv'
    BY <1>7, <1>b, <1>c DEF QuerySend
<1>8. ASSUME NEW q \in LivelinessQueries, QueryCancel(q) PROVE EndedInv'
    BY <1>8, <1>c DEF QueryCancel
<1>q. QED
    BY <1>1, <1>2, <1>3, <1>4, <1>5, <1>6, <1>7, <1>8 DEF LivelinessNext

\* What was misread stays so, and the router undeclares what is known.
LEMMA ErrorsStep ==
    OneRouter /\ LiveTypes /\ [LivelinessNext]_livelinessVars =>
        (misread => misread') /\ (WireInv /\ ~misread' => rxErrors' = rxErrors)
<1> SUFFICES ASSUME OneRouter, LiveTypes, [LivelinessNext]_livelinessVars
             PROVE  (misread => misread') /\ (WireInv => rxErrors' = rxErrors)
    OBVIOUS
<1>1. CASE ReadUndeclare
  <2>1. WireInv => rxErrors' = rxErrors
    BY <1>1, ReadUndeclareDoes
  <2>q. QED
    BY <1>1, <2>1 DEF ReadUndeclare
<1>2. ASSUME NEW r \in Remotes, NEW i \in TokenIds,
             RemoteUndeclares(r, i) \/ \E k \in TokenKeys : RemoteDeclares(r, i, k)
      PROVE  UNCHANGED <<misread, rxErrors>>
    BY <1>2 DEF RemoteUndeclares, RemoteDeclares
<1>3. ASSUME NEW r \in Remotes, RemoteLost(r) PROVE UNCHANGED <<misread, rxErrors>>
    BY <1>3 DEF RemoteLost
<1>4. CASE ReadDeclare
    BY <1>4 DEF ReadDeclare
<1>5. CASE ReadFinal \/ Trigger \/ UNCHANGED livelinessVars
    BY <1>5 DEF ReadFinal, Trigger, livelinessVars
<1>6. ASSUME NEW s \in Subscribers, RegisterSubscriber(s) \/ TriggerHistory(s) \/ HistorySample(s) \/ SendInterest(s)
      PROVE  UNCHANGED <<misread, rxErrors>>
    BY <1>6 DEF RegisterSubscriber, TriggerHistory, HistorySample, SendInterest
<1>7. ASSUME NEW q \in LivelinessQueries, QueryRegister(q) \/ QuerySend(q) \/ QueryCancel(q)
      PROVE  UNCHANGED <<misread, rxErrors>>
    BY <1>7 DEF QueryRegister, QuerySend, QueryCancel
<1>q. QED
    BY <1>1, <1>2, <1>3, <1>4, <1>5, <1>6, <1>7 DEF LivelinessNext

\* No token, no subscriber and no query at first.
LEMMA LiveInit == OneRouter /\ LivelinessInit => LiveInv
<1> SUFFICES ASSUME OneRouter, LivelinessInit PROVE LiveInv
    OBVIOUS
<1>1. /\ remoteTokens \in TokenMaps /\ alive \in [Remotes -> TokenMaps] /\ told = alive
      /\ \A r \in Remotes : told[r] = remoteTokens
    BY DEF LivelinessInit, TokenMaps
<1>2. LiveTypes
  <2>1. lastSample \in [Subscribers -> [TokenKeys -> {"none", "PUT", "DELETE"}]]
    BY DEF LivelinessInit
  <2>2. /\ wire = << >> /\ triggers = << >> /\ misread \in BOOLEAN /\ rxErrors \in Nat
        /\ subscriber \in [Subscribers -> {"new", "listed", "telling", "declared", "failed"}]
        /\ tokenHistory \in [Subscribers -> SUBSET TokenKeys]
    BY DEF LivelinessInit
  <2>3. /\ tokenQuery \in [LivelinessQueries -> {"new", "registered", "ended"}]
        /\ dropped \in [LivelinessQueries -> Nat]
    BY DEF LivelinessInit
  <2>4. \A S : << >> \in Seq(S)
    OBVIOUS
  <2>q. QED
    BY <1>1, <2>1, <2>2, <2>3, <2>4 DEF LiveTypes
<1>3. WireInv
  <2>1. LeadTo(wire, remoteTokens, remoteTokens)
    BY <1>1, LeadToSelf DEF LivelinessInit
  <2>2. \A i, j \in TokenIds : remoteTokens[i] = NoKey
    BY DEF LivelinessInit
  <2>q. QED
    BY <1>1, <2>1, <2>2 DEF WireInv
<1>4. TriggerInv
    BY DEF LivelinessInit, TriggerInv
<1>5. SubscriberInv
  <2>1. ASSUME NEW s \in Subscribers, NEW k \in TokenKeys PROVE ToldOf(s, k)
    <3>1. lastSample[s][k] = "none" /\ subscriber[s] = "new" /\ (s \in WithHistory \/ s \in WithoutHistory)
      BY DEF LivelinessInit, Subscribers
    <3>q. QED
      BY <3>1 DEF ToldOf
  <2>q. QED
    BY <2>1 DEF LivelinessInit, SubscriberInv
<1>6. EndedInv /\ rxErrors = 0
    BY DEF LivelinessInit, EndedInv
<1>7. RouterInv
    BY DEF LivelinessInit, RouterInv
<1>q. QED
    BY <1>2, <1>3, <1>4, <1>5, <1>6, <1>7 DEF LiveInv, ReadRight

\* The parts together are inductive.
LEMMA LiveStep == OneRouter /\ LiveInv /\ [LivelinessNext]_livelinessVars => LiveInv'
<1> SUFFICES ASSUME OneRouter, LiveInv, [LivelinessNext]_livelinessVars PROVE LiveInv'
    OBVIOUS
<1>1. LiveTypes'
    BY LiveTypesStep DEF LiveInv
<1>2. RouterInv'
    BY RouterStep DEF LiveInv
<1>3. EndedInv'
    BY EndedStep DEF LiveInv
<1>4. ASSUME ~misread' PROVE ReadRight'
  <2>1. ReadRight /\ rxErrors' = rxErrors
    BY <1>4, ErrorsStep DEF LiveInv, ReadRight
  <2>2. WireInv'
    BY <1>1, <1>4, <2>1, WireStep DEF LiveInv, ReadRight
  <2>3. TriggerInv' /\ SubscriberInv'
    BY <1>4, <2>1, SubscriberStep DEF LiveInv, ReadRight
  <2>q. QED
    BY <2>1, <2>2, <2>3 DEF ReadRight
<1>q. QED
    BY <1>1, <1>2, <1>3, <1>4 DEF LiveInv

\* Once every message is handled the session knows what the router has.
LEMMA LiveInvGives == OneRouter /\ LiveInv => TokensRight
<1> SUFFICES ASSUME OneRouter, LiveInv PROVE TokensRight
    OBVIOUS
<1>1. TokensTold
  <2> DEFINE D(s, k) == \E r \in Remotes, i \in TokenIds : (IF s \in WithHistory THEN alive ELSE told)[r][i] = k
  <2> SUFFICES ASSUME wire = << >>, triggers = << >>, ~misread, NEW k \in TokenKeys, NEW s \in Subscribers,
                      subscriber[s] = "declared"
               PROVE  /\ D(s, k) => lastSample[s][k] = "PUT" \/ (s \in WithoutHistory /\ lastSample[s][k] = "none")
                      /\ ~D(s, k) => lastSample[s][k] # "PUT" \/ s \in WithHistory
    BY DEF TokensTold
  <2>1. PICK r : Remotes = {r}
    BY DEF OneRouter
  <2>2. remoteTokens = told[r]
    BY <2>1, LeadToNil DEF LiveInv, ReadRight, WireInv
  <2>3. s \in WithHistory => told[r] = alive[r]
    BY <2>1 DEF LiveInv, RouterInv
  <2>4. On(k) <=> D(s, k)
    BY <2>1, <2>2, <2>3 DEF On
  <2>5. ~Waiting(k)
    BY DEF Waiting
  <2>6. ToldOf(s, k) /\ tokenHistory[s] = {}
    BY <2>5 DEF LiveInv, ReadRight, SubscriberInv
  <2> HIDE DEF D
  <2>q. QED
    BY <2>4, <2>6 DEF ToldOf
<1>2. QueriesEndOnce
    BY DEF LiveInv, ReadRight, EndedInv, QueriesEndOnce
<1>q. QED
    BY <1>1, <1>2 DEF TokensRight

\* A client's liveliness subscribers are told of every token what is so, whatever
\* interleaves with their declaration, until an answer is taken for another
\* interest's, and a liveliness query ends once even then: for any tokens,
\* subscribers, queries and losses, and for any numbers the two counters give.
THEOREM TokensRightAlways == OneRouter => (LivelinessSpec => []TokensRight)
<1> SUFFICES ASSUME OneRouter PROVE LivelinessSpec => []TokensRight
    OBVIOUS
<1>1. LivelinessInit => LiveInv
    BY LiveInit
<1>2. LiveInv /\ [LivelinessNext]_livelinessVars => LiveInv'
    BY LiveStep
<1>3. LiveInv => TokensRight
    BY LiveInvGives
<1>q. QED
    BY <1>1, <1>2, <1>3, PTL DEF LivelinessSpec
=============================================================================
