----------------------------- MODULE Connectivity -----------------------------
(***************************************************************************)
(* Listeners of transport and link events, src/src/api/connectivity.c.     *)
(* The runtime's thread changes the list of peers under the peer mutex and *)
(* then, without it, tells a snapshot of the listeners.  Application       *)
(* threads declare listeners, which may ask for the peers of the moment    *)
(* first, and undeclare them; another thread closes the session.           *)
(*                                                                         *)
(* The peer mutex is held across several steps only by a listener that     *)
(* replays the history; sections under the session mutex are one step.     *)
(* Failures to allocate are left out.                                      *)
(***************************************************************************)
EXTENDS Naturals, Sequences

CONSTANTS TransportListeners, LinkListeners,
          ConnPeers,   \* peers, by their ids
          Filters,     \* peers a link listener may be restricted to, and Nothing
          MaxChanges,  \* bound on the peers that come and go
          Nothing

Listeners == TransportListeners \cup LinkListeners

VARIABLES client,      \* a client has one peer, its router, and gives it up differently
          connected,   \* the transport's list of peers
          peerMutex,   \* the listener that holds the peer mutex, or Nothing
          events,      \* events the runtime has still to dispatch
          givenUp,     \* a router that leaves the list after its events
          snapshot,    \* the clone of the listeners being called: all, and those left
          calling,     \* the listener whose callback the runtime runs, or Nothing
          listener,    \* listener -> how far it is, its options and the history left
          registered,  \* the session's two maps of listeners
          view,        \* history: the last event each listener got of each peer
          misled,      \* history: listeners declared while a router was being given up
          unannounced, \* history: listeners that were not told of a client's router that is back
          closing,     \* how far the closing of the session is
          changes

connVars == <<client, connected, peerMutex, events, givenUp, snapshot, calling, listener, registered, view,
              misled, unannounced, closing, changes>>

Kind(l) == IF l \in TransportListeners THEN "transport" ELSE "link"

Event(kind, peer, of) == [kind |-> kind, peer |-> peer, of |-> of]

\* Listeners for links may be restricted to those of one peer.
Concerns(l, peer) == listener[l].only \in {Nothing, peer}

ConnInit ==
    /\ client \in BOOLEAN /\ connected = {} /\ peerMutex = Nothing
    /\ events = << >> /\ givenUp = Nothing /\ snapshot = Nothing /\ calling = Nothing
    /\ listener = [l \in Listeners |-> [at |-> "new", history |-> FALSE, only |-> Nothing, todo |-> {}]]
    /\ registered = {} /\ view = [l \in Listeners |-> [p \in ConnPeers |-> "none"]]
    /\ misled = {} /\ unannounced = {} /\ closing = "open" /\ changes = 0

-----------------------------------------------------------------------------
(* The runtime's thread.                                                   *)

RuntimeIdle == events = << >> /\ givenUp = Nothing /\ closing \in {"open", "stopping"}

\* _z_connectivity_peer_connected tells of the transport first,
Connects(p) == <<Event("PUT", p, "transport"), Event("PUT", p, "link")>>

\* _z_connectivity_peer_disconnected of the link.
Disconnects(p) == <<Event("DELETE", p, "link"), Event("DELETE", p, "transport")>>

\* A peer is added: the accept task, _z_new_peer, or a JOIN.
PeerAdded(p) ==
    /\ RuntimeIdle /\ ~client /\ peerMutex = Nothing /\ p \notin connected /\ changes < MaxChanges
    /\ connected' = connected \cup {p} /\ events' = Connects(p) /\ changes' = changes + 1
    /\ UNCHANGED <<client, peerMutex, givenUp, snapshot, calling, listener, registered, view, misled, unannounced, closing>>

\* Listeners that are registered, or have read the list of peers.
HasLooked(l) == l \in registered \/ listener[l].at = "history"

\* A client's new transport adds its router before it has its session, and without
\* one _z_connectivity_peer_connected returns: there is no event.
RouterAdded(p) ==
    /\ RuntimeIdle /\ client /\ peerMutex = Nothing /\ connected = {} /\ changes < MaxChanges
    /\ connected' = {p} /\ changes' = changes + 1
    /\ unannounced' = {l \in Listeners : HasLooked(l)}
    /\ UNCHANGED <<client, peerMutex, events, givenUp, snapshot, calling, listener, registered, view, misled, closing>>

\* A peer is dropped, by the read task or the lease task.
PeerDropped(p) ==
    /\ RuntimeIdle /\ ~client /\ peerMutex = Nothing /\ p \in connected
    /\ connected' = connected \ {p} /\ events' = Disconnects(p)
    /\ UNCHANGED <<client, peerMutex, givenUp, snapshot, calling, listener, registered, view, misled, unannounced, closing, changes>>

\* _zp_unicast_failed_result: a client's listeners are told first ...
RouterGivenUp(p) ==
    /\ RuntimeIdle /\ client /\ peerMutex = Nothing /\ p \in connected
    /\ events' = Disconnects(p) /\ givenUp' = p
    /\ UNCHANGED <<client, connected, peerMutex, snapshot, calling, listener, registered, view, misled, unannounced, closing, changes>>

\* ... and the transport is cleared afterwards, its peer mutex too.  Nothing waits
\* for a thread that replays the history at that time: what it goes on to read of
\* the freed list is left open.
TransportCleared ==
    /\ givenUp # Nothing /\ events = << >>
    /\ connected' = connected \ {givenUp} /\ givenUp' = Nothing /\ peerMutex' = Nothing
    /\ unannounced' = {}
    /\ misled' = misled \cup ({peerMutex} \cap Listeners)
    /\ \/ UNCHANGED listener
       \/ \E l \in {peerMutex} \cap Listeners : listener' = [listener EXCEPT ![l].todo = {}]
    /\ UNCHANGED <<client, events, snapshot, calling, registered, view, closing, changes>>

\* _z_connectivity_dispatch_transport_event and _link_event.
TakeSnapshot ==
    /\ events # << >> /\ snapshot = Nothing
    /\ LET all == {l \in registered : Kind(l) = Head(events).of}
       IN  snapshot' = [all |-> all, left |-> {l \in all : Concerns(l, Head(events).peer)}]
    /\ UNCHANGED <<client, connected, peerMutex, events, givenUp, calling, listener, registered, view, misled, unannounced, closing, changes>>

Call(l) ==
    /\ snapshot # Nothing /\ calling = Nothing /\ l \in snapshot.left
    /\ calling' = l /\ snapshot' = [snapshot EXCEPT !.left = @ \ {l}]
    /\ view' = [view EXCEPT ![l][Head(events).peer] = Head(events).kind]
    /\ UNCHANGED <<client, connected, peerMutex, events, givenUp, listener, registered, misled, unannounced, closing, changes>>

CallReturns ==
    /\ calling # Nothing /\ calling' = Nothing
    /\ UNCHANGED <<client, connected, peerMutex, events, givenUp, snapshot, listener, registered, view, misled, unannounced, closing, changes>>

Dispatched ==
    /\ snapshot # Nothing /\ snapshot.left = {} /\ calling = Nothing
    /\ snapshot' = Nothing /\ events' = Tail(events)
    /\ UNCHANGED <<client, connected, peerMutex, givenUp, calling, listener, registered, view, misled, unannounced, closing, changes>>

-----------------------------------------------------------------------------
(* The application's threads.                                              *)

At(l, place) == listener[l].at = place

\* z_declare_transport_events_listener and z_declare_link_events_listener: the
\* callback joins the session's sync group, unless a completed closing has closed it.
DeclareRefused(l) ==
    /\ At(l, "new") /\ closing = "closed"
    /\ listener' = [listener EXCEPT ![l].at = "failed"]
    /\ UNCHANGED <<client, connected, peerMutex, events, givenUp, snapshot, calling, registered, view, misled, unannounced, closing, changes>>

Declare(l) ==
    /\ At(l, "new") /\ closing # "closed"
    /\ \E history \in BOOLEAN, only \in IF l \in LinkListeners THEN Filters ELSE {Nothing} :
           listener' = [listener EXCEPT ![l] = [at |-> IF history THEN "locking" ELSE "registering",
                                                history |-> history, only |-> only, todo |-> {}]]
    /\ UNCHANGED <<client, connected, peerMutex, events, givenUp, snapshot, calling, registered, view, misled, unannounced, closing, changes>>

\* Mutant: the peer mutex is not kept while the history is replayed and the
\* listener registered.
HistoryStartsUnlocked(l) ==
    /\ At(l, "locking") /\ peerMutex = Nothing
    /\ listener' = [listener EXCEPT ![l].at = "history", ![l].todo = {p \in connected : Concerns(l, p)}]
    /\ UNCHANGED <<client, connected, peerMutex, events, givenUp, snapshot, calling, registered, view, misled, unannounced, closing, changes>>

\* A client that has lost its router has no transport, and so no peer mutex.
NoTransport == client /\ connected = {}

\* With history the peer mutex is taken, and kept until the listener is registered.
HistoryStarts(l) ==
    /\ At(l, "locking") /\ peerMutex = Nothing /\ peerMutex' = IF NoTransport THEN Nothing ELSE l
    /\ listener' = [listener EXCEPT ![l].at = "history", ![l].todo = {p \in connected : Concerns(l, p)}]
    /\ UNCHANGED <<client, connected, events, givenUp, snapshot, calling, registered, view, misled, unannounced, closing, changes>>

\* _z_connectivity_replay_transport_history, _link_history: one callback.
ReplayHistory(l, p) ==
    /\ At(l, "history") /\ p \in listener[l].todo
    /\ listener' = [listener EXCEPT ![l].todo = @ \ {p}]
    /\ view' = [view EXCEPT ![l][p] = "PUT"]
    /\ UNCHANGED <<client, connected, peerMutex, events, givenUp, snapshot, calling, registered, misled, unannounced, closing, changes>>

\* An event for the listeners like l whose snapshot is still to be taken.
WillBeTold(l) == \E k \in DOMAIN events : events[k].of = Kind(l) /\ (k > 1 \/ snapshot = Nothing)

\* The listener is registered, or its callback dropped when the session was closed.
Register(l) ==
    /\ At(l, "registering") \/ (At(l, "history") /\ listener[l].todo = {})
    /\ \/ closing = "open" /\ registered' = registered \cup {l}
          /\ listener' = [listener EXCEPT ![l].at = "declared"]
       \/ closing # "open" /\ listener' = [listener EXCEPT ![l].at = "failed"] /\ UNCHANGED registered
    /\ peerMutex' = IF peerMutex = l THEN Nothing ELSE peerMutex
    /\ misled' = IF listener[l].history /\ givenUp # Nothing /\ ~WillBeTold(l) THEN misled \cup {l} ELSE misled
    /\ UNCHANGED <<client, connected, events, givenUp, snapshot, calling, view, unannounced, closing, changes>>

\* z_undeclare_transport_events_listener and z_undeclare_link_events_listener.
Undeclare(l) ==
    /\ At(l, "declared")
    /\ registered' = registered \ {l} /\ listener' = [listener EXCEPT ![l].at = "undeclaring"]
    /\ UNCHANGED <<client, connected, peerMutex, events, givenUp, snapshot, calling, view, misled, unannounced, closing, changes>>

\* The callback is dropped with the last of its references.
CallbackAlive(l) ==
    \/ l \in registered \/ (snapshot # Nothing /\ l \in snapshot.all)
    \/ listener[l].at \in {"locking", "history", "registering"}

UndeclareReturns(l) ==
    /\ At(l, "undeclaring") /\ ~CallbackAlive(l)
    /\ listener' = [listener EXCEPT ![l].at = "undeclared"]
    /\ UNCHANGED <<client, connected, peerMutex, events, givenUp, snapshot, calling, registered, view, misled, unannounced, closing, changes>>

-----------------------------------------------------------------------------
(* _z_session_close: mark the session closed, stop the runtime, clear the  *)
(* maps, wait for the callbacks that are left.                             *)

CloseSession ==
    /\ closing = "open" /\ closing' = "stopping"
    /\ UNCHANGED <<client, connected, peerMutex, events, givenUp, snapshot, calling, listener, registered, view, misled, unannounced, changes>>

ListenersCleared ==
    /\ closing = "stopping" /\ RuntimeIdle
    /\ closing' = "waiting" /\ registered' = {}
    /\ UNCHANGED <<client, connected, peerMutex, events, givenUp, snapshot, calling, listener, view, misled, unannounced, changes>>

CloseReturns ==
    /\ closing = "waiting" /\ \A l \in Listeners : ~CallbackAlive(l)
    /\ closing' = "closed"
    /\ UNCHANGED <<client, connected, peerMutex, events, givenUp, snapshot, calling, listener, registered, view, misled, unannounced, changes>>

-----------------------------------------------------------------------------
RuntimeStep ==
    \/ \E p \in ConnPeers : PeerAdded(p) \/ RouterAdded(p) \/ PeerDropped(p) \/ RouterGivenUp(p)
    \/ TransportCleared \/ TakeSnapshot \/ (\E l \in Listeners : Call(l)) \/ CallReturns \/ Dispatched

ListenerStep(l) ==
    \/ Declare(l) \/ DeclareRefused(l) \/ HistoryStarts(l) \/ (\E p \in ConnPeers : ReplayHistory(l, p)) \/ Register(l)
    \/ Undeclare(l) \/ UndeclareReturns(l)

ConnNext ==
    \/ RuntimeStep \/ (\E l \in Listeners : ListenerStep(l))
    \/ CloseSession \/ ListenersCleared \/ CloseReturns

ConnSpec == ConnInit /\ [][ConnNext]_connVars

-----------------------------------------------------------------------------
(* Properties.                                                             *)

\* Once the events of a change have been dispatched, a listener with history
\* believes connected exactly the peers that are, whatever came and went while it
\* was being declared; one without history is never wrong about a peer it was told
\* of.  Two exceptions, both of a client: a listener declared between the events
\* and the clearing of the transport is told of the router that is gone; and when
\* the client has reconnected, the listeners that had looked before know nothing of
\* it, until the router is lost again.
ViewsRight ==
    RuntimeIdle => \A l \in registered \ misled : \A p \in ConnPeers :
        /\ view[l][p] = "PUT" => p \in connected
        /\ p \in connected /\ Concerns(l, p) /\ listener[l].history /\ l \notin unannounced => view[l][p] = "PUT"
        /\ view[l][p] = "DELETE" /\ l \notin unannounced => p \notin connected

\* After undeclare, and after the closing of the session, no callback of the
\* listener runs, although the runtime calls a snapshot without the mutex.
QuietOnceUndeclared ==
    \A l \in Listeners : At(l, "undeclared") \/ closing = "closed" =>
        calling # l /\ ~CallbackAlive(l)

ListenersRight == ViewsRight /\ QuietOnceUndeclared
=============================================================================
