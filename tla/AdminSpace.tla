----------------------------- MODULE AdminSpace -----------------------------
(***************************************************************************)
(* The admin space of a session, src/src/api/admin_space.c: two            *)
(* queryables and two listeners that zp_start_admin_space declares one     *)
(* after the other and zp_stop_admin_space undeclares, while another       *)
(* thread closes the session and the runtime tells the listeners of peers  *)
(* that come and go.  An observer, a local subscriber to the keys of the   *)
(* session, also queries them.                                             *)
(*                                                                         *)
(* The session is in peer mode over unicast links.  What the replies and   *)
(* the samples hold is abstracted to the peers they tell of.               *)
(***************************************************************************)
EXTENDS Naturals, Sequences, FiniteSets

CONSTANTS AdminCallers,   \* application threads that start, stop and query
          AdminPeers,
          MaxStarts,      \* bound on the calls to zp_start_admin_space
          MaxEvents,      \* bound on the peers that come and go
          Nobody

Kinds      == {"pico", "session", "transport", "link"}
Queryables == {"pico", "session"}

ASSUME AdminAssumption == Nobody \notin AdminCallers

VARIABLES adminMutex,    \* the thread that holds _mutex_admin_space
          ids,           \* the four ids kept in the session, 0 for none
          entries,       \* the session's queryables and listeners: kind and id
          fresh,         \* the next id
          call,          \* thread -> its operation, what is left of it, what it read
          closeStep,     \* how far _z_session_close is
          linked,        \* the transport's peers
          due,           \* events still to be dispatched
          informed,      \* the listeners cloned for the first of them, or Nobody
          belief,        \* history: the last sample the observer got of each peer
          synced,        \* history: the observer has queried since the last start
          overtaken,     \* history: peers of which an old reply came after an event
          unsent,        \* history: an undeclaration could not be sent
          starts, turns

adminVars == <<adminMutex, ids, entries, fresh, call, closeStep, linked, due, informed, belief, synced,
               overtaken, unsent, starts, turns>>

Idle == [op |-> "none", todo |-> << >>, read |-> {}]

Entry(kind, id) == [kind |-> kind, id |-> id]

AdminInit ==
    /\ adminMutex = Nobody /\ ids = [k \in Kinds |-> 0] /\ entries = {} /\ fresh = 1
    /\ call = [c \in AdminCallers |-> Idle] /\ closeStep = "open"
    /\ linked = {} /\ due = << >> /\ informed = {Nobody}
    /\ belief = [p \in AdminPeers |-> [of \in {"transport", "link"} |-> "none"]]
    /\ synced = FALSE /\ overtaken = {} /\ unsent = FALSE /\ starts = 0 /\ turns = 0

Doing(c, op, kind) == call[c].op = op /\ call[c].todo # << >> /\ Head(call[c].todo) = kind

CrossOff(c) == [call EXCEPT ![c].todo = Tail(@)]

IsOpen == closeStep = "open"

-----------------------------------------------------------------------------
(* zp_start_admin_space.                                                   *)

Start(c) ==
    /\ call[c].op = "none" /\ adminMutex = Nobody /\ starts < MaxStarts /\ starts' = starts + 1
    /\ IF ids["pico"] # 0
       THEN UNCHANGED <<adminMutex, call>>
       ELSE /\ adminMutex' = c
            /\ call' = [call EXCEPT ![c] = [op |-> "start", read |-> {},
                                            todo |-> <<"pico", "send", "session", "transport", "link">>]]
    /\ UNCHANGED <<ids, entries, fresh, closeStep, linked, due, informed, belief, synced, overtaken, unsent, turns>>

\* Mutant: the second queryable is forgotten.
UndoForgetful(kind) ==
    CASE kind \in {"pico", "send"} -> << >>
      [] kind = "session"          -> <<"pico">>
      [] kind = "transport"        -> <<"pico">>
      [] kind = "link"             -> <<"transport", "session", "pico">>

\* What is undeclared, in this order, when a declaration fails: the labels err_...
Undo(kind) ==
    CASE kind \in {"pico", "send"} -> << >>
      [] kind = "session"          -> <<"pico">>
      [] kind = "transport"        -> <<"session", "pico">>
      [] kind = "link"             -> <<"transport", "session", "pico">>

Fails(c, kind) ==
    call' = [call EXCEPT ![c] = [op |-> "undo", todo |-> Undo(kind), read |-> {}]]

\* _z_register_session_queryable; the declaration of a queryable that others may
\* query is then sent, and the queryable unregistered when that fails.
RegisterPico(c) ==
    /\ Doing(c, "start", "pico")
    /\ \/ /\ IsOpen /\ entries' = entries \cup {Entry("pico", fresh)} /\ fresh' = fresh + 1
          /\ call' = CrossOff(c)
       \/ Fails(c, "pico") /\ UNCHANGED <<entries, fresh>>
    /\ UNCHANGED <<adminMutex, ids, closeStep, linked, due, informed, belief, synced, overtaken, unsent, starts, turns>>

SendPico(c) ==
    /\ Doing(c, "start", "send")
    /\ \/ ids' = [ids EXCEPT !["pico"] = fresh - 1] /\ call' = CrossOff(c) /\ UNCHANGED entries
       \/ entries' = entries \ {Entry("pico", fresh - 1)} /\ Fails(c, "send") /\ UNCHANGED ids
    /\ UNCHANGED <<adminMutex, fresh, closeStep, linked, due, informed, belief, synced, overtaken, unsent, starts, turns>>

\* The queryable for the session's own queries, and the two listeners; each fails
\* when the session is closed, or for want of memory.
DeclareLocal(c, kind) ==
    /\ Doing(c, "start", kind)
    /\ \/ /\ IsOpen /\ entries' = entries \cup {Entry(kind, fresh)} /\ fresh' = fresh + 1
          /\ ids' = [k \in Kinds |-> IF k = kind THEN fresh
                                     ELSE IF kind = "session" /\ k \notin Queryables THEN 0 ELSE ids[k]]
          /\ call' = CrossOff(c)
       \/ Fails(c, kind) /\ UNCHANGED <<ids, entries, fresh>>
    /\ UNCHANGED <<adminMutex, closeStep, linked, due, informed, belief, synced, overtaken, unsent, starts, turns>>

-----------------------------------------------------------------------------
(* zp_stop_admin_space, and the undeclarations of a failed start.          *)

Stop(c) ==
    /\ call[c].op = "none" /\ adminMutex = Nobody
    /\ IF \A k \in Kinds : ids[k] = 0
       THEN UNCHANGED <<adminMutex, call, synced>>
       ELSE /\ adminMutex' = c /\ synced' = FALSE
            /\ call' = [call EXCEPT ![c] = [op |-> "stop", read |-> {},
                                            todo |-> <<"transport", "link", "session", "pico">>]]
    /\ UNCHANGED <<ids, entries, fresh, closeStep, linked, due, informed, belief, overtaken, unsent, starts, turns>>

\* Listeners are removed from their map whether or not the session is open.  Here
\* and below nothing changes for an id of 0, which zp_stop_admin_space passes over.
UndeclareListener(c, kind) ==
    /\ \E op \in {"stop", "undo"} : Doing(c, op, kind)
    /\ entries' = entries \ {Entry(kind, ids[kind])} /\ ids' = [ids EXCEPT ![kind] = 0]
    /\ call' = CrossOff(c)
    /\ UNCHANGED <<adminMutex, fresh, closeStep, linked, due, informed, belief, synced, overtaken, unsent, starts, turns>>

\* _z_undeclare_queryable: a queryable that the others know is removed even when
\* they cannot be told, but then its id stays.
UndeclareQueryable(c, kind) ==
    /\ \E op \in {"stop", "undo"} : Doing(c, op, kind)
    /\ LET known == IsOpen /\ Entry(kind, ids[kind]) \in entries
       IN  /\ entries' = IF known THEN entries \ {Entry(kind, ids[kind])} ELSE entries
           /\ \/ known /\ ids' = [ids EXCEPT ![kind] = 0] /\ UNCHANGED unsent
              \/ known /\ kind = "pico" /\ unsent' = TRUE /\ UNCHANGED ids
              \/ ~known /\ UNCHANGED <<ids, unsent>>
    /\ call' = CrossOff(c)
    /\ UNCHANGED <<adminMutex, fresh, closeStep, linked, due, informed, belief, synced, overtaken, starts, turns>>

Return(c) ==
    /\ call[c].op \in {"start", "stop", "undo"} /\ call[c].todo = << >>
    /\ adminMutex' = Nobody
    /\ call' = [call EXCEPT ![c] = Idle]
    /\ UNCHANGED <<ids, entries, fresh, closeStep, linked, due, informed, belief, synced, overtaken, unsent, starts, turns>>

-----------------------------------------------------------------------------
(* _z_session_close.                                                       *)

CloseTo(from, to) == closeStep = from /\ closeStep' = to

\* The runtime stops after the event that it is dispatching.
Close ==
    /\ \/ CloseTo("open", "closed") /\ UNCHANGED <<entries, ids>>
       \/ CloseTo("closed", "stopped") /\ due = << >> /\ UNCHANGED <<entries, ids>>
       \/ CloseTo("stopped", "flushed") /\ UNCHANGED ids
          /\ entries' = {e \in entries : e.kind \notin Queryables}
       \/ CloseTo("flushed", "cleared") /\ entries' = {} /\ UNCHANGED ids
       \/ CloseTo("cleared", "waiting") /\ adminMutex = Nobody
          /\ ids' = [k \in Kinds |-> 0] /\ UNCHANGED entries
       \/ CloseTo("waiting", "done") /\ (\A c \in AdminCallers : call[c].op # "query")
          /\ UNCHANGED <<entries, ids>>
    /\ UNCHANGED <<adminMutex, fresh, call, linked, due, informed, belief, synced, overtaken, unsent, starts, turns>>

-----------------------------------------------------------------------------
(* The runtime's thread: a peer comes or goes, then the listeners of the   *)
(* moment publish it for the session's own subscribers.                    *)

PeerChange(p) ==
    /\ due = << >> /\ closeStep \in {"open", "closed"} /\ turns < MaxEvents /\ turns' = turns + 1
    /\ \/ /\ p \notin linked /\ linked' = linked \cup {p}
          /\ due' = << <<"PUT", p, "transport">>, <<"PUT", p, "link">> >>
       \/ /\ p \in linked /\ linked' = linked \ {p}
          /\ due' = << <<"DELETE", p, "link">>, <<"DELETE", p, "transport">> >>
    /\ UNCHANGED <<adminMutex, ids, entries, fresh, call, closeStep, informed, belief, synced, overtaken, unsent, starts>>

CloneListeners ==
    /\ due # << >> /\ informed = {Nobody}
    /\ informed' = {e \in entries : e.kind = Head(due)[3]}
    /\ UNCHANGED <<adminMutex, ids, entries, fresh, call, closeStep, linked, due, belief, synced, overtaken, unsent, starts, turns>>

\* A thread has read the peers and not yet handed out the replies.
Reading == {c \in AdminCallers : call[c].op = "query" /\ call[c].todo = << >>}

\* _ze_admin_space_publish_transport_event and _link_event: nothing once closed.
Publish ==
    /\ due # << >> /\ informed # {Nobody}
    /\ LET p == Head(due)[2]
       IN  IF informed # {} /\ IsOpen
           THEN /\ belief' = [belief EXCEPT ![p][Head(due)[3]] = Head(due)[1]]
                /\ overtaken' = IF Reading = {} THEN overtaken ELSE overtaken \cup {p}
           ELSE UNCHANGED <<belief, overtaken>>
    /\ due' = Tail(due) /\ informed' = {Nobody}
    /\ UNCHANGED <<adminMutex, ids, entries, fresh, call, closeStep, linked, synced, unsent, starts, turns>>

-----------------------------------------------------------------------------
(* The observer's query, answered in its own thread by the handler         *)
(* _ze_admin_space_session_query_handler.                                  *)

Running == adminMutex = Nobody /\ \A k \in Kinds : ids[k] # 0

Query(c) ==
    /\ call[c].op = "none" /\ IsOpen /\ (\A d \in AdminCallers : call[d].op # "query")
    /\ \E e \in entries : e.kind = "session"
    /\ call' = [call EXCEPT ![c] = [op |-> "query", todo |-> <<"read">>, read |-> {}]]
    /\ synced' = (synced \/ Running)
    /\ belief' = [p \in AdminPeers |-> [of \in {"transport", "link"} |-> "none"]] /\ overtaken' = {}
    /\ UNCHANGED <<adminMutex, ids, entries, fresh, closeStep, linked, due, informed, unsent, starts, turns>>

\* A closed session gives no answer; the peers are read under their mutex.
QueryReads(c) ==
    /\ Doing(c, "query", "read")
    /\ call' = [CrossOff(c) EXCEPT ![c].read = IF IsOpen THEN linked ELSE {}]
    /\ UNCHANGED <<adminMutex, ids, entries, fresh, closeStep, linked, due, informed, belief, synced, overtaken,
                   unsent, starts, turns>>

QueryReplies(c) ==
    /\ c \in Reading
    /\ belief' = [p \in AdminPeers |-> IF p \in call[c].read THEN [of \in {"transport", "link"} |-> "PUT"]
                                       ELSE belief[p]]
    /\ call' = [call EXCEPT ![c] = Idle]
    /\ UNCHANGED <<adminMutex, ids, entries, fresh, closeStep, linked, due, informed, synced, overtaken, unsent,
                   starts, turns>>

-----------------------------------------------------------------------------
AdminCall(c) ==
    \/ Start(c) \/ RegisterPico(c) \/ SendPico(c)
    \/ (\E kind \in Kinds \ {"pico"} : DeclareLocal(c, kind))
    \/ Stop(c) \/ (\E kind \in {"transport", "link"} : UndeclareListener(c, kind))
    \/ (\E kind \in Queryables : UndeclareQueryable(c, kind)) \/ Return(c)
    \/ Query(c) \/ QueryReads(c) \/ QueryReplies(c)

AdminNext ==
    \/ \E c \in AdminCallers : AdminCall(c)
    \/ Close \/ (\E p \in AdminPeers : PeerChange(p)) \/ CloneListeners \/ Publish

AdminSpec == AdminInit /\ [][AdminNext]_adminVars

-----------------------------------------------------------------------------
(* Properties.                                                             *)

\* Between calls the admin space of an open session is there as a whole or not at
\* all, whatever failed on the way: the ids kept in the session are those of what
\* is registered.  The exception is a queryable whose undeclaration could not be
\* sent: its id stays behind, later starts report success and start nothing, and
\* later stops fail.
WholeOrNothing ==
    adminMutex = Nobody /\ IsOpen =>
        LET on == {k \in Kinds : ids[k] # 0}
        IN  \/ on \in {{}, Kinds} /\ entries = {Entry(k, ids[k]) : k \in on}
            \/ unsent /\ on = {"pico"} /\ entries = {}

\* At no time is anything declared twice, and nothing outlives the session.
NothingLeftOver ==
    /\ \A e, f \in entries : e.kind = f.kind => e = f
    /\ closeStep = "done" => entries = {} /\ (\A k \in Kinds : ids[k] = 0) /\ due = << >>

\* An observer that queried after the start believes connected the peers that are,
\* once the events are out: the query and the events fit together without a gap.
\* The exception is a reply that was read before a change and delivered after the
\* event of that change.
ObserverRight ==
    synced /\ IsOpen /\ due = << >> /\ (\A c \in AdminCallers : call[c].op # "query") =>
        \A p \in AdminPeers \ overtaken : \A of \in {"transport", "link"} :
            (belief[p][of] = "PUT") = (p \in linked)

AdminSpaceRight == WholeOrNothing /\ NothingLeftOver /\ ObserverRight
=============================================================================
