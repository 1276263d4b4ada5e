------------------------------ MODULE Multicast ------------------------------
(***************************************************************************)
(* The multicast transport, src/src/transport/multicast/: nodes announce   *)
(* themselves with JOIN messages and send frames and fragments to all; the *)
(* node observed keeps a list of the peers it heard, judges their sequence *)
(* numbers, and drops those that close or fall silent.                     *)
(*                                                                         *)
(* The other nodes run the same program: its join and keep-alive tasks,    *)
(* which share the runtime's thread, and application threads that send.    *)
(* The join task reads the sequence numbers without the tx mutex, and      *)
(* takes that mutex to send.  The link keeps the order of what one node    *)
(* sends, and may lose or repeat a message.  Time is counted in runs of    *)
(* the keep-alive task, of which Factor fall between two runs of the lease *)
(* task; a message takes less than the time between two of them.           *)
(*                                                                         *)
(* All nodes have the same lease, and each has its own zid.  A node that   *)
(* is started again may have other resolutions or another batch size than  *)
(* ours: of a new peer its JOIN is an error, of a known one it ends the    *)
(* entry.  That drop does not store the new head of the list, so that      *)
(* _peers may point at a freed entry.  What a walk of the list then does   *)
(* is undefined: it gets past the entry, takes it for one, or ends the     *)
(* process (ReadFreed).  The drop marker, failures to allocate, the        *)
(* interest table and the JOIN of another version of the protocol, which   *)
(* is ignored, are left out.                                               *)
(***************************************************************************)
EXTENDS SeqNum, Sequences, SequencesExt

CONSTANTS Nodes,         \* the other nodes, by address
          MsgSizes,      \* sizes of messages, in fragments; 1 fits in a frame
          WindowSize,    \* Z_BEST_EFFORT_REORDER_WINDOW
          FragMax,       \* Z_FRAG_MAX_SIZE, in fragments
          Factor,        \* Z_TRANSPORT_LEASE_EXPIRE_FACTOR; with 0 time stands still
          Settings,      \* whether a node started again has our resolutions and batch size
          MaxMsgs, MaxAir, MaxFaults, MaxStarts,  \* bounds
          None

Channels == {"reliable", "bestEffort"}
Garbage  == 0
NoBuffer == [pieces |-> << >>, st |-> "null"]

VARIABLES node,     \* the other nodes: up, same (settings as ours), sn, sample, transmitted, rest of the message being sent
          air,      \* messages under way, for each sender
          late,     \* how many of them were under way at the sender's last keep-alive run
          rounds,   \* runs of each node's keep-alive task since our last lease check
          peers,    \* address -> entry of _peers, or None
          order,    \* the addresses in _peers, the newest first
          freed,    \* the address of the freed entry at which _peers points, or None
          tpOpen,   \* whether our transport is open
          sizes,    \* history: the sizes of the messages sent
          heard,    \* history: messages handed to the session
          owed,     \* history: messages that came whole from a known peer
          balance,  \* history: connected less disconnected events of each node since our transport opened
          expired,  \* history: running nodes dropped though nothing of theirs was lost
          excused,  \* nodes whose silence before the next lease check is not theirs
          torn,     \* a node crashed between two fragments of a message
          faults, starts

mcVars == <<node, air, late, rounds, peers, order, freed, tpOpen, sizes, heard, owed, balance, expired, excused, torn,
            faults, starts>>
rxVars == <<peers, order, freed, tpOpen, heard, owed, balance, expired>>
netVars == <<rounds, sizes, excused, torn, faults, starts>>

Running(n) == node[n].up

-----------------------------------------------------------------------------
(* The nodes that send.                                                    *)

\* A node whose transport is new: sequence numbers from sn on.
Opened(sn, same) == [up |-> TRUE, same |-> same, sn |-> [r \in Channels |-> sn], sample |-> None, transmitted |-> FALSE,
               rest |-> None]
Down == [Opened(0, TRUE) EXCEPT !.up = FALSE]

Join(next, same) == [kind |-> "join", next |-> next, same |-> same]

Put(n, m) == Len(air[n]) < MaxAir /\ air' = [air EXCEPT ![n] = Append(@, m)]

\* The tx mutex is free: no message is being sent in fragments.
TxFree(n) == node[n].rest = None

TakeSn(n, r) == [node[n].sn EXCEPT ![r] = Increment(SnRes, @)]

\* A message that fits in a frame.
SendFrame(n, r) ==
    /\ Running(n) /\ TxFree(n) /\ 1 \in MsgSizes /\ Len(sizes) < MaxMsgs
    /\ Put(n, [kind |-> "frame", rel |-> r, sn |-> node[n].sn[r], id |-> Len(sizes) + 1])
    /\ node' = [node EXCEPT ![n].sn = TakeSn(n, r), ![n].transmitted = TRUE]
    /\ sizes' = Append(sizes, 1)
    /\ UNCHANGED <<late, rounds, rxVars, excused, torn, faults, starts>>

\* A message of several fragments, sent one by one under the tx mutex.
SendFragmented(n, r, size) ==
    /\ Running(n) /\ TxFree(n) /\ size > 1 /\ Len(sizes) < MaxMsgs
    /\ Put(n, [kind |-> "fragment", rel |-> r, sn |-> node[n].sn[r], id |-> Len(sizes) + 1,
               first |-> TRUE, more |-> TRUE])
    /\ node' = [node EXCEPT ![n].sn = TakeSn(n, r), ![n].transmitted = TRUE,
                            ![n].rest = [rel |-> r, id |-> Len(sizes) + 1, left |-> size - 1]]
    /\ sizes' = Append(sizes, size)
    /\ UNCHANGED <<late, rounds, rxVars, excused, torn, faults, starts>>

SendNextFragment(n) ==
    LET rest == node[n].rest
    IN  /\ Running(n) /\ rest # None
        /\ Put(n, [kind |-> "fragment", rel |-> rest.rel, sn |-> node[n].sn[rest.rel], id |-> rest.id,
                   first |-> FALSE, more |-> rest.left > 1])
        /\ node' = [node EXCEPT ![n].sn = TakeSn(n, rest.rel), ![n].transmitted = TRUE,
                                ![n].rest = IF rest.left = 1 THEN None ELSE [rest EXCEPT !.left = @ - 1]]
        /\ UNCHANGED <<late, netVars, rxVars>>

\* _zp_multicast_send_join_task_fn: the numbers are read without the mutex ...
SampleSns(n) ==
    /\ Running(n) /\ node[n].sample = None
    /\ node' = [node EXCEPT ![n].sample = node[n].sn]
    /\ UNCHANGED <<air, late, netVars, rxVars>>

\* ... and sent under it.
SendJoin(n) ==
    /\ Running(n) /\ node[n].sample # None /\ TxFree(n)
    /\ Put(n, Join(node[n].sample, node[n].same))
    /\ node' = [node EXCEPT ![n].sample = None, ![n].transmitted = TRUE]
    /\ UNCHANGED <<late, netVars, rxVars>>

\* _zp_multicast_keep_alive_task_fn: a keep-alive unless something was sent since
\* the last run.
KeepAliveTask(n) ==
    /\ Running(n) /\ node[n].sample = None /\ late[n] = 0 /\ rounds[n] < Factor
    /\ \/ node[n].transmitted /\ UNCHANGED air
       \/ ~node[n].transmitted /\ TxFree(n) /\ Put(n, [kind |-> "keepAlive"])
    /\ node' = [node EXCEPT ![n].transmitted = FALSE]
    /\ late' = [late EXCEPT ![n] = Len(air'[n])]
    /\ rounds' = [rounds EXCEPT ![n] = @ + 1]
    /\ UNCHANGED <<sizes, excused, torn, faults, starts, rxVars>>

\* _z_multicast_send_close, once the tasks have stopped; or the node crashes.
Close(n) ==
    /\ Running(n) /\ TxFree(n) /\ node[n].sample = None
    /\ Put(n, [kind |-> "close"]) /\ node' = [node EXCEPT ![n] = Down]
    /\ UNCHANGED <<late, netVars, rxVars>>

Crash(n) ==
    /\ Running(n) /\ node' = [node EXCEPT ![n] = Down]
    /\ torn' = (torn \/ ~TxFree(n))
    /\ UNCHANGED <<air, late, rounds, sizes, excused, faults, starts, rxVars>>

\* _z_multicast_open_peer and _z_multicast_transport_create: the JOIN comes first.
\* The initial sequence number is always 0 (the mask is negated with "!").
Start(n, same) ==
    /\ ~Running(n) /\ starts < MaxStarts
    /\ Put(n, Join([r \in Channels |-> 0], same)) /\ node' = [node EXCEPT ![n] = Opened(0, same)]
    /\ starts' = starts + 1 /\ rounds' = [rounds EXCEPT ![n] = 0]
    /\ UNCHANGED <<late, sizes, excused, torn, faults, rxVars>>

-----------------------------------------------------------------------------
(* The node observed: one entry of _peers.                                 *)

\* Mutant: the numbers are taken as they are.
RewoundTooFar(e, next) ==
    [e EXCEPT !.sn = next, !.window = ResetWindow(next["bestEffort"]), !.received = TRUE]

\* The numbers a JOIN announces, as the last ones received.
Rewound(e, next) ==
    [e EXCEPT !.sn = [r \in Channels |-> Decrement(SnRes, next[r])],
              !.window = ResetWindow(Decrement(SnRes, next["bestEffort"])),
              !.received = TRUE]

NewPeer(next) ==
    Rewound([sn |-> next, window |-> None, received |-> TRUE, dbuf |-> [r \in Channels |-> NoBuffer]], next)

\* _z_multicast_handle_frame: best-effort frames pass the reorder window, reliable
\* ones must be ahead, or they also drop the fragments collected.
FrameJudged(e, f) ==
    IF f.rel = "bestEffort" THEN Verdict(e.window, SnRes, WindowSize, f.sn)
    ELSE IF Precedes(SnRes, e.sn["reliable"], f.sn) THEN "ahead" ELSE "outOfOrder"

FrameEntry(e, f) ==
    LET verdict == FrameJudged(e, f)
    IN  [e EXCEPT !.received = TRUE,
                  !.sn[f.rel] = IF verdict = "ahead" THEN f.sn ELSE @,
                  !.window = IF f.rel = "bestEffort" THEN Observe(@, SnRes, WindowSize, f.sn) ELSE @,
                  !.dbuf[f.rel] = IF verdict = "outOfOrder" THEN NoBuffer ELSE @]

FrameHanded(e, f) == IF FrameJudged(e, f) \in {"ahead", "reordered"} THEN <<f.id>> ELSE << >>

\* _z_multicast_handle_fragment_inner.  A fragment after a gap is dropped with what
\* was collected, one that is not the first of its message by itself ...
AfterGap(e, f) == ~Consecutive(SnRes, e.sn[f.rel], f.sn) /\ e.dbuf[f.rel].pieces # << >>
Headless(e, f) == ~f.first /\ e.dbuf[f.rel].pieces = << >>

\* ... and others are added to the buffer.
Collected(b, f) ==
    LET kept == IF f.first THEN << >> ELSE b.pieces
    IN  IF b.st = "overflow" \/ Len(kept) + 1 > FragMax THEN [pieces |-> kept, st |-> "overflow"]
        ELSE [pieces |-> Append(kept, f), st |-> "init"]

FragmentBuffer(e, f) ==
    IF ~Precedes(SnRes, e.sn[f.rel], f.sn) \/ AfterGap(e, f) THEN NoBuffer
    ELSE IF Headless(e, f) THEN e.dbuf[f.rel]
    ELSE IF f.more THEN Collected(e.dbuf[f.rel], f) ELSE NoBuffer

FragmentEntry(e, f) ==
    LET ahead == Precedes(SnRes, e.sn[f.rel], f.sn)
    IN  [e EXCEPT !.received = TRUE,
                  !.sn[f.rel] = IF ahead THEN f.sn ELSE @,
                  !.window = IF ahead /\ f.rel = "bestEffort" THEN ResetWindow(f.sn) ELSE @,
                  !.dbuf[f.rel] = FragmentBuffer(e, f)]

Reassembled(pieces) ==
    IF /\ pieces[1].first /\ ~Last(pieces).more
       /\ \A k \in DOMAIN pieces : pieces[k].id = pieces[1].id
                                   /\ pieces[k].sn = (pieces[1].sn + k - 1) % (SnRes + 1)
    THEN pieces[1].id ELSE Garbage

FragmentHanded(e, f) ==
    IF Precedes(SnRes, e.sn[f.rel], f.sn) /\ ~AfterGap(e, f) /\ ~Headless(e, f) /\ ~f.more
       /\ Collected(e.dbuf[f.rel], f).st = "init"
    THEN <<Reassembled(Collected(e.dbuf[f.rel], f).pieces)>> ELSE << >>

-----------------------------------------------------------------------------
(* The handlers, one for each kind of message.  m comes from address n.    *)

Hand(r, out) == heard' = heard \o [k \in DOMAIN out |-> [id |-> out[k], rel |-> r]]

OnFrame(n, m) ==
    /\ m.kind = "frame"
    /\ IF peers[n] = None THEN UNCHANGED <<peers, heard, owed>>
       ELSE /\ peers' = [peers EXCEPT ![n] = FrameEntry(peers[n], m)]
            /\ Hand(m.rel, FrameHanded(peers[n], m)) /\ owed' = Append(owed, m.id)
    /\ UNCHANGED <<order, freed, tpOpen, balance, excused>>

OnFragment(n, m) ==
    /\ m.kind = "fragment"
    /\ IF peers[n] = None THEN UNCHANGED <<peers, heard, owed>>
       ELSE /\ peers' = [peers EXCEPT ![n] = FragmentEntry(peers[n], m)]
            /\ Hand(m.rel, FragmentHanded(peers[n], m))
            /\ owed' = IF m.more \/ sizes[m.id] > FragMax THEN owed ELSE Append(owed, m.id)
    /\ UNCHANGED <<order, freed, tpOpen, balance, excused>>

OnKeepAlive(n, m) ==
    /\ m.kind = "keepAlive"
    /\ peers' = [peers EXCEPT ![n] = IF @ = None THEN None ELSE [@ EXCEPT !.received = TRUE]]
    /\ UNCHANGED <<order, freed, heard, owed, tpOpen, balance, excused>>

\* _zp_multicast_failed_result: the transport is its peers with it, and
\* no listener is told; the tasks suspend until it has been reopened.
FailedResult ==
    /\ tpOpen' = FALSE /\ peers' = [n \in Nodes |-> None] /\ order' = << >>
    /\ excused' = Nodes /\ balance' = [n \in Nodes |-> 0]
    /\ UNCHANGED <<freed, heard, owed>>

\* Mutant: nobody is told.
PeerLeavesUntold(n) ==
    /\ peers' = [peers EXCEPT ![n] = None] /\ order' = Remove(order, n)
    /\ UNCHANGED <<balance, tpOpen, heard, owed, excused>>

\* An entry leaves the list and the listeners are told.
PeerLeaves(n) ==
    /\ balance' = [balance EXCEPT ![n] = @ - 1]
    /\ peers' = [peers EXCEPT ![n] = None] /\ order' = Remove(order, n)
    /\ UNCHANGED <<tpOpen, heard, owed, excused>>

\* _z_multicast_handle_join: a new peer, which must have our settings ...
OnJoin(n, m) ==
    /\ m.kind = "join"
    /\ \/ /\ peers[n] = None /\ m.same
          /\ peers' = [peers EXCEPT ![n] = NewPeer(m.next)] /\ order' = <<n>> \o order
          /\ balance' = [balance EXCEPT ![n] = @ + 1]
          /\ UNCHANGED <<freed, tpOpen, heard, owed, excused>>
       \/ peers[n] = None /\ ~m.same /\ FailedResult
       \* ... or a known one, ...
       \/ /\ peers[n] # None /\ m.same
          /\ peers' = [peers EXCEPT ![n] = Rewound(@, m.next)]
          /\ UNCHANGED <<order, freed, tpOpen, heard, owed, balance, excused>>
       \* ... which is dropped if its settings have changed; _peers is not assigned, and
       \* points at the entry freed if that was the first one.
       \/ /\ peers[n] # None /\ ~m.same
          /\ freed' = IF order[1] = n THEN n ELSE freed
          /\ PeerLeaves(n)

OnClose(n, m) ==
    /\ m.kind = "close" /\ UNCHANGED freed
    /\ IF peers[n] = None THEN UNCHANGED <<peers, order, balance, tpOpen, heard, owed, excused>>
       ELSE PeerLeaves(n)

\* What leaves the air.
Gone(n) ==
    /\ air[n] # << >> /\ air' = [air EXCEPT ![n] = Tail(@)]
    /\ late' = [late EXCEPT ![n] = IF @ > 0 THEN @ - 1 ELSE 0]

\* _zp_multicast_read_task_fn with one message, _z_multicast_handle_transport_message.
ReadTask(n) ==
    /\ tpOpen /\ Gone(n)
    /\ LET m == Head(air[n])
       IN  OnFrame(n, m) \/ OnFragment(n, m) \/ OnKeepAlive(n, m) \/ OnJoin(n, m) \/ OnClose(n, m)
    /\ UNCHANGED <<node, rounds, sizes, expired, torn, faults, starts>>

\* _zp_multicast_lease_task_fn: drop the peers not heard since the last run.
LeaseTask ==
    /\ tpOpen /\ Factor > 0 /\ \A n \in Nodes : Running(n) => rounds[n] = Factor
    /\ LET silent == {n \in Nodes : peers[n] # None /\ ~peers[n].received}
       IN  /\ peers' = [n \in Nodes |-> IF peers[n] = None \/ n \in silent THEN None
                                        ELSE [peers[n] EXCEPT !.received = FALSE]]
           /\ order' = SelectSeq(order, LAMBDA n : n \notin silent)
           /\ balance' = [n \in Nodes |-> IF n \in silent THEN balance[n] - 1 ELSE balance[n]]
           /\ expired' = expired \cup {n \in silent \ excused : Running(n)}
    /\ rounds' = [n \in Nodes |-> 0] /\ excused' = {}
    /\ UNCHANGED <<node, air, late, freed, tpOpen, sizes, heard, owed, torn, faults, starts>>

\* A message that cannot be decoded makes the read task fail, a JOIN or a
\* keep-alive of ours that cannot be sent its own task.
TaskFails ==
    /\ tpOpen /\ faults < MaxFaults /\ faults' = faults + 1 /\ FailedResult
    /\ UNCHANGED <<node, air, late, rounds, sizes, expired, torn, starts>>

\* A task walks the list and reads the freed entry: the process ends, or the entry
\* is taken for a silent peer, of which the listeners are told once more.
ReadFreed ==
    /\ tpOpen /\ freed # None
    /\ \/ tpOpen' = FALSE /\ UNCHANGED balance
       \/ balance[freed] = 0 /\ balance' = [balance EXCEPT ![freed] = -1] /\ UNCHANGED tpOpen
    /\ UNCHANGED <<node, air, late, peers, order, freed, heard, owed, expired, netVars>>

\* _z_client_reopen_task_fn; what arrives before it is lost.
Reopen ==
    /\ ~tpOpen /\ freed = None /\ tpOpen' = TRUE
    /\ rounds' = [n \in Nodes |-> 0]
    /\ UNCHANGED <<node, air, late, peers, order, freed, sizes, heard, owed, balance, expired, excused, torn,
                   faults, starts>>

MissedWhileClosed(n) ==
    /\ ~tpOpen /\ Gone(n) /\ UNCHANGED <<node, netVars, rxVars>>

-----------------------------------------------------------------------------
(* External: the link.                                                     *)

Lose(n) ==
    /\ tpOpen /\ faults < MaxFaults /\ Gone(n)
    /\ faults' = faults + 1 /\ excused' = excused \cup {n}
    /\ UNCHANGED <<node, rounds, sizes, torn, starts, rxVars>>

Repeat(n) ==
    /\ tpOpen /\ faults < MaxFaults /\ air[n] # << >> /\ Len(air[n]) < MaxAir
    /\ air' = [air EXCEPT ![n] = <<Head(@)>> \o @]
    /\ late' = [late EXCEPT ![n] = IF @ > 0 THEN @ + 1 ELSE 0]
    /\ faults' = faults + 1
    /\ UNCHANGED <<node, rounds, sizes, excused, torn, starts, rxVars>>

-----------------------------------------------------------------------------
\* The nodes have been running and have sent messages before we open.
McInit ==
    /\ node = [n \in Nodes |-> Opened(InitialSn, TRUE)]
    /\ air = [n \in Nodes |-> << >>] /\ late = [n \in Nodes |-> 0] /\ rounds = [n \in Nodes |-> 0]
    /\ peers = [n \in Nodes |-> None] /\ order = << >> /\ freed = None /\ tpOpen = TRUE
    /\ sizes = << >> /\ heard = << >> /\ owed = << >>
    /\ balance = [n \in Nodes |-> 0] /\ expired = {} /\ excused = {}
    /\ torn = FALSE /\ faults = 0 /\ starts = 0

SendStep(n) ==
    \/ \E r \in Channels : SendFrame(n, r) \/ \E size \in MsgSizes : SendFragmented(n, r, size)
    \/ SendNextFragment(n)

McNext ==
    \/ \E n \in Nodes : SendStep(n) \/ SampleSns(n) \/ SendJoin(n) \/ KeepAliveTask(n)
                        \/ Close(n) \/ Crash(n) \/ \E same \in Settings : Start(n, same)
                        \/ ReadTask(n) \/ MissedWhileClosed(n) \/ Lose(n) \/ Repeat(n)
    \/ LeaseTask \/ TaskFails \/ ReadFreed \/ Reopen

McSpec == McInit /\ [][McNext]_mcVars

-----------------------------------------------------------------------------
(* Properties.                                                             *)

HeardOn(r) ==
    LET on == SelectSeq(heard, LAMBDA g : g.rel = r) IN [k \in DOMAIN on |-> on[k].id]

\* Whatever is lost or repeated, and whenever nodes crash, restart and announce
\* numbers that are no longer their next ones: fragments are never put together
\* to something that was not sent.
NothingMadeUp == \A k \in DOMAIN heard : heard[k].id # Garbage

\* A JOIN with numbers read before other messages went out costs none of them:
\* without losses all that comes whole from a known peer is handed on.  (A node
\* that crashed within a message leaves fragments behind, which together with such
\* a JOIN cost the next fragmented message.)
NothingMissed == faults = 0 /\ ~torn => [k \in DOMAIN heard |-> heard[k].id] = owed

\* Since the transport was opened a listener has been told of exactly the peers in
\* the list, which holds each once: unless the entry that was dropped for its
\* settings was the first of the list.  (When the transport fails, listeners are
\* not told that the peers are gone.)
ListenersKnow ==
    freed = None =>
        /\ ToSet(order) = {n \in Nodes : balance[n] = 1} /\ IsInjective(order)
        /\ \A n \in Nodes : balance[n] = IF peers[n] = None THEN 0 ELSE 1

\* A running node is not dropped by the lease task unless messages were lost.
RunningStay == expired = {}

MulticastDelivers == NothingMadeUp /\ NothingMissed /\ ListenersKnow /\ RunningStay
=============================================================================
