----------------------------- MODULE UnicastRx ------------------------------
(***************************************************************************)
(* The receiving half of a unicast transport, src/src/transport/unicast/   *)
(* rx.c: the order checks, the reorder window and the reassembly of        *)
(* fragments, for the transport messages that UnicastTx puts on the wire.  *)
(* The "drop" marker, which that sender never sets, and failures to        *)
(* allocate the buffer are left out.                                       *)
(***************************************************************************)
EXTENDS SeqNum, Sequences, SequencesExt

CONSTANTS Datagram,    \* the link is a datagram link
          WindowSize,  \* Z_BEST_EFFORT_REORDER_WINDOW
          FragMax,     \* Z_FRAG_MAX_SIZE
          Markers      \* the peer's patch has fragment markers

Garbage == 0  \* delivered when the fragments are not those of one message

Channels == {"reliable", "bestEffort"}

VARIABLES rxSn,    \* _sn_rx_reliable, _sn_rx_best_effort
          window,  \* _sn_rx_best_effort_window
          dbuf,    \* the defragmentation buffers and their states
          got      \* history: messages handed to the session, with the channel

rxVars == <<rxSn, window, dbuf, got>>

NoBuffer == [pieces |-> << >>, st |-> "null"]

RxInit ==
    LET before == Decrement(SnRes, InitialSn)
    IN  /\ rxSn = [r \in Channels |-> before] /\ window = ResetWindow(before)
        /\ dbuf = [r \in Channels |-> NoBuffer] /\ got = << >>

Deliver(r, ids) == got' = got \o [k \in DOMAIN ids |-> [id |-> ids[k], rel |-> r]]

-----------------------------------------------------------------------------
(* _z_unicast_handle_frame.                                                *)

\* Best-effort frames of a datagram link may arrive out of order.
Windowed(f) == Datagram /\ f.rel = "bestEffort"

\* Mutant: a frame with the number just received passes.
FrameAcceptedAgain(f) ==
    /\ \/ Windowed(f) /\ Verdict(window, SnRes, WindowSize, f.sn) \in {"ahead", "reordered"}
       \/ ~Windowed(f) /\ Distance(SnRes, rxSn[f.rel], f.sn) <= Half(SnRes)
    /\ window' = IF Windowed(f) THEN Observe(window, SnRes, WindowSize, f.sn) ELSE window
    /\ rxSn' = [rxSn EXCEPT ![f.rel] = f.sn]
    /\ Deliver(f.rel, f.content) /\ UNCHANGED dbuf

FrameAccepted(f) ==
    /\ \/ Windowed(f) /\ Verdict(window, SnRes, WindowSize, f.sn) \in {"ahead", "reordered"}
       \/ ~Windowed(f) /\ Precedes(SnRes, rxSn[f.rel], f.sn)
    /\ window' = IF Windowed(f) THEN Observe(window, SnRes, WindowSize, f.sn) ELSE window
    /\ rxSn' = IF Windowed(f) /\ Verdict(window, SnRes, WindowSize, f.sn) = "reordered"
               THEN rxSn ELSE [rxSn EXCEPT ![f.rel] = f.sn]
    /\ Deliver(f.rel, f.content) /\ UNCHANGED dbuf

\* A frame out of order also drops the fragments collected so far, except on
\* the windowed channel.
FrameDropped(f) ==
    /\ \/ /\ Windowed(f) /\ UNCHANGED dbuf
          /\ Verdict(window, SnRes, WindowSize, f.sn) \in {"duplicate", "tooOld"}
       \/ /\ ~Windowed(f) /\ ~Precedes(SnRes, rxSn[f.rel], f.sn)
          /\ dbuf' = [dbuf EXCEPT ![f.rel] = NoBuffer]
    /\ UNCHANGED <<rxSn, window, got>>

-----------------------------------------------------------------------------
(* _z_unicast_handle_fragment.                                             *)

UnitsIn(pieces) == FoldLeft(LAMBDA units, p : units + p.len, 0, pieces)

\* Mutant: a message that fills the buffer exactly is refused.
CollectStrict(b, f, consecutive) ==
    LET kept == IF Markers /\ f.first THEN << >> ELSE b.pieces
    IN  IF ~consecutive /\ b.pieces # << >> THEN NoBuffer
        ELSE IF Markers /\ ~f.first /\ b.pieces = << >> THEN b
        ELSE IF b.st = "overflow" \/ UnitsIn(kept) + f.len >= FragMax
             THEN [pieces |-> kept, st |-> "overflow"]
        ELSE [pieces |-> Append(kept, f), st |-> "init"]

\* The buffer with one more fragment.
Collect(b, f, consecutive) ==
    LET kept == IF Markers /\ f.first THEN << >> ELSE b.pieces
    IN  IF ~consecutive /\ b.pieces # << >> THEN NoBuffer
        ELSE IF Markers /\ ~f.first /\ b.pieces = << >> THEN b
        ELSE IF b.st = "overflow" \/ UnitsIn(kept) + f.len > FragMax
             THEN [pieces |-> kept, st |-> "overflow"]
        ELSE [pieces |-> Append(kept, f), st |-> "init"]

\* The fragment was dropped before the check for the last one.
Ignored(b, f, consecutive) ==
    \/ ~consecutive /\ b.pieces # << >>
    \/ Markers /\ ~f.first /\ b.pieces = << >>

Reassembled(pieces) ==
    IF /\ pieces # << >> /\ pieces[1].first /\ ~Last(pieces).more
       /\ \A k \in DOMAIN pieces : pieces[k].id = pieces[1].id /\ pieces[k].first = (k = 1)
                                   /\ pieces[k].sn = (pieces[1].sn + k - 1) % (SnRes + 1)
    THEN pieces[1].id ELSE Garbage

\* A fragment ahead; a best-effort one also resets the reorder window.
FragmentAccepted(f) ==
    LET consecutive == Consecutive(SnRes, rxSn[f.rel], f.sn)
        b           == Collect(dbuf[f.rel], f, consecutive)
        last        == ~f.more /\ ~Ignored(dbuf[f.rel], f, consecutive)
    IN  /\ Precedes(SnRes, rxSn[f.rel], f.sn)
        /\ rxSn' = [rxSn EXCEPT ![f.rel] = f.sn]
        /\ window' = IF f.rel = "bestEffort" THEN ResetWindow(f.sn) ELSE window
        /\ dbuf' = [dbuf EXCEPT ![f.rel] = IF last THEN NoBuffer ELSE b]
        /\ IF last /\ b.st = "init" THEN Deliver(f.rel, <<Reassembled(b.pieces)>>) ELSE UNCHANGED got

FragmentDropped(f) ==
    /\ ~Precedes(SnRes, rxSn[f.rel], f.sn)
    /\ dbuf' = [dbuf EXCEPT ![f.rel] = NoBuffer]
    /\ UNCHANGED <<rxSn, window, got>>

-----------------------------------------------------------------------------
\* _z_unicast_handle_transport_message
Handle(w) ==
    \/ w.kind = "frame" /\ (FrameAccepted(w) \/ FrameDropped(w))
    \/ w.kind = "fragment" /\ (FragmentAccepted(w) \/ FragmentDropped(w))
    \/ w.kind = "keepAlive" /\ UNCHANGED rxVars
=============================================================================
