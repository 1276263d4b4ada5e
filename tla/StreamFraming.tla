--------------------------- MODULE StreamFraming ---------------------------
(***************************************************************************)
(* How the readers of a unicast transport cut the byte stream of a link    *)
(* into batches, src/src/transport/unicast/read.c.  A batch is preceded by *)
(* its size in two bytes, the low one first; one receive returns any       *)
(* number of the bytes on their way.  Three readers share the code: the    *)
(* read task of a client, the read task of a peer (whose receive buffer is *)
(* shared by its peers and emptied after each of them), and zp_read.       *)
(* Closed sockets and failures to allocate are left out.                   *)
(***************************************************************************)
EXTENDS Naturals, Sequences, SequencesExt

CONSTANTS Readers,     \* those to consider, of "client", "peer" and "manual"
          Base,        \* 256 in the code: a byte is in 0 .. Base - 1
          BufSize,     \* capacity of _zbuf, the negotiated batch size
          Sizes,       \* sizes of the batches that the other side sends
          MaxBatches   \* bound on batches

\* A size fits into the two bytes it is sent in.
ASSUME StreamAssumption ==
    Base \in Nat \ {0} /\ BufSize \in Nat /\ Sizes \subseteq 0 .. (Base * Base - 1)

Hdr == 2  \* _Z_MSG_LEN_ENC_SIZE

VARIABLES reader,     \* which reader this is
          sent,       \* history: the batches sent
          stream,     \* bytes on their way
          zbuf,       \* _zbuf: its read position and unread bytes
          flow,       \* flow_state, flow_curr_size, flow_buff of the peer
          remaining,  \* the peer's task is to look at what zbuf still holds
          delivered,  \* history: the batches decoded and handled
          slipped     \* history: a batch ended with flow_state PENDING_SIZE, or
                      \* zp_read found unread bytes

streamVars == <<reader, sent, stream, zbuf, flow, remaining, delivered, slipped>>

Empty  == [pos |-> 0, data |-> << >>]
NoFlow == [st |-> "inactive", size |-> 0, buf |-> << >>]

StreamInit ==
    /\ reader \in Readers /\ sent = << >> /\ stream = << >> /\ zbuf = Empty /\ flow = NoFlow
    /\ remaining = FALSE /\ delivered = << >> /\ slipped = FALSE

Drop(s, n) == SubSeq(s, n + 1, Len(s))
Take(s, n) == SubSeq(s, 1, n)

-----------------------------------------------------------------------------
(* External: the other side sends a batch; its number stands for its bytes. *)

Batch(k, n) == [i \in 1 .. n |-> k]

Send(n) ==
    /\ Len(sent) < MaxBatches
    /\ LET b == Batch(Len(sent) + 1, n)
       IN  sent' = Append(sent, b) /\ stream' = stream \o <<n % Base, n \div Base>> \o b
    /\ UNCHANGED <<reader, zbuf, flow, remaining, delivered, slipped>>

-----------------------------------------------------------------------------
(* The receive buffer.                                                     *)

\* _z_read_stream_size
SizeOf(low, high) == (low + high * Base) % (Base * Base)

Space(b) == BufSize - b.pos - Len(b.data)

\* Mutant: the unread bytes stay where they are.
CompactNever(b) == b

\* _z_zbuf_compact
Compact(b) == [b EXCEPT !.pos = 0]

\* Compact before a receive that could not get n bytes.
Roomy(b, n) == IF Space(b) < n THEN Compact(b) ELSE b

Skip(b, n) == [pos |-> b.pos + n, data |-> Drop(b.data, n)]

\* What a receive into a buffer with room for max bytes may return (0 stands
\* for a timeout).
Received(max) == {n \in 0 .. Len(stream) : n <= max}

-----------------------------------------------------------------------------
(* The client's reader, _z_unicast_client_read and _z_unicast_process_messages. *)

BatchSize(data) == SizeOf(data[1], data[2])

Whole(data) == Len(data) >= Hdr /\ Len(data) >= Hdr + BatchSize(data)

\* Mutant: the size is not put back.
PutBackForgotten(b) == Compact(IF Len(b.data) >= Hdr THEN Skip(b, Hdr) ELSE b)

\* The batch is not complete: its size is put back for the next call.
PutBack(b) == Compact(b)

\* With n bytes from a first receive, and m from a second one, for the rest of a
\* batch whose size is known.  When a sample keeps the buffer alive, the unread
\* bytes are copied to a new one.
ClientReadFrom(b, n, m) ==
    LET hdr  == Len(b.data) < Hdr
        roomy  == IF hdr THEN Roomy(b, Hdr) ELSE b
        first  == [roomy EXCEPT !.data = @ \o Take(stream, n)]
        body   == Len(first.data) >= Hdr /\ ~Whole(first.data)
        grown  == IF body THEN Roomy(first, Hdr + BatchSize(first.data) - Len(first.data)) ELSE first
        second == [grown EXCEPT !.data = @ \o SubSeq(stream, n + 1, n + m)]
    IN  /\ (hdr \/ n = 0) /\ n <= Space(roomy)
        /\ (body \/ m = 0) /\ m <= Space(grown)
        /\ stream' = Drop(stream, n + m)
        /\ \/ ~Whole(second.data) /\ zbuf' = PutBack(second) /\ UNCHANGED delivered
           \/ /\ Whole(second.data)
              /\ delivered' = Append(delivered, SubSeq(second.data, Hdr + 1, Hdr + BatchSize(second.data)))
              /\ LET rest == Skip(second, Hdr + BatchSize(second.data))
                 IN  zbuf' \in {rest, Compact(rest)}
        /\ UNCHANGED <<reader, sent, flow, remaining>>

Receives == {p \in Received(BufSize) \X Received(BufSize) : p[1] + p[2] <= Len(stream)}

\* _zp_unicast_read without single_read starts with an empty buffer, the read
\* task of a client with what the last call left.
Start == IF reader = "manual" THEN Empty ELSE zbuf

\* One call of the read task, _zp_unicast_read_task_fn, or of _zp_unicast_read.
ClientRead ==
    /\ reader # "peer"
    /\ \E p \in Receives : ClientReadFrom(Start, p[1], p[2])
    /\ slipped' = (slipped \/ Start.data # zbuf.data)

-----------------------------------------------------------------------------
(* The peer's reader, _z_unicast_peer_read and                             *)
(* _zp_unicast_process_peer_event.                                         *)

\* A batch of which data was received: it is handled when it is complete, and
\* otherwise moved to flow_buff.  Nothing but what is left over stays in zbuf.
Body(f, size, data) ==
    \/ /\ Len(data) < size
       /\ flow' = [st |-> "pendingData", size |-> size, buf |-> data]
       /\ zbuf' = Empty /\ remaining' = FALSE /\ UNCHANGED <<delivered, slipped>>
    \/ /\ Len(data) >= size
       /\ delivered' = Append(delivered, Take(data, size))
       /\ LET rest == Drop(data, size)
          IN  /\ zbuf' = [Empty EXCEPT !.data = rest]
              /\ remaining' = (rest # << >>)
              /\ slipped' = (slipped \/ (rest = << >> /\ f.st = "pendingSize"))
       /\ flow' = f

\* data starts with the size of a batch, or with half of it.
AtHeader(f, data) ==
    \/ /\ Len(data) < Hdr
       /\ flow' = [f EXCEPT !.st = "pendingSize", !.size = data[1]]
       /\ zbuf' = Empty /\ remaining' = FALSE /\ UNCHANGED <<delivered, slipped>>
    \/ Len(data) >= Hdr /\ Body(f, BatchSize(data), Drop(data, Hdr))

\* _z_unicast_handle_remaining_data
PeerRemaining == remaining /\ AtHeader(flow, zbuf.data) /\ UNCHANGED <<reader, sent, stream>>

\* _Z_FLOW_STATE_INACTIVE and _Z_FLOW_STATE_READY
PeerReadInactive(n) ==
    flow.st \in {"inactive", "ready"} /\ AtHeader(NoFlow, Take(stream, n))

\* _Z_FLOW_STATE_PENDING_SIZE
PeerReadSize(n) ==
    /\ flow.st = "pendingSize"
    /\ LET f == [flow EXCEPT !.size = SizeOf(@, stream[1])]
       IN  Body(f, f.size, SubSeq(stream, 2, n))

\* _Z_FLOW_STATE_PENDING_DATA receives into flow_buff.
PeerReadData(n) ==
    /\ flow.st = "pendingData" /\ n <= flow.size - Len(flow.buf)
    /\ LET buf == flow.buf \o Take(stream, n)
       IN  \/ Len(buf) < flow.size /\ flow' = [flow EXCEPT !.buf = buf] /\ UNCHANGED delivered
           \/ /\ Len(buf) = flow.size /\ flow' = [flow EXCEPT !.buf = buf, !.st = "ready"]
              /\ delivered' = Append(delivered, buf)
    /\ UNCHANGED <<zbuf, remaining, slipped>>

PeerRead ==
    /\ ~remaining
    /\ \E n \in Received(BufSize) \ {0} :
          /\ PeerReadInactive(n) \/ PeerReadSize(n) \/ PeerReadData(n)
          /\ stream' = Drop(stream, n) /\ UNCHANGED <<reader, sent>>

PeerStep == reader = "peer" /\ (PeerRead \/ PeerRemaining)

-----------------------------------------------------------------------------
StreamNext == (\E n \in Sizes : Send(n)) \/ ClientRead \/ PeerStep

StreamSpec == StreamInit /\ [][StreamNext]_streamVars

-----------------------------------------------------------------------------
(* Properties.                                                             *)

\* The batches handled are those sent, in order, however the stream is cut into
\* receives: no batch is lost, split or read from its middle.  Two cases are
\* excepted: a batch whose size came in two receives and that was the last one of
\* its receive, in the peer's task, and a call of zp_read after one that received
\* more than its first batch.
Framed == ~slipped => IsPrefix(delivered, sent)

\* With the same exceptions every batch is handled: the client always finds room
\* for the next receive, and the peer's states lead to the end of the batch.
EveryBatchHandled ==
    \A k \in 1 .. MaxBatches : []<>(Len(sent) >= k => Len(delivered) >= k \/ slipped)

\* read.c:226: "If we receive fragmented data we have to store it on a separate
\* buffer".
FragmentedDataStored == reader = "peer" => IsPrefix(delivered, sent)
=============================================================================
