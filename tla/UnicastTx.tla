----------------------------- MODULE UnicastTx ------------------------------
(***************************************************************************)
(* The sending half of a transport, src/src/transport/common/tx.c, with    *)
(* the batching calls of src/src/transport/transport.c and api/api.c.      *)
(*                                                                         *)
(* Everything between taking and releasing _mutex_tx is one step, cut in   *)
(* two where the batching state, which start and stop change without the   *)
(* mutex, is read a second time.  A network message has a size in units;   *)
(* a batch holds Cap of them, headers not counted.  The link takes a batch *)
(* or fails, and the batches it took are in wire.  A message refused by    *)
(* congestion control changes nothing and is left out; the client sends    *)
(* on one link (peers = NULL).                                             *)
(***************************************************************************)
EXTENDS SeqNum, Sequences, SequencesExt

CONSTANTS Threads,     \* application threads and the executor's
          NoThread,
          Cap,         \* capacity of _wbuf
          Sizes,       \* sizes of network messages
          MaxMsgs,     \* bound on network messages
          MaxFails,    \* bound on failures of the link
          MaxCalls     \* bound on keep-alives and batching calls

Rel == {"reliable", "bestEffort"}

ASSUME UnicastTxAssumption ==
    /\ Cap \in Nat \ {0}
    /\ Sizes \subseteq Nat \ {0} /\ NoThread \notin Threads
    /\ MaxMsgs \in Nat /\ MaxFails \in Nat /\ MaxCalls \in Nat

VARIABLES sn,       \* _sn_tx_reliable, _sn_tx_best_effort
          wbuf,     \* _wbuf: the transport message in it
          batching, \* _batch_state = _Z_BATCHING_ACTIVE
          count,    \* _batch_count
          mutex,    \* the holder of _mutex_tx
          pc, cur,  \* each thread: where, and the message it sends
          msgs,     \* history: the messages, numbered in the order of the mutex
          wire,     \* history: transport messages the link took
          kept,     \* history: messages whose send has returned success
          failed,   \* history: messages some failing call may have lost
          raced,    \* history: a send or zp_batch_start began during another
                    \* thread's zp_batch_start, zp_batch_stop or zp_batch_flush
          fails, calls

txState   == <<sn, wbuf, batching, count, mutex>>
txHistory == <<msgs, wire, kept, failed, raced>>
txVars    == <<txState, pc, cur, txHistory, fails, calls>>

KeepAlive      == [kind |-> "keepAlive"]
Frame(r, s, c) == [kind |-> "frame", rel |-> r, sn |-> s, content |-> c]

NoSend == [id |-> 0, has |-> FALSE, fits |-> FALSE]

TxInit ==
    /\ sn = [r \in Rel |-> InitialSn] /\ wbuf = KeepAlive
    /\ batching = FALSE /\ count = 0 /\ mutex = NoThread
    /\ pc = [t \in Threads |-> "idle"] /\ cur = [t \in Threads |-> NoSend]
    /\ msgs = << >> /\ wire = << >> /\ kept = {} /\ failed = {} /\ raced = FALSE
    /\ fails = 0 /\ calls = 0

-----------------------------------------------------------------------------
Contents(w) == IF w.kind = "frame" THEN ToSet(w.content) ELSE {}

UnitsOf(content) == FoldLeft(LAMBDA units, id : units + msgs[id].size, 0, content)

BatchHasData == batching /\ count > 0

\* _z_transport_tx_send_fragment: the fragments of a message, of Cap units each.
Pieces(size) == (size + Cap - 1) \div Cap

Fragments(id, m, first) ==
    [k \in 1 .. Pieces(m.size) |->
        [kind |-> "fragment", rel |-> m.rel, sn |-> (first + k - 1) % (SnRes + 1),
         first |-> k = 1, more |-> k < Pieces(m.size), id |-> id,
         len |-> IF k < Pieces(m.size) THEN Cap ELSE m.size - Cap * (k - 1)]]

Race(t) ==
    raced' = (raced \/ \E u \in Threads \ {t} : pc[u] \in {"starting", "stopped", "flushing"})

-----------------------------------------------------------------------------
(* _z_transport_tx_send_n_msg.                                             *)

\* The mutex is taken and the message encoded, behind the ones of the batch or
\* behind a new header with the next number.
SendBegins(t, m) ==
    LET has  == BatchHasData
        base == IF has THEN wbuf ELSE Frame(m.rel, sn[m.rel], << >>)
        fits == UnitsOf(base.content) + m.size <= Cap
        id   == Len(msgs) + 1
    IN  /\ pc[t] = "idle" /\ mutex = NoThread
        /\ mutex' = t /\ pc' = [pc EXCEPT ![t] = "encoded"]
        /\ cur' = [cur EXCEPT ![t] = [id |-> id, has |-> has, fits |-> fits]]
        /\ msgs' = Append(msgs, m) /\ Race(t)
        /\ sn' = IF has THEN sn ELSE [sn EXCEPT ![m.rel] = Increment(SnRes, @)]
        /\ wbuf' = IF fits THEN [base EXCEPT !.content = Append(@, id)] ELSE base
        /\ UNCHANGED <<batching, count, wire, kept, failed, fails, calls>>

Msg(t) == msgs[cur[t].id]

\* The call returns and releases the mutex.
Returns(t) ==
    /\ mutex' = NoThread /\ pc' = [pc EXCEPT ![t] = "idle"]
    /\ cur' = [cur EXCEPT ![t] = NoSend] /\ UNCHANGED <<msgs, raced, batching, calls>>

Succeeds(ids) == kept' = kept \cup ids /\ UNCHANGED <<failed, fails>>

Fails(ids) ==
    /\ fails < MaxFails /\ fails' = fails + 1
    /\ failed' = failed \cup ids /\ UNCHANGED kept

\* _z_transport_tx_flush_buffer of w, after the batches in before.
Flush(before, w, ids) ==
    \/ wire' = wire \o before \o <<w>> /\ count' = 0 /\ Succeeds(ids)
    \/ /\ wire' = wire \o before /\ Fails(ids \cup Contents(w))
       /\ count' = IF before = << >> THEN count ELSE 0

SendBatched(t) ==
    /\ pc[t] = "encoded" /\ cur[t].fits /\ ~Msg(t).express /\ batching
    /\ count' = count + 1 /\ Succeeds({cur[t].id}) /\ Returns(t)
    /\ UNCHANGED <<sn, wbuf, wire>>

SendFlushed(t) ==
    /\ pc[t] = "encoded" /\ cur[t].fits /\ (Msg(t).express \/ ~batching)
    /\ Flush(<< >>, wbuf, {cur[t].id}) /\ Returns(t)
    /\ UNCHANGED <<sn, wbuf>>

\* _z_transport_tx_send_fragment: j of the fragments are taken by the link; each
\* takes its number when it is its turn.
SendFragments(t, before, first) ==
    LET all == Fragments(cur[t].id, Msg(t), first)
        n   == Len(all)
    IN  \E j \in 0 .. n :
            LET tried == IF j = n THEN n ELSE j + 1
            IN  /\ wire' = wire \o before \o SubSeq(all, 1, j)
                /\ wbuf' = all[tried]
                /\ sn' = [sn EXCEPT ![Msg(t).rel] = (first + tried) % (SnRes + 1)]
                /\ IF j = n THEN Succeeds({cur[t].id}) ELSE Fails({cur[t].id})

SendFragmented(t) ==
    /\ pc[t] = "encoded" /\ ~cur[t].fits /\ ~cur[t].has
    /\ SendFragments(t, << >>, wbuf.sn) /\ Returns(t) /\ UNCHANGED count

\* Mutant: the new header reuses the number of the batch.
SendOverflowsSameSn(t) ==
    /\ pc[t] = "encoded" /\ ~cur[t].fits /\ cur[t].has /\ Returns(t)
    /\ Msg(t).size <= Cap
    /\ wbuf' = Frame(Msg(t).rel, wbuf.sn, <<cur[t].id>>)
    /\ wire' = Append(wire, wbuf) /\ count' = 1 /\ Succeeds({cur[t].id}) /\ UNCHANGED sn

\* _z_transport_tx_batch_overflow: the batch is sent, then the message as a new
\* batch, at once if it is express, or in fragments if it does not fit either.
SendOverflows(t) ==
    /\ pc[t] = "encoded" /\ ~cur[t].fits /\ cur[t].has /\ Returns(t)
    /\ LET m    == Msg(t)
           next == Frame(m.rel, sn[m.rel], <<cur[t].id>>)
       IN  \/ /\ Fails({cur[t].id} \cup Contents(wbuf))
              /\ UNCHANGED <<sn, wbuf, count, wire>>
           \/ /\ m.size <= Cap /\ m.express
              /\ Flush(<<wbuf>>, next, {cur[t].id}) /\ wbuf' = next
              /\ sn' = [sn EXCEPT ![m.rel] = Increment(SnRes, @)]
           \/ /\ m.size <= Cap /\ ~m.express
              /\ wire' = Append(wire, wbuf) /\ wbuf' = next
              /\ count' = 1 /\ Succeeds({cur[t].id})
              /\ sn' = [sn EXCEPT ![m.rel] = Increment(SnRes, @)]
           \/ /\ m.size > Cap /\ SendFragments(t, <<wbuf>>, sn[m.rel]) /\ count' = 0

-----------------------------------------------------------------------------
(* Keep-alives and batching calls.                                         *)

\* _z_transport_tx_send_t_msg
SendKeepAlive(t) ==
    LET has == BatchHasData
    IN  /\ pc[t] = "idle" /\ mutex = NoThread /\ calls < MaxCalls /\ calls' = calls + 1
        /\ Race(t)
        /\ \/ /\ has /\ Fails(Contents(wbuf)) /\ UNCHANGED <<wbuf, count, wire>>
           \/ /\ Flush(IF has THEN <<wbuf>> ELSE << >>, KeepAlive, {}) /\ wbuf' = KeepAlive
        /\ UNCHANGED <<sn, batching, mutex, pc, cur, msgs>>

\* zp_batch_start: the state is tested and set without the mutex.
StartBegins(t) ==
    /\ pc[t] = "idle" /\ ~batching /\ calls < MaxCalls /\ calls' = calls + 1
    /\ pc' = [pc EXCEPT ![t] = "starting"] /\ Race(t)
    /\ UNCHANGED <<txState, cur, msgs, wire, kept, failed, fails>>

StartEnds(t) ==
    /\ pc[t] = "starting" /\ pc' = [pc EXCEPT ![t] = "idle"]
    /\ count' = 0 /\ batching' = TRUE
    /\ UNCHANGED <<sn, wbuf, mutex, cur, txHistory, fails, calls>>

\* Mutant: the count is reset with the state.
StopBatchingForgets(t) ==
    /\ pc[t] = "idle" /\ calls < MaxCalls /\ calls' = calls + 1
    /\ batching' = FALSE /\ count' = 0 /\ pc' = [pc EXCEPT ![t] = "stopped"]
    /\ UNCHANGED <<sn, wbuf, mutex, cur, txHistory, fails>>

\* zp_batch_stop: the state is reset first, without the mutex, ...
StopBatching(t) ==
    /\ pc[t] = "idle" /\ calls < MaxCalls /\ calls' = calls + 1
    /\ batching' = FALSE /\ pc' = [pc EXCEPT ![t] = "stopped"]
    /\ UNCHANGED <<sn, wbuf, count, mutex, cur, txHistory, fails>>

\* ... then, as in zp_batch_flush, the count is tested without the mutex ...
FlushBegins(t) ==
    /\ \/ pc[t] = "idle" /\ calls < MaxCalls /\ calls' = calls + 1
       \/ pc[t] = "stopped" /\ UNCHANGED calls
    /\ pc' = [pc EXCEPT ![t] = IF count > 0 THEN "flushing" ELSE "idle"]
    /\ UNCHANGED <<txState, cur, txHistory, fails>>

\* ... and the buffer sent.
FlushEnds(t) ==
    /\ pc[t] = "flushing" /\ mutex = NoThread /\ Flush(<< >>, wbuf, {})
    /\ pc' = [pc EXCEPT ![t] = "idle"]
    /\ UNCHANGED <<sn, wbuf, batching, mutex, cur, msgs, raced, calls>>

-----------------------------------------------------------------------------
Messages == [rel : Rel, size : Sizes, express : BOOLEAN]

TxStep(t) ==
    \/ Len(msgs) < MaxMsgs /\ \E m \in Messages : SendBegins(t, m)
    \/ SendBatched(t) \/ SendFlushed(t) \/ SendFragmented(t) \/ SendOverflows(t)
    \/ SendKeepAlive(t) \/ StartBegins(t) \/ StartEnds(t) \/ StopBatching(t)
    \/ FlushBegins(t) \/ FlushEnds(t)

TxNext == \E t \in Threads : TxStep(t)

TxSpec == TxInit /\ [][TxNext]_txVars

-----------------------------------------------------------------------------
(* Properties.                                                             *)

\* The messages that are on the wire as a whole.
OnWire ==
    (UNION {Contents(wire[i]) : i \in DOMAIN wire})
    \cup {id \in DOMAIN msgs :
            Cardinality({i \in DOMAIN wire : wire[i].kind = "fragment" /\ wire[i].id = id})
                >= Pieces(msgs[id].size)}

Waiting == IF count > 0 THEN Contents(wbuf) ELSE {}

\* A message whose send succeeded is on the wire or waits in the batch, unless a
\* later call that should have sent it reported a failure, or a batching call of
\* one thread overlapped a send or zp_batch_start of another.
NoSilentLoss == ~raced => kept \ failed \subseteq OnWire \cup Waiting

\* primitives.h, zp_batch_stop: "Deactivate the batching mechanism and send the
\* currently batched on the network".
BatchNotLost == kept \ failed \subseteq OnWire \cup Waiting

OnChannel(w, r) == w.kind # "keepAlive" /\ w.rel = r

\* Before the k-th transport message on the wire, the i-th is the last of channel r.
LastBefore(r, i, k) == OnChannel(wire[i], r) /\ \A j \in i + 1 .. k - 1 : ~OnChannel(wire[j], r)

\* The numbers of each channel advance on the wire, and none is used for two
\* transport messages: a batch may be sent twice, but then it is the same.  At
\* most one number is skipped for every failure of the link or, once a batching
\* call of one thread overlapped a send of another, for every message; as long as
\* that is less than there are numbers.
WireNumbered ==
    LET skipped == IF raced THEN Len(msgs) ELSE fails
    IN  skipped < SnRes =>
            \A k \in DOMAIN wire : wire[k].kind # "keepAlive" =>
                \A i \in 1 .. k - 1 : LastBefore(wire[k].rel, i, k) =>
                    \/ wire[k] = wire[i]
                    \/ Distance(SnRes, wire[i].sn, wire[k].sn) \in 1 .. skipped + 1

\* The sender's promises: WireNumbered and NoSilentLoss.
SenderRight == WireNumbered /\ NoSilentLoss
=============================================================================
