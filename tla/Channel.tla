------------------------------- MODULE Channel -------------------------------
(***************************************************************************)
(* The channels of handlers.h: a closure that puts what it is called with  *)
(* into a FIFO or a ring (src/src/collections/fifo_mt.c, ring_mt.c and the *)
(* buffer ring.c of both), and a handler to receive from.  What is done    *)
(* under the channel's mutex is one step; a thread that waits on a         *)
(* condition variable leaves it when it is signalled.  Elements are        *)
(* numbered in the order in which they are pushed.  The closure is dropped *)
(* when no call of it runs, the handler when nobody receives.              *)
(***************************************************************************)
EXTENDS Naturals, Sequences, FiniteSets

CONSTANTS Senders, Receivers,
          BufferSize,  \* the capacity asked for
          MaxSends     \* bound on the elements sent

VARIABLES channelKind,  \* "fifo" or "ring"
          vals, rIdx, wIdx,     \* the buffer, with one slot more than it holds
          isClosed,
          holdsClosure, holdsHandler,  \* the two strong references
          sending, receiving,   \* thread -> "idle", "locking" or "waiting"
          sends, pushed, got    \* calls, elements pushed, elements received in order

channelVars == <<channelKind, vals, rIdx, wIdx, isClosed, holdsClosure, holdsHandler, sending, receiving, sends, pushed, got>>

Slots   == BufferSize + 1
NoElem  == 0

ChannelInit ==
    /\ channelKind \in {"fifo", "ring"}
    /\ vals = [i \in 0..BufferSize |-> NoElem] /\ rIdx = 0 /\ wIdx = 0 /\ isClosed = FALSE
    /\ holdsClosure = TRUE /\ holdsHandler = TRUE
    /\ sending = [t \in Senders |-> "idle"] /\ receiving = [t \in Receivers |-> "idle"]
    /\ sends = 0 /\ pushed = 0 /\ got = << >>

\* _z_ring_len, _z_ring_is_full and _z_ring_is_empty.
RingLen == IF wIdx >= rIdx THEN wIdx - rIdx ELSE wIdx + (Slots - rIdx)

\* Mutation: the slot that tells a full buffer from an empty one is used.
RingFullLate == RingLen = Slots

RingFull  == RingLen = BufferSize
RingEmpty == wIdx = rIdx

\* _z_ring_pull, when there is an element, and _z_ring_push, when there is room.
RingPull == vals' = [vals EXCEPT ![rIdx] = NoElem] /\ rIdx' = (rIdx + 1) % Slots

RingPush == vals' = [vals EXCEPT ![wIdx] = pushed + 1] /\ wIdx' = (wIdx + 1) % Slots /\ pushed' = pushed + 1

\* _z_ring_push_force_drop on a full buffer: pull, then push.
RingReplace ==
    /\ vals' = [vals EXCEPT ![rIdx] = NoElem, ![wIdx] = pushed + 1]
    /\ rIdx' = (rIdx + 1) % Slots /\ wIdx' = (wIdx + 1) % Slots /\ pushed' = pushed + 1

\* _z_condvar_signal wakes one thread, if any waits.
Signal(threads) ==
    LET waiting == {t \in DOMAIN threads : threads[t] = "waiting"}
    IN  IF waiting = {} THEN {threads} ELSE {[threads EXCEPT ![t] = "locking"] : t \in waiting}

-----------------------------------------------------------------------------
(* The closure.                                                            *)

\* It is called (name_send): without a handler the element is left.
Send(t) ==
    /\ sending[t] = "idle" /\ holdsClosure /\ sends < MaxSends /\ sends' = sends + 1
    /\ sending' = [sending EXCEPT ![t] = IF holdsHandler THEN "locking" ELSE "idle"]
    /\ UNCHANGED <<channelKind, vals, rIdx, wIdx, isClosed, holdsClosure, holdsHandler, receiving, pushed, got>>

Pushed(t) ==
    /\ sending' = [sending EXCEPT ![t] = "idle"] /\ receiving' \in Signal(receiving)
    /\ UNCHANGED <<channelKind, isClosed, holdsClosure, holdsHandler, sends, got>>

\* A full FIFO is waited for on _cv_not_full.
FifoPush(t) ==
    /\ channelKind = "fifo" /\ sending[t] = "locking"
    /\ \/ ~RingFull /\ RingPush /\ Pushed(t) /\ UNCHANGED rIdx
       \/ /\ RingFull /\ sending' = [sending EXCEPT ![t] = "waiting"]
          /\ UNCHANGED <<channelKind, vals, rIdx, wIdx, isClosed, holdsClosure, holdsHandler, receiving, sends, pushed, got>>

\* A full ring gives up its oldest element.
RingMtPush(t) ==
    /\ channelKind = "ring" /\ sending[t] = "locking"
    /\ IF RingFull THEN RingReplace ELSE RingPush /\ UNCHANGED rIdx
    /\ Pushed(t)

\* Mutation: one receiver is woken.
CloseSignalsOne ==
    /\ holdsClosure /\ \A t \in Senders : sending[t] = "idle"
    /\ holdsClosure' = FALSE
    /\ isClosed' = holdsHandler
    /\ receiving' \in Signal(receiving)
    /\ UNCHANGED <<channelKind, vals, rIdx, wIdx, holdsHandler, sending, sends, pushed, got>>

\* It is dropped (name_close): while there is a handler the channel is closed and
\* all receivers are woken.
CloseChannel ==
    /\ holdsClosure /\ \A t \in Senders : sending[t] = "idle"
    /\ holdsClosure' = FALSE
    /\ isClosed' = holdsHandler
    /\ receiving' = [t \in Receivers |-> IF receiving[t] = "waiting" THEN "locking" ELSE receiving[t]]
    /\ UNCHANGED <<channelKind, vals, rIdx, wIdx, holdsHandler, sending, sends, pushed, got>>

-----------------------------------------------------------------------------
(* The handler.                                                            *)

\* name_recv.
Recv(t) ==
    /\ receiving[t] = "idle" /\ holdsHandler
    /\ receiving' = [receiving EXCEPT ![t] = "locking"]
    /\ UNCHANGED <<channelKind, vals, rIdx, wIdx, isClosed, holdsClosure, holdsHandler, sending, sends, pushed, got>>

TakeOldest == ~RingEmpty /\ RingPull /\ got' = Append(got, vals[rIdx])

\* An empty buffer that is closed ends the call, another one is waited for.
FindEmpty(t) ==
    /\ RingEmpty /\ receiving' = [receiving EXCEPT ![t] = IF isClosed THEN "idle" ELSE "waiting"]
    /\ UNCHANGED <<vals, rIdx, sending, got>>

FifoPull(t) ==
    /\ channelKind = "fifo" /\ receiving[t] = "locking"
    /\ \/ TakeOldest /\ receiving' = [receiving EXCEPT ![t] = "idle"] /\ sending' \in Signal(sending)
       \/ FindEmpty(t)
    /\ UNCHANGED <<channelKind, wIdx, isClosed, holdsClosure, holdsHandler, sends, pushed>>

RingMtPull(t) ==
    /\ channelKind = "ring" /\ receiving[t] = "locking"
    /\ \/ TakeOldest /\ receiving' = [receiving EXCEPT ![t] = "idle"] /\ UNCHANGED sending
       \/ FindEmpty(t)
    /\ UNCHANGED <<channelKind, wIdx, isClosed, holdsClosure, holdsHandler, sends, pushed>>

\* name_try_recv, which leaves an empty buffer alone.
FifoTryPull(t) ==
    /\ channelKind = "fifo" /\ receiving[t] = "idle" /\ holdsHandler
    /\ TakeOldest /\ sending' \in Signal(sending)
    /\ UNCHANGED <<channelKind, wIdx, isClosed, holdsClosure, holdsHandler, receiving, sends, pushed>>

RingMtTryPull(t) ==
    /\ channelKind = "ring" /\ receiving[t] = "idle" /\ holdsHandler
    /\ TakeOldest
    /\ UNCHANGED <<channelKind, wIdx, isClosed, holdsClosure, holdsHandler, sending, receiving, sends, pushed>>

DropHandler ==
    /\ holdsHandler /\ \A t \in Receivers : receiving[t] = "idle"
    /\ holdsHandler' = FALSE
    /\ UNCHANGED <<channelKind, vals, rIdx, wIdx, isClosed, holdsClosure, sending, receiving, sends, pushed, got>>

-----------------------------------------------------------------------------
Push(t) == FifoPush(t) \/ RingMtPush(t)
Pull(t) == FifoPull(t) \/ RingMtPull(t)

ChannelNext ==
    \/ \E t \in Senders : Send(t) \/ Push(t)
    \/ \E t \in Receivers : Recv(t) \/ Pull(t) \/ FifoTryPull(t) \/ RingMtTryPull(t)
    \/ CloseChannel \/ DropHandler

\* A thread that wants the mutex gets it.
ChannelSpec ==
    /\ ChannelInit /\ [][ChannelNext]_channelVars
    /\ \A t \in Senders : WF_channelVars(Push(t))
    /\ \A t \in Receivers : WF_channelVars(Pull(t))

-----------------------------------------------------------------------------
\* The elements in the buffer, oldest first.
Contents == [i \in 1..RingLen |-> vals[(rIdx + i - 1) % Slots]]

\* api.rst: a FIFO "ensures that data is received in the order it was sent", in
\* a ring "data is overwritten if the buffer is full".  What is in the buffer are
\* the newest elements; what was received came in order and none twice; a FIFO
\* leaves none out, a ring only when it was full.
ReceivedInOrder ==
    /\ Contents = [i \in 1..RingLen |-> pushed - RingLen + i]
    /\ \A i, j \in DOMAIN got : i < j => got[i] < got[j]
    /\ \A i \in DOMAIN got : got[i] \in 1..pushed - RingLen
    /\ Len(got) + RingLen # pushed => channelKind = "ring" /\ pushed > BufferSize

\* No wake-up is lost: a sender that waits while the buffer has room, and a
\* receiver that waits while it has elements or is closed, go on.
WakesUp ==
    /\ \A t \in Senders : []<>(~RingFull => sending[t] = "idle")
    /\ \A t \in Receivers : []<>(~RingEmpty \/ isClosed => receiving[t] = "idle")
=============================================================================
