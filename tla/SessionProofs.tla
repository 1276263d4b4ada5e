--------------------------- MODULE SessionProofs ----------------------------
(***************************************************************************)
(* The callbacks of a session, for any number of threads and entities, and *)
(* the readers of its stream, for any batches.                             *)
(*                                                                         *)
(* The cancellation token: a cancel that returns finds its operations      *)
(* unregistered, so that no reply finds one, and every other cancel done   *)
(* with the handlers; a handler is dropped once.                           *)
(*                                                                         *)
(* The subscribers and queryables: an undeclare and the close return only  *)
(* when no callback can follow, and the cached look-ups of queryables are  *)
(* never stale.                                                            *)
(*                                                                         *)
(* The readers: the batches handed on are those sent, however the stream   *)
(* is cut into receives.                                                   *)
(***************************************************************************)
EXTENDS Cancellation, Subscriptions, StreamFraming, TLAPS

(***************************************************************************)
(* The cancellation token.                                                 *)
(***************************************************************************)
PCs     == {"idle", "take", "handlers", "notify", "close", "wait", "waiting", "return"}
WaitKinds   == {"wait", "timedwait"}
OpState == {"none", "adding", "active", "finishing", "ended"}

TokenTypeOK ==
    /\ closed \in BOOLEAN /\ cleared \in BOOLEAN
    /\ alive \subseteq Notifiers
    /\ call \in [Threads -> WaitKinds \cup {"none"}]
    /\ ret \in [Threads -> {"none", "ok", "closed", "timedout"}]
    /\ stored \subseteq Ops \cup {Core}
    /\ taken \in [Threads -> SUBSET (Ops \cup {Core})]
    /\ result \in {"ok", "err"}
    /\ opst \in [Ops \cup Bare -> OpState]
    /\ fate \in [Ops -> Nat]
    /\ pc \in [Threads -> PCs] /\ kind \in [Threads -> WaitKinds]
    /\ out \in [Threads -> {"none", "ok", "err", "timedout"}]
    /\ calls \in [Threads -> Nat]

InLoop(t) == pc[t] \in {"handlers", "notify"}

\* The notifier kept with the handlers is alive exactly while they are in the
\* token or in the hands of the one cancel that took them.
CoreWithHandlers ==
    /\ Core \in alive <=> Core \in stored \/ \E t \in Threads : InLoop(t)
    /\ Core \notin stored => stored = {}
    /\ \A t \in Threads :
        /\ InLoop(t) => Core \in taken[t] /\ Core \notin stored
        /\ ~InLoop(t) => taken[t] = {}
        /\ pc[t] = "notify" => taken[t] = {Core}
        /\ pc[t] = "close" => Core \notin alive
    /\ \A t, u \in Threads : InLoop(t) /\ InLoop(u) => t = u

\* The group closes once the handlers are done with, and without an error only
\* when no operation is left; a cancel that returns has seen it closed.
ClosedIsQuiet ==
    /\ closed => Core \notin alive /\ (result = "ok" => alive = {})
    /\ \A o \in Ops \cup Bare : Running(o) => o \in alive
    /\ \A t \in Threads :
        /\ pc[t] = "return" /\ ret[t] # "timedout" => closed
        /\ out[t] \in {"ok", "err"} => closed
        /\ out[t] = "ok" => result = "ok"

\* A registered handler is in the token, with the cancel that took it, or has
\* been dropped.
HandlerSomewhere ==
    \A o \in Ops :
        /\ o \in stored => fate[o] = 0 /\ opst[o] # "none"
        /\ \A t \in Threads : o \in taken[t] => fate[o] = 0 /\ opst[o] # "none"
        /\ fate[o] \in {0, 1}
        /\ opst[o] = "none" => fate[o] = 0
        /\ opst[o] # "none" /\ fate[o] = 0 => o \in stored \/ \E t \in Threads : o \in taken[t]

\* The last reference is gone.
ClearedIsIdle ==
    cleared => /\ stored = {}
               /\ \A t \in Threads : pc[t] = "idle"
               /\ \A o \in Ops \cup Bare : opst[o] \in {"none", "ended"}

TokenInv == TokenTypeOK /\ CoreWithHandlers /\ ClosedIsQuiet /\ HandlerSomewhere /\ ClearedIsIdle

-----------------------------------------------------------------------------
\* Every step of an operation, of a cancel (z_cancellation_token_cancel) and of
\* the token's clear keeps the invariant.
LEMMA StepKeeps ==
    ASSUME Core \notin Ops \cup Bare, Ops \cap Bare = {}, TokenInv, [Next]_vars
    PROVE  TokenInv'
<1> USE DEF TokenInv, vars, group, token, Notifiers, OpState, PCs, WaitKinds
<1>1. ASSUME NEW o \in Ops, AddHandler(o)
      PROVE  TokenInv'
  <2>1. TokenTypeOK'
    BY <1>1 DEF TokenTypeOK, AddHandler, DropHandlers, OpTo
  <2>2. CoreWithHandlers'
    BY <1>1 DEF TokenTypeOK, CoreWithHandlers, InLoop, AddHandler, DropHandlers, OpTo
  <2>3. ClosedIsQuiet'
    BY <1>1 DEF TokenTypeOK, CoreWithHandlers, ClosedIsQuiet, Running, InLoop, AddHandler, DropHandlers, OpTo
  <2>4. HandlerSomewhere'
    BY <1>1 DEF TokenTypeOK, CoreWithHandlers, HandlerSomewhere, ClosedIsQuiet, InLoop, AddHandler, DropHandlers, OpTo
  <2>5. ClearedIsIdle'
    BY <1>1 DEF TokenTypeOK, CoreWithHandlers, ClearedIsIdle, AddHandler, DropHandlers, OpTo
  <2> QED
    BY <2>1, <2>2, <2>3, <2>4, <2>5
<1>2. ASSUME NEW o \in Ops, GetNotifier(o)
      PROVE  TokenInv'
  <2>1. TokenTypeOK'
    BY <1>2 DEF TokenTypeOK, GetNotifier, DropHandlers, OpTo, G!Create
  <2>2. CoreWithHandlers'
    BY <1>2 DEF TokenTypeOK, CoreWithHandlers, InLoop, GetNotifier, DropHandlers, OpTo, G!Create
  <2>3. ClosedIsQuiet'
    BY <1>2 DEF TokenTypeOK, CoreWithHandlers, ClosedIsQuiet, Running, InLoop, GetNotifier, DropHandlers, OpTo, G!Create
  <2>4. HandlerSomewhere'
    BY <1>2 DEF TokenTypeOK, CoreWithHandlers, HandlerSomewhere, ClosedIsQuiet, InLoop, GetNotifier, DropHandlers, OpTo, G!Create
  <2>5. ClearedIsIdle'
    BY <1>2 DEF TokenTypeOK, CoreWithHandlers, ClearedIsIdle, GetNotifier, DropHandlers, OpTo, G!Create
  <2> QED
    BY <2>1, <2>2, <2>3, <2>4, <2>5
<1>3. ASSUME NEW o \in Ops \cup Bare, RemoveHandler(o)
      PROVE  TokenInv'
  <2>1. TokenTypeOK'
    BY <1>3 DEF TokenTypeOK, RemoveHandler, DropHandlers, OpTo
  <2>2. CoreWithHandlers'
    BY <1>3 DEF TokenTypeOK, CoreWithHandlers, InLoop, RemoveHandler, DropHandlers, OpTo
  <2>3. ClosedIsQuiet'
    BY <1>3 DEF TokenTypeOK, CoreWithHandlers, ClosedIsQuiet, Running, InLoop, RemoveHandler, DropHandlers, OpTo
  <2>4. HandlerSomewhere'
    BY <1>3 DEF TokenTypeOK, CoreWithHandlers, HandlerSomewhere, ClosedIsQuiet, InLoop, RemoveHandler, DropHandlers, OpTo
  <2>5. ClearedIsIdle'
    BY <1>3 DEF TokenTypeOK, CoreWithHandlers, ClearedIsIdle, RemoveHandler, DropHandlers, OpTo
  <2> QED
    BY <2>1, <2>2, <2>3, <2>4, <2>5
<1>4. ASSUME NEW o \in Ops \cup Bare, FinishOp(o)
      PROVE  TokenInv'
  <2>1. TokenTypeOK'
    BY <1>4 DEF TokenTypeOK, FinishOp, OpTo, G!Drop
  <2>2. CoreWithHandlers'
    BY <1>4 DEF TokenTypeOK, CoreWithHandlers, InLoop, FinishOp, OpTo, G!Drop
  <2>3. ClosedIsQuiet'
    BY <1>4 DEF TokenTypeOK, CoreWithHandlers, ClosedIsQuiet, Running, InLoop, FinishOp, OpTo, G!Drop
  <2>4. HandlerSomewhere'
    BY <1>4 DEF TokenTypeOK, CoreWithHandlers, HandlerSomewhere, ClosedIsQuiet, InLoop, FinishOp, OpTo, G!Drop
  <2>5. ClearedIsIdle'
    BY <1>4 DEF TokenTypeOK, CoreWithHandlers, ClearedIsIdle, FinishOp, OpTo, G!Drop
  <2> QED
    BY <2>1, <2>2, <2>3, <2>4, <2>5
<1>5. ASSUME NEW o \in Bare, GetBareNotifier(o)
      PROVE  TokenInv'
  <2>1. TokenTypeOK'
    BY <1>5 DEF TokenTypeOK, GetBareNotifier, OpTo, G!Create
  <2>2. CoreWithHandlers'
    BY <1>5 DEF TokenTypeOK, CoreWithHandlers, InLoop, GetBareNotifier, OpTo, G!Create
  <2>3. ClosedIsQuiet'
    BY <1>5 DEF TokenTypeOK, CoreWithHandlers, ClosedIsQuiet, Running, InLoop, GetBareNotifier, OpTo, G!Create
  <2>4. HandlerSomewhere'
    BY <1>5 DEF TokenTypeOK, CoreWithHandlers, HandlerSomewhere, ClosedIsQuiet, InLoop, GetBareNotifier, OpTo, G!Create
  <2>5. ClearedIsIdle'
    BY <1>5 DEF TokenTypeOK, CoreWithHandlers, ClearedIsIdle, GetBareNotifier, OpTo, G!Create
  <2> QED
    BY <2>1, <2>2, <2>3, <2>4, <2>5
<1>6. ASSUME NEW t \in Threads, NEW k \in WaitKinds, Cancel(t, k)
      PROVE  TokenInv'
  <2>1. TokenTypeOK'
    BY <1>6 DEF TokenTypeOK, Cancel, Goto
  <2>2. CoreWithHandlers'
    BY <1>6 DEF TokenTypeOK, CoreWithHandlers, InLoop, Cancel, Goto
  <2>3. ClosedIsQuiet'
    BY <1>6 DEF TokenTypeOK, CoreWithHandlers, ClosedIsQuiet, Running, InLoop, Cancel, Goto
  <2>4. HandlerSomewhere'
    BY <1>6 DEF TokenTypeOK, CoreWithHandlers, HandlerSomewhere, ClosedIsQuiet, InLoop, Cancel, Goto
  <2>5. ClearedIsIdle'
    BY <1>6 DEF TokenTypeOK, CoreWithHandlers, ClearedIsIdle, Cancel, Goto
  <2> QED
    BY <2>1, <2>2, <2>3, <2>4, <2>5
<1>7. ASSUME NEW t \in Threads, TakeHandlers(t)
      PROVE  TokenInv'
  <2>1. TokenTypeOK'
    BY <1>7 DEF TokenTypeOK, TakeHandlers, Goto
  <2>2. CoreWithHandlers'
    BY <1>7 DEF TokenTypeOK, CoreWithHandlers, InLoop, TakeHandlers, Goto
  <2>3. ClosedIsQuiet'
    BY <1>7 DEF TokenTypeOK, CoreWithHandlers, ClosedIsQuiet, Running, InLoop, TakeHandlers, Goto
  <2>4. HandlerSomewhere'
    BY <1>7 DEF TokenTypeOK, CoreWithHandlers, HandlerSomewhere, ClosedIsQuiet, InLoop, TakeHandlers, Goto
  <2>5. ClearedIsIdle'
    BY <1>7 DEF TokenTypeOK, CoreWithHandlers, ClearedIsIdle, TakeHandlers, Goto
  <2> QED
    BY <2>1, <2>2, <2>3, <2>4, <2>5
<1>8. ASSUME NEW t \in Threads, NEW o \in Ops, CallHandler(t, o)
      PROVE  TokenInv'
  <2>1. TokenTypeOK'
    BY <1>8 DEF TokenTypeOK, CallHandler, Callable, DropHandlers, OpTo, G!Drop
  <2>2. CoreWithHandlers'
    BY <1>8 DEF TokenTypeOK, CoreWithHandlers, InLoop, CallHandler, Callable, DropHandlers, OpTo, G!Drop
  <2>3. ClosedIsQuiet'
    BY <1>8 DEF TokenTypeOK, CoreWithHandlers, ClosedIsQuiet, Running, InLoop, CallHandler, Callable, DropHandlers, OpTo, G!Drop
  <2>4. HandlerSomewhere'
    BY <1>8 DEF TokenTypeOK, CoreWithHandlers, HandlerSomewhere, ClosedIsQuiet, InLoop, CallHandler, Callable, DropHandlers, OpTo, G!Drop
  <2>5. ClearedIsIdle'
    BY <1>8 DEF TokenTypeOK, CoreWithHandlers, ClearedIsIdle, CallHandler, Callable, DropHandlers, OpTo, G!Drop
  <2> QED
    BY <2>1, <2>2, <2>3, <2>4, <2>5
<1>9. ASSUME NEW t \in Threads, NEW o \in Ops, CallHandlerFails(t, o)
      PROVE  TokenInv'
  <2>1. TokenTypeOK'
    BY <1>9 DEF TokenTypeOK, CallHandlerFails, Callable, DropHandlers
  <2>2. CoreWithHandlers'
    BY <1>9 DEF TokenTypeOK, CoreWithHandlers, InLoop, CallHandlerFails, Callable, DropHandlers
  <2>3. ClosedIsQuiet'
    BY <1>9 DEF TokenTypeOK, CoreWithHandlers, ClosedIsQuiet, Running, InLoop, CallHandlerFails, Callable, DropHandlers
  <2>4. HandlerSomewhere'
    BY <1>9 DEF TokenTypeOK, CoreWithHandlers, HandlerSomewhere, ClosedIsQuiet, InLoop, CallHandlerFails, Callable, DropHandlers
  <2>5. ClearedIsIdle'
    BY <1>9 DEF TokenTypeOK, CoreWithHandlers, ClearedIsIdle, CallHandlerFails, Callable, DropHandlers
  <2> QED
    BY <2>1, <2>2, <2>3, <2>4, <2>5
<1>10. ASSUME NEW t \in Threads, ClearHandlers(t)
      PROVE  TokenInv'
  <2>1. TokenTypeOK'
    BY <1>10 DEF TokenTypeOK, ClearHandlers, DropHandlers, Goto
  <2>2. CoreWithHandlers'
    BY <1>10 DEF TokenTypeOK, CoreWithHandlers, InLoop, ClearHandlers, DropHandlers, Goto
  <2>3. ClosedIsQuiet'
    BY <1>10 DEF TokenTypeOK, CoreWithHandlers, ClosedIsQuiet, Running, InLoop, ClearHandlers, DropHandlers, Goto
  <2>4. HandlerSomewhere'
    BY <1>10 DEF TokenTypeOK, CoreWithHandlers, HandlerSomewhere, ClosedIsQuiet, InLoop, ClearHandlers, DropHandlers, Goto
  <2>5. ClearedIsIdle'
    BY <1>10 DEF TokenTypeOK, CoreWithHandlers, ClearedIsIdle, ClearHandlers, DropHandlers, Goto
  <2> QED
    BY <2>1, <2>2, <2>3, <2>4, <2>5
<1>11. ASSUME NEW t \in Threads, DropCoreNotifier(t)
      PROVE  TokenInv'
  <2>1. TokenTypeOK'
    BY <1>11 DEF TokenTypeOK, DropCoreNotifier, Goto, G!Drop
  <2>2. CoreWithHandlers'
    BY <1>11 DEF TokenTypeOK, CoreWithHandlers, InLoop, DropCoreNotifier, Goto, G!Drop
  <2>3. ClosedIsQuiet'
    BY <1>11 DEF TokenTypeOK, CoreWithHandlers, ClosedIsQuiet, Running, InLoop, DropCoreNotifier, Goto, G!Drop
  <2>4. HandlerSomewhere'
    BY <1>11 DEF TokenTypeOK, CoreWithHandlers, HandlerSomewhere, ClosedIsQuiet, InLoop, DropCoreNotifier, Goto, G!Drop
  <2>5. ClearedIsIdle'
    BY <1>11 DEF TokenTypeOK, CoreWithHandlers, ClearedIsIdle, DropCoreNotifier, Goto, G!Drop
  <2> QED
    BY <2>1, <2>2, <2>3, <2>4, <2>5
<1>12. ASSUME NEW t \in Threads, CloseOnError(t)
      PROVE  TokenInv'
  <2>1. TokenTypeOK'
    BY <1>12 DEF TokenTypeOK, CloseOnError, Goto, G!Close
  <2>2. CoreWithHandlers'
    BY <1>12 DEF TokenTypeOK, CoreWithHandlers, InLoop, CloseOnError, Goto, G!Close
  <2>3. ClosedIsQuiet'
    BY <1>12 DEF TokenTypeOK, CoreWithHandlers, ClosedIsQuiet, Running, InLoop, CloseOnError, Goto, G!Close
  <2>4. HandlerSomewhere'
    BY <1>12 DEF TokenTypeOK, CoreWithHandlers, HandlerSomewhere, ClosedIsQuiet, InLoop, CloseOnError, Goto, G!Close
  <2>5. ClearedIsIdle'
    BY <1>12 DEF TokenTypeOK, CoreWithHandlers, ClearedIsIdle, CloseOnError, Goto, G!Close
  <2> QED
    BY <2>1, <2>2, <2>3, <2>4, <2>5
<1>13. ASSUME NEW t \in Threads, WaitGroup(t)
      PROVE  TokenInv'
  <2>1. TokenTypeOK'
    BY <1>13 DEF TokenTypeOK, WaitGroup, Goto, G!Call
  <2>2. CoreWithHandlers'
    BY <1>13 DEF TokenTypeOK, CoreWithHandlers, InLoop, WaitGroup, Goto, G!Call
  <2>3. ClosedIsQuiet'
    BY <1>13 DEF TokenTypeOK, CoreWithHandlers, ClosedIsQuiet, Running, InLoop, WaitGroup, Goto, G!Call
  <2>4. HandlerSomewhere'
    BY <1>13 DEF TokenTypeOK, CoreWithHandlers, HandlerSomewhere, ClosedIsQuiet, InLoop, WaitGroup, Goto, G!Call
  <2>5. ClearedIsIdle'
    BY <1>13 DEF TokenTypeOK, CoreWithHandlers, ClearedIsIdle, WaitGroup, Goto, G!Call
  <2> QED
    BY <2>1, <2>2, <2>3, <2>4, <2>5
<1>14. ASSUME NEW t \in Threads, Waited(t)
      PROVE  TokenInv'
  <2>1. TokenTypeOK'
    <3>1. \E r \in {"ok", "closed", "timedout"} : G!Return(t, r)
      BY <1>14 DEF Waited, G!Succeed, G!FindClosed, G!TimeOut
    <3>2. /\ call' \in [Threads -> WaitKinds \cup {"none"}] /\ alive' = alive
          /\ ret' \in [Threads -> {"none", "ok", "closed", "timedout"}]
      BY <3>1 DEF TokenTypeOK, G!Return
    <3>3. closed' \in BOOLEAN
      BY <1>14 DEF TokenTypeOK, Waited, G!Succeed, G!FindClosed, G!TimeOut
    <3>4. pc' \in [Threads -> PCs]
      BY <1>14 DEF TokenTypeOK, Waited, Goto, PCs
    <3> QED BY <1>14, <3>2, <3>3, <3>4 DEF TokenTypeOK, Waited
  <2>2. CoreWithHandlers'
    BY <1>14 DEF TokenTypeOK, CoreWithHandlers, InLoop, Waited, Goto, G!Succeed, G!FindClosed, G!TimeOut, G!Return
  <2>3. ClosedIsQuiet'
    BY <1>14 DEF TokenTypeOK, CoreWithHandlers, ClosedIsQuiet, Running, InLoop, Waited, Goto, G!Succeed, G!FindClosed, G!TimeOut, G!Return
  <2>4. HandlerSomewhere'
    BY <1>14 DEF TokenTypeOK, CoreWithHandlers, HandlerSomewhere, ClosedIsQuiet, InLoop, Waited, Goto, G!Succeed, G!FindClosed, G!TimeOut, G!Return
  <2>5. ClearedIsIdle'
    BY <1>14 DEF TokenTypeOK, CoreWithHandlers, ClearedIsIdle, Waited, Goto, G!Succeed, G!FindClosed, G!TimeOut, G!Return
  <2> QED
    BY <2>1, <2>2, <2>3, <2>4, <2>5
<1>15. ASSUME NEW t \in Threads, CancelReturns(t)
      PROVE  TokenInv'
  <2>1. TokenTypeOK'
    BY <1>15 DEF TokenTypeOK, CancelReturns, Goto
  <2>2. CoreWithHandlers'
    BY <1>15 DEF TokenTypeOK, CoreWithHandlers, InLoop, CancelReturns, Goto
  <2>3. ClosedIsQuiet'
    BY <1>15 DEF TokenTypeOK, CoreWithHandlers, ClosedIsQuiet, Running, InLoop, CancelReturns, Goto
  <2>4. HandlerSomewhere'
    BY <1>15 DEF TokenTypeOK, CoreWithHandlers, HandlerSomewhere, ClosedIsQuiet, InLoop, CancelReturns, Goto
  <2>5. ClearedIsIdle'
    BY <1>15 DEF TokenTypeOK, CoreWithHandlers, ClearedIsIdle, CancelReturns, Goto
  <2> QED
    BY <2>1, <2>2, <2>3, <2>4, <2>5
<1>16. ASSUME Clear
      PROVE  TokenInv'
  <2>1. TokenTypeOK'
    BY <1>16 DEF TokenTypeOK, Clear, DropHandlers
  <2>2. CoreWithHandlers'
    BY <1>16 DEF TokenTypeOK, CoreWithHandlers, InLoop, Clear, DropHandlers
  <2>3. ClosedIsQuiet'
    BY <1>16 DEF TokenTypeOK, CoreWithHandlers, ClosedIsQuiet, Running, InLoop, Clear, DropHandlers
  <2>4. HandlerSomewhere'
    BY <1>16 DEF TokenTypeOK, CoreWithHandlers, HandlerSomewhere, ClosedIsQuiet, InLoop, Clear, DropHandlers
  <2>5. ClearedIsIdle'
    BY <1>16 DEF TokenTypeOK, CoreWithHandlers, ClearedIsIdle, Clear, DropHandlers
  <2> QED
    BY <2>1, <2>2, <2>3, <2>4, <2>5
<1>17. ASSUME UNCHANGED vars \/ \E o \in Ops : FindQuery(o) \/ CallCallback(o) PROVE TokenInv'
  BY <1>17 DEF FindQuery, CallCallback, TokenTypeOK, CoreWithHandlers, ClosedIsQuiet, HandlerSomewhere, ClearedIsIdle, Running, InLoop
<1> QED
  BY <1>1, <1>2, <1>3, <1>4, <1>5, <1>6, <1>7, <1>8, <1>9, <1>10, <1>11, <1>12, <1>13, <1>14, <1>15, <1>16, <1>17 DEF Next, CancelStep

\* A reply that finds its query does so before any cancel has succeeded.
LEMMA FoundStep == ASSUME TokenInv, foundLate = {}, [Next]_vars PROVE foundLate' = {}
<1>1. ASSUME NEW o \in Ops, FindQuery(o) PROVE foundLate' = {}
  <2>1. Running(o) /\ o \in alive
    BY <1>1 DEF FindQuery, Running, TokenInv, ClosedIsQuiet
  <2>2. \A t \in Threads : out[t] # "ok"
    BY <2>1 DEF TokenInv, ClosedIsQuiet
  <2> QED
    BY <1>1, <2>2 DEF FindQuery
<1>2. ASSUME NEW o \in Ops \cup Bare,
             CallCallback(o) \/ AddHandler(o) \/ GetNotifier(o) \/ RemoveHandler(o) \/ FinishOp(o) \/ GetBareNotifier(o)
      PROVE  foundLate' = {}
  BY <1>2 DEF CallCallback, AddHandler, GetNotifier, RemoveHandler, FinishOp, GetBareNotifier, reply
<1>3. ASSUME NEW t \in Threads, CancelStep(t) \/ Cancel(t, "wait") \/ Cancel(t, "timedwait") PROVE foundLate' = {}
  BY <1>3 DEF CancelStep, Cancel, TakeHandlers, ClearHandlers, DropCoreNotifier, CloseOnError, WaitGroup, Waited,
              CancelReturns, CallHandler, CallHandlerFails, reply
<1>4. ASSUME Clear \/ UNCHANGED vars PROVE foundLate' = {}
  BY <1>4 DEF Clear, vars, reply
<1> QED
  BY <1>1, <1>2, <1>3, <1>4 DEF Next

\* The invariant holds of every behaviour of the token.
LEMMA TokenInvariance ==
    ASSUME Core \notin Ops \cup Bare, Ops \cap Bare = {}
    PROVE  Spec => [](TokenInv /\ foundLate = {})
<1>1. ASSUME Init PROVE TokenInv /\ foundLate = {}
  <2> USE <1>1 DEF Init
  <2>1. TokenTypeOK
    BY DEF TokenTypeOK, Notifiers, OpState, PCs, WaitKinds
  <2>2. CoreWithHandlers
    BY DEF CoreWithHandlers, InLoop
  <2>3. ClosedIsQuiet
    BY DEF ClosedIsQuiet, Running
  <2>4. HandlerSomewhere /\ ClearedIsIdle
    BY DEF HandlerSomewhere, ClearedIsIdle
  <2> QED
    BY <2>1, <2>2, <2>3, <2>4 DEF TokenInv
<1>2. (TokenInv /\ foundLate = {}) /\ [Next]_vars => (TokenInv /\ foundLate = {})'
  BY StepKeeps, FoundStep
<1> QED
  BY <1>1, <1>2, PTL DEF Spec

\* primitives.h, z_cancellation_token_cancel, for any number of threads and of
\* operations: after a cancel that returned ok no operation is registered, none can
\* start and no reply finds one, and after one that returned ok or an error no other
\* cancel is still calling handlers.
THEOREM CancelledIsQuietAlways ==
    ASSUME Core \notin Ops \cup Bare, Ops \cap Bare = {}
    PROVE  Spec => []CancelledIsQuiet
<1>1. TokenInv /\ foundLate = {} => CancelledIsQuiet
  BY DEF TokenInv, TokenTypeOK, CoreWithHandlers, ClosedIsQuiet, CancelledIsQuiet, Running, InLoop
<1> QED
  BY <1>1, TokenInvariance, PTL

\* _z_cancellation_handlers_storage: no interleaving of cancels, registrations
\* and ends of operations drops a handler twice, and none is left when the token
\* is cleared.
THEOREM HandlerDroppedOnceAlways ==
    ASSUME Core \notin Ops \cup Bare, Ops \cap Bare = {}
    PROVE  Spec => []HandlerDroppedOnce
<1>1. TokenInv => HandlerDroppedOnce
  BY DEF TokenInv, TokenTypeOK, CoreWithHandlers, HandlerSomewhere, ClearedIsIdle, HandlerDroppedOnce, InLoop
<1> QED
  BY <1>1, TokenInvariance, PTL

(***************************************************************************)
(* Subscribers and queryables.                                             *)
(***************************************************************************)
\* The names of threads and of the other owners of a reference differ.
NamesDiffer == "none" \notin Entities /\ {"list", "declare", "cache"} \cap Deliverers = {}

Owners  == {"list", "declare", "cache"} \cup Deliverers
Looked  == (SUBSET Entities) \cup {NotCached}
Kinds   == {"subscriber", "liveliness", "queryable"}
States  == {"new", "declaring", "declared", "withdrawing", "undeclaring", "unregistered",
            "undeclared", "refused", "failed"}
Delivery == [kind : Kinds \cup {"none"}, infos : SUBSET Entities,
             todo : SUBSET Entities, running : SUBSET Entities]
Closing == {"open", "closed", "stopped", "flushed", "done"}

TypeOK ==
    /\ entityKind \in [Entities -> Kinds] /\ entityState \in [Entities -> States]
    /\ lists \subseteq Entities
    /\ holders \in [Entities -> SUBSET Owners]
    /\ dropperRuns \in [Entities -> Nat] /\ rxCache \in BOOLEAN
    /\ lookups \in [CacheKeys -> Looked]
    /\ delivery \in [Deliverers -> Delivery]
    /\ closing \in Closing /\ deliveries \in Nat

\* Whatever names an entity holds a reference to it: the list, a cached look-up
\* and a thread that has yet to call, or is in, its callback.
ListHolds == \A e \in Entities : e \in lists <=> "list" \in holders[e]

CacheHolds ==
    \A k \in CacheKeys : lookups[k] # NotCached =>
        \A e \in lookups[k] : "cache" \in holders[e] /\ CacheOf(entityKind[e]) = k[1]

ThreadHolds ==
    \A t \in Deliverers :
        /\ delivery[t].kind = "none" => delivery[t].todo = {} /\ delivery[t].running = {}
        /\ \A e \in delivery[t].todo \cup delivery[t].running : t \in holders[e]

\* The dropper runs when the last reference is dropped, and there is no reference
\* after that.
DroppedWithTheLast ==
    /\ \A e \in Entities :
        /\ entityState[e] = "new" => holders[e] = {} /\ dropperRuns[e] = 0
        /\ entityState[e] # "new" => dropperRuns[e] = IF holders[e] = {} THEN 1 ELSE 0
        /\ entityState[e] = "undeclared" => holders[e] = {}
        /\ closing = "done" => holders[e] = {}

Inv ==
    /\ TypeOK /\ ListHolds /\ CacheHolds /\ ThreadHolds
    /\ DroppedWithTheLast /\ QueryableCacheFresh

-----------------------------------------------------------------------------
\* The key of a look-up names its cache.
LEMMA CacheKey ==
    /\ \A k \in CacheKeys : k[1] \in {"_queryable_cache", "_subscription_cache"}
    /\ \A o \in {"remote", "local"}, aKind \in Kinds : <<CacheOf(aKind), o>> \in CacheKeys
    /\ \A o \in {"remote", "local"} : <<"_queryable_cache", o>> \in CacheKeys
    /\ \A t \in Deliverers : Origin(t) \in {"remote", "local"}
BY DEF CacheKeys, CacheOf, Kinds, Origin

\* Dropping references (_z_subscription_rc_drop and its like).
LEMMA Becomes ==
    ASSUME TypeOK, NEW rest \in [Entities -> SUBSET Owners], HoldersBecome(rest)
    PROVE  /\ holders' = rest /\ dropperRuns' \in [Entities -> Nat]
           /\ \A e \in Entities : dropperRuns'[e] =
                  IF holders[e] # {} /\ holders'[e] = {} THEN dropperRuns[e] + 1 ELSE dropperRuns[e]
BY DEF HoldersBecome, TypeOK

\* A step that forgets the look-ups of some caches, and drops no reference of
\* another one.
LEMMA CacheKeeps ==
    ASSUME TypeOK, CacheHolds, UNCHANGED entityKind, NEW gone,
           \A k \in CacheKeys : lookups'[k] = IF k[1] \in gone THEN NotCached ELSE lookups[k],
           \A e \in Entities : "cache" \in holders[e] /\ CacheOf(entityKind[e]) \notin gone
                               => "cache" \in holders'[e]
    PROVE  CacheHolds'
<1> SUFFICES ASSUME NEW k \in CacheKeys, lookups'[k] # NotCached, NEW e \in lookups'[k]
             PROVE  "cache" \in holders'[e] /\ CacheOf(entityKind[e]) = k[1]
  BY DEF CacheHolds
<1>1. lookups'[k] = lookups[k] /\ k[1] \notin gone
  OBVIOUS
<1>2. lookups[k] \in Looked
  BY DEF TypeOK
<1>3. e \in Entities
  BY <1>1, <1>2 DEF Looked
<1> QED
  BY <1>1, <1>3 DEF CacheHolds

\* What is left of the look-ups when some caches are forgotten.
LEMMA Forgotten ==
    ASSUME TypeOK, NEW gone,
           lookups' = [k \in CacheKeys |-> IF k[1] \in gone THEN NotCached ELSE lookups[k]]
    PROVE  /\ lookups' \in [CacheKeys -> Looked]
           /\ \A k \in CacheKeys : lookups'[k] = IF k[1] \in gone THEN NotCached ELSE lookups[k]
<1>1. NotCached \in Looked
  BY DEF Looked
<1>2. \A k \in CacheKeys : lookups[k] \in Looked
  BY DEF TypeOK
<1> QED
  BY <1>1, <1>2

\* A step that revives no entity and registers one only with a reference.
LEMMA LastKeeps ==
    ASSUME TypeOK, DroppedWithTheLast,
           \A e \in Entities : dropperRuns'[e] =
               IF holders[e] # {} /\ holders'[e] = {} THEN dropperRuns[e] + 1 ELSE dropperRuns[e],
           \A e \in Entities : entityState[e] # "new" /\ holders[e] = {} => holders'[e] = {},
           \A e \in Entities : entityState'[e] = "new" => entityState[e] = "new" /\ holders'[e] = {},
           \A e \in Entities : entityState[e] = "new" /\ entityState'[e] # "new" => holders'[e] # {},
           \A e \in Entities : entityState'[e] = "undeclared" => holders'[e] = {},
           closing' = "done" => \A e \in Entities : holders'[e] = {}
    PROVE  DroppedWithTheLast'
<1> SUFFICES ASSUME NEW e \in Entities
             PROVE  /\ entityState'[e] = "new" => holders'[e] = {} /\ dropperRuns'[e] = 0
                    /\ entityState'[e] # "new" => dropperRuns'[e] = IF holders'[e] = {} THEN 1 ELSE 0
  BY DEF DroppedWithTheLast
<1>1. /\ entityState[e] = "new" => holders[e] = {} /\ dropperRuns[e] = 0
      /\ entityState[e] # "new" => dropperRuns[e] = IF holders[e] = {} THEN 1 ELSE 0
  BY DEF DroppedWithTheLast
<1> QED
  BY <1>1

\* A step that changes no listed queryable, or forgets the look-ups.
LEMMA FreshKeeps ==
    ASSUME TypeOK, QueryableCacheFresh, UNCHANGED entityKind, lists' \subseteq Entities,
           \A o \in {"remote", "local"} :
               \/ lookups'[<<"_queryable_cache", o>>] = NotCached
               \/ /\ lookups'[<<"_queryable_cache", o>>] = lookups[<<"_queryable_cache", o>>]
                  /\ \A e \in Entities : entityKind[e] = "queryable" => (e \in lists' <=> e \in lists)
    PROVE  QueryableCacheFresh'
<1> SUFFICES ASSUME NEW o \in {"remote", "local"}, lookups'[<<"_queryable_cache", o>>] # NotCached
             PROVE  lookups'[<<"_queryable_cache", o>>] = Matching("queryable", o)'
  BY DEF QueryableCacheFresh
<1>1. Matching("queryable", o)' = Matching("queryable", o)
  BY DEF Matching, TypeOK
<1> QED
  BY <1>1 DEF QueryableCacheFresh

\* Deliverers keep their references when none is taken from them.
LEMMA ThreadsKeep ==
    ASSUME NamesDiffer, TypeOK, ThreadHolds, UNCHANGED delivery,
           \A x \in Entities : holders[x] \ {"list", "declare", "cache"} \subseteq holders'[x]
    PROVE  ThreadHolds'
<1> SUFFICES ASSUME NEW t \in Deliverers, NEW x \in delivery[t].todo \cup delivery[t].running
             PROVE  t \in holders'[x]
  BY DEF ThreadHolds
<1>1. x \in Entities /\ t \in holders[x]
  BY DEF ThreadHolds, TypeOK, Delivery
<1>2. t \notin {"list", "declare", "cache"}
  BY DEF NamesDiffer
<1> QED
  BY <1>1, <1>2

\* A step that only drops references, of some caches all that they hold.
LEMMA ReleaseKeeps ==
    ASSUME NamesDiffer, Inv, UNCHANGED <<entityKind, rxCache>>,
           NEW gone, NEW rest \in [Entities -> SUBSET Owners], HoldersBecome(rest),
           \A x \in Entities : rest[x] \subseteq holders[x],
           lookups' = [k \in CacheKeys |-> IF k[1] \in gone THEN NotCached ELSE lookups[k]],
           \A x \in Entities : "cache" \in holders[x] /\ CacheOf(entityKind[x]) \notin gone
                               => "cache" \in rest[x],
           lists' \subseteq Entities, \A x \in Entities : x \in lists' <=> "list" \in rest[x],
           \/ "_queryable_cache" \in gone
           \/ \A x \in Entities : entityKind[x] = "queryable" => (x \in lists' <=> x \in lists),
           entityState' \in [Entities -> States],
           \A x \in Entities : entityState'[x] = "new" <=> entityState[x] = "new",
           \A x \in Entities : entityState'[x] = "undeclared" => entityState[x] = "undeclared",
           closing' \in Closing, closing' = "done" => closing = "done", deliveries' \in Nat,
           delivery' \in [Deliverers -> Delivery], ThreadHolds'
    PROVE  Inv'
<1> USE DEF Inv
<1>1. /\ holders' = rest /\ dropperRuns' \in [Entities -> Nat]
      /\ \A x \in Entities : dropperRuns'[x] =
             IF holders[x] # {} /\ holders'[x] = {} THEN dropperRuns[x] + 1 ELSE dropperRuns[x]
  BY Becomes
<1>2. /\ lookups' \in [CacheKeys -> Looked]
      /\ \A k \in CacheKeys : lookups'[k] = IF k[1] \in gone THEN NotCached ELSE lookups[k]
  BY Forgotten
<1>3. TypeOK'
  BY <1>1, <1>2 DEF TypeOK
<1>4. ListHolds'
  BY <1>1 DEF ListHolds
<1>5. CacheHolds'
  <2>1. \A x \in Entities : "cache" \in holders[x] /\ CacheOf(entityKind[x]) \notin gone
                            => "cache" \in holders'[x]
    BY <1>1
  <2> QED
    BY <1>2, <2>1, CacheKeeps
<1>6. DroppedWithTheLast'
  <2>1. \A x \in Entities : holders[x] = {} => holders'[x] = {}
    BY <1>1
  <2>2. \A x \in Entities : entityState'[x] = "new" => entityState[x] = "new" /\ holders'[x] = {}
    BY <2>1 DEF DroppedWithTheLast
  <2>3. \A x \in Entities : entityState'[x] = "undeclared" => holders'[x] = {}
    BY <2>1 DEF DroppedWithTheLast
  <2>4. closing' = "done" => \A x \in Entities : holders'[x] = {}
    BY <2>1 DEF DroppedWithTheLast
  <2> QED
    BY <1>1, <2>1, <2>2, <2>3, <2>4, LastKeeps
<1>7. QueryableCacheFresh'
  <2>1. ASSUME NEW o \in {"remote", "local"}
        PROVE  \/ lookups'[<<"_queryable_cache", o>>] = NotCached
               \/ /\ lookups'[<<"_queryable_cache", o>>] = lookups[<<"_queryable_cache", o>>]
                  /\ \A x \in Entities : entityKind[x] = "queryable" => (x \in lists' <=> x \in lists)
    BY <1>2, CacheKey
  <2> QED
    BY <2>1, FreshKeeps
<1> QED
  BY <1>3, <1>4, <1>5, <1>6, <1>7

-----------------------------------------------------------------------------
\* Each step of a declaration, an undeclaration, a delivery and the close keeps
\* the invariant.
LEMMA RegisterKeeps ==
    ASSUME NamesDiffer, Inv, NEW e \in Entities, RegisterSubscription(e) \/ RegisterQueryable(e)
    PROVE  Inv'
<1> USE DEF Inv
<1>0. entityState[e] = "new" /\ holders[e] = {} /\ dropperRuns[e] = 0
  BY DEF RegisterSubscription, RegisterQueryable, DroppedWithTheLast
<1>1. UNCHANGED <<entityKind, rxCache, delivery, closing, deliveries>>
  BY DEF RegisterSubscription, RegisterQueryable
<1>2. CASE Refuse(e)
  <2>1. TypeOK'
    BY <1>1, <1>2 DEF TypeOK, Refuse, States
  <2>2. ListHolds' /\ CacheHolds' /\ ThreadHolds' /\ QueryableCacheFresh'
    BY <1>1, <1>2 DEF Refuse, ListHolds, CacheHolds, ThreadHolds, QueryableCacheFresh, Matching
  <2>3. DroppedWithTheLast'
    BY <1>0, <1>1, <1>2 DEF TypeOK, Refuse, DroppedWithTheLast
  <2> QED
    BY <2>1, <2>2, <2>3
<1>3. CASE ~Refuse(e)
  <2> DEFINE gone   == IF entityKind[e] = "queryable" THEN {"_queryable_cache"} ELSE {}
             others == IF entityKind[e] = "queryable" THEN Uncached("_queryable_cache") ELSE holders
             rest   == [others EXCEPT ![e] = {"list", "declare"}]
  <2>1. List(e, others)
    BY <1>3 DEF RegisterSubscription, RegisterQueryable
  <2>2. others \in [Entities -> SUBSET Owners] /\ rest \in [Entities -> SUBSET Owners]
    BY DEF TypeOK, Uncached, Owners
  <2>3. /\ \A x \in Entities \ {e} :
               rest[x] = IF CacheOf(entityKind[x]) \in gone THEN holders[x] \ {"cache"} ELSE holders[x]
        /\ rest[e] = {"list", "declare"}
    BY <2>2 DEF Uncached, TypeOK
  <2>4. lookups' = [k \in CacheKeys |-> IF k[1] \in gone THEN NotCached ELSE lookups[k]]
    BY <1>3 DEF RegisterSubscription, RegisterQueryable, Invalidated, TypeOK
  <2>5. /\ lookups' \in [CacheKeys -> Looked]
        /\ \A k \in CacheKeys : lookups'[k] = IF k[1] \in gone THEN NotCached ELSE lookups[k]
    BY <2>4, Forgotten
  <2>6. lists' = lists \cup {e} /\ entityState' = [entityState EXCEPT ![e] = "declaring"] /\ closing = "open"
    BY <2>1 DEF List
  <2>7. HoldersBecome(rest)
    BY <2>1 DEF List
  <2> HIDE DEF gone, others, rest
  <2>8. /\ holders' = rest /\ dropperRuns' \in [Entities -> Nat]
        /\ \A x \in Entities : dropperRuns'[x] =
               IF holders[x] # {} /\ holders'[x] = {} THEN dropperRuns[x] + 1 ELSE dropperRuns[x]
    BY <2>2, <2>7, Becomes
  <2>9. TypeOK'
    BY <1>1, <2>2, <2>5, <2>6, <2>8 DEF TypeOK, States
  <2>10. ListHolds'
    BY <2>3, <2>6, <2>8 DEF ListHolds, TypeOK
  <2>11. CacheHolds'
    <3>1. \A x \in Entities : "cache" \in holders[x] /\ CacheOf(entityKind[x]) \notin gone
                              => "cache" \in holders'[x]
      BY <1>0, <2>3, <2>8
    <3> QED
      BY <1>1, <2>5, <3>1, CacheKeeps
  <2>12. ThreadHolds'
    <3> SUFFICES ASSUME NEW t \in Deliverers, NEW x \in delivery[t].todo \cup delivery[t].running
                 PROVE  t \in holders'[x]
      BY <1>1 DEF ThreadHolds
    <3>1. x \in Entities /\ t \in holders[x]
      BY DEF ThreadHolds, TypeOK, Delivery
    <3>2. t # "cache"
      BY DEF NamesDiffer
    <3> QED
      BY <1>0, <2>3, <2>8, <3>1, <3>2
  <2>13. DroppedWithTheLast'
    <3>1. \A x \in Entities : entityState[x] # "new" /\ holders[x] = {} => holders'[x] = {}
      BY <1>0, <2>3, <2>8
    <3>2. \A x \in Entities : entityState'[x] = "new" => entityState[x] = "new" /\ holders'[x] = {}
      BY <1>0, <2>3, <2>6, <2>8 DEF TypeOK, DroppedWithTheLast
    <3>3. \A x \in Entities : entityState[x] = "new" /\ entityState'[x] # "new" => holders'[x] # {}
      BY <2>3, <2>6, <2>8 DEF TypeOK
    <3>4. \A x \in Entities : entityState'[x] = "undeclared" => holders'[x] = {}
      BY <2>6, <3>1 DEF TypeOK, DroppedWithTheLast
    <3> QED
      BY <1>1, <2>6, <2>8, <3>1, <3>2, <3>3, <3>4, LastKeeps
  <2>14. QueryableCacheFresh'
    <3>1. ASSUME NEW o \in {"remote", "local"}
          PROVE  \/ lookups'[<<"_queryable_cache", o>>] = NotCached
                 \/ /\ lookups'[<<"_queryable_cache", o>>] = lookups[<<"_queryable_cache", o>>]
                    /\ \A x \in Entities : entityKind[x] = "queryable" => (x \in lists' <=> x \in lists)
      BY <2>5, <2>6, CacheKey DEF gone
    <3> QED
      BY <1>1, <2>9, <3>1, FreshKeeps DEF TypeOK
  <2> QED
    BY <2>9, <2>10, <2>11, <2>12, <2>13, <2>14
<1> QED
  BY <1>2, <1>3

\* The declaration is sent and its caller drops its reference.
LEMMA DeclaredKeeps ==
    ASSUME NamesDiffer, Inv, NEW e \in Entities, Declared(e)
    PROVE  Inv'
<1> USE DEF Inv
<1> DEFINE gone == {}
           rest == [holders EXCEPT ![e] = @ \ {"declare"}]
<1>1. rest \in [Entities -> SUBSET Owners] /\ HoldersBecome(rest)
  BY DEF Declared, TypeOK
<1>2. \A x \in Entities : rest[x] = IF x = e THEN holders[x] \ {"declare"} ELSE holders[x]
  BY DEF TypeOK
<1>3. UNCHANGED <<entityKind, lists, rxCache, lookups, delivery, closing, deliveries>>
  BY DEF Declared
<1>4. lookups' = [k \in CacheKeys |-> IF k[1] \in gone THEN NotCached ELSE lookups[k]]
  BY <1>3 DEF TypeOK
<1>5. entityState[e] = "declaring" /\ entityState' = [entityState EXCEPT ![e] = "declared"]
  BY DEF Declared
<1>6. /\ entityState' \in [Entities -> States]
      /\ \A x \in Entities : entityState'[x] = "new" <=> entityState[x] = "new"
      /\ \A x \in Entities : entityState'[x] = "undeclared" => entityState[x] = "undeclared"
  BY <1>5 DEF TypeOK, States
<1> HIDE DEF rest, gone
<1>7. holders' = rest
  BY <1>1 DEF HoldersBecome
<1>8. ThreadHolds'
  BY <1>2, <1>3, <1>7, ThreadsKeep
<1>9. /\ lists' \subseteq Entities /\ \A x \in Entities : x \in lists' <=> "list" \in rest[x]
      /\ closing' \in Closing /\ deliveries' \in Nat /\ delivery' \in [Deliverers -> Delivery]
  BY <1>2, <1>3 DEF TypeOK, ListHolds
<1>10. \A x \in Entities : /\ rest[x] \subseteq holders[x]
                           /\ "cache" \in holders[x] /\ CacheOf(entityKind[x]) \notin gone => "cache" \in rest[x]
                           /\ x \in lists' <=> x \in lists
  BY <1>2, <1>3
<1>11. closing' = "done" => closing = "done"
  BY <1>3
<1> QED
  BY <1>1, <1>3, <1>4, <1>6, <1>8, <1>9, <1>10, <1>11, ReleaseKeeps


\* _z_unregister_subscription and _z_unregister_session_queryable.
LEMMA UnregisterKeeps ==
    ASSUME NamesDiffer, Inv, NEW e \in Entities, Unregister(e)
    PROVE  Inv'
<1> USE DEF Inv
<1> DEFINE cache == CacheOf(entityKind[e])
           rest  == [Uncached(cache) EXCEPT ![e] = @ \ {"list", "declare"}]
<1>1. rest \in [Entities -> SUBSET Owners] /\ HoldersBecome(rest)
  BY DEF Unregister, Uncached, TypeOK
<1>2. \A x \in Entities : Uncached(cache)[x] =
          IF CacheOf(entityKind[x]) = cache THEN holders[x] \ {"cache"} ELSE holders[x]
  BY DEF Uncached
<1>3. \A x \in Entities : rest[x] = IF x = e THEN Uncached(cache)[x] \ {"list", "declare"} ELSE Uncached(cache)[x]
  BY DEF Uncached
<1>4. UNCHANGED <<entityKind, rxCache, delivery, closing, deliveries>> /\ lists' = lists \ {e}
  BY DEF Unregister
<1>5. lookups' = [k \in CacheKeys |-> IF k[1] \in {cache} THEN NotCached ELSE lookups[k]]
  BY DEF Unregister, Invalidated
<1>6. /\ entityState' \in [Entities -> States]
      /\ \A x \in Entities : entityState'[x] = "new" <=> entityState[x] = "new"
      /\ \A x \in Entities : entityState'[x] = "undeclared" => entityState[x] = "undeclared"
  BY DEF Unregister, TypeOK, States
<1>7. "_queryable_cache" = cache \/ entityKind[e] # "queryable"
  BY DEF CacheOf
<1> HIDE DEF rest, cache
<1>8. holders' = rest
  BY <1>1 DEF HoldersBecome
<1>9. ThreadHolds'
  BY <1>2, <1>3, <1>4, <1>8, ThreadsKeep
<1>10. /\ lists' \subseteq Entities /\ \A x \in Entities : x \in lists' <=> "list" \in rest[x]
       /\ closing' \in Closing /\ deliveries' \in Nat /\ delivery' \in [Deliverers -> Delivery]
  BY <1>2, <1>3, <1>4 DEF TypeOK, ListHolds
<1>11. \A x \in Entities : /\ rest[x] \subseteq holders[x]
                           /\ "cache" \in holders[x] /\ CacheOf(entityKind[x]) \notin {cache} => "cache" \in rest[x]
  BY <1>2, <1>3
<1>12. \/ "_queryable_cache" \in {cache}
       \/ \A x \in Entities : entityKind[x] = "queryable" => (x \in lists' <=> x \in lists)
  BY <1>4, <1>7
<1> QED
  BY <1>1, <1>4, <1>5, <1>6, <1>9, <1>10, <1>11, <1>12, ReleaseKeeps

\* _z_flush_subscriptions and _z_flush_session_queryable, at the close.
LEMMA FlushKeeps ==
    ASSUME NamesDiffer, Inv, Flush
    PROVE  Inv'
<1> USE DEF Inv
<1> DEFINE gone == {"_queryable_cache", "_subscription_cache"}
           rest == [e \in Entities |-> holders[e] \ {"list", "cache"}]
<1>1. rest \in [Entities -> SUBSET Owners] /\ HoldersBecome(rest)
  BY DEF Flush, TypeOK
<1>2. \A x \in Entities : rest[x] = holders[x] \ {"list", "cache"}
  OBVIOUS
<1>3. UNCHANGED <<entityKind, entityState, rxCache, delivery, deliveries>> /\ lists' = {} /\ closing' = "flushed"
  BY DEF Flush
<1>4. lookups' = [k \in CacheKeys |-> IF k[1] \in gone THEN NotCached ELSE lookups[k]]
  BY CacheKey DEF Flush
<1>5. \A x \in Entities : CacheOf(entityKind[x]) \in gone
  BY DEF CacheOf
<1>6. "_queryable_cache" \in gone
  OBVIOUS
<1> HIDE DEF rest, gone
<1>7. holders' = rest
  BY <1>1 DEF HoldersBecome
<1>8. ThreadHolds'
  BY <1>2, <1>3, <1>7, ThreadsKeep
<1>9. /\ lists' \subseteq Entities /\ \A x \in Entities : x \in lists' <=> "list" \in rest[x]
      /\ closing' \in Closing /\ deliveries' \in Nat /\ delivery' \in [Deliverers -> Delivery]
      /\ entityState' \in [Entities -> States] /\ entityState' = entityState
  BY <1>2, <1>3 DEF TypeOK, ListHolds, Closing
<1>10. \A x \in Entities : /\ rest[x] \subseteq holders[x]
                           /\ "cache" \in holders[x] /\ CacheOf(entityKind[x]) \notin gone => "cache" \in rest[x]
  BY <1>2, <1>5
<1>11. closing' = "done" => closing = "done"
  BY <1>3
<1> QED
  BY <1>1, <1>3, <1>4, <1>6, <1>8, <1>9, <1>10, <1>11, ReleaseKeeps

\* A trigger function drops what it looked up.
LEMMA DropInfosKeeps ==
    ASSUME NamesDiffer, Inv, NEW t \in Deliverers, DropInfos(t)
    PROVE  Inv'
<1> USE DEF Inv
<1> DEFINE gone == {}
           rest == [e \in Entities |-> holders[e] \ {t}]
<1>1. rest \in [Entities -> SUBSET Owners] /\ HoldersBecome(rest)
  BY DEF DropInfos, TypeOK
<1>2. \A x \in Entities : rest[x] = holders[x] \ {t}
  OBVIOUS
<1>3. UNCHANGED <<entityKind, entityState, lists, rxCache, lookups, closing, deliveries>>
  BY DEF DropInfos
<1>4. lookups' = [k \in CacheKeys |-> IF k[1] \in gone THEN NotCached ELSE lookups[k]]
  BY <1>3 DEF TypeOK
<1>5. delivery' = [delivery EXCEPT ![t] = Idle] /\ Idle \in Delivery
  BY DEF DropInfos, Idle, Delivery
<1>6. delivery' \in [Deliverers -> Delivery]
  BY <1>5 DEF TypeOK
<1> HIDE DEF rest, gone
<1>7. holders' = rest
  BY <1>1 DEF HoldersBecome
<1>8. ThreadHolds'
  <2> SUFFICES ASSUME NEW u \in Deliverers
               PROVE  /\ delivery'[u].kind = "none" => delivery'[u].todo = {} /\ delivery'[u].running = {}
                      /\ \A x \in delivery'[u].todo \cup delivery'[u].running : u \in holders'[x]
    BY DEF ThreadHolds
  <2>1. CASE u = t
    BY <1>5, <2>1 DEF TypeOK, Idle
  <2>2. CASE u # t
    <3>1. delivery'[u] = delivery[u] /\ delivery[u].todo \cup delivery[u].running \subseteq Entities
      BY <1>5, <2>2 DEF TypeOK, Delivery
    <3> QED
      BY <1>2, <1>7, <2>2, <3>1 DEF ThreadHolds
  <2> QED
    BY <2>1, <2>2
<1>9. /\ lists' \subseteq Entities /\ \A x \in Entities : x \in lists' <=> "list" \in rest[x]
      /\ closing' \in Closing /\ deliveries' \in Nat
      /\ entityState' \in [Entities -> States] /\ entityState' = entityState
  BY <1>2, <1>3 DEF TypeOK, ListHolds, NamesDiffer
<1>10. \A x \in Entities : /\ rest[x] \subseteq holders[x]
                           /\ "cache" \in holders[x] /\ CacheOf(entityKind[x]) \notin gone => "cache" \in rest[x]
                           /\ x \in lists' <=> x \in lists
  BY <1>2, <1>3 DEF NamesDiffer
<1>11. closing' = "done" => closing = "done"
  BY <1>3
<1> QED
  BY <1>1, <1>3, <1>4, <1>6, <1>8, <1>9, <1>10, <1>11, ReleaseKeeps

\* A look-up takes references only to what is listed or cached, so it revives no entity.
LEMMA GetInfosKeeps ==
    ASSUME NamesDiffer, Inv, NEW t \in Deliverers, NEW aKind \in Kinds, GetInfos(t, aKind)
    PROVE  Inv'
<1> USE DEF Inv
<1> DEFINE key   == <<CacheOf(aKind), Origin(t)>>
           hit   == rxCache /\ lookups[key] # NotCached
           infos == IF hit THEN lookups[key] ELSE Matching(aKind, Origin(t))
           new   == [Idle EXCEPT !.kind = aKind, !.infos = infos, !.todo = infos]
<1>1. key \in CacheKeys /\ key[1] = CacheOf(aKind)
  BY CacheKey
<1>2. infos \subseteq Entities
  <2>1. CASE hit
    <3>1. lookups[key] \in Looked
      BY <1>1 DEF TypeOK
    <3> QED
      BY <2>1, <3>1 DEF Looked
  <2>2. CASE ~hit
    BY <2>2 DEF Matching, TypeOK
  <2> QED
    BY <2>1, <2>2
<1>3. infos # NotCached
  BY <1>2 DEF NotCached, NamesDiffer
\* Whatever is found is listed or cached, so it is referenced already.
<1>4. \A e \in infos : holders[e] # {} /\ CacheOf(entityKind[e]) = key[1]
  <2>1. CASE hit
    BY <1>1, <2>1 DEF CacheHolds
  <2>2. CASE ~hit
    <3>1. \A e \in infos : e \in lists /\ entityKind[e] = aKind /\ e \in Entities
      BY <2>2 DEF Matching, TypeOK
    <3> QED
      BY <1>1, <3>1 DEF ListHolds
  <2> QED
    BY <2>1, <2>2
<1>5. /\ delivery[t].kind = "none" /\ closing = "open" /\ deliveries' \in Nat
      /\ delivery' = [delivery EXCEPT ![t] = new]
      /\ lookups' = IF rxCache /\ ~hit THEN [lookups EXCEPT ![key] = infos] ELSE lookups
      /\ holders' = [e \in Entities |-> holders[e] \cup
             IF e \in infos THEN {t} \cup (IF rxCache THEN {"cache"} ELSE {}) ELSE {}]
      /\ UNCHANGED <<entityKind, entityState, lists, dropperRuns, rxCache, closing>>
  BY DEF GetInfos, TypeOK
<1>6. new \in Delivery /\ new.kind = aKind /\ new.todo = infos /\ new.running = {} /\ aKind # "none"
  BY <1>2 DEF Delivery, Idle, Kinds
<1>7. hit => infos = lookups[key]
  OBVIOUS
<1>8. ~hit => infos = Matching(aKind, Origin(t))
  OBVIOUS
<1>9. hit \in BOOLEAN /\ (hit => rxCache)
  OBVIOUS
<1>10. key = <<CacheOf(aKind), Origin(t)>>
  OBVIOUS
<1> HIDE DEF key, hit, infos, new
<1>11. \A e \in Entities :
          /\ e \notin infos => holders'[e] = holders[e]
          /\ e \in infos => /\ t \in holders'[e] /\ holders[e] \subseteq holders'[e]
                            /\ rxCache => "cache" \in holders'[e]
                            /\ holders'[e] \subseteq holders[e] \cup {t, "cache"}
  BY <1>5
<1>12. holders' \in [Entities -> SUBSET Owners]
  BY <1>5, <1>11 DEF TypeOK, Owners
<1>13. infos \in Looked
  BY <1>2 DEF Looked
<1>14. lookups' \in [CacheKeys -> Looked]
  <2>1. lookups \in [CacheKeys -> Looked]
    BY DEF TypeOK
  <2> QED
    BY <1>1, <1>5, <1>13, <2>1
<1>15. TypeOK'
  BY <1>5, <1>6, <1>12, <1>14 DEF TypeOK
<1>16. ListHolds'
  <2>1. t # "list"
    BY DEF NamesDiffer
  <2>2. \A e \in Entities : "list" \in holders'[e] <=> "list" \in holders[e]
    BY <1>11, <2>1
  <2> QED
    BY <1>5, <2>2 DEF ListHolds
<1>17. CacheHolds'
  <2> SUFFICES ASSUME NEW k \in CacheKeys, lookups'[k] # NotCached, NEW e \in lookups'[k]
               PROVE  "cache" \in holders'[e] /\ CacheOf(entityKind[e]) = k[1]
    BY <1>5 DEF CacheHolds
  <2>1. CASE rxCache /\ ~hit /\ k = key
    <3>1. lookups'[k] = infos
      BY <1>5, <2>1 DEF TypeOK
    <3> QED
      BY <1>2, <1>4, <1>11, <2>1, <3>1
  <2>2. CASE ~(rxCache /\ ~hit /\ k = key)
    <3>1. lookups'[k] = lookups[k]
      BY <1>1, <1>5, <2>2 DEF TypeOK
    <3>2. lookups[k] \in Looked
      BY DEF TypeOK
    <3>3. e \in Entities
      BY <3>1, <3>2 DEF Looked
    <3> QED
      BY <1>11, <3>1, <3>3 DEF CacheHolds
  <2> QED
    BY <2>1, <2>2
<1>18. ThreadHolds'
  <2> SUFFICES ASSUME NEW u \in Deliverers
               PROVE  /\ delivery'[u].kind = "none" => delivery'[u].todo = {} /\ delivery'[u].running = {}
                      /\ \A x \in delivery'[u].todo \cup delivery'[u].running : u \in holders'[x]
    BY DEF ThreadHolds
  <2>1. CASE u = t
    <3>1. delivery'[u] = new
      BY <1>5, <2>1 DEF TypeOK
    <3> QED
      BY <1>2, <1>6, <1>11, <2>1, <3>1
  <2>2. CASE u # t
    <3>1. delivery'[u] = delivery[u] /\ delivery[u].todo \cup delivery[u].running \subseteq Entities
      BY <1>5, <2>2 DEF TypeOK, Delivery
    <3> QED
      BY <1>11, <3>1 DEF ThreadHolds
  <2> QED
    BY <2>1, <2>2
<1>19. DroppedWithTheLast'
  <2>1. \A e \in Entities : holders[e] = {} <=> holders'[e] = {}
    BY <1>4, <1>11
  <2> QED
    BY <1>5, <2>1 DEF DroppedWithTheLast
<1>20. QueryableCacheFresh'
  <2> SUFFICES ASSUME NEW o \in {"remote", "local"}, lookups'[<<"_queryable_cache", o>>] # NotCached
               PROVE  lookups'[<<"_queryable_cache", o>>] = Matching("queryable", o)
    BY <1>5 DEF QueryableCacheFresh, Matching
  <2>1. CASE rxCache /\ ~hit /\ key = <<"_queryable_cache", o>>
    <3>1. aKind = "queryable" /\ o = Origin(t)
      BY <1>10, <2>1, CacheKey DEF CacheOf
    <3>2. lookups'[<<"_queryable_cache", o>>] = infos
      BY <1>1, <1>5, <2>1 DEF TypeOK
    <3> QED
      BY <1>8, <2>1, <3>1, <3>2
  <2>2. CASE ~(rxCache /\ ~hit /\ key = <<"_queryable_cache", o>>)
    <3>1. lookups'[<<"_queryable_cache", o>>] = lookups[<<"_queryable_cache", o>>]
      BY <1>1, <1>5, <2>2, CacheKey DEF TypeOK
    <3> QED
      BY <3>1 DEF QueryableCacheFresh
  <2> QED
    BY <2>1, <2>2
<1> QED
  BY <1>15, <1>16, <1>17, <1>18, <1>19, <1>20

\* Callbacks are called, and return, with the reference of the look-up.
LEMMA CallbackKeeps ==
    ASSUME NamesDiffer, Inv, NEW t \in Deliverers, Callback(t) \/ CallbackReturns(t)
    PROVE  Inv'
<1> USE DEF Inv
<1>1. UNCHANGED <<entityKind, entityState, lists, holders, dropperRuns, rxCache, lookups, closing, deliveries>>
  BY DEF Callback, CallbackReturns
<1>2. PICK now \in Delivery :
          /\ delivery' = [delivery EXCEPT ![t] = now] /\ delivery[t].kind = now.kind
          /\ now.todo \cup now.running \subseteq delivery[t].todo \cup delivery[t].running
  <2>1. delivery[t] \in Delivery
    BY DEF TypeOK
  <2>2. CASE CallbackReturns(t)
    <3> DEFINE now == [delivery[t] EXCEPT !.running = {}]
    <3>1. delivery' = [delivery EXCEPT ![t] = now]
      BY <2>2 DEF CallbackReturns
    <3>2. /\ now \in Delivery /\ now.kind = delivery[t].kind
          /\ now.todo = delivery[t].todo /\ now.running = {}
      BY <2>1 DEF Delivery
    <3> HIDE DEF now
    <3> QED
      BY <3>1, <3>2
  <2>3. CASE Callback(t)
    <3>1. PICK e \in delivery[t].todo :
              delivery' = [delivery EXCEPT ![t].todo = @ \ {e}, ![t].running = {e}]
      BY <2>3 DEF Callback
    <3> DEFINE now == [delivery[t] EXCEPT !.todo = @ \ {e}, !.running = {e}]
    <3>2. delivery' = [delivery EXCEPT ![t] = now]
      BY <3>1 DEF TypeOK
    <3>3. e \in Entities
      BY <2>1 DEF Delivery
    <3>4. /\ now \in Delivery /\ now.kind = delivery[t].kind
          /\ now.todo = delivery[t].todo \ {e} /\ now.running = {e}
      BY <2>1, <3>3 DEF Delivery
    <3> HIDE DEF now
    <3> QED
      BY <3>2, <3>4
  <2> QED
    BY <2>2, <2>3
<1>3. TypeOK'
  BY <1>1, <1>2 DEF TypeOK
<1>4. ListHolds' /\ CacheHolds' /\ DroppedWithTheLast' /\ QueryableCacheFresh'
  BY <1>1 DEF ListHolds, CacheHolds, DroppedWithTheLast, QueryableCacheFresh, Matching
<1>5. ThreadHolds'
  <2> SUFFICES ASSUME NEW u \in Deliverers
               PROVE  /\ delivery'[u].kind = "none" => delivery'[u].todo = {} /\ delivery'[u].running = {}
                      /\ \A x \in delivery'[u].todo \cup delivery'[u].running : u \in holders[x]
    BY <1>1 DEF ThreadHolds
  <2>1. delivery'[u] = IF u = t THEN now ELSE delivery[u]
    BY <1>2 DEF TypeOK
  <2> QED
    BY <1>2, <2>1 DEF ThreadHolds
<1> QED
  BY <1>3, <1>4, <1>5

\* The steps of an undeclare outside the mutex, and a declaration that fails.
LEMMA UndeclareKeeps ==
    ASSUME NamesDiffer, Inv, NEW e \in Entities,
           DeclareFails(e) \/ Undeclare(e) \/ UndeclareReturns(e)
    PROVE  Inv'
<1> USE DEF Inv
<1>1. UNCHANGED <<entityKind, lists, dropperRuns, rxCache, lookups, delivery, closing, deliveries>>
  BY DEF DeclareFails, Undeclare, UndeclareReturns
<1>2. /\ entityState' \in [Entities -> States]
      /\ \A x \in Entities : entityState'[x] = "new" <=> entityState[x] = "new"
      /\ \A x \in Entities : entityState'[x] = "undeclared" => holders[x] = {}
  BY DEF DeclareFails, Undeclare, UndeclareReturns, TypeOK, States, DroppedWithTheLast
<1>3. /\ holders' \in [Entities -> SUBSET Owners]
      /\ \A x \in Entities : /\ holders[x] \subseteq holders'[x]
                             /\ holders'[x] \subseteq holders[x] \cup {"declare"}
                             /\ holders[x] = {} <=> holders'[x] = {}
      /\ closing = "done" => holders' = holders
  BY DEF DeclareFails, Undeclare, UndeclareReturns, TypeOK, Owners, ListHolds
<1>4. TypeOK'
  BY <1>1, <1>2, <1>3 DEF TypeOK
<1>5. ListHolds' /\ CacheHolds'
  <2>1. ListHolds'
    BY <1>1, <1>3 DEF ListHolds
  <2>2. CacheHolds'
    <3>1. \A k \in CacheKeys : lookups'[k] = IF k[1] \in {} THEN NotCached ELSE lookups[k]
      BY <1>1
    <3> QED
      BY <1>1, <1>3, <3>1, CacheKeeps
  <2> QED
    BY <2>1, <2>2
<1>6. ThreadHolds'
  BY <1>1, <1>3, ThreadsKeep
<1>7. DroppedWithTheLast'
  BY <1>1, <1>2, <1>3 DEF DroppedWithTheLast
<1>8. QueryableCacheFresh'
  BY <1>1 DEF QueryableCacheFresh, Matching
<1> QED
  BY <1>4, <1>5, <1>6, <1>7, <1>8

\* The steps of _z_session_close that only wait.
LEMMA CloseKeeps ==
    ASSUME NamesDiffer, Inv, CloseSession \/ StopRuntime \/ CloseReturns
    PROVE  Inv'
<1> USE DEF Inv
<1>1. /\ UNCHANGED <<entityKind, entityState, lists, holders, dropperRuns, rxCache, lookups, delivery, deliveries>>
      /\ closing' \in Closing /\ (closing' = "done" => \A e \in Entities : holders[e] = {})
  BY DEF CloseSession, StopRuntime, CloseReturns, Closing
<1>2. TypeOK' /\ ListHolds' /\ CacheHolds' /\ ThreadHolds'
  BY <1>1 DEF TypeOK, ListHolds, CacheHolds, ThreadHolds
<1>3. DroppedWithTheLast' /\ QueryableCacheFresh'
  BY <1>1 DEF DroppedWithTheLast, QueryableCacheFresh, Matching
<1> QED
  BY <1>2, <1>3

\* The invariant holds from the start and every step keeps it.
LEMMA Invariance ==
    ASSUME NamesDiffer
    PROVE  SubscriptionsInit /\ [][SubscriptionsNext]_subscriptionVars => []Inv
<1>1. SubscriptionsInit => Inv
  <2> SUFFICES ASSUME SubscriptionsInit PROVE Inv
    OBVIOUS
  <2>1. Idle \in Delivery /\ NotCached \in Looked
    BY DEF Idle, Delivery, Looked
  <2>2. TypeOK
    BY <2>1 DEF SubscriptionsInit, TypeOK, Kinds, States, Owners, Closing
  <2>3. ListHolds /\ DroppedWithTheLast
    BY DEF SubscriptionsInit, ListHolds, DroppedWithTheLast
  <2>4. CacheHolds /\ QueryableCacheFresh
    BY CacheKey DEF SubscriptionsInit, CacheHolds, QueryableCacheFresh
  <2>5. ThreadHolds
    BY DEF SubscriptionsInit, ThreadHolds, Idle
  <2> QED
    BY <2>2, <2>3, <2>4, <2>5 DEF Inv
<1>2. Inv /\ [SubscriptionsNext]_subscriptionVars => Inv'
  <2> SUFFICES ASSUME Inv, [SubscriptionsNext]_subscriptionVars PROVE Inv'
    OBVIOUS
  <2>1. ASSUME NEW e \in Entities,
               \/ RegisterSubscription(e) \/ RegisterQueryable(e) \/ DeclareFails(e) \/ Undeclare(e)
               \/ EntityStep(e)
        PROVE  Inv'
    BY <2>1, RegisterKeeps, UndeclareKeeps, DeclaredKeeps, UnregisterKeeps DEF EntityStep
  <2>2. ASSUME NEW t \in Deliverers, DeliveryStep(t)
        PROVE  Inv'
    BY <2>2, CallbackKeeps, DropInfosKeeps DEF DeliveryStep
  <2>3. ASSUME NEW t \in Deliverers, TriggerSubscriptions(t) \/ TriggerQueryables(t)
        PROVE  Inv'
    BY <2>3, GetInfosKeeps DEF TriggerSubscriptions, TriggerQueryables, Kinds
  <2>4. ASSUME CloseSession \/ CloseStep
        PROVE  Inv'
    BY <2>4, CloseKeeps, FlushKeeps DEF CloseStep
  <2>5. ASSUME UNCHANGED subscriptionVars
        PROVE  Inv'
    <3>1. TypeOK' /\ ListHolds' /\ CacheHolds' /\ ThreadHolds'
      BY <2>5 DEF Inv, subscriptionVars, TypeOK, ListHolds, CacheHolds, ThreadHolds
    <3>2. DroppedWithTheLast' /\ QueryableCacheFresh'
      BY <2>5 DEF Inv, subscriptionVars, DroppedWithTheLast, QueryableCacheFresh, Matching
    <3> QED
      BY <3>1, <3>2 DEF Inv
  <2> QED
    BY <2>1, <2>2, <2>3, <2>4, <2>5 DEF SubscriptionsNext
<1> QED
  BY <1>1, <1>2, PTL

-----------------------------------------------------------------------------
\* An undeclare (net/primitives.c) or the close of the session has returned only
\* if every reference is gone, so no thread can call the callback any more and
\* the dropper has run once.
THEOREM QuietAfterReturnAlways ==
    ASSUME NamesDiffer
    PROVE  SubscriptionsSpec => []QuietAfterReturn
<1>1. Inv => QuietAfterReturn
  <2> SUFFICES ASSUME Inv, NEW e \in Entities
               PROVE  /\ dropperRuns[e] <= 1
                      /\ entityState[e] = "undeclared" \/ (closing = "done" /\ entityState[e] # "new")
                            => /\ dropperRuns[e] = 1
                               /\ \A t \in Deliverers : e \notin delivery[t].todo \cup delivery[t].running
    BY DEF QuietAfterReturn
  <2>1. dropperRuns[e] <= 1
    BY DEF Inv, DroppedWithTheLast
  <2>2. ASSUME entityState[e] = "undeclared" \/ (closing = "done" /\ entityState[e] # "new")
        PROVE  dropperRuns[e] = 1 /\ holders[e] = {}
    BY <2>2 DEF Inv, DroppedWithTheLast
  <2> QED
    BY <2>1, <2>2 DEF Inv, ThreadHolds
<1> QED
  BY <1>1, Invariance, PTL DEF SubscriptionsSpec

\* _z_session_queryable_get_infos never answers with a look-up older than a
\* registration or an unregistration of a queryable.
THEOREM QueryableCacheFreshAlways ==
    ASSUME NamesDiffer
    PROVE  SubscriptionsSpec => []QueryableCacheFresh
<1>1. Inv => QueryableCacheFresh
  BY DEF Inv
<1> QED
  BY <1>1, Invariance, PTL DEF SubscriptionsSpec


(***************************************************************************)
(* The readers of a stream.                                                *)
(***************************************************************************)
\* The bytes of a sequence of batches: off[k] of them belong to the first k.
Encodes(w, bs) ==
    \E off \in [0..Len(bs) -> Nat] :
        /\ off[0] = 0 /\ off[Len(bs)] = Len(w)
        /\ \A j, k \in 0..Len(bs) : j <= k => off[j] <= off[k]
        /\ \A k \in 1..Len(bs) :
              /\ Len(bs[k]) < Base * Base /\ off[k] = off[k - 1] + 2 + Len(bs[k])
              /\ w[off[k - 1] + 1] = Len(bs[k]) % Base /\ w[off[k - 1] + 2] = Len(bs[k]) \div Base
              /\ \A i \in 1..Len(bs[k]) : w[off[k - 1] + 2 + i] = bs[k][i]

\* The batches d were handled of those sent, and w is what the others look like.
OnTrack(w, d, bs) == IsPrefix(d, bs) /\ Encodes(w, Drop(bs, Len(d)))

\* What the reader has of a batch that it has not handled.
Held ==
    IF reader # "peer" \/ remaining THEN zbuf.data
    ELSE IF flow.st = "pendingSize" THEN <<flow.size>>
    ELSE IF flow.st = "pendingData" THEN <<flow.size % Base, flow.size \div Base>> \o flow.buf
    ELSE << >>

\* Types, and what the flow's state says of the buffers.
FlowStates == {"inactive", "ready", "pendingSize", "pendingData"}

StreamTypes ==
    /\ sent \in Seq(Seq(Nat)) /\ stream \in Seq(Nat) /\ delivered \in Seq(Seq(Nat))
    /\ zbuf \in [pos : Nat, data : Seq(Nat)] /\ flow \in [st : FlowStates, size : Nat, buf : Seq(Nat)]
    /\ remaining \in BOOLEAN /\ slipped \in BOOLEAN
    /\ remaining => reader = "peer" /\ flow.st \in {"inactive", "pendingSize"} /\ zbuf.data # << >>
    /\ flow.st = "pendingData" => Len(flow.buf) < flow.size /\ flow.size < Base * Base

\* The inductive invariant: unless a reader has slipped, what it holds and what is on
\* its way are the batches that it has not handled.
StreamInv == StreamTypes /\ (~slipped => OnTrack(Held \o stream, delivered, sent))

-----------------------------------------------------------------------------
\* Cutting a sequence in two.
LEMMA Cut ==
    ASSUME NEW S, NEW s \in Seq(S), NEW n \in 0..Len(s)
    PROVE  /\ Take(s, n) \in Seq(S) /\ Len(Take(s, n)) = n /\ \A i \in 1..n : Take(s, n)[i] = s[i]
           /\ Drop(s, n) \in Seq(S) /\ Len(Drop(s, n)) = Len(s) - n
           /\ \A i \in 1..(Len(s) - n) : Drop(s, n)[i] = s[n + i]
BY DEF Take, Drop

\* Sequences with the same elements are the same.
LEMMA Same ==
    ASSUME NEW S, NEW s \in Seq(S), NEW t \in Seq(S), Len(s) = Len(t), \A i \in 1..Len(s) : s[i] = t[i]
    PROVE  s = t
OBVIOUS

\* Joining bytes is associative,
LEMMA Associates ==
    ASSUME NEW a \in Seq(Nat), NEW b \in Seq(Nat), NEW c \in Seq(Nat)
    PROVE  (a \o b) \o c = a \o (b \o c)
OBVIOUS

\* and keeps the elements.
LEMMA Joins ==
    ASSUME NEW S, NEW a \in Seq(S), NEW b \in Seq(S)
    PROVE  /\ a \o b \in Seq(S) /\ Len(a \o b) = Len(a) + Len(b) /\ Len(a) \in Nat /\ Len(b) \in Nat
           /\ \A i \in 1..Len(a) : (a \o b)[i] = a[i]
           /\ \A i \in (Len(a) + 1)..(Len(a) + Len(b)) : (a \o b)[i] = b[i - Len(a)]
OBVIOUS

\* What was cut in two, joined again.
LEMMA Rejoined ==
    ASSUME NEW S, NEW s \in Seq(S), NEW n \in 0..Len(s)
    PROVE  Take(s, n) \o Drop(s, n) = s
<1> DEFINE t == Take(s, n)
           d == Drop(s, n)
<1>1. /\ t \in Seq(S) /\ Len(t) = n /\ \A i \in 1..n : t[i] = s[i]
      /\ d \in Seq(S) /\ Len(d) = Len(s) - n /\ \A i \in 1..(Len(s) - n) : d[i] = s[n + i]
  BY Cut
<1> HIDE DEF t, d
<1>2. t \o d \in Seq(S) /\ Len(t \o d) = Len(s) /\ \A i \in 1..Len(s) : (t \o d)[i] = s[i]
  <2>0. t \in Seq(S) /\ d \in Seq(S)
    BY <1>1
  <2>1. /\ t \o d \in Seq(S) /\ Len(t \o d) = Len(t) + Len(d) /\ \A i \in 1..Len(t) : (t \o d)[i] = t[i]
        /\ \A i \in (Len(t) + 1)..(Len(t) + Len(d)) : (t \o d)[i] = d[i - Len(t)]
    BY <2>0, Joins
  <2>2. Len(s) \in Nat
    OBVIOUS
  <2>3. \A i \in 1..Len(s) : i \in 1..n \/ (i \in (n + 1)..Len(s) /\ i - n \in 1..(Len(s) - n) /\ n + (i - n) = i)
    BY <2>2
  <2>4. Len(t \o d) = Len(s)
    BY <1>1, <2>1, <2>2
  <2>5. ASSUME NEW i \in 1..n
        PROVE  (t \o d)[i] = s[i]
    BY <1>1, <2>1
  <2>6. ASSUME NEW i \in (n + 1)..Len(s)
        PROVE  (t \o d)[i] = s[i]
    <3>1. i - n \in 1..(Len(s) - n) /\ n + (i - n) = i /\ i \in (Len(t) + 1)..(Len(t) + Len(d))
      BY <1>1, <2>2
    <3>2. (t \o d)[i] = d[i - Len(t)]
      BY <2>1, <3>1
    <3> QED BY <1>1, <3>1, <3>2
  <2> QED BY <2>1, <2>3, <2>4, <2>5, <2>6
<1> QED BY <1>2, Same DEF t, d

\* Dropping bytes of the first of two parts.
LEMMA DropJoined ==
    ASSUME NEW S, NEW a \in Seq(S), NEW b \in Seq(S), NEW n \in 0..Len(a)
    PROVE  Drop(a \o b, n) = Drop(a, n) \o b
<1> DEFINE w == a \o b
           d == Drop(a, n)
           e == Drop(w, n)
<1>1. /\ w \in Seq(S) /\ Len(w) = Len(a) + Len(b) /\ Len(a) \in Nat /\ Len(b) \in Nat
      /\ \A i \in 1..Len(a) : w[i] = a[i]
      /\ \A i \in (Len(a) + 1)..(Len(a) + Len(b)) : w[i] = b[i - Len(a)]
  BY Joins
<1>2. d \in Seq(S) /\ Len(d) = Len(a) - n /\ \A i \in 1..(Len(a) - n) : d[i] = a[n + i]
  BY Cut
<1> HIDE DEF w, d
<1>3. n \in 0..Len(w)
  BY <1>1
<1>4. e \in Seq(S) /\ Len(e) = Len(w) - n /\ \A i \in 1..(Len(w) - n) : e[i] = w[n + i]
  BY <1>1, <1>3, Cut
<1> HIDE DEF e
<1>5. /\ d \o b \in Seq(S) /\ Len(d \o b) = Len(d) + Len(b)
      /\ \A i \in 1..Len(d) : (d \o b)[i] = d[i]
      /\ \A i \in (Len(d) + 1)..(Len(d) + Len(b)) : (d \o b)[i] = b[i - Len(d)]
  BY <1>2, Joins
<1>6. Len(e) = Len(d \o b) /\ n \in Nat /\ Len(d) \in Nat /\ Len(e) \in Nat
  BY <1>1, <1>2, <1>4, <1>5
<1>7. ASSUME NEW i \in 1..Len(e)
      PROVE  e[i] = (d \o b)[i]
  <2>1. e[i] = w[n + i]
    BY <1>1, <1>4, <1>7
  <2>2. CASE i <= Len(d)
    <3>1. i \in 1..Len(d) /\ i \in 1..(Len(a) - n) /\ n + i \in 1..Len(a)
      BY <1>1, <1>2, <1>6, <1>7, <2>2
    <3> QED BY <1>1, <1>2, <1>5, <2>1, <3>1
  <2>3. CASE i > Len(d)
    <3>1. i \in (Len(d) + 1)..(Len(d) + Len(b)) /\ n + i \in (Len(a) + 1)..(Len(a) + Len(b))
      BY <1>1, <1>2, <1>4, <1>6, <1>7, <2>3
    <3>2. (n + i) - Len(a) = i - Len(d)
      BY <1>1, <1>2, <1>6, <1>7
    <3> QED BY <1>1, <1>5, <2>1, <3>1, <3>2
  <2> QED BY <1>6, <2>2, <2>3
<1> QED BY <1>4, <1>5, <1>6, <1>7, Same DEF w, d, e

\* The middle of a sequence.
LEMMA Middle ==
    ASSUME NEW s \in Seq(Nat), NEW m \in Nat, NEW n \in Nat, m + n <= Len(s)
    PROVE  /\ SubSeq(s, m + 1, m + n) \in Seq(Nat) /\ Len(SubSeq(s, m + 1, m + n)) = n
           /\ \A i \in 1..n : SubSeq(s, m + 1, m + n)[i] = s[m + i]
OBVIOUS

\* Dropping twice.
LEMMA DropTwice ==
    ASSUME NEW S, NEW s \in Seq(S), NEW n \in Nat, NEW m \in Nat, n + m <= Len(s)
    PROVE  Drop(Drop(s, n), m) = Drop(s, n + m)
<1> DEFINE d == Drop(s, n)
           e == Drop(d, m)
           f == Drop(s, n + m)
<1>1. Len(s) \in Nat /\ n \in 0..Len(s) /\ m \in 0..(Len(s) - n) /\ n + m \in 0..Len(s)
  OBVIOUS
<1>2. d \in Seq(S) /\ Len(d) = Len(s) - n /\ \A i \in 1..(Len(s) - n) : d[i] = s[n + i]
  BY <1>1, Cut
<1>3. f \in Seq(S) /\ Len(f) = Len(s) - (n + m) /\ \A i \in 1..(Len(s) - (n + m)) : f[i] = s[(n + m) + i]
  BY <1>1, Cut
<1> HIDE DEF d, f
<1>4. m \in 0..Len(d)
  BY <1>1, <1>2
<1>5. e \in Seq(S) /\ Len(e) = Len(d) - m /\ \A i \in 1..(Len(d) - m) : e[i] = d[m + i]
  BY <1>2, <1>4, Cut
<1> HIDE DEF e
<1>6. Len(e) = Len(f) /\ Len(e) \in Nat /\ Len(e) = Len(s) - (n + m)
  BY <1>1, <1>2, <1>3, <1>5
<1>7. ASSUME NEW i \in 1..Len(e)
      PROVE  e[i] = f[i]
  <2>1. m + i \in 1..(Len(s) - n) /\ i \in 1..(Len(d) - m) /\ i \in 1..(Len(s) - (n + m)) /\ n + (m + i) = (n + m) + i
    BY <1>1, <1>2, <1>6
  <2> QED BY <1>2, <1>3, <1>5, <2>1
<1> QED BY <1>3, <1>5, <1>6, <1>7, Same DEF d, e, f

-----------------------------------------------------------------------------
\* _z_read_stream_size reads back the size that was written.
LEMMA SizeReadBack ==
    ASSUME NEW n \in Nat, n < Base * Base
    PROVE  /\ n % Base \in Nat /\ n \div Base \in Nat /\ SizeOf(n % Base, n \div Base) = n
<1>1. Base \in Nat \ {0} /\ Base * Base \in Nat
  BY StreamAssumption
<1>2. (n % Base) + (n \div Base) * Base = n /\ n % Base \in Nat /\ n \div Base \in Nat
  BY <1>1
<1>3. \A m \in Nat : n < m => n % m = n
  OBVIOUS
<1>4. n % (Base * Base) = n
  BY <1>1, <1>3
<1> QED BY <1>2, <1>4 DEF SizeOf

\* A size that was read fits into two bytes.
LEMMA SizeType ==
    ASSUME NEW low \in Nat, NEW high \in Nat
    PROVE  SizeOf(low, high) \in Nat /\ SizeOf(low, high) < Base * Base
<1>1. Base \in Nat /\ Base # 0
  BY StreamAssumption
<1>2. Base * Base \in Nat /\ Base * Base # 0
  BY <1>1
<1>3. \A x, m \in Nat : m # 0 => x % m \in Nat /\ x % m < m
  OBVIOUS
<1>4. low + high * Base \in Nat
  BY <1>1
<1> QED BY <1>2, <1>3, <1>4 DEF SizeOf

-----------------------------------------------------------------------------
\* Nothing encodes nothing.
LEMMA NothingSent == OnTrack(<< >>, << >>, << >>)
<1>1. Drop(<< >>, Len(<< >>)) = << >> /\ IsPrefix(<< >>, << >>)
  BY DEF Drop, IsPrefix
<1>2. Encodes(<< >>, << >>)
  <2>1. [k \in 0..0 |-> 0] \in [0..Len(<< >>) -> Nat]
    OBVIOUS
  <2>2. Len(<< >>) = 0 /\ 1..0 = {} /\ 0..0 = {0} /\ [k \in 0..0 |-> 0][0] = 0
    OBVIOUS
  <2> QED BY <2>1, <2>2 DEF Encodes
<1> QED BY <1>1, <1>2 DEF OnTrack

\* A batch sent adds its size and its bytes.
LEMMA EncodesMore ==
    ASSUME NEW w \in Seq(Nat), NEW bs \in Seq(Seq(Nat)), Encodes(w, bs), NEW b \in Seq(Nat), Len(b) < Base * Base
    PROVE  Encodes(w \o (<<Len(b) % Base, Len(b) \div Base>> \o b), Append(bs, b))
<1> DEFINE h == <<Len(b) % Base, Len(b) \div Base>>
           t == h \o b
           x == w \o t
           cs == Append(bs, b)
           N == Len(bs)
<1>0. Len(b) \in Nat /\ Len(w) \in Nat /\ N \in Nat
  OBVIOUS
<1>1. h \in Seq(Nat) /\ Len(h) = 2 /\ h[1] = Len(b) % Base /\ h[2] = Len(b) \div Base
  BY <1>0, SizeReadBack
<1> HIDE DEF h
<1>2. /\ t \in Seq(Nat) /\ Len(t) = 2 + Len(b) /\ t[1] = Len(b) % Base /\ t[2] = Len(b) \div Base
      /\ \A i \in 1..Len(b) : t[2 + i] = b[i]
  <2>1. h \in Seq(Nat) /\ b \in Seq(Nat)
    BY <1>1
  <2>2. /\ t \in Seq(Nat) /\ Len(t) = Len(h) + Len(b) /\ \A i \in 1..Len(h) : t[i] = h[i]
        /\ \A i \in (Len(h) + 1)..(Len(h) + Len(b)) : t[i] = b[i - Len(h)]
    BY <2>1, Joins
  <2> HIDE DEF t
  <2>3. \A i \in 1..Len(b) : 2 + i \in (2 + 1)..(2 + Len(b)) /\ (2 + i) - 2 = i
    BY <1>0
  <2> QED BY <1>0, <1>1, <2>2, <2>3
<1> HIDE DEF t
<1>3. /\ x \in Seq(Nat) /\ Len(x) = Len(w) + 2 + Len(b) /\ \A i \in 1..Len(w) : x[i] = w[i]
      /\ \A i \in 1..(2 + Len(b)) : x[Len(w) + i] = t[i]
  <2>1. t \in Seq(Nat)
    BY <1>2
  <2>2. /\ x \in Seq(Nat) /\ Len(x) = Len(w) + Len(t) /\ \A i \in 1..Len(w) : x[i] = w[i]
        /\ \A i \in (Len(w) + 1)..(Len(w) + Len(t)) : x[i] = t[i - Len(w)]
    BY <2>1, Joins
  <2> HIDE DEF x
  <2>3. \A i \in 1..(2 + Len(b)) : Len(w) + i \in (Len(w) + 1)..(Len(w) + Len(t)) /\ (Len(w) + i) - Len(w) = i
    BY <1>0, <1>2
  <2>4. ASSUME NEW i \in 1..(2 + Len(b))
        PROVE  x[Len(w) + i] = t[i]
    BY <2>2, <2>3
  <2>5. Len(x) = Len(w) + 2 + Len(b)
    BY <1>0, <1>2, <2>2
  <2> QED BY <2>2, <2>4, <2>5
<1> HIDE DEF x
<1>4. Len(cs) = N + 1 /\ cs[N + 1] = b /\ \A k \in 1..N : cs[k] = bs[k] /\ bs[k] \in Seq(Nat) /\ Len(bs[k]) \in Nat
  OBVIOUS
<1>5. PICK off \in [0..N -> Nat] :
        /\ off[0] = 0 /\ off[N] = Len(w)
        /\ \A j, k \in 0..N : j <= k => off[j] <= off[k]
        /\ \A k \in 1..N :
              /\ Len(bs[k]) < Base * Base /\ off[k] = off[k - 1] + 2 + Len(bs[k])
              /\ w[off[k - 1] + 1] = Len(bs[k]) % Base /\ w[off[k - 1] + 2] = Len(bs[k]) \div Base
              /\ \A i \in 1..Len(bs[k]) : w[off[k - 1] + 2 + i] = bs[k][i]
  BY DEF Encodes
<1> HIDE DEF cs, N
<1> DEFINE on == [k \in 0..(N + 1) |-> IF k = N + 1 THEN Len(x) ELSE off[k]]
<1>6. on \in [0..Len(cs) -> Nat] /\ on[N + 1] = Len(x) /\ (\A k \in 0..N : on[k] = off[k]) /\ on[0] = 0
  BY <1>0, <1>3, <1>4, <1>5
<1> HIDE DEF on
<1>7. \A k \in 0..N : on[k] <= Len(w) /\ on[k] \in Nat
  <2> SUFFICES ASSUME NEW k \in 0..N
               PROVE  on[k] <= Len(w) /\ on[k] \in Nat
    OBVIOUS
  <2>1. N \in 0..N /\ k <= N
    BY <1>0
  <2>2. off[k] <= off[N]
    BY <1>5, <2>1
  <2> QED BY <1>5, <1>6, <2>2
<1>8. \A j, k \in 0..(N + 1) : j <= k => on[j] <= on[k]
  <2> SUFFICES ASSUME NEW j \in 0..(N + 1), NEW k \in 0..(N + 1), j <= k
               PROVE  on[j] <= on[k]
    OBVIOUS
  <2>1. CASE k = N + 1
    <3>1. j = N + 1 \/ j \in 0..N
      BY <1>0
    <3>2. on[k] = Len(w) + 2 + Len(b)
      BY <1>3, <1>6, <2>1
    <3> QED BY <1>0, <1>7, <2>1, <3>1, <3>2
  <2>2. CASE k # N + 1
    <3>1. j \in 0..N /\ k \in 0..N
      BY <1>0, <2>2
    <3> QED BY <1>5, <1>6, <3>1
  <2> QED BY <2>1, <2>2
<1>9. ASSUME NEW k \in 1..(N + 1)
      PROVE  /\ Len(cs[k]) < Base * Base /\ on[k] = on[k - 1] + 2 + Len(cs[k])
             /\ x[on[k - 1] + 1] = Len(cs[k]) % Base /\ x[on[k - 1] + 2] = Len(cs[k]) \div Base
             /\ \A i \in 1..Len(cs[k]) : x[on[k - 1] + 2 + i] = cs[k][i]
  <2>1. CASE k = N + 1
    <3>1. on[k - 1] = Len(w) /\ cs[k] = b /\ on[k] = Len(x)
      <4>1. k - 1 = N /\ N \in 0..N
        BY <1>0, <2>1
      <4> QED BY <1>4, <1>5, <1>6, <2>1, <4>1
    <3>2. \A i \in 1..Len(b) : 2 + i \in 1..(2 + Len(b)) /\ Len(w) + 2 + i = Len(w) + (2 + i)
      BY <1>0
    <3>3. ASSUME NEW i \in 1..Len(b)
          PROVE  x[Len(w) + 2 + i] = b[i]
      <4>1. x[Len(w) + (2 + i)] = t[2 + i]
        BY <1>3, <3>2
      <4> QED BY <1>2, <3>2, <4>1
    <3>4. x[Len(w) + 1] = t[1] /\ x[Len(w) + 2] = t[2]
      <4>1. 1 \in 1..(2 + Len(b)) /\ 2 \in 1..(2 + Len(b))
        BY <1>0
      <4> QED BY <1>3, <4>1
    <3> QED BY <1>2, <1>3, <3>1, <3>3, <3>4
  <2>2. CASE k # N + 1
    <3>1. k \in 1..N /\ k - 1 \in 0..N /\ k \in 0..N
      BY <1>0, <2>2
    <3>2. on[k] = off[k] /\ on[k - 1] = off[k - 1] /\ cs[k] = bs[k] /\ off[k] <= Len(w) /\ off[k - 1] \in Nat
          /\ Len(bs[k]) \in Nat
      BY <1>4, <1>6, <1>7, <3>1
    <3>3. off[k] = off[k - 1] + 2 + Len(bs[k])
      BY <1>5, <3>1
    <3>4. /\ off[k - 1] + 1 \in 1..Len(w) /\ off[k - 1] + 2 \in 1..Len(w)
          /\ \A i \in 1..Len(bs[k]) : off[k - 1] + 2 + i \in 1..Len(w)
      <4> DEFINE o == off[k - 1]
                 l == Len(bs[k])
      <4>1. o \in Nat /\ l \in Nat /\ o + 2 + l <= Len(w)
        BY <3>2, <3>3
      <4> HIDE DEF o, l
      <4>2. o + 1 \in 1..Len(w) /\ o + 2 \in 1..Len(w) /\ \A i \in 1..l : o + 2 + i \in 1..Len(w)
        BY <1>0, <4>1
      <4> QED BY <4>2 DEF o, l
    <3>5. /\ Len(bs[k]) < Base * Base
          /\ w[off[k - 1] + 1] = Len(bs[k]) % Base /\ w[off[k - 1] + 2] = Len(bs[k]) \div Base
          /\ \A i \in 1..Len(bs[k]) : w[off[k - 1] + 2 + i] = bs[k][i]
      BY <1>5, <3>1
    <3>6. /\ x[off[k - 1] + 1] = Len(bs[k]) % Base /\ x[off[k - 1] + 2] = Len(bs[k]) \div Base
          /\ \A i \in 1..Len(bs[k]) : x[off[k - 1] + 2 + i] = bs[k][i]
      BY <1>3, <3>4, <3>5
    <3> QED BY <3>2, <3>3, <3>5, <3>6
  <2> QED BY <2>1, <2>2
<1>10. Encodes(x, cs)
  <2>1. on[Len(cs)] = Len(x) /\ Len(cs) = N + 1
    BY <1>4, <1>6
  <2>2. \E o \in [0..Len(cs) -> Nat] :
            /\ o[0] = 0 /\ o[Len(cs)] = Len(x)
            /\ \A j, k \in 0..Len(cs) : j <= k => o[j] <= o[k]
            /\ \A k \in 1..Len(cs) :
                  /\ Len(cs[k]) < Base * Base /\ o[k] = o[k - 1] + 2 + Len(cs[k])
                  /\ x[o[k - 1] + 1] = Len(cs[k]) % Base /\ x[o[k - 1] + 2] = Len(cs[k]) \div Base
                  /\ \A i \in 1..Len(cs[k]) : x[o[k - 1] + 2 + i] = cs[k][i]
    <3> on \in [0..Len(cs) -> Nat]
      BY <1>6
    <3> WITNESS on \in [0..Len(cs) -> Nat]
    <3> QED BY <1>6, <1>8, <1>9, <2>1
  <2> QED BY <2>2 DEF Encodes
<1> QED BY <1>10 DEF x, cs, t, h

\* Two bytes of what is on its way start with the size of the next batch, and its
\* bytes follow.
LEMMA EncodesNext ==
    ASSUME NEW w \in Seq(Nat), NEW bs \in Seq(Seq(Nat)), Encodes(w, bs), w # << >>
    PROVE  LET n == Len(bs[1])
           IN  /\ bs # << >> /\ bs[1] \in Seq(Nat) /\ n \in Nat /\ n < Base * Base /\ 2 + n <= Len(w)
               /\ w[1] = n % Base /\ w[2] = n \div Base /\ \A i \in 1..n : w[2 + i] = bs[1][i]
               /\ Encodes(Drop(w, 2 + n), Drop(bs, 1))
<1> DEFINE N == Len(bs)
           n == Len(bs[1])
<1>0. Len(w) \in Nat /\ N \in Nat /\ Len(w) # 0
  OBVIOUS
<1>1. PICK off \in [0..N -> Nat] :
        /\ off[0] = 0 /\ off[N] = Len(w)
        /\ \A j, k \in 0..N : j <= k => off[j] <= off[k]
        /\ \A k \in 1..N :
              /\ Len(bs[k]) < Base * Base /\ off[k] = off[k - 1] + 2 + Len(bs[k])
              /\ w[off[k - 1] + 1] = Len(bs[k]) % Base /\ w[off[k - 1] + 2] = Len(bs[k]) \div Base
              /\ \A i \in 1..Len(bs[k]) : w[off[k - 1] + 2 + i] = bs[k][i]
  BY DEF Encodes
<1>2. N # 0
  BY <1>0, <1>1
<1>3. bs # << >> /\ bs[1] \in Seq(Nat) /\ n \in Nat
  BY <1>2
<1>4. \A k \in 1..N : bs[k] \in Seq(Nat) /\ Len(bs[k]) \in Nat
  OBVIOUS
<1> DEFINE c == Drop(bs, 1)
           x == Drop(w, 2 + n)
<1>5. Len(c) = N - 1 /\ \A k \in 1..(N - 1) : c[k] = bs[1 + k]
  <2>1. 1 \in 0..Len(bs)
    BY <1>0, <1>2
  <2> QED BY <2>1, Cut
<1> HIDE DEF N, n, c
<1>6. 1 \in 1..N /\ 1 \in 0..N /\ 1 - 1 = 0 /\ N \in 0..N
  BY <1>0, <1>2
<1>7. off[1] = 2 + n /\ n < Base * Base /\ w[1] = n % Base /\ w[2] = n \div Base /\ \A i \in 1..n : w[2 + i] = bs[1][i]
  <2>1. /\ n < Base * Base /\ off[1] = off[0] + 2 + n
        /\ w[off[0] + 1] = n % Base /\ w[off[0] + 2] = n \div Base
        /\ \A i \in 1..n : w[off[0] + 2 + i] = bs[1][i]
    BY <1>1, <1>6 DEF n
  <2> QED BY <1>1, <1>3, <2>1
<1>8. 2 + n <= Len(w)
  BY <1>0, <1>1, <1>2, <1>6, <1>7
<1>9. /\ Len(x) = Len(w) - (2 + n) /\ \A i \in 1..(Len(w) - (2 + n)) : x[i] = w[(2 + n) + i]
  <2>1. 2 + n \in 0..Len(w)
    BY <1>0, <1>3, <1>8
  <2> QED BY <2>1, Cut
<1> HIDE DEF x
<1> DEFINE on == [k \in 0..(N - 1) |-> off[k + 1] - (2 + n)]
<1>10. \A k \in 0..(N - 1) : k + 1 \in 0..N /\ off[k + 1] \in Nat /\ off[k + 1] >= 2 + n /\ off[k + 1] <= Len(w)
  <2> SUFFICES ASSUME NEW k \in 0..(N - 1)
               PROVE  k + 1 \in 0..N /\ off[k + 1] \in Nat /\ off[k + 1] >= 2 + n /\ off[k + 1] <= Len(w)
    OBVIOUS
  <2>1. k + 1 \in 0..N /\ 1 <= k + 1 /\ k + 1 <= N
    BY <1>0
  <2>2. off[1] <= off[k + 1] /\ off[k + 1] <= off[N] /\ off[k + 1] \in Nat
    BY <1>1, <1>6, <2>1
  <2> QED BY <1>0, <1>1, <1>3, <1>7, <2>1, <2>2
<1>11. on \in [0..(N - 1) -> Nat]
  <2>1. \A k \in 0..(N - 1) : off[k + 1] - (2 + n) \in Nat
    BY <1>3, <1>10
  <2> QED BY <2>1
<1>12. \A k \in 0..(N - 1) : on[k] = off[k + 1] - (2 + n)
  OBVIOUS
<1> HIDE DEF on
<1>13. on[0] = 0 /\ on[N - 1] = Len(x)
  <2>1. 0 \in 0..(N - 1) /\ N - 1 \in 0..(N - 1) /\ (N - 1) + 1 = N /\ 0 + 1 = 1
    BY <1>0, <1>2
  <2>2. on[0] = off[1] - (2 + n) /\ on[N - 1] = off[N] - (2 + n)
    BY <1>12, <2>1
  <2> QED BY <1>1, <1>3, <1>7, <1>9, <2>2
<1>14. ASSUME NEW j \in 0..(N - 1), NEW k \in 0..(N - 1), j <= k
       PROVE  on[j] <= on[k]
  <2>1. j + 1 \in 0..N /\ k + 1 \in 0..N /\ j + 1 <= k + 1
    BY <1>0, <1>14
  <2>2. off[j + 1] <= off[k + 1]
    BY <1>1, <2>1
  <2> QED BY <1>3, <1>10, <1>12, <2>2
<1>15. ASSUME NEW k \in 1..(N - 1)
       PROVE  /\ Len(c[k]) < Base * Base /\ on[k] = on[k - 1] + 2 + Len(c[k])
              /\ x[on[k - 1] + 1] = Len(c[k]) % Base /\ x[on[k - 1] + 2] = Len(c[k]) \div Base
              /\ \A i \in 1..Len(c[k]) : x[on[k - 1] + 2 + i] = c[k][i]
  <2>1. /\ k + 1 \in 1..N /\ (k + 1) - 1 = k /\ (k - 1) + 1 = k /\ k \in 0..(N - 1) /\ k - 1 \in 0..(N - 1)
        /\ 1 + k = k + 1 /\ k \in 0..N
    BY <1>0
  <2> DEFINE p == off[k]
             l == Len(c[k])
  <2>2. c[k] = bs[k + 1] /\ l \in Nat
    BY <1>4, <1>5, <2>1
  <2>3. /\ l < Base * Base /\ off[k + 1] = p + 2 + l
        /\ w[p + 1] = l % Base /\ w[p + 2] = l \div Base /\ \A i \in 1..l : w[p + 2 + i] = c[k][i]
    <3>1. /\ Len(bs[k + 1]) < Base * Base /\ off[k + 1] = off[(k + 1) - 1] + 2 + Len(bs[k + 1])
          /\ w[off[(k + 1) - 1] + 1] = Len(bs[k + 1]) % Base /\ w[off[(k + 1) - 1] + 2] = Len(bs[k + 1]) \div Base
          /\ \A i \in 1..Len(bs[k + 1]) : w[off[(k + 1) - 1] + 2 + i] = bs[k + 1][i]
      BY <1>1, <2>1
    <3> QED BY <2>1, <2>2, <3>1
  <2>4. p \in Nat /\ p >= 2 + n /\ on[k - 1] = p - (2 + n) /\ on[k] = off[k + 1] - (2 + n) /\ off[k + 1] <= Len(w)
    BY <1>10, <1>12, <2>1
  <2> HIDE DEF p, l
  <2>5. on[k] = on[k - 1] + 2 + l
    BY <1>3, <2>2, <2>3, <2>4
  <2>6. /\ on[k - 1] + 1 \in 1..(Len(w) - (2 + n)) /\ (2 + n) + (on[k - 1] + 1) = p + 1
        /\ on[k - 1] + 2 \in 1..(Len(w) - (2 + n)) /\ (2 + n) + (on[k - 1] + 2) = p + 2
        /\ \A i \in 1..l : /\ on[k - 1] + 2 + i \in 1..(Len(w) - (2 + n))
                           /\ (2 + n) + (on[k - 1] + 2 + i) = p + 2 + i
    <3> DEFINE q == on[k - 1]
               L == Len(w)
    <3>1. p \in Nat /\ n \in Nat /\ l \in Nat /\ L \in Nat /\ q = p - (2 + n) /\ p + 2 + l <= L /\ p >= 2 + n
      BY <1>0, <1>3, <2>2, <2>3, <2>4
    <3> HIDE DEF q, L
    <3>2. /\ q + 1 \in 1..(L - (2 + n)) /\ (2 + n) + (q + 1) = p + 1
          /\ q + 2 \in 1..(L - (2 + n)) /\ (2 + n) + (q + 2) = p + 2
          /\ \A i \in 1..l : q + 2 + i \in 1..(L - (2 + n)) /\ (2 + n) + (q + 2 + i) = p + 2 + i
      BY <3>1
    <3> QED BY <3>2 DEF q, L
  <2>7. x[on[k - 1] + 1] = w[p + 1] /\ x[on[k - 1] + 2] = w[p + 2] /\ \A i \in 1..l : x[on[k - 1] + 2 + i] = w[p + 2 + i]
    BY <1>9, <2>6
  <2> QED BY <2>3, <2>5, <2>7 DEF l
<1>16. Encodes(x, c)
  <2>1. \E o \in [0..Len(c) -> Nat] :
            /\ o[0] = 0 /\ o[Len(c)] = Len(x)
            /\ \A j, k \in 0..Len(c) : j <= k => o[j] <= o[k]
            /\ \A k \in 1..Len(c) :
                  /\ Len(c[k]) < Base * Base /\ o[k] = o[k - 1] + 2 + Len(c[k])
                  /\ x[o[k - 1] + 1] = Len(c[k]) % Base /\ x[o[k - 1] + 2] = Len(c[k]) \div Base
                  /\ \A i \in 1..Len(c[k]) : x[o[k - 1] + 2 + i] = c[k][i]
    <3>1. on \in [0..Len(c) -> Nat] /\ on[Len(c)] = Len(x) /\ Len(c) = N - 1
      BY <1>5, <1>11, <1>13
    <3> on \in [0..Len(c) -> Nat]
      BY <3>1
    <3> WITNESS on \in [0..Len(c) -> Nat]
    <3> QED BY <1>13, <1>14, <1>15, <3>1
  <2> QED BY <2>1 DEF Encodes
<1> QED BY <1>3, <1>7, <1>8, <1>16 DEF x, c, n

-----------------------------------------------------------------------------
\* A batch is sent.
LEMMA TrackSend ==
    ASSUME NEW w \in Seq(Nat), NEW d \in Seq(Seq(Nat)), NEW bs \in Seq(Seq(Nat)), OnTrack(w, d, bs),
           NEW b \in Seq(Nat), Len(b) < Base * Base
    PROVE  OnTrack(w \o (<<Len(b) % Base, Len(b) \div Base>> \o b), d, Append(bs, b))
<1>1. Len(d) \in Nat /\ Len(bs) \in Nat /\ Len(d) <= Len(bs) /\ Len(d) \in 0..Len(bs)
  BY DEF OnTrack, IsPrefix
<1>2. Drop(bs, Len(d)) \in Seq(Seq(Nat)) /\ Encodes(w, Drop(bs, Len(d)))
  BY <1>1, Cut DEF OnTrack
<1>3. Encodes(w \o (<<Len(b) % Base, Len(b) \div Base>> \o b), Append(Drop(bs, Len(d)), b))
  BY <1>2, EncodesMore
<1>4. Append(Drop(bs, Len(d)), b) = Drop(Append(bs, b), Len(d))
  <2>1. <<b>> \in Seq(Seq(Nat)) /\ Append(bs, b) = bs \o <<b>>
    OBVIOUS
  <2>2. Drop(bs \o <<b>>, Len(d)) = Drop(bs, Len(d)) \o <<b>>
    BY <1>1, <2>1, DropJoined
  <2>3. Append(Drop(bs, Len(d)), b) = Drop(bs, Len(d)) \o <<b>>
    BY <1>2
  <2> QED BY <2>1, <2>2, <2>3
<1>5. IsPrefix(d, Append(bs, b))
  <2>1. SubSeq(d, 1, Len(d)) = SubSeq(bs, 1, Len(d))
    BY DEF OnTrack, IsPrefix
  <2>2. SubSeq(Append(bs, b), 1, Len(d)) = SubSeq(bs, 1, Len(d))
    BY <1>1
  <2> QED BY <1>1, <2>1, <2>2 DEF IsPrefix
<1> QED BY <1>3, <1>4, <1>5 DEF OnTrack

\* A batch is handled.
LEMMA TrackDeliver ==
    ASSUME NEW w \in Seq(Nat), NEW d \in Seq(Seq(Nat)), NEW bs \in Seq(Seq(Nat)), OnTrack(w, d, bs), Len(w) >= 2
    PROVE  LET n == SizeOf(w[1], w[2])
           IN  /\ n \in Nat /\ n < Base * Base /\ 2 + n <= Len(w) /\ w[1] = n % Base /\ w[2] = n \div Base
               /\ OnTrack(Drop(w, 2 + n), Append(d, SubSeq(w, 3, 2 + n)), bs)
<1> DEFINE cs == Drop(bs, Len(d))
           n == Len(cs[1])
<1>1. Len(d) \in Nat /\ Len(bs) \in Nat /\ Len(d) <= Len(bs) /\ Len(d) \in 0..Len(bs)
  BY DEF OnTrack, IsPrefix
<1>2. /\ cs \in Seq(Seq(Nat)) /\ Encodes(w, cs) /\ Len(cs) = Len(bs) - Len(d)
      /\ \A i \in 1..(Len(bs) - Len(d)) : cs[i] = bs[Len(d) + i]
  BY <1>1, Cut DEF OnTrack
<1>3. w # << >> /\ Len(w) \in Nat
  OBVIOUS
<1> HIDE DEF cs
<1>4. /\ cs # << >> /\ cs[1] \in Seq(Nat) /\ n \in Nat /\ n < Base * Base /\ 2 + n <= Len(w)
      /\ w[1] = n % Base /\ w[2] = n \div Base /\ \A i \in 1..n : w[2 + i] = cs[1][i]
      /\ Encodes(Drop(w, 2 + n), Drop(cs, 1))
  BY <1>2, <1>3, EncodesNext, Zenon
<1>5. SizeOf(w[1], w[2]) = n
  BY <1>4, SizeReadBack
<1>6. SubSeq(w, 3, 2 + n) = cs[1]
  <2>1. /\ SubSeq(w, 3, 2 + n) \in Seq(Nat) /\ Len(SubSeq(w, 3, 2 + n)) = n
        /\ \A i \in 1..n : SubSeq(w, 3, 2 + n)[i] = w[2 + i]
    <3>1. 2 \in Nat /\ n \in Nat /\ 2 + n <= Len(w) /\ 2 + 1 = 3
      BY <1>4
    <3> HIDE DEF n
    <3>2. /\ SubSeq(w, 2 + 1, 2 + n) \in Seq(Nat) /\ Len(SubSeq(w, 2 + 1, 2 + n)) = n
          /\ \A i \in 1..n : SubSeq(w, 2 + 1, 2 + n)[i] = w[2 + i]
      BY <3>1, Middle
    <3> QED BY <3>1, <3>2
  <2> DEFINE a == SubSeq(w, 3, 2 + n)
             c == cs[1]
  <2>2. a \in Seq(Nat) /\ c \in Seq(Nat) /\ Len(a) = Len(c) /\ \A i \in 1..Len(a) : a[i] = c[i]
    BY <1>4, <2>1
  <2> HIDE DEF a, c
  <2>3. a = c
    BY <2>2, Same
  <2> QED BY <2>3 DEF a, c
<1>7. Len(cs) \in Nat \ {0} /\ Len(d) + 1 <= Len(bs) /\ cs[1] = bs[Len(d) + 1]
  <2>1. Len(cs) \in Nat \ {0}
    BY <1>2, <1>4
  <2>2. 1 \in 1..(Len(bs) - Len(d)) /\ Len(d) + 1 <= Len(bs)
    BY <1>1, <1>2, <2>1
  <2> QED BY <1>2, <2>1, <2>2
<1>8. Drop(cs, 1) = Drop(bs, Len(d) + 1)
  BY <1>1, <1>7, DropTwice DEF cs
<1>9. IsPrefix(Append(d, cs[1]), bs)
  <2> DEFINE e == Append(d, cs[1])
  <2>1. e \in Seq(Seq(Nat)) /\ Len(e) = Len(d) + 1 /\ e[Len(d) + 1] = cs[1] /\ \A i \in 1..Len(d) : e[i] = d[i]
    BY <1>4
  <2>2. \A i \in 1..Len(d) : d[i] = bs[i]
    <3>1. Take(d, Len(d)) = Take(bs, Len(d))
      BY DEF OnTrack, IsPrefix, Take
    <3>2. \A i \in 1..Len(d) : Take(bs, Len(d))[i] = bs[i]
      BY <1>1, Cut
    <3>3. Len(d) \in 0..Len(d)
      BY <1>1
    <3>4. \A i \in 1..Len(d) : Take(d, Len(d))[i] = d[i]
      BY <3>3, Cut
    <3> QED BY <3>1, <3>2, <3>4
  <2> HIDE DEF e
  <2> DEFINE a == Take(e, Len(d) + 1)
             c == Take(bs, Len(d) + 1)
  <2>3. a \in Seq(Seq(Nat)) /\ Len(a) = Len(d) + 1 /\ \A i \in 1..(Len(d) + 1) : a[i] = e[i]
    <3>1. e \in Seq(Seq(Nat)) /\ Len(d) + 1 \in 0..Len(e)
      BY <1>1, <2>1
    <3> QED BY <3>1, Cut
  <2>4. c \in Seq(Seq(Nat)) /\ Len(c) = Len(d) + 1 /\ \A i \in 1..(Len(d) + 1) : c[i] = bs[i]
    <3>1. Len(d) + 1 \in 0..Len(bs)
      BY <1>1, <1>7
    <3> QED BY <3>1, Cut
  <2>5. \A i \in 1..(Len(d) + 1) : e[i] = bs[i]
    <3> SUFFICES ASSUME NEW i \in 1..(Len(d) + 1)
                 PROVE  e[i] = bs[i]
      OBVIOUS
    <3>1. i = Len(d) + 1 \/ i \in 1..Len(d)
      BY <1>1
    <3> QED BY <1>7, <2>1, <2>2, <3>1
  <2> HIDE DEF a, c
  <2>6. a = c
    BY <2>3, <2>4, <2>5, Same
  <2> QED BY <1>7, <2>1, <2>6 DEF IsPrefix, e, a, c, Take
<1>10. Len(Append(d, cs[1])) = Len(d) + 1
  BY <1>4
<1>11. OnTrack(Drop(w, 2 + n), Append(d, cs[1]), bs)
  BY <1>4, <1>8, <1>9, <1>10 DEF OnTrack
<1> QED BY <1>4, <1>5, <1>6, <1>11

-----------------------------------------------------------------------------
\* What the reader holds is a sequence of bytes.
LEMMA HeldType ==
    ASSUME StreamTypes
    PROVE  Held \in Seq(Nat) /\ Held \o stream \in Seq(Nat)
<1>1. zbuf.data \in Seq(Nat) /\ <<flow.size>> \in Seq(Nat) /\ flow.size \in Nat /\ flow.buf \in Seq(Nat) /\ stream \in Seq(Nat)
  BY DEF StreamTypes
<1>2. CASE flow.st = "pendingData"
  <2>1. flow.size % Base \in Nat /\ flow.size \div Base \in Nat
    BY <1>1, <1>2, SizeReadBack DEF StreamTypes
  <2>2. <<flow.size % Base, flow.size \div Base>> \o flow.buf \in Seq(Nat)
    BY <1>1, <2>1
  <2> QED BY <1>1, <1>2, <2>2 DEF Held
<1>3. CASE flow.st # "pendingData"
  BY <1>1, <1>3 DEF Held
<1> QED BY <1>2, <1>3

\* An empty stream, nothing handled.
LEMMA StreamStart == StreamInit => StreamInv
<1> SUFFICES ASSUME StreamInit
             PROVE  StreamInv
  OBVIOUS
<1>1. StreamTypes
  <2>1. << >> \in Seq(Nat) /\ << >> \in Seq(Seq(Nat))
    OBVIOUS
  <2>2. Empty \in [pos : Nat, data : Seq(Nat)]
    BY <2>1 DEF Empty
  <2>3. NoFlow \in [st : FlowStates, size : Nat, buf : Seq(Nat)] /\ NoFlow.st = "inactive"
    BY <2>1 DEF NoFlow, FlowStates
  <2> QED BY <2>1, <2>2, <2>3 DEF StreamInit, StreamTypes
<1>2. Held = << >> /\ Held \o stream = << >>
  BY DEF StreamInit, Held, Empty, NoFlow
<1> QED BY <1>1, <1>2, NothingSent DEF StreamInv, StreamInit

\* The other side sends a batch.
LEMMA SendStep ==
    ASSUME StreamInv, NEW n \in Sizes, Send(n)
    PROVE  StreamInv'
<1> DEFINE b == Batch(Len(sent) + 1, n)
           h == <<n % Base, n \div Base>>
<1>1. StreamTypes /\ UNCHANGED <<reader, zbuf, flow, remaining, delivered, slipped>>
  BY DEF StreamInv, Send
<1>2. n \in Nat /\ n < Base * Base
  BY StreamAssumption
<1>3. Len(sent) + 1 \in Nat /\ sent \in Seq(Seq(Nat)) /\ stream \in Seq(Nat) /\ delivered \in Seq(Seq(Nat))
  BY <1>1 DEF StreamTypes
<1>4. b \in Seq(Nat) /\ Len(b) = n
  BY <1>2, <1>3 DEF Batch
<1>5. h \in Seq(Nat)
  BY <1>2, SizeReadBack
<1>6. sent' = Append(sent, b) /\ stream' = (stream \o h) \o b
  BY DEF Send
<1> HIDE DEF b, h
<1>7. stream' = stream \o (h \o b) /\ stream' \in Seq(Nat) /\ sent' \in Seq(Seq(Nat))
  <2>1. stream \in Seq(Nat) /\ h \in Seq(Nat) /\ b \in Seq(Nat)
    BY <1>3, <1>4, <1>5
  <2>2. (stream \o h) \o b = stream \o (h \o b)
    BY <2>1, Associates, Zenon
  <2>3. h \o b \in Seq(Nat)
    BY <2>1
  <2>4. stream \o (h \o b) \in Seq(Nat)
    BY <2>1, <2>3
  <2> QED BY <1>3, <1>4, <1>6, <2>2, <2>4
<1>8. StreamTypes'
  BY <1>1, <1>7 DEF StreamTypes
<1>9. Held' = Held /\ Held \in Seq(Nat) /\ Held \o stream \in Seq(Nat) /\ h \o b \in Seq(Nat)
  BY <1>1, <1>4, <1>5, HeldType DEF Held
<1>10. Held' \o stream' = (Held \o stream) \o (h \o b)
  <2>1. (Held \o stream) \o (h \o b) = Held \o (stream \o (h \o b))
    BY <1>3, <1>9, Associates, Zenon
  <2> QED BY <1>7, <1>9, <2>1
<1>11. ~slipped => OnTrack((Held \o stream) \o (h \o b), delivered, sent')
  BY <1>2, <1>3, <1>4, <1>6, <1>9, TrackSend DEF StreamInv, h
<1> QED BY <1>1, <1>8, <1>10, <1>11 DEF StreamInv

-----------------------------------------------------------------------------
\* A whole batch at the start of what the reader has: x, before s.
LEMMA Handled ==
    ASSUME NEW x \in Seq(Nat), NEW s \in Seq(Nat), NEW d \in Seq(Seq(Nat)), NEW bs \in Seq(Seq(Nat)),
           OnTrack(x \o s, d, bs), NEW n \in Nat, n = SizeOf(x[1], x[2]), 2 + n <= Len(x)
    PROVE  OnTrack(Drop(x, 2 + n) \o s, Append(d, SubSeq(x, 3, 2 + n)), bs)
<1> DEFINE w == x \o s
<1>1. /\ w \in Seq(Nat) /\ Len(w) = Len(x) + Len(s) /\ Len(x) \in Nat /\ Len(s) \in Nat
      /\ \A i \in 1..Len(x) : w[i] = x[i]
  BY Joins
<1>2. Drop(w, 2 + n) = Drop(x, 2 + n) \o s
  <2>1. 2 + n \in 0..Len(x)
    BY <1>1
  <2> QED BY <2>1, DropJoined
<1> HIDE DEF w
<1>3. w[1] = x[1] /\ w[2] = x[2] /\ Len(w) >= 2
  <2>0. Len(x) \in Nat /\ Len(s) \in Nat
    BY <1>1
  <2>1. 1 \in 1..Len(x) /\ 2 \in 1..Len(x) /\ Len(x) + Len(s) >= 2
    BY <2>0
  <2> QED BY <1>1, <2>1
<1>4. OnTrack(Drop(w, 2 + n), Append(d, SubSeq(w, 3, 2 + n)), bs)
  <2>1. OnTrack(w, d, bs)
    BY DEF w
  <2>2. LET m == SizeOf(w[1], w[2])
        IN  /\ m \in Nat /\ m < Base * Base /\ 2 + m <= Len(w) /\ w[1] = m % Base /\ w[2] = m \div Base
            /\ OnTrack(Drop(w, 2 + m), Append(d, SubSeq(w, 3, 2 + m)), bs)
    BY <1>1, <1>3, <2>1, TrackDeliver, Zenon
  <2> QED BY <1>3, <2>2
<1>5. SubSeq(w, 3, 2 + n) = SubSeq(x, 3, 2 + n)
  <2>1. 2 \in Nat /\ 2 + n <= Len(w) /\ 2 + 1 = 3
    BY <1>1
  <2>2. /\ SubSeq(w, 2 + 1, 2 + n) \in Seq(Nat) /\ Len(SubSeq(w, 2 + 1, 2 + n)) = n
        /\ \A i \in 1..n : SubSeq(w, 2 + 1, 2 + n)[i] = w[2 + i]
    <3>1. w \in Seq(Nat)
      BY <1>1
    <3> QED BY <2>1, <3>1, Middle, Zenon
  <2>3. /\ SubSeq(x, 2 + 1, 2 + n) \in Seq(Nat) /\ Len(SubSeq(x, 2 + 1, 2 + n)) = n
        /\ \A i \in 1..n : SubSeq(x, 2 + 1, 2 + n)[i] = x[2 + i]
    BY <2>1, Middle, Zenon
  <2>4. \A i \in 1..n : w[2 + i] = x[2 + i]
    <3>1. \A i \in 1..n : 2 + i \in 1..Len(x)
      BY <1>1
    <3> QED BY <1>1, <3>1
  <2>5. SubSeq(w, 2 + 1, 2 + n) = SubSeq(x, 2 + 1, 2 + n)
    <3> DEFINE a == SubSeq(w, 2 + 1, 2 + n)
               b == SubSeq(x, 2 + 1, 2 + n)
    <3>1. a \in Seq(Nat) /\ b \in Seq(Nat) /\ Len(a) = Len(b) /\ \A i \in 1..Len(a) : a[i] = b[i]
      BY <2>2, <2>3, <2>4
    <3> HIDE DEF a, b
    <3>2. a = b
      BY <3>1, Same
    <3> QED BY <3>2 DEF a, b
  <2> QED BY <2>1, <2>5
<1> QED BY <1>2, <1>4, <1>5

Buffers == [pos : Nat, data : Seq(Nat)]

\* Making room moves the unread bytes and does not change them.
LEMMA RoomyKeeps ==
    ASSUME NEW b \in Buffers
    PROVE  /\ Compact(b) \in Buffers /\ Compact(b).data = b.data
           /\ \A n : Roomy(b, n) \in Buffers /\ Roomy(b, n).data = b.data
BY DEF Buffers, Compact, Roomy

\* _z_unicast_client_read: either the bytes stay, or the first batch is handled.
LEMMA ClientReads ==
    ASSUME StreamTypes, NEW b \in Buffers, NEW n \in Nat, NEW m \in Nat, n + m <= Len(stream), ClientReadFrom(b, n, m)
    PROVE  /\ stream' \in Seq(Nat) /\ zbuf' \in Buffers /\ UNCHANGED <<reader, sent, flow, remaining>>
           /\ \E x \in Seq(Nat) :
                 /\ x \o stream' = b.data \o stream
                 /\ \/ zbuf'.data = x /\ delivered' = delivered
                    \/ /\ Whole(x) /\ delivered' = Append(delivered, SubSeq(x, Hdr + 1, Hdr + BatchSize(x)))
                       /\ zbuf'.data = Drop(x, Hdr + BatchSize(x))
<1> DEFINE hdr    == Len(b.data) < Hdr
           roomy  == IF hdr THEN Roomy(b, Hdr) ELSE b
           first  == [roomy EXCEPT !.data = @ \o Take(stream, n)]
           body   == Len(first.data) >= Hdr /\ ~Whole(first.data)
           grown  == IF body THEN Roomy(first, Hdr + BatchSize(first.data) - Len(first.data)) ELSE first
           second == [grown EXCEPT !.data = @ \o SubSeq(stream, n + 1, n + m)]
<1>1. /\ stream' = Drop(stream, n + m)
      /\ \/ ~Whole(second.data) /\ zbuf' = PutBack(second) /\ UNCHANGED delivered
         \/ /\ Whole(second.data)
            /\ delivered' = Append(delivered, SubSeq(second.data, Hdr + 1, Hdr + BatchSize(second.data)))
            /\ LET rest == Skip(second, Hdr + BatchSize(second.data))
               IN  zbuf' \in {rest, Compact(rest)}
      /\ UNCHANGED <<reader, sent, flow, remaining>>
  BY DEF ClientReadFrom
<1>2. stream \in Seq(Nat) /\ Len(stream) \in Nat /\ n \in 0..Len(stream) /\ n + m \in 0..Len(stream)
  BY DEF StreamTypes
<1>3. roomy \in Buffers /\ roomy.data = b.data
  BY RoomyKeeps
<1>4. b.data \in Seq(Nat) /\ Take(stream, n) \in Seq(Nat) /\ SubSeq(stream, n + 1, n + m) \in Seq(Nat)
  <2>1. Take(stream, n) \in Seq(Nat)
    BY <1>2, Cut
  <2>2. SubSeq(stream, n + 1, n + m) \in Seq(Nat)
    BY <1>2, Middle
  <2> QED BY <2>1, <2>2 DEF Buffers
<1> HIDE DEF roomy
<1>5. first \in Buffers /\ first.data = b.data \o Take(stream, n)
  <2>1. roomy.data \o Take(stream, n) \in Seq(Nat)
    BY <1>3, <1>4
  <2> QED BY <1>3, <2>1 DEF Buffers
<1> HIDE DEF first
<1>6. grown \in Buffers /\ grown.data = first.data
  BY <1>5, RoomyKeeps
<1> HIDE DEF grown
<1>7. second \in Buffers /\ second.data = (b.data \o Take(stream, n)) \o SubSeq(stream, n + 1, n + m)
  <2>1. grown.data \in Seq(Nat)
    BY <1>6 DEF Buffers
  <2>2. grown.data \o SubSeq(stream, n + 1, n + m) \in Seq(Nat)
    BY <1>4, <2>1
  <2>3. second \in Buffers /\ second.data = grown.data \o SubSeq(stream, n + 1, n + m)
    BY <1>6, <2>2 DEF Buffers
  <2> QED BY <1>5, <1>6, <2>3
<1> HIDE DEF second
<1>8. stream' \in Seq(Nat)
  BY <1>1, <1>2, Cut
<1>9. second.data \o stream' = b.data \o stream
  <2> DEFINE t == Take(stream, n)
             u == SubSeq(stream, n + 1, n + m)
             v == Drop(stream, n + m)
             z == b.data
  <2>1. t \in Seq(Nat) /\ u \in Seq(Nat) /\ v \in Seq(Nat) /\ z \in Seq(Nat)
    BY <1>1, <1>4, <1>8
  <2>2. u \o v = Drop(stream, n)
    <3>1. u = Take(Drop(stream, n), m)
      <4>1. /\ u \in Seq(Nat) /\ Len(u) = m /\ \A i \in 1..m : u[i] = stream[n + i]
        BY <1>2, Middle
      <4>2. /\ Drop(stream, n) \in Seq(Nat) /\ Len(Drop(stream, n)) = Len(stream) - n
            /\ \A i \in 1..(Len(stream) - n) : Drop(stream, n)[i] = stream[n + i]
        BY <1>2, Cut
      <4>3. m \in 0..Len(Drop(stream, n))
        BY <1>2, <4>2
      <4>4. /\ Take(Drop(stream, n), m) \in Seq(Nat) /\ Len(Take(Drop(stream, n), m)) = m
            /\ \A i \in 1..m : Take(Drop(stream, n), m)[i] = Drop(stream, n)[i]
        <5>1. Drop(stream, n) \in Seq(Nat)
          BY <4>2
        <5>2. \A k \in 0..Len(Drop(stream, n)) :
                 /\ Take(Drop(stream, n), k) \in Seq(Nat) /\ Len(Take(Drop(stream, n), k)) = k
                 /\ \A i \in 1..k : Take(Drop(stream, n), k)[i] = Drop(stream, n)[i]
          BY <5>1, Cut
        <5> QED BY <4>3, <5>2
      <4>5. \A i \in 1..m : i \in 1..(Len(stream) - n)
        BY <1>2
      <4>6. \A i \in 1..m : u[i] = Take(Drop(stream, n), m)[i]
        BY <4>1, <4>2, <4>4, <4>5
      <4> HIDE DEF u
      <4> QED BY <4>1, <4>4, <4>6, Same
    <3>2. v = Drop(Drop(stream, n), m)
      BY <1>2, DropTwice
    <3>3. Drop(stream, n) \in Seq(Nat) /\ m \in 0..Len(Drop(stream, n))
      BY <1>2, Cut
    <3> QED BY <3>1, <3>2, <3>3, Rejoined
  <2>3. t \o Drop(stream, n) = stream
    BY <1>2, Rejoined
  <2> HIDE DEF t, u, v, z
  <2>4. ((z \o t) \o u) \o v = (z \o t) \o (u \o v)
    <3>1. z \o t \in Seq(Nat)
      BY <2>1
    <3> QED BY <2>1, <3>1, Associates, Zenon
  <2>5. (z \o t) \o (u \o v) = z \o (t \o (u \o v))
    <3>1. u \o v \in Seq(Nat)
      BY <2>1
    <3> QED BY <2>1, <3>1, Associates, Zenon
  <2> QED BY <1>1, <1>7, <2>2, <2>3, <2>4, <2>5 DEF t, u, v, z
<1>10. CASE ~Whole(second.data)
  <2>1. zbuf' = Compact(second) /\ delivered' = delivered
    BY <1>1, <1>10 DEF PutBack
  <2>2. zbuf' \in Buffers /\ zbuf'.data = second.data
    BY <1>7, <2>1, RoomyKeeps
  <2> QED BY <1>1, <1>7, <1>8, <1>9, <2>1, <2>2 DEF Buffers
<1>11. CASE Whole(second.data)
  <2> DEFINE size == BatchSize(second.data)
             rest == Skip(second, Hdr + size)
  <2>1. second.data \in Seq(Nat) /\ Len(second.data) \in Nat /\ second.pos \in Nat
    <3>1. second.data \in Seq(Nat) /\ second.pos \in Nat
      BY <1>7 DEF Buffers
    <3> QED BY <3>1
  <2>2. Len(second.data) >= Hdr /\ Len(second.data) >= Hdr + size
    BY <1>11 DEF Whole
  <2>3. second.data[1] \in Nat /\ second.data[2] \in Nat
    <3>1. second.data \in Seq(Nat) /\ 1 \in 1..Len(second.data) /\ 2 \in 1..Len(second.data)
      BY <2>1, <2>2 DEF Hdr
    <3> QED BY <3>1
  <2>4. size \in Nat
    BY <2>3, SizeType DEF BatchSize
  <2> HIDE DEF size
  <2>5. Hdr + size \in 0..Len(second.data) /\ second.pos + (Hdr + size) \in Nat
    BY <2>1, <2>2, <2>4 DEF Hdr
  <2>6. Drop(second.data, Hdr + size) \in Seq(Nat)
    BY <2>1, <2>5, Cut
  <2>7. rest \in Buffers /\ rest.data = Drop(second.data, Hdr + size)
    BY <2>5, <2>6 DEF Skip, Buffers
  <2>8. zbuf' \in {rest, Compact(rest)} /\ delivered' = Append(delivered, SubSeq(second.data, Hdr + 1, Hdr + size))
    BY <1>1, <1>11 DEF size
  <2> HIDE DEF rest
  <2>9. zbuf' \in Buffers /\ zbuf'.data = Drop(second.data, Hdr + size)
    BY <2>7, <2>8, RoomyKeeps
  <2> QED BY <1>1, <1>8, <1>9, <1>11, <2>1, <2>8, <2>9 DEF size
<1> QED BY <1>10, <1>11

\* One call of a client's read task or of zp_read.
LEMMA ClientStep ==
    ASSUME StreamInv, ClientRead
    PROVE  StreamInv'
<1>1. PICK p \in Receives : ClientReadFrom(Start, p[1], p[2])
  BY DEF ClientRead
<1>2. /\ StreamTypes /\ reader # "peer" /\ slipped' = (slipped \/ Start.data # zbuf.data)
      /\ stream \in Seq(Nat) /\ zbuf \in Buffers /\ delivered \in Seq(Seq(Nat)) /\ sent \in Seq(Seq(Nat))
  BY DEF StreamInv, StreamTypes, ClientRead, Buffers
<1>3. p[1] \in Nat /\ p[2] \in Nat /\ p[1] + p[2] <= Len(stream)
  BY <1>2 DEF Receives, Received
<1>4. Start \in Buffers
  <2>1. Empty \in Buffers
    BY DEF Empty, Buffers
  <2> QED BY <1>2, <2>1 DEF Start
<1>5. /\ stream' \in Seq(Nat) /\ zbuf' \in Buffers /\ UNCHANGED <<reader, sent, flow, remaining>>
      /\ \E x \in Seq(Nat) :
            /\ x \o stream' = Start.data \o stream
            /\ \/ zbuf'.data = x /\ delivered' = delivered
               \/ /\ Whole(x) /\ delivered' = Append(delivered, SubSeq(x, Hdr + 1, Hdr + BatchSize(x)))
                  /\ zbuf'.data = Drop(x, Hdr + BatchSize(x))
  BY <1>1, <1>2, <1>3, <1>4, ClientReads, Zenon
<1>6. PICK x \in Seq(Nat) :
            /\ x \o stream' = Start.data \o stream
            /\ \/ zbuf'.data = x /\ delivered' = delivered
               \/ /\ Whole(x) /\ delivered' = Append(delivered, SubSeq(x, Hdr + 1, Hdr + BatchSize(x)))
                  /\ zbuf'.data = Drop(x, Hdr + BatchSize(x))
  BY <1>5
<1>7. Held = zbuf.data /\ Held' = zbuf'.data
  BY <1>2, <1>5 DEF Held
<1>8. ~slipped' => ~slipped /\ OnTrack(x \o stream', delivered, sent)
  BY <1>2, <1>6, <1>7 DEF StreamInv
<1>9. slipped' \in BOOLEAN
  BY <1>2
<1>10. remaining = FALSE /\ remaining' = FALSE
  BY <1>2, <1>5 DEF StreamTypes
<1>11. CASE zbuf'.data = x /\ delivered' = delivered
  <2>1. ~slipped' => OnTrack(Held' \o stream', delivered', sent')
    BY <1>5, <1>7, <1>8, <1>11
  <2>2. StreamTypes'
    BY <1>2, <1>5, <1>9, <1>10, <1>11 DEF StreamTypes, Buffers
  <2> QED BY <2>1, <2>2 DEF StreamInv
<1>12. CASE /\ Whole(x) /\ delivered' = Append(delivered, SubSeq(x, Hdr + 1, Hdr + BatchSize(x)))
            /\ zbuf'.data = Drop(x, Hdr + BatchSize(x))
  <2> DEFINE size == BatchSize(x)
  <2>1. Len(x) \in Nat /\ Len(x) >= 2 /\ Len(x) >= 2 + size
    BY <1>12 DEF Whole, Hdr
  <2>2. x[1] \in Nat /\ x[2] \in Nat
    BY <2>1
  <2>3. size \in Nat /\ size = SizeOf(x[1], x[2])
    BY <2>2, SizeType DEF BatchSize
  <2> HIDE DEF size
  <2>4. delivered' = Append(delivered, SubSeq(x, 3, 2 + size)) /\ zbuf'.data = Drop(x, 2 + size)
    BY <1>12 DEF size, Hdr
  <2>5. 2 + size <= Len(x)
    BY <2>1, <2>3
  <2>6. ~slipped' => OnTrack(Drop(x, 2 + size) \o stream', Append(delivered, SubSeq(x, 3, 2 + size)), sent)
    BY <1>2, <1>5, <1>8, <2>3, <2>5, Handled
  <2>7. SubSeq(x, 3, 2 + size) \in Seq(Nat)
    <3>1. 2 \in Nat /\ 2 + 1 = 3
      OBVIOUS
    <3>2. SubSeq(x, 2 + 1, 2 + size) \in Seq(Nat)
      BY <2>3, <2>5, <3>1, Middle, Zenon
    <3> QED BY <3>1, <3>2
  <2>8. delivered' \in Seq(Seq(Nat))
    BY <1>2, <2>4, <2>7
  <2>9. StreamTypes'
    BY <1>2, <1>5, <1>9, <1>10, <2>8 DEF StreamTypes, Buffers
  <2> QED BY <1>5, <1>7, <2>4, <2>6, <2>9 DEF StreamInv
<1> QED BY <1>6, <1>11, <1>12

-----------------------------------------------------------------------------
Flows == [st : FlowStates, size : Nat, buf : Seq(Nat)]

\* The peer's task has x, which starts with the size of a batch.
LEMMA BodyStep ==
    ASSUME StreamTypes, reader = "peer", UNCHANGED <<reader, sent>>, stream' \in Seq(Nat),
           NEW x \in Seq(Nat), Len(x) >= 2, NEW size, size = SizeOf(x[1], x[2]),
           ~slipped => OnTrack(x \o stream', delivered, sent),
           NEW f \in Flows, f.st \in {"inactive", "pendingSize"}, Body(f, size, Drop(x, 2))
    PROVE  StreamInv'
<1> DEFINE y == Drop(x, 2)
<1>1. x[1] \in Nat /\ x[2] \in Nat /\ Len(x) \in Nat /\ 2 \in 0..Len(x)
  OBVIOUS
<1>2. size \in Nat /\ size < Base * Base
  BY <1>1, SizeType
<1>3. y \in Seq(Nat) /\ Len(y) = Len(x) - 2 /\ \A i \in 1..(Len(x) - 2) : y[i] = x[2 + i]
  BY <1>1, Cut
<1>4. delivered \in Seq(Seq(Nat)) /\ sent \in Seq(Seq(Nat)) /\ slipped \in BOOLEAN /\ << >> \in Seq(Nat)
  BY DEF StreamTypes
<1>5. Body(f, size, y)
  OBVIOUS
<1> HIDE DEF y
<1>6. CASE Len(y) < size /\ flow' = [st |-> "pendingData", size |-> size, buf |-> y]
           /\ zbuf' = Empty /\ remaining' = FALSE /\ UNCHANGED <<delivered, slipped>>
  <2>1. flow' \in Flows /\ flow'.st = "pendingData" /\ flow'.size = size /\ flow'.buf = y
    BY <1>2, <1>3, <1>6 DEF Flows, FlowStates
  <2>2. StreamTypes'
    BY <1>2, <1>4, <1>6, <2>1 DEF StreamTypes, Empty, Flows
  <2>3. Held' = <<size % Base, size \div Base>> \o y
    BY <1>6, <2>1 DEF Held
  <2>4. ASSUME ~slipped
        PROVE  Held' = x
    <3>1. x \o stream' \in Seq(Nat) /\ Len(x \o stream') >= 2 /\ (x \o stream')[1] = x[1] /\ (x \o stream')[2] = x[2]
      <4>1. /\ x \o stream' \in Seq(Nat) /\ Len(x \o stream') = Len(x) + Len(stream') /\ Len(stream') \in Nat
            /\ \A i \in 1..Len(x) : (x \o stream')[i] = x[i]
        BY Joins
      <4>2. 1 \in 1..Len(x) /\ 2 \in 1..Len(x) /\ Len(x) + Len(stream') >= 2
        BY <1>1, <4>1
      <4> QED BY <4>1, <4>2
    <3> DEFINE w == x \o stream'
    <3>2. w \in Seq(Nat) /\ Len(w) >= 2 /\ OnTrack(w, delivered, sent) /\ w[1] = x[1] /\ w[2] = x[2]
      BY <2>4, <3>1
    <3> HIDE DEF w
    <3>3. LET n == SizeOf(w[1], w[2])
          IN  /\ n \in Nat /\ n < Base * Base /\ 2 + n <= Len(w) /\ w[1] = n % Base /\ w[2] = n \div Base
              /\ OnTrack(Drop(w, 2 + n), Append(delivered, SubSeq(w, 3, 2 + n)), sent)
      BY <1>4, <3>2, TrackDeliver, Zenon
    <3>4. x[1] = size % Base /\ x[2] = size \div Base
      BY <3>2, <3>3
    <3>5. <<x[1], x[2]>> = Take(x, 2)
      BY <1>1 DEF Take
    <3> QED BY <1>1, <2>3, <3>4, <3>5, Rejoined DEF y
  <2> QED BY <1>6, <2>2, <2>4 DEF StreamInv
<1>7. CASE /\ Len(y) >= size /\ delivered' = Append(delivered, Take(y, size))
           /\ zbuf' = [Empty EXCEPT !.data = Drop(y, size)] /\ remaining' = (Drop(y, size) # << >>)
           /\ slipped' = (slipped \/ (Drop(y, size) = << >> /\ f.st = "pendingSize")) /\ flow' = f
  <2>1. size \in 0..Len(y) /\ 2 + size <= Len(x) /\ 2 + 1 = 3 /\ 2 \in Nat
    BY <1>1, <1>2, <1>3, <1>7
  <2>2. /\ Take(y, size) \in Seq(Nat) /\ Len(Take(y, size)) = size /\ \A i \in 1..size : Take(y, size)[i] = y[i]
        /\ Drop(y, size) \in Seq(Nat)
    <3>1. y \in Seq(Nat) /\ size \in 0..Len(y)
      BY <1>3, <2>1
    <3> QED BY <3>1, Cut
  <2>3. Take(y, size) = SubSeq(x, 3, 2 + size)
    <3>1. /\ SubSeq(x, 2 + 1, 2 + size) \in Seq(Nat) /\ Len(SubSeq(x, 2 + 1, 2 + size)) = size
          /\ \A i \in 1..size : SubSeq(x, 2 + 1, 2 + size)[i] = x[2 + i]
      BY <1>2, <2>1, Middle, Zenon
    <3>2. \A i \in 1..size : i \in 1..(Len(x) - 2)
      BY <1>1, <1>2, <2>1
    <3> DEFINE a == Take(y, size)
               b == SubSeq(x, 2 + 1, 2 + size)
    <3>3. a \in Seq(Nat) /\ b \in Seq(Nat) /\ Len(a) = Len(b) /\ \A i \in 1..Len(a) : a[i] = b[i]
      BY <1>3, <2>2, <3>1, <3>2
    <3> HIDE DEF a, b
    <3>4. a = b
      BY <3>3, Same
    <3> QED BY <2>1, <3>4 DEF a, b
  <2>4. Drop(y, size) = Drop(x, 2 + size)
    BY <1>2, <2>1, DropTwice DEF y
  <2>5. ~slipped => OnTrack(Drop(x, 2 + size) \o stream', delivered', sent)
    BY <1>2, <1>4, <1>7, <2>1, <2>3, Handled
  <2>6. zbuf' \in Buffers /\ zbuf'.data = Drop(y, size) /\ flow' \in Flows /\ flow'.st = f.st
    BY <1>7, <2>2 DEF Empty, Buffers
  <2>7. delivered' \in Seq(Seq(Nat))
    BY <1>4, <1>7, <2>2
  <2>8. StreamTypes'
    BY <1>4, <1>7, <2>6, <2>7 DEF StreamTypes, Buffers, Flows
  <2>9. ~slipped' => ~slipped /\ Held' = Drop(y, size)
    <3>1. CASE Drop(y, size) = << >>
      BY <1>7, <2>6, <3>1 DEF Held
    <3>2. CASE Drop(y, size) # << >>
      BY <1>7, <2>6, <3>2 DEF Held
    <3> QED BY <3>1, <3>2
  <2> QED BY <2>4, <2>5, <2>8, <2>9 DEF StreamInv
<1> QED BY <1>5, <1>6, <1>7 DEF Body

\* The peer's task has data, at the start of a batch.
LEMMA HeaderStep ==
    ASSUME StreamTypes, reader = "peer", UNCHANGED <<reader, sent>>, stream' \in Seq(Nat),
           NEW data \in Seq(Nat), data # << >>, ~slipped => OnTrack(data \o stream', delivered, sent),
           NEW f \in Flows, f.st \in {"inactive", "pendingSize"}, AtHeader(f, data)
    PROVE  StreamInv'
<1>1. Len(data) \in Nat /\ Len(data) # 0 /\ data[1] \in Nat
  OBVIOUS
<1>2. CASE /\ Len(data) < Hdr /\ flow' = [f EXCEPT !.st = "pendingSize", !.size = data[1]]
           /\ zbuf' = Empty /\ remaining' = FALSE /\ UNCHANGED <<delivered, slipped>>
  <2>1. flow' \in Flows /\ flow'.st = "pendingSize" /\ flow'.size = data[1]
    BY <1>1, <1>2 DEF Flows, FlowStates
  <2>2. Len(data) = 1
    <3>1. Len(data) < 2 /\ Len(data) \in Nat /\ Len(data) # 0
      BY <1>1, <1>2 DEF Hdr
    <3>2. \A n \in Nat : n < 2 /\ n # 0 => n = 1
      OBVIOUS
    <3> QED BY <3>1, <3>2, Zenon
  <2>3. data = <<data[1]>>
    BY <2>2
  <2>4. Held' = data
    BY <1>2, <2>1, <2>3 DEF Held
  <2>5. << >> \in Seq(Nat) /\ delivered \in Seq(Seq(Nat)) /\ sent \in Seq(Seq(Nat)) /\ slipped \in BOOLEAN
    BY DEF StreamTypes
  <2>6. StreamTypes'
    BY <1>2, <2>1, <2>5 DEF StreamTypes, Empty, Flows
  <2> QED BY <1>2, <2>4, <2>6 DEF StreamInv
<1>3. CASE Len(data) >= Hdr /\ Body(f, BatchSize(data), Drop(data, Hdr))
  <2>1. Len(data) >= 2 /\ Body(f, BatchSize(data), Drop(data, 2)) /\ BatchSize(data) = SizeOf(data[1], data[2])
    BY <1>3 DEF Hdr, BatchSize
  <2> QED BY <2>1, BodyStep
<1> QED BY <1>2, <1>3 DEF AtHeader

\* _z_unicast_handle_remaining_data: what another batch left in zbuf.
LEMMA RemainingStep ==
    ASSUME StreamInv, reader = "peer", PeerRemaining
    PROVE  StreamInv'
<1>1. remaining /\ AtHeader(flow, zbuf.data) /\ UNCHANGED <<reader, sent, stream>> /\ StreamTypes
  BY DEF PeerRemaining, StreamInv
<1>2. /\ zbuf.data \in Seq(Nat) /\ zbuf.data # << >> /\ stream' \in Seq(Nat)
      /\ flow \in Flows /\ flow.st \in {"inactive", "pendingSize"}
  BY <1>1 DEF StreamTypes, Flows
<1>3. ~slipped => OnTrack(zbuf.data \o stream', delivered, sent)
  BY <1>1 DEF StreamInv, Held
<1> QED BY <1>1, <1>2, <1>3, HeaderStep

\* A receive of the peer's task, in each state of the flow.
LEMMA PeerReadStep ==
    ASSUME StreamInv, reader = "peer", PeerRead
    PROVE  StreamInv'
<1>1. PICK n \in Received(BufSize) \ {0} :
          /\ PeerReadInactive(n) \/ PeerReadSize(n) \/ PeerReadData(n)
          /\ stream' = Drop(stream, n) /\ UNCHANGED <<reader, sent>>
  BY DEF PeerRead
<1>2. /\ ~remaining /\ StreamTypes /\ stream \in Seq(Nat) /\ flow \in Flows
      /\ delivered \in Seq(Seq(Nat)) /\ sent \in Seq(Seq(Nat)) /\ slipped \in BOOLEAN
  BY DEF PeerRead, StreamInv, StreamTypes, Flows
<1>3. n \in Nat /\ n # 0 /\ n \in 0..Len(stream) /\ Len(stream) \in Nat
  BY <1>1, <1>2 DEF Received
<1> DEFINE t == Take(stream, n)
           u == Drop(stream, n)
<1>4. /\ t \in Seq(Nat) /\ Len(t) = n /\ \A i \in 1..n : t[i] = stream[i]
      /\ u \in Seq(Nat)
  BY <1>2, <1>3, Cut
<1>5. t \o u = stream
  BY <1>2, <1>3, Rejoined
<1>6. stream' = u
  BY <1>1
<1>7. CASE PeerReadInactive(n)
  <2>1. Held = << >>
    BY <1>2, <1>7 DEF Held, PeerReadInactive
  <2>2. Held \o stream = stream
    BY <1>2, <2>1
  <2>3. AtHeader(NoFlow, t)
    BY <1>7 DEF PeerReadInactive
  <2> HIDE DEF t, u
  <2>4. t # << >>
    BY <1>3, <1>4
  <2>5. NoFlow \in Flows /\ NoFlow.st = "inactive"
    <3>1. << >> \in Seq(Nat)
      OBVIOUS
    <3> QED BY <3>1 DEF NoFlow, Flows, FlowStates
  <2>6. ~slipped => OnTrack(t \o stream', delivered, sent)
    BY <1>5, <1>6, <2>2 DEF StreamInv
  <2> QED BY <1>1, <1>2, <1>4, <1>6, <2>3, <2>4, <2>5, <2>6, HeaderStep
<1>8. CASE PeerReadSize(n)
  <2> DEFINE x == <<flow.size>> \o t
             size == SizeOf(flow.size, stream[1])
             f == [flow EXCEPT !.size = size]
  <2>1. flow.st = "pendingSize" /\ Body(f, f.size, SubSeq(stream, 2, n))
    BY <1>8 DEF PeerReadSize
  <2>2. flow.size \in Nat /\ stream[1] \in Nat /\ <<flow.size>> \in Seq(Nat) /\ Len(<<flow.size>>) = 1 /\ <<flow.size>>[1] = flow.size
    BY <1>2, <1>3 DEF Flows
  <2>3. size \in Nat
    BY <2>2, SizeType
  <2>4. f \in Flows /\ f.st = "pendingSize" /\ f.size = size
    BY <1>2, <2>1, <2>3 DEF Flows
  <2> HIDE DEF t, u, size, f
  <2> DEFINE a == <<flow.size>>
  <2>5. /\ a \o t \in Seq(Nat) /\ Len(a \o t) = 1 + n /\ (a \o t)[1] = flow.size /\ \A i \in 1..n : (a \o t)[1 + i] = t[i]
    <3>1. a \in Seq(Nat) /\ Len(a) = 1 /\ a[1] = flow.size
      BY <2>2
    <3> HIDE DEF a
    <3>2. /\ a \o t \in Seq(Nat) /\ Len(a \o t) = Len(a) + Len(t) /\ \A i \in 1..Len(a) : (a \o t)[i] = a[i]
          /\ \A i \in (Len(a) + 1)..(Len(a) + Len(t)) : (a \o t)[i] = t[i - Len(a)]
      <4>1. a \in Seq(Nat) /\ t \in Seq(Nat)
        BY <1>4, <3>1
      <4> QED BY <4>1, Joins
    <3>3. \A i \in 1..n : 1 + i \in (1 + 1)..(1 + n) /\ (1 + i) - 1 = i
      BY <1>3
    <3>4. Len(a) = 1 /\ Len(t) = n /\ 1 \in 1..1
      BY <1>4, <3>1
    <3>5. Len(a \o t) = 1 + n /\ (a \o t)[1] = flow.size
      BY <3>1, <3>2, <3>4
    <3>6. ASSUME NEW i \in 1..n
          PROVE  (a \o t)[1 + i] = t[i]
      BY <3>2, <3>3, <3>4
    <3> QED BY <3>2, <3>5, <3>6
  <2> HIDE DEF a, x
  <2>6. x \in Seq(Nat) /\ Len(x) = 1 + n /\ x[1] = flow.size /\ (\A i \in 1..n : x[1 + i] = t[i]) /\ Len(x) >= 2
    BY <1>3, <2>5 DEF x, a
  <2>7. x[2] = stream[1]
    <3>1. 1 \in 1..n /\ 1 + 1 = 2
      BY <1>3
    <3> QED BY <1>4, <2>6, <3>1
  <2>8. Drop(x, 2) = SubSeq(stream, 2, n)
    <3>1. 2 \in 0..Len(x) /\ Len(x) - 2 = n - 1 /\ n - 1 \in Nat /\ 1 \in Nat /\ 1 + (n - 1) = n /\ 1 + 1 = 2 /\ 1 + (n - 1) <= Len(stream)
      BY <1>3, <2>6
    <3>2. /\ Drop(x, 2) \in Seq(Nat) /\ Len(Drop(x, 2)) = n - 1 /\ \A i \in 1..(n - 1) : Drop(x, 2)[i] = x[2 + i]
      <4>1. x \in Seq(Nat) /\ 2 \in 0..Len(x)
        BY <2>6, <3>1
      <4>2. /\ Drop(x, 2) \in Seq(Nat) /\ Len(Drop(x, 2)) = Len(x) - 2
            /\ \A i \in 1..(Len(x) - 2) : Drop(x, 2)[i] = x[2 + i]
        <5>1. \A k \in 0..Len(x) : /\ Drop(x, k) \in Seq(Nat) /\ Len(Drop(x, k)) = Len(x) - k
                                  /\ \A i \in 1..(Len(x) - k) : Drop(x, k)[i] = x[k + i]
          BY <4>1, Cut
        <5> QED BY <4>1, <5>1
      <4> QED BY <3>1, <4>2
    <3>3. /\ SubSeq(stream, 1 + 1, 1 + (n - 1)) \in Seq(Nat) /\ Len(SubSeq(stream, 1 + 1, 1 + (n - 1))) = n - 1
          /\ \A i \in 1..(n - 1) : SubSeq(stream, 1 + 1, 1 + (n - 1))[i] = stream[1 + i]
      BY <1>2, <3>1, Middle, Zenon
    <3>4. \A i \in 1..(n - 1) : 2 + i = 1 + (1 + i) /\ 1 + i \in 1..n
      BY <1>3
    <3>5. \A i \in 1..(n - 1) : x[2 + i] = stream[1 + i]
      BY <1>4, <2>6, <3>4
    <3> DEFINE b == Drop(x, 2)
               c == SubSeq(stream, 1 + 1, 1 + (n - 1))
    <3>6. b \in Seq(Nat) /\ c \in Seq(Nat) /\ Len(b) = Len(c) /\ \A i \in 1..Len(b) : b[i] = c[i]
      BY <3>2, <3>3, <3>5
    <3> HIDE DEF b, c
    <3>7. b = c
      BY <3>6, Same
    <3> QED BY <3>1, <3>7 DEF b, c
  <2>9. ~slipped => OnTrack(x \o stream', delivered, sent)
    <3>1. Held = a
      BY <1>2, <2>1 DEF Held, a
    <3>2. a \in Seq(Nat)
      BY <2>2 DEF a
    <3>3. (a \o t) \o u = a \o (t \o u)
      BY <1>4, <3>2, Associates, Zenon
    <3> QED BY <1>5, <1>6, <3>1, <3>3 DEF StreamInv, x, a
  <2>10. size = SizeOf(x[1], x[2]) /\ Body(f, size, Drop(x, 2))
    BY <2>1, <2>4, <2>6, <2>7, <2>8 DEF size
  <2> QED BY <1>1, <1>2, <1>4, <1>6, <2>4, <2>6, <2>9, <2>10, BodyStep
<1>9. CASE PeerReadData(n)
  <2> DEFINE h == <<flow.size % Base, flow.size \div Base>>
             buf == flow.buf \o t
             size == flow.size
  <2>1. /\ flow.st = "pendingData" /\ n <= size - Len(flow.buf) /\ UNCHANGED <<zbuf, remaining, slipped>>
        /\ \/ Len(buf) < size /\ flow' = [flow EXCEPT !.buf = buf] /\ UNCHANGED delivered
           \/ /\ Len(buf) = size /\ flow' = [flow EXCEPT !.buf = buf, !.st = "ready"]
              /\ delivered' = Append(delivered, buf)
    BY <1>9 DEF PeerReadData
  <2>2. flow.buf \in Seq(Nat) /\ size \in Nat /\ size < Base * Base /\ Len(flow.buf) < size
    BY <1>2, <2>1 DEF StreamTypes, Flows
  <2>3. h \in Seq(Nat) /\ Len(h) = 2 /\ h[1] = size % Base /\ h[2] = size \div Base /\ SizeOf(h[1], h[2]) = size
    BY <2>2, SizeReadBack
  <2>4. buf \in Seq(Nat)
    BY <1>4, <2>2
  <2>5. Held = h \o flow.buf
    BY <1>2, <2>1 DEF Held
  <2> HIDE DEF t, u, h, buf
  <2>6. (h \o buf) \o u = Held \o stream
    <3>1. (h \o flow.buf) \o t = h \o buf
      BY <1>4, <2>2, <2>3, Associates, Zenon DEF buf
    <3>2. h \o flow.buf \in Seq(Nat)
      BY <2>2, <2>3
    <3>3. ((h \o flow.buf) \o t) \o u = (h \o flow.buf) \o (t \o u)
      BY <1>4, <3>2, Associates, Zenon
    <3> QED BY <1>5, <2>5, <3>1, <3>3
  <2>7. ~slipped => OnTrack((h \o buf) \o stream', delivered, sent)
    BY <1>6, <2>6 DEF StreamInv
  <2>8. CASE Len(buf) < size /\ flow' = [flow EXCEPT !.buf = buf] /\ UNCHANGED delivered
    <3>1. flow' \in Flows /\ flow'.st = "pendingData" /\ flow'.size = size /\ flow'.buf = buf
      BY <1>2, <2>1, <2>4, <2>8 DEF Flows
    <3>2. StreamTypes'
      BY <1>1, <1>2, <1>4, <1>6, <2>1, <2>2, <2>8, <3>1 DEF StreamTypes, Flows
    <3>3. Held' = h \o buf
      BY <1>1, <1>2, <2>1, <3>1 DEF Held, h
    <3> QED BY <1>1, <2>1, <2>7, <2>8, <3>2, <3>3 DEF StreamInv
  <2>9. CASE /\ Len(buf) = size /\ flow' = [flow EXCEPT !.buf = buf, !.st = "ready"]
             /\ delivered' = Append(delivered, buf)
    <3>1. flow' \in Flows /\ flow'.st = "ready"
      BY <1>2, <2>4, <2>9 DEF Flows, FlowStates
    <3>2. delivered' \in Seq(Seq(Nat))
      BY <1>2, <2>4, <2>9
    <3>3. StreamTypes'
      BY <1>1, <1>2, <1>4, <1>6, <2>1, <3>1, <3>2 DEF StreamTypes, Flows
    <3>4. Held' = << >>
      BY <1>1, <1>2, <2>1, <3>1 DEF Held
    <3> DEFINE x == h \o buf
    <3>5. /\ x \in Seq(Nat) /\ Len(x) = 2 + size /\ x[1] = h[1] /\ x[2] = h[2] /\ Len(x) \in Nat
          /\ \A i \in 1..size : x[2 + i] = buf[i]
      <4>1. /\ h \o buf \in Seq(Nat) /\ Len(h \o buf) = Len(h) + Len(buf) /\ \A i \in 1..Len(h) : (h \o buf)[i] = h[i]
            /\ \A i \in (Len(h) + 1)..(Len(h) + Len(buf)) : (h \o buf)[i] = buf[i - Len(h)]
        <5>1. h \in Seq(Nat) /\ buf \in Seq(Nat)
          BY <2>3, <2>4
        <5> QED BY <5>1, Joins
      <4> HIDE DEF x
      <4>2. /\ x \in Seq(Nat) /\ Len(x) = Len(h) + Len(buf) /\ \A i \in 1..Len(h) : x[i] = h[i]
            /\ \A i \in (Len(h) + 1)..(Len(h) + Len(buf)) : x[i] = buf[i - Len(h)]
        BY <4>1 DEF x
      <4>3. \A i \in 1..size : 2 + i \in (2 + 1)..(2 + size) /\ (2 + i) - 2 = i
        BY <2>2
      <4>4. Len(h) = 2 /\ Len(buf) = size /\ 1 \in 1..2 /\ 2 \in 1..2
        BY <2>3, <2>9
      <4>5. Len(x) = 2 + size /\ x[1] = h[1] /\ x[2] = h[2] /\ 2 + size \in Nat
        BY <2>2, <4>2, <4>4
      <4>6. ASSUME NEW i \in 1..size
            PROVE  x[2 + i] = buf[i]
        BY <4>2, <4>3, <4>4
      <4> QED BY <4>2, <4>5, <4>6
    <3> HIDE DEF x
    <3>6. SubSeq(x, 3, 2 + size) = buf
      <4>1. 2 \in Nat /\ 2 + 1 = 3 /\ 2 + size <= Len(x)
        BY <2>2, <3>5
      <4>2. /\ SubSeq(x, 2 + 1, 2 + size) \in Seq(Nat) /\ Len(SubSeq(x, 2 + 1, 2 + size)) = size
            /\ \A i \in 1..size : SubSeq(x, 2 + 1, 2 + size)[i] = x[2 + i]
        BY <2>2, <3>5, <4>1, Middle, Zenon
      <4> DEFINE c == SubSeq(x, 2 + 1, 2 + size)
      <4>3. c \in Seq(Nat) /\ Len(c) = Len(buf) /\ \A i \in 1..Len(c) : c[i] = buf[i]
        BY <2>9, <3>5, <4>2
      <4> HIDE DEF c
      <4>4. c = buf
        BY <2>4, <4>3, Same
      <4> QED BY <4>1, <4>4 DEF c
    <3>7. Drop(x, 2 + size) = << >>
      <4>1. 2 + size \in 0..Len(x) /\ Len(x) - (2 + size) = 0
        BY <2>2, <3>5
      <4>2. Drop(x, 2 + size) \in Seq(Nat) /\ Len(Drop(x, 2 + size)) = 0
        <5>1. x \in Seq(Nat)
          BY <3>5
        <5>2. \A k \in 0..Len(x) : Drop(x, k) \in Seq(Nat) /\ Len(Drop(x, k)) = Len(x) - k
          BY <5>1, Cut
        <5> QED BY <4>1, <5>2
      <4> QED BY <4>2
    <3>8. ~slipped => OnTrack(Drop(x, 2 + size) \o stream', Append(delivered, SubSeq(x, 3, 2 + size)), sent)
      <4>1. stream' \in Seq(Nat) /\ 2 + size <= Len(x) /\ size = SizeOf(x[1], x[2])
        BY <1>4, <1>6, <2>2, <2>3, <3>5
      <4>2. ~slipped => OnTrack(x \o stream', delivered, sent)
        BY <2>7 DEF x
      <4> QED BY <1>2, <2>2, <3>5, <4>1, <4>2, Handled
    <3> QED BY <1>1, <2>1, <2>9, <3>3, <3>4, <3>6, <3>7, <3>8 DEF StreamInv
  <2> QED BY <2>1, <2>8, <2>9
<1> QED BY <1>1, <1>7, <1>8, <1>9

\* The batches that a reader of a stream hands on are those sent, in order, however
\* the stream is cut into receives, with the exceptions that Framed names
\* (transport/unicast/read.c).
THEOREM FramedAlways == StreamSpec => []Framed
<1>1. StreamInv /\ [StreamNext]_streamVars => StreamInv'
  <2> SUFFICES ASSUME StreamInv, [StreamNext]_streamVars
               PROVE  StreamInv'
    OBVIOUS
  <2>1. ASSUME NEW n \in Sizes, Send(n)
        PROVE  StreamInv'
    BY <2>1, SendStep
  <2>2. CASE ClientRead
    BY <2>2, ClientStep
  <2>3. CASE PeerStep
    BY <2>3, PeerReadStep, RemainingStep DEF PeerStep
  <2>4. CASE UNCHANGED streamVars
    BY <2>4 DEF streamVars, StreamInv, StreamTypes, Held
  <2> QED BY <2>1, <2>2, <2>3, <2>4 DEF StreamNext
<1>2. StreamInv => Framed
  BY DEF StreamInv, OnTrack, Framed
<1> QED BY <1>1, <1>2, StreamStart, PTL DEF StreamSpec
=============================================================================
