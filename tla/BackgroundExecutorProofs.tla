---------------------- MODULE BackgroundExecutorProofs ----------------------
(***************************************************************************)
(* Proofs about BackgroundExecutor for any number of application threads,  *)
(* tasks and generations of the executor thread.                           *)
(***************************************************************************)
EXTENDS BackgroundExecutor, FiniteSetTheorems, TLAPS

\* Whoever is inside a critical section holds the mutex, and only he does.
Inside == {"locked", "store", "await", "flip"}
XInside == {"check", "task", "status", "stuck"}

MutexInv ==
    /\ \A c \in Clients : cpc[c] \in Inside <=> mutex = c
    /\ \A g \in Gens : xpc[g] \in XInside <=> mutex = g

\* What a client's position in a call says about the call.
CallInv ==
    \A c \in Clients :
        /\ cpc[c] \in {"count", "store", "await", "flip"} => cop[c] # "resume"
        /\ cop[c] = "resume" /\ cpc[c] \in {"check", "read", "lock", "locked"} => held[c]
        /\ cop[c] = "suspend" /\ cpc[c] \in {"check", "read", "count", "lock", "locked"}
             => ~held[c]
        /\ cpc[c] = "flip" => started
        /\ cpc[c] = "store" => threadIdx \in Gens

\* Only the current generation can be started or run a task, and start does not
\* let go of the mutex before its thread is known to everybody.
GenInv ==
    /\ started => threadIdx \in Gens
    /\ \A g \in Gens :
        /\ g > threadIdx => xpc[g] = "none"
        /\ g < threadIdx => xpc[g] \notin {"init", "task", "status"}
        /\ xpc[g] = "init" => \E c \in Clients : cpc[c] \in {"store", "await"}
        /\ g = threadIdx => (started <=> xpc[g] \notin {"none", "init"})
        /\ g = threadIdx /\ xpc[g] # "none" /\ task # g
             => \E c \in Clients : cpc[c] = "store"
        /\ xpc[g] = "task" => cur # None
        /\ xpc[g] # "stuck"

\* The two counters.
Checking == {c \in Clients : cpc[c] \in {"check", "read"}}

CountInv == WaitersExact /\ checkers = Cardinality(Checking)

\* The part of the invariant that is not about the counters.
ControlInv == TypeOK /\ MutexInv /\ CallInv /\ GenInv /\ SuspendExcludes

Inv == ControlInv /\ CountInv

-----------------------------------------------------------------------------
\* The clients in a call, holding a suspension or checking can be counted.
LEMMA Finite ==
    /\ IsFiniteSet(InCall) /\ Cardinality(InCall) \in Nat
    /\ IsFiniteSet(Holding) /\ Cardinality(Holding) \in Nat
    /\ IsFiniteSet(Checking) /\ Cardinality(Checking) \in Nat
  BY FS_Subset, FS_CardinalityType, BackgroundAssumption DEF InCall, Holding, Checking

\* A counter is positive while somebody is counted by it.
LEMMA Positive ==
  ASSUME CountInv, NEW c \in Clients
  PROVE  /\ cpc[c] \in Inside /\ cop[c] # "resume" => waiters > 0
         /\ held[c] => waiters > 0
         /\ cpc[c] \in {"check", "read"} => checkers > 0
<1>1. c \in InCall \cup Holding => waiters > 0
  BY Finite, FS_EmptySet DEF CountInv, WaitersExact
<1>2. c \in Checking => checkers > 0
  BY Finite, FS_EmptySet DEF CountInv
<1>4. /\ cpc[c] \in Inside /\ cop[c] # "resume" => waiters > 0
      /\ held[c] => waiters > 0
  BY <1>1 DEF InCall, Holding, Inside
<1>5. cpc[c] \in {"check", "read"} => checkers > 0
  BY <1>2 DEF Checking
<1> QED BY <1>4, <1>5

\* Waking the waiting threads lets none of them into its critical section.
LEMMA WokenOnly ==
  ASSUME TypeOK, xpc' = Woken
  PROVE  /\ \A g \in Gens : \/ xpc'[g] = xpc[g]
                            \/ xpc[g] \in {"wait", "timedwait"} /\ xpc'[g] = "lock"
         /\ xpc' \in [Gens -> ThreadPC]
  BY DEF TypeOK, Woken, ThreadPC

-----------------------------------------------------------------------------
(* The counters.                                                           *)

\* Each client step counts its caller in or out exactly as it moves.
LEMMA CountStep ==
  ASSUME Inv, Next
  PROVE  CountInv'
<1> USE DEF Goto
<1>t. /\ cpc \in [Clients -> ClientPC] /\ held \in [Clients -> BOOLEAN]
      /\ cop \in [Clients -> Ops] /\ waiters \in Nat /\ checkers \in Nat
  BY DEF Inv, ControlInv, TypeOK
<1>c. waiters = Cardinality(InCall) + Cardinality(Holding) /\ checkers = Cardinality(Checking)
  BY DEF Inv, CountInv, WaitersExact
<1>1. ASSUME UNCHANGED <<cpc, cop, held, waiters, checkers>>
      PROVE  CountInv'
  BY <1>1, <1>c DEF CountInv, WaitersExact, InCall, Holding, Checking
<1>2. ASSUME NEW c \in Clients, NEW op \in Ops, Call(c, op)
      PROVE  CountInv'
  <2>1. Checking' = Checking \cup {c} /\ c \notin Checking /\ InCall' = InCall /\ Holding' = Holding
    BY <1>2, <1>t DEF Call, Checking, InCall, Holding
  <2> QED BY <2>1, <1>2, <1>c, Finite, FS_AddElement DEF Call, CountInv, WaitersExact
<1>3. ASSUME NEW c \in Clients, LoadStarted(c) \/ ReadTask(c)
      PROVE  CountInv'
  <2>1. InCall' = InCall
    BY <1>3, <1>t DEF LoadStarted, ReadTask, InCall, AfterCheck
  <2>2. Holding' = Holding /\ waiters' = waiters
    BY <1>3, <1>t DEF LoadStarted, ReadTask, Holding
  <2>3. c \in Checking
    BY <1>3 DEF LoadStarted, ReadTask, Checking
  <2>4. \/ Checking' = Checking /\ checkers' = checkers
        \/ Checking' = Checking \ {c} /\ checkers' = checkers - 1
    BY <1>3, <1>t DEF LoadStarted, ReadTask, Checking, AfterCheck
  <2> QED BY <2>1, <2>2, <2>3, <2>4, <1>c, Finite, FS_RemoveElement DEF CountInv, WaitersExact
<1>4. ASSUME NEW c \in Clients, Count(c)
      PROVE  CountInv'
  <2>1. InCall' = InCall \cup {c} /\ c \notin InCall
    BY <1>4, <1>t DEF Count, InCall, Inv, ControlInv, CallInv
  <2>2. Checking' = Checking /\ Holding' = Holding /\ waiters' = waiters + 1 /\ checkers' = checkers
    BY <1>4, <1>t DEF Count, Checking, Holding
  <2>3. Cardinality(InCall') = Cardinality(InCall) + 1
    BY <2>1, Finite, FS_AddElement
  <2> QED BY <2>2, <2>3, <1>c, Finite DEF CountInv, WaitersExact
<1>5. ASSUME NEW c \in Clients,
             Lock(c) \/ StartCreates(c) \/ StoreTask(c) \/ StopDrains(c) \/ StopJoins(c) \/ DropAll(c)
      PROVE  CountInv'
  <2>1. InCall' = InCall
    BY <1>5, <1>t DEF Lock, StartCreates, StoreTask, StopDrains, StopJoins, DropAll, InCall,
       AfterStop, Locked
  <2>2. Checking' = Checking
    BY <1>5, <1>t DEF Lock, StartCreates, StoreTask, StopDrains, StopJoins, DropAll, Checking,
       AfterStop, Locked
  <2>3. Holding' = Holding /\ waiters' = waiters /\ checkers' = checkers
    BY <1>5 DEF Lock, StartCreates, StoreTask, StopDrains, StopJoins, DropAll, Holding, shared
  <2> QED BY <2>1, <2>2, <2>3, <1>c DEF CountInv, WaitersExact
<1>6. ASSUME NEW c \in Clients, UnlockAndResume, held' = held, cop' = cop, checkers' = checkers,
             cpc[c] \in Inside, cop[c] # "resume",
             NEW l \in {"idle", "drop", "join"}, cpc' = [cpc EXCEPT ![c] = l]
      PROVE  CountInv'
  <2>1. InCall' = InCall \ {c} /\ c \in InCall
    BY <1>6, <1>t DEF InCall, Inside
  <2>2. Checking' = Checking /\ Holding' = Holding /\ waiters' = waiters - 1
    BY <1>6, <1>t DEF Checking, Holding, UnlockAndResume, Inside
  <2>3. Cardinality(InCall') = Cardinality(InCall) - 1
    BY <2>1, Finite, FS_RemoveElement
  <2> QED BY <2>2, <2>3, <1>6, <1>c, Finite DEF CountInv, WaitersExact
<1>7. ASSUME NEW c \in Clients, DoSpawn(c) \/ DoNothing(c) \/ DoCancel(c) \/ StartReturns(c)
      PROVE  CountInv'
  BY <1>6, <1>7 DEF DoSpawn, DoNothing, DoCancel, StartReturns, Locked, Inside
<1>8. ASSUME NEW c \in Clients, StartAwaits(c) \/ StopReturns(c) \/ StopFlips(c)
      PROVE  CountInv'
  BY <1>6, <1>8 DEF StartAwaits, StopReturns, StopFlips, AfterStop, Locked, Inside, Inv,
     ControlInv, CallInv
<1>9. ASSUME NEW c \in Clients, DoSuspend(c)
      PROVE  CountInv'
  <2>1. InCall' = InCall \ {c} /\ c \in InCall /\ Holding' = Holding \cup {c}
    BY <1>9, <1>t DEF DoSuspend, Locked, InCall, Holding
  <2>2. c \notin Holding
    BY <1>9 DEF DoSuspend, Locked, Holding, Inv, ControlInv, CallInv
  <2>3. Checking' = Checking /\ waiters' = waiters /\ checkers' = checkers
    BY <1>9, <1>t DEF DoSuspend, Locked, Checking
  <2>4. /\ Cardinality(InCall') = Cardinality(InCall) - 1
        /\ Cardinality(Holding') = Cardinality(Holding) + 1
    BY <2>1, <2>2, Finite, FS_RemoveElement, FS_AddElement
  <2> QED BY <2>3, <2>4, <1>c, Finite DEF CountInv, WaitersExact
<1>10. ASSUME NEW c \in Clients, DoResume(c)
       PROVE  CountInv'
  <2>1. InCall' = InCall /\ Holding' = Holding \ {c}
    BY <1>10, <1>t DEF DoResume, Locked, InCall, Holding
  <2>2. c \in Holding
    BY <1>10 DEF DoResume, Locked, Holding, Inv, ControlInv, CallInv
  <2>3. Checking' = Checking /\ waiters' = waiters - 1 /\ checkers' = checkers
    BY <1>10, <1>t DEF DoResume, Locked, Checking, UnlockAndResume
  <2>4. Cardinality(Holding') = Cardinality(Holding) - 1
    BY <2>1, <2>2, Finite, FS_RemoveElement
  <2> QED BY <2>1, <2>3, <2>4, <1>c, Finite DEF CountInv, WaitersExact
<1>11. ASSUME NEW g \in Gens, XProceed(g) \/ XCall(g) \/ XSpurious(g)
       PROVE  UNCHANGED <<cpc, cop, held, waiters, checkers>>
  BY <1>11 DEF XProceed, XCall, XSpurious, XInit, XLock, XExit, XYield, XSpin, XTaskEnd, XAgain,
     XSleep, XTimeout, shared, client
<1>12. ASSUME NEW t \in Tasks, Elapse(t)
       PROVE  UNCHANGED <<cpc, cop, held, waiters, checkers>>
  BY <1>12 DEF Elapse, shared, client
<1> QED
  BY <1>1, <1>2, <1>3, <1>4, <1>5, <1>7, <1>8, <1>9, <1>10, <1>11, <1>12 DEF Next, Proceed

-----------------------------------------------------------------------------
(* The control invariant.                                                  *)

\* The assumption in the form the steps below use.
LEMMA Assumed ==
    /\ Clients \cap Gens = {} /\ None \notin Clients \cup Gens \cup Tasks
    /\ MaxGen \in Nat /\ MaxCalls \in Nat /\ MaxSpurious \in Nat /\ Gens = 0..MaxGen
  BY BackgroundAssumption DEF Gens

\* A client that unlocks leaves everyone outside.
LEMMA MutexReleased ==
  ASSUME MutexInv, NEW c \in Clients, mutex = c, mutex' = None,
         cpc'[c] \notin Inside, \A d \in Clients \ {c} : cpc'[d] = cpc[d],
         \A g \in Gens : xpc'[g] = xpc[g] \/ xpc'[g] = "lock"
  PROVE  MutexInv'
<1>1. \A d \in Clients : cpc'[d] \notin Inside
  BY DEF MutexInv
<1>2. \A g \in Gens : xpc'[g] \notin XInside
  BY Assumed DEF MutexInv, XInside
<1> QED
  BY <1>1, <1>2, Assumed DEF MutexInv

\* The calls that end by unlock_and_resume: the caller leaves its critical
\* section and nobody enters one.
LEMMA LeaveStep ==
  ASSUME Inv, NEW c \in Clients, cpc[c] \in Inside, UnlockAndResume,
         NEW l \in {"idle", "drop"}, cpc' = [cpc EXCEPT ![c] = l],
         cpc[c] # "store", \A g \in Gens : xpc[g] # "init",
         cop[c] # "resume" \/ held[c],
         held' = held \/ held' = [held EXCEPT ![c] = FALSE],
         ready' \subseteq Tasks, timed' \subseteq Tasks,
         UNCHANGED <<checkers, started, threadIdx, task, cur, cop, joinee, calls, spurious, dropped>>
  PROVE  ControlInv'
<1> USE DEF Inv, ControlInv
<1>1. /\ \A g \in Gens : \/ xpc'[g] = xpc[g]
                         \/ xpc[g] \in {"wait", "timedwait"} /\ xpc'[g] = "lock"
      /\ xpc' \in [Gens -> ThreadPC]
  BY WokenOnly DEF UnlockAndResume
<1>2. mutex = c /\ mutex' = None /\ waiters' = waiters - 1 /\ waiters > 0
  BY Positive DEF MutexInv, UnlockAndResume
<1>3. waiters' \in Nat /\ mutex' \in Clients \cup Gens \cup {None}
  BY <1>2 DEF TypeOK
<1>3a. held' \in [Clients -> BOOLEAN]
  BY Zenon DEF TypeOK
<1>3b. TypeOK'
  BY <1>1, <1>3, <1>3a DEF TypeOK, ClientPC
<1>4. MutexInv'
  <2>1. cpc'[c] \notin Inside /\ \A d \in Clients \ {c} : cpc'[d] = cpc[d]
    BY DEF TypeOK, Inside
  <2> QED BY <1>1, <1>2, <2>1, MutexReleased
<1>5. CallInv'
  BY DEF CallInv, TypeOK, Inside
<1>6. GenInv'
  BY <1>1 DEF GenInv, TypeOK, Inside
<1>7. SuspendExcludes'
  BY <1>1, <1>2, Assumed DEF SuspendExcludes, MutexInv, XInside, TypeOK
<1> QED BY <1>3b, <1>4, <1>5, <1>6, <1>7

\* A thread that runs a task is the one everybody takes for the executor.
LEMMA RunningIsCurrent ==
  ASSUME Inv, NEW g \in Gens, xpc[g] = "task"
  PROVE  started /\ task = g
<1> USE DEF Inv, ControlInv
<1>1. g = threadIdx
  BY Assumed DEF GenInv, TypeOK
<1>2. started
  BY <1>1 DEF GenInv
<1>3. mutex = g
  BY DEF MutexInv, XInside
<1>4. ~\E c \in Clients : cpc[c] = "store"
  BY <1>3, Assumed DEF MutexInv, Inside
<1> QED BY <1>1, <1>2, <1>4 DEF GenInv

\* Every step keeps what relates the threads to the mutex and the generations.
LEMMA ControlStep ==
  ASSUME Inv, Next
  PROVE  ControlInv'
<1>1. ASSUME NEW c \in Clients, LoadStarted(c)
      PROVE  ControlInv'
  <2>0. checkers > 0
    BY <1>1, Positive DEF LoadStarted, Inv
  <2>1. TypeOK'
    BY <1>1, <2>0 DEF LoadStarted, Goto, AfterCheck, Inv, ControlInv, TypeOK, ClientPC, work
  <2>2. MutexInv'
    BY <1>1, Assumed DEF LoadStarted, Goto, AfterCheck, Inv, ControlInv, TypeOK, MutexInv,
       Inside, XInside
  <2>3. CallInv'
    BY <1>1 DEF LoadStarted, Goto, AfterCheck, Inv, ControlInv, TypeOK, CallInv, Inside
  <2>4. \A d \in Clients : cpc[d] \in {"store", "await"} => cpc'[d] = cpc[d]
    BY <1>1 DEF LoadStarted, Goto, Inv, ControlInv, TypeOK
  <2>4a. GenInv'
    BY <1>1, <2>4 DEF LoadStarted, Inv, ControlInv, GenInv, work
  <2>5. SuspendExcludes'
    BY <1>1, Assumed DEF LoadStarted, Goto, AfterCheck, Inv, ControlInv, TypeOK,
       SuspendExcludes, MutexInv, Inside, XInside
  <2> QED BY <2>1, <2>2, <2>3, <2>4a, <2>5 DEF ControlInv
<1>2. ASSUME NEW c \in Clients, StartCreates(c)
      PROVE  ControlInv'
  <2>1. TypeOK'
    BY <1>2, Assumed, Positive DEF StartCreates, Locked, Goto, shared, work, Inv, ControlInv,
       TypeOK, ClientPC, ThreadPC, Inside
  <2>2. MutexInv'
    <3>1. mutex' = mutex /\ \A d \in Clients : cpc'[d] \in Inside <=> cpc[d] \in Inside
      BY <1>2 DEF StartCreates, Locked, Goto, shared, Inv, ControlInv, TypeOK, Inside
    <3>2. xpc[threadIdx] \notin XInside /\ xpc'[threadIdx] \notin XInside
      BY <1>2, Assumed DEF StartCreates, Locked, Inv, ControlInv, TypeOK, GenInv, XInside
    <3>3. \A g \in Gens \ {threadIdx} : xpc'[g] = xpc[g]
      BY <1>2 DEF StartCreates, Inv, ControlInv, TypeOK
    <3> QED BY <3>1, <3>2, <3>3 DEF Inv, ControlInv, MutexInv
  <2>3. CallInv'
    BY <1>2 DEF StartCreates, Locked, Goto, shared, work, Inv, ControlInv, TypeOK, CallInv,
       Inside
  <2>4. GenInv'
    BY <1>2, Assumed DEF StartCreates, Locked, Goto, shared, work, Inv, ControlInv, TypeOK,
       GenInv, CallInv, MutexInv, Inside, XInside
  <2>5. SuspendExcludes'
    BY <1>2, Assumed DEF StartCreates, Locked, Goto, shared, work, Inv, ControlInv, TypeOK,
       SuspendExcludes, MutexInv, Inside, XInside
  <2> QED BY <2>1, <2>2, <2>3, <2>4, <2>5 DEF ControlInv
<1>3. ASSUME NEW c \in Clients, StopFlips(c)
      PROVE  ControlInv'
  <2>1. mutex = c /\ mutex' = None /\ waiters' = waiters - 1 /\ waiters > 0
    BY <1>3, Positive DEF StopFlips, UnlockAndResume, Inv, ControlInv, MutexInv, CallInv, Inside
  <2>2. /\ \A g \in Gens : \/ xpc'[g] = xpc[g]
                           \/ xpc[g] \in {"wait", "timedwait"} /\ xpc'[g] = "lock"
        /\ xpc' \in [Gens -> ThreadPC]
    BY <1>3, WokenOnly DEF StopFlips, UnlockAndResume, Inv, ControlInv
  <2>3. started /\ threadIdx \in Gens
    BY <1>3 DEF StopFlips, Inv, ControlInv, CallInv, GenInv
  <2>4. waiters' \in Nat /\ threadIdx' \in 0..(MaxGen + 1)
    BY <1>3, <2>1, <2>3, Assumed DEF StopFlips, Inv, ControlInv, TypeOK
  <2>5. TypeOK'
    BY <1>3, <2>1, <2>2, <2>4 DEF StopFlips, Goto, Inv, ControlInv, TypeOK, ClientPC, work
  <2>6. MutexInv'
    <3>1. cpc'[c] \notin Inside /\ \A d \in Clients \ {c} : cpc'[d] = cpc[d]
      BY <1>3 DEF StopFlips, Goto, Inv, ControlInv, TypeOK, Inside
    <3> QED BY <2>1, <2>2, <3>1, MutexReleased DEF Inv, ControlInv
  <2>7. CallInv'
    BY <1>3, <2>1 DEF StopFlips, Goto, Inv, ControlInv, TypeOK, CallInv, MutexInv, Inside
  <2>8. \A g \in Gens : xpc[g] \notin {"init", "task", "status", "stuck"}
    BY <1>3, <2>1, Assumed
       DEF StopFlips, Inv, ControlInv, TypeOK, MutexInv, GenInv, Inside, XInside
  <2>9. GenInv'
    <3>1. ~started' /\ threadIdx' = threadIdx + 1 /\ threadIdx \in Nat
      BY <1>3, <2>3, Assumed DEF StopFlips
    <3> SUFFICES ASSUME NEW g \in Gens
                 PROVE  /\ g > threadIdx' => xpc'[g] = "none"
                        /\ xpc'[g] \notin {"init", "task", "status", "stuck"}
                        /\ g = threadIdx' => xpc'[g] = "none"
      BY <3>1 DEF GenInv
    <3>2. g >= threadIdx' => g > threadIdx
      BY <3>1, Assumed
    <3>3. g > threadIdx => xpc[g] = "none"
      BY DEF Inv, ControlInv, GenInv
    <3> QED BY <2>2, <2>8, <3>1, <3>2, <3>3, Assumed
  <2>10. SuspendExcludes'
    BY <1>3, <2>2, <2>8 DEF StopFlips, SuspendExcludes
  <2> QED BY <2>5, <2>6, <2>7, <2>9, <2>10 DEF ControlInv
<1>4. ASSUME NEW g \in Gens, XLock(g)
      PROVE  ControlInv'
  <2>1. TypeOK'
    BY <1>4, Assumed, Positive DEF XLock, XGoto, work, client, Inv, ControlInv, TypeOK,
       ClientPC, ThreadPC, Inside
  <2>2. MutexInv'
    <3>1. mutex = None /\ mutex' = g /\ UNCHANGED cpc
      BY <1>4 DEF XLock, client
    <3>2. xpc'[g] \in XInside /\ \A h \in Gens \ {g} : xpc'[h] = xpc[h]
      BY <1>4 DEF XLock, XGoto, Inv, ControlInv, TypeOK, XInside
    <3> QED BY <3>1, <3>2, Assumed DEF Inv, ControlInv, MutexInv
  <2>3. CallInv'
    BY <1>4 DEF XLock, XGoto, work, client, Inv, ControlInv, TypeOK, CallInv, Inside
  <2>4. GenInv'
    BY <1>4, Assumed DEF XLock, XGoto, work, client, Inv, ControlInv, TypeOK, GenInv, CallInv,
       MutexInv, Inside, XInside
  <2>5. SuspendExcludes'
    BY <1>4, Assumed DEF XLock, XGoto, work, client, Inv, ControlInv, TypeOK, SuspendExcludes,
       MutexInv, Inside, XInside
  <2> QED BY <2>1, <2>2, <2>3, <2>4, <2>5 DEF ControlInv
<1>5. ASSUME NEW g \in Gens, XYield(g)
      PROVE  ControlInv'
  <2>1. TypeOK'
    BY <1>5, Assumed, Positive DEF XYield, XWait, XGoto, work, client, Inv, ControlInv,
       TypeOK, ClientPC, ThreadPC, Inside
  <2>2. MutexInv'
    BY <1>5, Assumed DEF XYield, XWait, XGoto, work, client, Inv, ControlInv, TypeOK,
       MutexInv, Inside, XInside
  <2>3. CallInv'
    BY <1>5 DEF XYield, XWait, XGoto, work, client, Inv, ControlInv, TypeOK, CallInv, Inside
  <2>4. GenInv'
    BY <1>5, Assumed DEF XYield, XWait, XGoto, work, client, Inv, ControlInv, TypeOK, GenInv,
       CallInv, MutexInv, Inside, XInside
  <2>5. SuspendExcludes'
    BY <1>5, Assumed DEF XYield, XWait, XGoto, work, client, Inv, ControlInv, TypeOK,
       SuspendExcludes, MutexInv, Inside, XInside
  <2> QED BY <2>1, <2>2, <2>3, <2>4, <2>5 DEF ControlInv
<1>6. ASSUME NEW g \in Gens, XSleep(g)
      PROVE  ControlInv'
  <2>1. TypeOK'
    BY <1>6, Assumed, Positive DEF XSleep, XWait, XGoto, work, client, Inv, ControlInv,
       TypeOK, ClientPC, ThreadPC, Inside
  <2>2. MutexInv'
    BY <1>6, Assumed DEF XSleep, XWait, XGoto, work, client, Inv, ControlInv, TypeOK,
       MutexInv, Inside, XInside
  <2>3. CallInv'
    BY <1>6 DEF XSleep, XWait, XGoto, work, client, Inv, ControlInv, TypeOK, CallInv, Inside
  <2>4. GenInv'
    BY <1>6, Assumed DEF XSleep, XWait, XGoto, work, client, Inv, ControlInv, TypeOK, GenInv,
       CallInv, MutexInv, Inside, XInside
  <2>5. SuspendExcludes'
    BY <1>6, Assumed DEF XSleep, XWait, XGoto, work, client, Inv, ControlInv, TypeOK,
       SuspendExcludes, MutexInv, Inside, XInside
  <2> QED BY <2>1, <2>2, <2>3, <2>4, <2>5 DEF ControlInv
<1>7. ASSUME NEW g \in Gens, XTaskEnd(g)
      PROVE  ControlInv'
  <2>0. cur \in Tasks
    BY <1>7 DEF XTaskEnd, Inv, ControlInv, TypeOK, GenInv
  <2>1. TypeOK'
    BY <1>7, <2>0 DEF XTaskEnd, XGoto, shared, client, Inv, ControlInv, TypeOK, ThreadPC
  <2>2. MutexInv'
    BY <1>7, Assumed DEF XTaskEnd, XGoto, shared, client, Inv, ControlInv, TypeOK, MutexInv,
       Inside, XInside
  <2>3. CallInv'
    BY <1>7 DEF XTaskEnd, XGoto, shared, client, Inv, ControlInv, TypeOK, CallInv, Inside
  <2>4. GenInv'
    BY <1>7, Assumed DEF XTaskEnd, XGoto, shared, client, Inv, ControlInv, TypeOK, GenInv,
       CallInv, MutexInv, Inside, XInside
  <2>5. SuspendExcludes'
    BY <1>7, Assumed DEF XTaskEnd, XGoto, shared, client, Inv, ControlInv, TypeOK,
       SuspendExcludes, MutexInv, Inside, XInside
  <2> QED BY <2>1, <2>2, <2>3, <2>4, <2>5 DEF ControlInv
<1>8. ASSUME NEW g \in Gens, XSpurious(g)
      PROVE  ControlInv'
  <2>1. TypeOK'
    BY <1>8, Assumed, Positive DEF XSpurious, XGoto, shared, work, client, Inv, ControlInv,
       TypeOK, ClientPC, ThreadPC, Inside
  <2>2. MutexInv'
    BY <1>8, Assumed DEF XSpurious, XGoto, shared, work, client, Inv, ControlInv, TypeOK,
       MutexInv, Inside, XInside
  <2>3. CallInv'
    BY <1>8 DEF XSpurious, XGoto, shared, work, client, Inv, ControlInv, TypeOK, CallInv, Inside
  <2>4. GenInv'
    BY <1>8, Assumed DEF XSpurious, XGoto, shared, work, client, Inv, ControlInv, TypeOK,
       GenInv, CallInv, MutexInv, Inside, XInside
  <2>5. SuspendExcludes'
    BY <1>8, Assumed DEF XSpurious, XGoto, shared, work, client, Inv, ControlInv, TypeOK,
       SuspendExcludes, MutexInv, Inside, XInside
  <2> QED BY <2>1, <2>2, <2>3, <2>4, <2>5 DEF ControlInv
<1>9. ASSUME NEW g \in Gens, XCall(g)
      PROVE  ControlInv'
  <2>1. started /\ task = g
    BY <1>9, RunningIsCurrent DEF XCall
  <2>2. UNCHANGED <<shared, timed, cur, xpc, client, spurious, dropped>> /\ ready' \subseteq Tasks
    BY <1>9, <2>1 DEF XCall, Inv, ControlInv, TypeOK
  <2> QED BY <2>2 DEF Inv, ControlInv, TypeOK, MutexInv, CallInv, GenInv, SuspendExcludes,
     shared, client
<1>10. ASSUME NEW c \in Clients, mutex = c, cpc[c] # "store", cpc[c] # "await"
      PROVE  \A g \in Gens : xpc[g] # "init"
  BY <1>10, Assumed DEF Inv, ControlInv, MutexInv, GenInv, Inside
<1>11. ASSUME NEW c \in Clients, DoSpawn(c) \/ DoNothing(c) \/ DoCancel(c) \/ DoResume(c) \/ StartReturns(c)
                   \/ StopReturns(c)
      PROVE  ControlInv'
  <2>1. cpc[c] = "locked" /\ mutex = c /\ UnlockAndResume
    BY <1>11 DEF DoSpawn, DoNothing, DoCancel, DoResume, StartReturns, StopReturns, Locked, Inv,
       ControlInv, MutexInv, Inside
  <2>2. ready' \subseteq Tasks /\ timed' \subseteq Tasks
    BY <1>11 DEF DoSpawn, DoNothing, DoCancel, DoResume, StartReturns, StopReturns, work, Inv,
       ControlInv, TypeOK
  <2>3. cop[c] # "resume" \/ held[c]
    BY <2>1 DEF Inv, ControlInv, CallInv
  <2>4. \E l \in {"idle", "drop"} : cpc' = [cpc EXCEPT ![c] = l]
    BY <1>11 DEF DoSpawn, DoNothing, DoCancel, DoResume, StartReturns, StopReturns, Goto,
       AfterStop
  <2>5. held' = held \/ held' = [held EXCEPT ![c] = FALSE]
    BY <1>11 DEF DoSpawn, DoNothing, DoCancel, DoResume, StartReturns, StopReturns
  <2>6. UNCHANGED <<checkers, started, threadIdx, task, cur, cop, joinee, calls, spurious, dropped>>
    BY <1>11 DEF DoSpawn, DoNothing, DoCancel, DoResume, StartReturns, StopReturns, work
  <2> QED BY <2>1, <2>2, <2>3, <2>4, <2>5, <2>6, <1>10, LeaveStep DEF Inside
<1>12. ASSUME NEW c \in Clients, StartAwaits(c)
      PROVE  ControlInv'
  <2>1. cpc[c] = "await" /\ started /\ cop[c] # "resume"
    BY <1>12 DEF StartAwaits, Inv, ControlInv, CallInv
  <2>2. \A g \in Gens : xpc[g] # "init"
    BY <2>1, Assumed DEF Inv, ControlInv, GenInv, TypeOK
  <2>3. ready' \subseteq Tasks /\ timed' \subseteq Tasks
    BY <1>12 DEF StartAwaits, work, Inv, ControlInv, TypeOK
  <2>4. /\ UnlockAndResume /\ cpc' = [cpc EXCEPT ![c] = "idle"] /\ held' = held
        /\ UNCHANGED <<checkers, started, threadIdx, task, cur, cop, joinee, calls, spurious, dropped>>
    BY <1>12 DEF StartAwaits, Goto, work
  <2> QED BY <2>1, <2>2, <2>3, <2>4, LeaveStep DEF Inside
<1> USE DEF Inv, ControlInv, TypeOK, MutexInv, CallInv, GenInv, SuspendExcludes, ClientPC, ThreadPC,
        Inside, XInside, Ops, shared, work, client, Goto, XGoto, XWait, AfterStop, AfterCheck, Locked
<1>13. ASSUME NEW c \in Clients, NEW op \in Ops, Call(c, op)
      PROVE  ControlInv'
  <2>1. TypeOK'
    <3>1. cpc' \in [Clients -> ClientPC] /\ cop' \in [Clients -> Ops]
      BY <1>13 DEF Call
    <3>2. calls' \in [Clients -> 0..MaxCalls] /\ checkers' \in Nat
      BY <1>13, Assumed DEF Call
    <3> HIDE DEF ClientPC, ThreadPC, Ops
    <3> QED BY <1>13, <3>1, <3>2 DEF Call
  <2>2. MutexInv'
    <3>1. UNCHANGED <<mutex, xpc>>
      BY <1>13 DEF Call
    <3>2. \A d \in Clients : cpc'[d] \in Inside <=> cpc[d] \in Inside
      BY <1>13 DEF Call
    <3> HIDE DEF Inside, XInside
    <3> QED BY <3>1, <3>2
  <2>3. CallInv'
    BY <1>13 DEF Call, Callable
  <2>4. GenInv'
    BY <1>13 DEF Call
  <2>5. SuspendExcludes'
    BY <1>13 DEF Call
  <2> QED BY <2>1, <2>2, <2>3, <2>4, <2>5
<1>14. ASSUME NEW c \in Clients, ReadTask(c)
      PROVE  ControlInv'
  BY <1>14, Assumed, Positive DEF ReadTask
<1>15. ASSUME NEW c \in Clients, Count(c)
      PROVE  ControlInv'
  BY <1>15, Assumed, Positive DEF Count
<1>16. ASSUME NEW c \in Clients, Lock(c)
      PROVE  ControlInv'
  BY <1>16, Assumed, Positive DEF Lock
<1>17. ASSUME NEW c \in Clients, DoSuspend(c)
      PROVE  ControlInv'
  BY <1>17, Assumed, Positive DEF DoSuspend
<1>18. ASSUME NEW c \in Clients, StoreTask(c)
      PROVE  ControlInv'
  BY <1>18, Assumed, Positive DEF StoreTask
<1>19. ASSUME NEW c \in Clients, StopDrains(c)
      PROVE  ControlInv'
  BY <1>19, Assumed, Positive DEF StopDrains
<1>20. ASSUME NEW c \in Clients, StopJoins(c)
      PROVE  ControlInv'
  BY <1>20, Assumed, Positive DEF StopJoins
<1>21. ASSUME NEW c \in Clients, DropAll(c)
      PROVE  ControlInv'
  BY <1>21, Assumed, Positive DEF DropAll
<1>22. ASSUME NEW g \in Gens, XInit(g)
      PROVE  ControlInv'
  BY <1>22, Assumed, Positive DEF XInit
<1>23. ASSUME NEW g \in Gens, XExit(g)
      PROVE  ControlInv'
  BY <1>23, Assumed, Positive DEF XExit
<1>24. ASSUME NEW g \in Gens, XSpin(g)
      PROVE  ControlInv'
  BY <1>24, Assumed, Positive DEF XSpin
<1>25. ASSUME NEW g \in Gens, XAgain(g)
      PROVE  ControlInv'
  BY <1>25, Assumed, Positive DEF XAgain
<1>26. ASSUME NEW g \in Gens, XTimeout(g)
      PROVE  ControlInv'
  BY <1>26, Assumed, Positive DEF XTimeout
<1>27. ASSUME NEW t \in Tasks, Elapse(t)
      PROVE  ControlInv'
  BY <1>27, Assumed, Positive DEF Elapse
<1> HIDE DEF Inv, ControlInv
<1> QED
  BY <1>1, <1>2, <1>3, <1>4, <1>5, <1>6, <1>7, <1>8, <1>9, <1>11, <1>12, <1>13, <1>14,
     <1>15, <1>16, <1>17, <1>18, <1>19, <1>20, <1>21, <1>22, <1>23, <1>24, <1>25, <1>26,
     <1>27 DEF Next, Proceed, XProceed

-----------------------------------------------------------------------------
(* The theorems.                                                           *)

\* The invariant holds of a new background executor.
LEMMA InitInv == Init => Inv
<1> SUFFICES ASSUME Init PROVE Inv
  OBVIOUS
<1>a. started \in BOOLEAN /\ dropped \in BOOLEAN /\ held \in [Clients -> BOOLEAN]
  BY Zenon DEF Init
<1>b. /\ xpc \in [Gens -> ThreadPC] /\ cpc \in [Clients -> ClientPC] /\ cop \in [Clients -> Ops]
      /\ calls \in [Clients -> 0..MaxCalls] /\ joinee \in [Clients -> Gens \cup {None}]
  BY Assumed DEF Init, ClientPC, ThreadPC, Ops
<1>0. TypeOK
  BY <1>a, <1>b, Assumed DEF Init, TypeOK
<1>1. ControlInv
  BY <1>0, Assumed
     DEF Init, ControlInv, MutexInv, CallInv, GenInv, SuspendExcludes, Inside, XInside
<1>2. InCall = {} /\ Holding = {} /\ Checking = {}
  BY DEF Init, InCall, Holding, Checking
<1>3. CountInv
  BY <1>2, FS_EmptySet DEF Init, CountInv, WaitersExact
<1> QED BY <1>1, <1>3 DEF Inv

\* Every step of a thread or of a client keeps it.
LEMMA StepInv == Inv /\ [Next]_vars => Inv'
<1> SUFFICES ASSUME Inv, [Next]_vars PROVE Inv'
  OBVIOUS
<1>1. CASE Next
  BY <1>1, ControlStep, CountStep DEF Inv
<1>2. CASE UNCHANGED vars
  BY <1>2 DEF vars, shared, work, client, Inv, ControlInv, CountInv, TypeOK, MutexInv, CallInv,
     GenInv, SuspendExcludes, WaitersExact, InCall, Holding, Checking
<1> QED BY <1>1, <1>2

\* The inductive invariant holds in every reachable state of the background
\* executor, whatever the number of threads, tasks and restarts.
THEOREM Invariance == Spec => []Inv
  BY InitInv, StepInv, PTL DEF Spec

\* No task function ever runs while some thread is between suspend and resume.
THEOREM SuspendExcludesAlways == Spec => []SuspendExcludes
<1>1. Inv => SuspendExcludes
  BY DEF Inv, ControlInv
<1> QED BY <1>1, Invariance, PTL

\* A stopped executor runs no task; a call from a task function is always
\* recognised as such; and the unlocked read of _thread_idx in the thread
\* function returns what start wrote.
THEOREM GenerationsSafe == Spec => [](StoppedIsQuiet /\ NoSelfDeadlock /\ ThreadIdxStable)
<1>1. Inv => StoppedIsQuiet /\ NoSelfDeadlock /\ ThreadIdxStable
  <2> SUFFICES ASSUME Inv, NEW g \in Gens
               PROVE  /\ xpc[g] = "task" => started /\ task = g
                      /\ xpc[g] # "stuck"
                      /\ xpc[g] = "init" => threadIdx = g
    BY DEF StoppedIsQuiet, NoSelfDeadlock, ThreadIdxStable
  <2>1. xpc[g] = "task" => started /\ task = g
    BY RunningIsCurrent
  <2>2. xpc[g] # "stuck" /\ (xpc[g] = "init" => threadIdx = g)
    BY Assumed DEF Inv, ControlInv, GenInv, TypeOK
  <2> QED BY <2>1, <2>2
<1> QED BY <1>1, Invariance, PTL

\* The counters are exact and never negative.
THEOREM CountersExact == Spec => [](TypeOK /\ WaitersExact)
<1>1. Inv => TypeOK /\ WaitersExact
  BY DEF Inv, ControlInv, CountInv
<1> QED BY <1>1, Invariance, PTL
-----------------------------------------------------------------------------
(* The last reference.                                                     *)

\* Who drops the last reference is alone, and stays alone.
AloneInv ==
    \A c \in Clients :
        /\ cpc[c] \in {"drop", "gone"} => cop[c] = "clear"
        /\ cpc[c] \in {"store", "await"} => cop[c] = "start"
        /\ cop[c] = "clear" =>
               /\ cpc[c] # "idle" /\ \A d \in Clients \ {c} : cpc[d] = "idle"
               /\ cpc[c] \in {"join", "drop", "gone"} => ~started

\* An executor thread that was stopped and has not left is awaited by its stop.
JoinInv ==
    \A g \in Gens : g < threadIdx =>
        xpc[g] \in {"none", "done"} \/ \E c \in Clients : cpc[c] = "join" /\ joinee[c] = g

GoneInv == dropped => \E c \in Clients : cpc[c] = "gone"

LastInv == AloneInv /\ JoinInv /\ GoneInv

\* Nobody stops awaiting a thread that has not ended.
LEMMA JoinKept ==
  ASSUME JoinInv, threadIdx' = threadIdx,
         \A g \in Gens : xpc[g] \in {"none", "done"} => xpc'[g] = xpc[g],
         \A c \in Clients : cpc[c] = "join" => cpc'[c] = "join" /\ joinee'[c] = joinee[c]
  PROVE  JoinInv'
  BY DEF JoinInv

\* Each step keeps the last owner alone and every thread awaited.
LEMMA LastStep ==
  ASSUME Inv, LastInv, Next
  PROVE  LastInv'
<1> USE DEF Goto, XGoto, Locked, shared, work, client
<1>t. TypeOK /\ MutexInv /\ CallInv /\ GenInv
  BY DEF Inv, ControlInv
<1>w. ASSUME UnlockAndResume
      PROVE  \A g \in Gens : xpc'[g] = xpc[g] \/ (xpc[g] \in {"wait", "timedwait"} /\ xpc'[g] = "lock")
  BY <1>t, <1>w, WokenOnly DEF UnlockAndResume
<1>1. ASSUME NEW c \in Clients, NEW op \in Ops, Call(c, op)
      PROVE  LastInv'
  <2>1. AloneInv'
    BY <1>1, <1>t, Assumed DEF LastInv, AloneInv, TypeOK, GenInv, MutexInv, Inside, Call, Callable
  <2>2. JoinInv'
    BY <1>1, <1>t, Assumed DEF LastInv, JoinInv, TypeOK, CallInv, GenInv, MutexInv, Inside, XInside, Call, Callable
  <2>3. GoneInv'
    BY <1>1, <1>t, Assumed DEF LastInv, GoneInv, TypeOK, Call, Callable
  <2> QED BY <2>1, <2>2, <2>3 DEF LastInv
<1>2. ASSUME NEW c \in Clients, LoadStarted(c) \/ ReadTask(c) \/ Count(c) \/ Lock(c) \/ DoSuspend(c)
      PROVE  LastInv'
  <2>1. AloneInv'
    BY <1>2, <1>t, Assumed DEF LastInv, AloneInv, TypeOK, GenInv, MutexInv, Inside, LoadStarted, ReadTask, AfterCheck, Count, Lock, DoSuspend
  <2>2. JoinInv'
    BY <1>2, <1>t, Assumed DEF LastInv, JoinInv, TypeOK, CallInv, GenInv, MutexInv, Inside, XInside, LoadStarted, ReadTask, AfterCheck, Count, Lock, DoSuspend
  <2>3. GoneInv'
    BY <1>2, <1>t, Assumed DEF LastInv, GoneInv, TypeOK, LoadStarted, ReadTask, AfterCheck, Count, Lock, DoSuspend
  <2> QED BY <2>1, <2>2, <2>3 DEF LastInv
<1>3. ASSUME NEW c \in Clients, DoSpawn(c) \/ DoNothing(c) \/ DoCancel(c) \/ DoResume(c) \/ StartReturns(c)
      PROVE  LastInv'
  <2>1. AloneInv'
    BY <1>3, <1>t, <1>w, Assumed DEF LastInv, AloneInv, TypeOK, GenInv, MutexInv, Inside, DoSpawn, DoNothing, DoCancel, DoResume, StartReturns
  <2>2. JoinInv'
    <3>1. \A g \in Gens : xpc[g] \in {"none", "done"} => xpc'[g] = xpc[g]
      BY <1>3, <1>w DEF DoSpawn, DoNothing, DoCancel, DoResume, StartReturns
    <3>2. \A d \in Clients : cpc[d] = "join" => cpc'[d] = "join" /\ joinee'[d] = joinee[d]
      BY <1>3, <1>t DEF TypeOK, DoSpawn, DoNothing, DoCancel, DoResume, StartReturns
    <3>3. threadIdx' = threadIdx
      BY <1>3 DEF DoSpawn, DoNothing, DoCancel, DoResume, StartReturns
    <3> QED BY <3>1, <3>2, <3>3, JoinKept DEF LastInv
  <2>3. GoneInv'
    BY <1>3, <1>t, <1>w, Assumed DEF LastInv, GoneInv, TypeOK, DoSpawn, DoNothing, DoCancel, DoResume, StartReturns
  <2> QED BY <2>1, <2>2, <2>3 DEF LastInv
<1>4. ASSUME NEW c \in Clients, StartCreates(c) \/ StoreTask(c)
      PROVE  LastInv'
  <2>1. AloneInv'
    BY <1>4, <1>t, Assumed DEF LastInv, AloneInv, TypeOK, GenInv, MutexInv, Inside, StartCreates, StoreTask
  <2>2. JoinInv'
    BY <1>4, <1>t, Assumed DEF LastInv, JoinInv, TypeOK, CallInv, GenInv, MutexInv, Inside, XInside, StartCreates, StoreTask
  <2>3. GoneInv'
    BY <1>4, <1>t, Assumed DEF LastInv, GoneInv, TypeOK, StartCreates, StoreTask
  <2> QED BY <2>1, <2>2, <2>3 DEF LastInv
<1>5. ASSUME NEW c \in Clients, StartAwaits(c)
      PROVE  LastInv'
  <2>1. AloneInv'
    BY <1>5, <1>t, <1>w, Assumed DEF LastInv, AloneInv, TypeOK, GenInv, MutexInv, Inside, StartAwaits
  <2>2. JoinInv'
    <3>1. \A g \in Gens : xpc[g] \in {"none", "done"} => xpc'[g] = xpc[g]
      BY <1>5, <1>w DEF StartAwaits
    <3>2. \A d \in Clients : cpc[d] = "join" => cpc'[d] = "join" /\ joinee'[d] = joinee[d]
      BY <1>5, <1>t DEF TypeOK, StartAwaits
    <3>3. threadIdx' = threadIdx
      BY <1>5 DEF StartAwaits
    <3> QED BY <3>1, <3>2, <3>3, JoinKept DEF LastInv
  <2>3. GoneInv'
    BY <1>5, <1>t, <1>w, Assumed DEF LastInv, GoneInv, TypeOK, StartAwaits
  <2> QED BY <2>1, <2>2, <2>3 DEF LastInv
<1>6. ASSUME NEW c \in Clients, StopReturns(c)
      PROVE  LastInv'
  <2>1. AloneInv'
    BY <1>6, <1>t, <1>w, Assumed DEF LastInv, AloneInv, TypeOK, GenInv, MutexInv, Inside, StopReturns, AfterStop
  <2>2. JoinInv'
    <3>1. \A g \in Gens : xpc[g] \in {"none", "done"} => xpc'[g] = xpc[g]
      BY <1>6, <1>w DEF StopReturns, AfterStop
    <3>2. \A d \in Clients : cpc[d] = "join" => cpc'[d] = "join" /\ joinee'[d] = joinee[d]
      BY <1>6, <1>t DEF TypeOK, StopReturns, AfterStop
    <3>3. threadIdx' = threadIdx
      BY <1>6 DEF StopReturns, AfterStop
    <3> QED BY <3>1, <3>2, <3>3, JoinKept DEF LastInv
  <2>3. GoneInv'
    BY <1>6, <1>t, <1>w, Assumed DEF LastInv, GoneInv, TypeOK, StopReturns, AfterStop
  <2> QED BY <2>1, <2>2, <2>3 DEF LastInv
<1>7. ASSUME NEW c \in Clients, StopDrains(c)
      PROVE  LastInv'
  <2>1. AloneInv'
    BY <1>7, <1>t, Assumed DEF LastInv, AloneInv, TypeOK, GenInv, MutexInv, Inside, StopDrains
  <2>2. JoinInv'
    BY <1>7, <1>t, Assumed DEF LastInv, JoinInv, TypeOK, CallInv, GenInv, MutexInv, Inside, XInside, StopDrains
  <2>3. GoneInv'
    BY <1>7, <1>t, Assumed DEF LastInv, GoneInv, TypeOK, StopDrains
  <2> QED BY <2>1, <2>2, <2>3 DEF LastInv
<1>8. ASSUME NEW c \in Clients, StopFlips(c)
      PROVE  LastInv'
  <2>1. AloneInv'
    BY <1>8, <1>t, <1>w, Assumed DEF LastInv, AloneInv, TypeOK, GenInv, MutexInv, Inside, StopFlips
  <2>2. JoinInv'
    BY <1>8, <1>t, <1>w, Assumed DEF LastInv, JoinInv, TypeOK, CallInv, GenInv, MutexInv, Inside, XInside, StopFlips
  <2>3. GoneInv'
    BY <1>8, <1>t, <1>w, Assumed DEF LastInv, GoneInv, TypeOK, StopFlips
  <2> QED BY <2>1, <2>2, <2>3 DEF LastInv
<1>9. ASSUME NEW c \in Clients, StopJoins(c)
      PROVE  LastInv'
  <2>1. AloneInv'
    BY <1>9, <1>t, Assumed DEF LastInv, AloneInv, TypeOK, GenInv, MutexInv, Inside, StopJoins, AfterStop
  <2>2. JoinInv'
    BY <1>9, <1>t, Assumed DEF LastInv, JoinInv, TypeOK, CallInv, GenInv, MutexInv, Inside, XInside, StopJoins, AfterStop
  <2>3. GoneInv'
    BY <1>9, <1>t, Assumed DEF LastInv, GoneInv, TypeOK, StopJoins, AfterStop
  <2> QED BY <2>1, <2>2, <2>3 DEF LastInv
<1>10. ASSUME NEW c \in Clients, DropAll(c)
      PROVE  LastInv'
  <2>1. AloneInv'
    BY <1>10, <1>t, Assumed DEF LastInv, AloneInv, TypeOK, GenInv, MutexInv, Inside, DropAll
  <2>2. JoinInv'
    BY <1>10, <1>t, Assumed DEF LastInv, JoinInv, TypeOK, CallInv, GenInv, MutexInv, Inside, XInside, DropAll
  <2>3. GoneInv'
    BY <1>10, <1>t, Assumed DEF LastInv, GoneInv, TypeOK, DropAll
  <2> QED BY <2>1, <2>2, <2>3 DEF LastInv
<1>11. ASSUME NEW g \in Gens, XInit(g)
      PROVE  LastInv'
  <2>1. AloneInv'
    BY <1>11, <1>t, Assumed DEF LastInv, AloneInv, TypeOK, GenInv, MutexInv, Inside, XInit
  <2>2. JoinInv'
    BY <1>11, <1>t, Assumed DEF LastInv, JoinInv, TypeOK, CallInv, GenInv, MutexInv, Inside, XInside, XInit
  <2>3. GoneInv'
    BY <1>11, <1>t, Assumed DEF LastInv, GoneInv, TypeOK, XInit
  <2> QED BY <2>1, <2>2, <2>3 DEF LastInv
<1>12. ASSUME NEW g \in Gens, XLock(g) \/ XExit(g) \/ XYield(g) \/ XTimeout(g) \/ XSpurious(g)
      PROVE  LastInv'
  <2>1. AloneInv'
    BY <1>12, <1>t, Assumed DEF LastInv, AloneInv, TypeOK, GenInv, MutexInv, Inside, XLock, XExit, XYield, XTimeout, XSpurious, XWait
  <2>2. JoinInv'
    BY <1>12, <1>t, Assumed DEF LastInv, JoinInv, TypeOK, CallInv, GenInv, MutexInv, Inside, XInside, XLock, XExit, XYield, XTimeout, XSpurious, XWait
  <2>3. GoneInv'
    BY <1>12, <1>t, Assumed DEF LastInv, GoneInv, TypeOK, XLock, XExit, XYield, XTimeout, XSpurious, XWait
  <2> QED BY <2>1, <2>2, <2>3 DEF LastInv
<1>13. ASSUME NEW g \in Gens, XSpin(g) \/ XTaskEnd(g) \/ XAgain(g) \/ XSleep(g) \/ XCall(g)
      PROVE  LastInv'
  <2>1. AloneInv'
    BY <1>13, <1>t, Assumed DEF LastInv, AloneInv, TypeOK, GenInv, MutexInv, Inside, XSpin, XTaskEnd, XAgain, XSleep, XCall, XWait
  <2>2. JoinInv'
    BY <1>13, <1>t, Assumed DEF LastInv, JoinInv, TypeOK, CallInv, GenInv, MutexInv, Inside, XInside, XSpin, XTaskEnd, XAgain, XSleep, XCall, XWait
  <2>3. GoneInv'
    BY <1>13, <1>t, Assumed DEF LastInv, GoneInv, TypeOK, XSpin, XTaskEnd, XAgain, XSleep, XCall, XWait
  <2> QED BY <2>1, <2>2, <2>3 DEF LastInv
<1>14. ASSUME NEW t \in Tasks, Elapse(t)
      PROVE  LastInv'
  <2>1. AloneInv'
    BY <1>14, <1>t, Assumed DEF LastInv, AloneInv, TypeOK, GenInv, MutexInv, Inside, Elapse
  <2>2. JoinInv'
    BY <1>14, <1>t, Assumed DEF LastInv, JoinInv, TypeOK, CallInv, GenInv, MutexInv, Inside, XInside, Elapse
  <2>3. GoneInv'
    BY <1>14, <1>t, Assumed DEF LastInv, GoneInv, TypeOK, Elapse
  <2> QED BY <2>1, <2>2, <2>3 DEF LastInv
<1> QED
  BY <1>1, <1>2, <1>3, <1>4, <1>5, <1>6, <1>7, <1>8, <1>9, <1>10, <1>11, <1>12, <1>13, <1>14 DEF Next, Proceed, XProceed

\* The release of the last reference (_z_background_executor_inner_clear): once the
\* mutex and the condition variable are destroyed, no executor thread, of any
\* generation, is left to touch them, whatever stops and restarts came before.
THEOREM DroppedUnusedAlways == Spec => []DroppedUnused
<1>1. ASSUME Init PROVE Inv /\ LastInv
  <2>1. AloneInv /\ GoneInv
    BY <1>1 DEF Init, AloneInv, GoneInv
  <2>2. JoinInv
    BY <1>1 DEF Init, JoinInv
  <2> QED BY <1>1, <2>1, <2>2, InitInv DEF LastInv
<1>2. ASSUME Inv, LastInv, [Next]_vars PROVE Inv' /\ LastInv'
  <2>1. CASE Next
    BY <1>2, <2>1, StepInv, LastStep
  <2>2. CASE UNCHANGED vars
    BY <1>2, <2>2, StepInv DEF vars, shared, client, LastInv, AloneInv, JoinInv, GoneInv
  <2> QED BY <1>2, <2>1, <2>2
<1>3. ASSUME Inv, LastInv PROVE DroppedUnused
  <2> SUFFICES ASSUME dropped PROVE mutex = None /\ \A g \in Gens : xpc[g] \in {"none", "done"}
    BY DEF DroppedUnused
  <2>1. PICK c \in Clients : cpc[c] = "gone"
    BY <1>3 DEF LastInv, GoneInv
  <2>2. ~started /\ \A d \in Clients : cpc[d] \in {"idle", "gone"}
    BY <1>3, <2>1 DEF LastInv, AloneInv
  <2>3. ASSUME NEW g \in Gens PROVE xpc[g] \in {"none", "done"}
    <3>1. CASE g < threadIdx
      BY <1>3, <2>2, <3>1 DEF LastInv, JoinInv
    <3>2. CASE ~(g < threadIdx)
      <4>1. g = threadIdx \/ g > threadIdx
        BY <1>3, <3>2, Assumed DEF Inv, ControlInv, TypeOK
      <4>2. xpc[g] \in {"none", "init"}
        BY <1>3, <2>2, <4>1 DEF Inv, ControlInv, GenInv
      <4>3. xpc[g] # "init"
        BY <1>3, <2>2 DEF Inv, ControlInv, GenInv
      <4> QED BY <4>2, <4>3
    <3> QED BY <3>1, <3>2
  <2>4. mutex = None
    BY <1>3, <2>2, <2>3 DEF Inv, ControlInv, TypeOK, MutexInv, Inside, XInside
  <2> QED BY <2>3, <2>4
<1> QED BY <1>1, <1>2, <1>3, PTL DEF Spec
=============================================================================
