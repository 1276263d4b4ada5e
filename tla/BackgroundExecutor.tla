------------------------- MODULE BackgroundExecutor -------------------------
(***************************************************************************)
(* The thread that runs the executor, of src/src/runtime/                  *)
(* background_executor.c, and the calls application threads make to it:    *)
(* spawn, cancel (and get_fut_status, which changes nothing), suspend,     *)
(* resume, start, stop and the destruction of the last reference.          *)
(*                                                                         *)
(* The tasks themselves are abstracted to the ones that are ready and the  *)
(* ones that sleep; Executor models them in full.  Everything between      *)
(* taking the mutex and releasing it is observed by nobody else except     *)
(* through the three atomics (_waiters, _thread_checkers, _started), so    *)
(* steps are split where one of those, the mutex or _task is accessed.     *)
(* Mutex and condition variable operations do not fail.                    *)
(***************************************************************************)
EXTENDS Integers, FiniteSets

CONSTANTS Clients,      \* application threads
          Tasks,        \* futures
          MaxGen,       \* executor threads are numbered by their thread_idx, 0..MaxGen
          MaxCalls,     \* bound on the calls each client makes
          MaxSpurious,  \* bound on spurious wake-ups of the condition variable
          None          \* neither a thread nor a task

Gens == 0..MaxGen
Ops  == {"spawn", "cancel", "suspend", "resume", "start", "stop", "clear"}

ASSUME BackgroundAssumption ==
    /\ IsFiniteSet(Clients) /\ MaxGen \in Nat /\ MaxCalls \in Nat /\ MaxSpurious \in Nat
    /\ None \notin Clients /\ None \notin Gens /\ None \notin Tasks
    /\ Clients \cap Gens = {}

VARIABLES mutex,        \* who holds _mutex
          waiters,      \* _waiters
          checkers,     \* _thread_checkers
          started,      \* _started
          threadIdx,    \* _thread_idx
          task,         \* _task: the executor thread it names
          ready, timed, \* tasks of _executor that can run, that sleep
          xpc,          \* where each executor thread is
          cur,          \* the task the executor thread runs
          cpc, cop,     \* where each client is, in which call
          joinee,       \* task_to_join of a client in stop
          held,         \* clients between suspend and resume
          calls,        \* calls each client has made
          spurious,     \* spurious wake-ups so far
          dropped       \* _z_background_executor_inner_clear has run

shared   == <<mutex, waiters, checkers, started, threadIdx, task>>
work     == <<ready, timed, cur>>
client   == <<cpc, cop, joinee, held, calls>>
vars     == <<shared, work, xpc, client, spurious, dropped>>

Init ==
    /\ mutex = None /\ waiters = 0 /\ checkers = 0 /\ started = FALSE
    /\ threadIdx = 0 /\ task = None
    /\ ready = {} /\ timed = {} /\ cur = None
    /\ xpc = [g \in Gens |-> "none"]
    /\ cpc = [c \in Clients |-> "idle"] /\ cop = [c \in Clients |-> "spawn"]
    /\ joinee = [c \in Clients |-> None] /\ held = [c \in Clients |-> FALSE]
    /\ calls = [c \in Clients |-> 0] /\ spurious = 0 /\ dropped = FALSE

Goto(c, l) == cpc' = [cpc EXCEPT ![c] = l]

\* _z_condvar_signal_all: every waiting thread goes back to take the mutex.
Woken == [g \in Gens |-> IF xpc[g] \in {"wait", "timedwait"} THEN "lock" ELSE xpc[g]]

\* Mutant: the executor thread is not signalled.
UnlockAndResumeSilently ==
    /\ waiters' = waiters - 1 /\ mutex' = None /\ UNCHANGED xpc

\* _z_background_executor_inner_unlock_and_resume.
UnlockAndResume ==
    /\ waiters' = waiters - 1 /\ xpc' = Woken /\ mutex' = None

\* Where a finished stop leads: clear goes on to release everything.
AfterStop(c) == IF cop[c] = "clear" THEN "drop" ELSE "idle"

-----------------------------------------------------------------------------
(* Calls of the application threads.                                       *)

\* The last reference is dropped by a thread when no other uses the executor.
Callable(c, op) ==
    CASE op = "resume"  -> held[c]
      [] op = "suspend" -> ~held[c]
      [] op = "clear"   -> \A d \in Clients \ {c} : cpc[d] = "idle" /\ ~held[d]
      [] OTHER          -> TRUE

\* _is_called_from_executor, first access: the checker announces itself.
Call(c, op) ==
    /\ cpc[c] = "idle" /\ calls[c] < MaxCalls /\ Callable(c, op)
    /\ ~\E d \in Clients : cop[d] = "clear"
    /\ calls' = [calls EXCEPT ![c] = @ + 1] /\ cop' = [cop EXCEPT ![c] = op]
    /\ checkers' = checkers + 1
    /\ Goto(c, "check")
    /\ UNCHANGED <<mutex, waiters, started, threadIdx, task, work, xpc, joinee, held,
                   spurious, dropped>>

\* suspend_and_lock counts the caller among the waiters; resume does not.
AfterCheck(c) == IF cop[c] = "resume" THEN "lock" ELSE "count"

LoadStarted(c) ==
    /\ cpc[c] = "check"
    /\ IF started
       THEN Goto(c, "read") /\ checkers' = checkers
       ELSE Goto(c, AfterCheck(c)) /\ checkers' = checkers - 1
    /\ UNCHANGED <<mutex, waiters, started, threadIdx, task, work, xpc, cop, joinee, held,
                   calls, spurious, dropped>>

\* The comparison with _task; an application thread is never the executor.
ReadTask(c) ==
    /\ cpc[c] = "read" /\ checkers' = checkers - 1
    /\ Goto(c, AfterCheck(c))
    /\ UNCHANGED <<mutex, waiters, started, threadIdx, task, work, xpc, cop, joinee, held,
                   calls, spurious, dropped>>

Count(c) ==
    /\ cpc[c] = "count" /\ waiters' = waiters + 1
    /\ Goto(c, "lock")
    /\ UNCHANGED <<mutex, checkers, started, threadIdx, task, work, xpc, cop, joinee, held,
                   calls, spurious, dropped>>

Lock(c) ==
    /\ cpc[c] = "lock" /\ mutex = None /\ mutex' = c
    /\ Goto(c, "locked")
    /\ UNCHANGED <<waiters, checkers, started, threadIdx, task, work, xpc, cop, joinee, held,
                   calls, spurious, dropped>>

Locked(c, op) == cpc[c] = "locked" /\ cop[c] = op

DoSpawn(c) ==
    /\ Locked(c, "spawn") /\ UnlockAndResume /\ Goto(c, "idle")
    /\ \E t \in Tasks \ (ready \cup timed \cup {cur}) : ready' = ready \cup {t}
    /\ UNCHANGED <<checkers, started, threadIdx, task, timed, cur, cop, joinee, held, calls,
                   spurious, dropped>>

\* A handle that names no task, a full pool, a status query: nothing changes.
DoNothing(c) ==
    /\ Locked(c, "spawn") \/ Locked(c, "cancel")
    /\ UnlockAndResume /\ Goto(c, "idle")
    /\ UNCHANGED <<checkers, started, threadIdx, task, work, cop, joinee, held, calls,
                   spurious, dropped>>

DoCancel(c) ==
    /\ Locked(c, "cancel") /\ UnlockAndResume /\ Goto(c, "idle")
    /\ \E t \in ready \cup timed : ready' = ready \ {t} /\ timed' = timed \ {t}
    /\ UNCHANGED <<checkers, started, threadIdx, task, cur, cop, joinee, held, calls,
                   spurious, dropped>>

DoSuspend(c) ==
    /\ Locked(c, "suspend") /\ mutex' = None /\ Goto(c, "idle")
    /\ held' = [held EXCEPT ![c] = TRUE]
    /\ UNCHANGED <<waiters, checkers, started, threadIdx, task, work, xpc, cop, joinee, calls,
                   spurious, dropped>>

DoResume(c) ==
    /\ Locked(c, "resume") /\ UnlockAndResume /\ Goto(c, "idle")
    /\ held' = [held EXCEPT ![c] = FALSE]
    /\ UNCHANGED <<checkers, started, threadIdx, task, work, cop, joinee, calls, spurious,
                   dropped>>

\* Mutant: "already started, just return" without leaving the waiters.
StartReturnsCounted(c) ==
    /\ Locked(c, "start") /\ mutex' = None /\ Goto(c, "idle")
    /\ UNCHANGED <<waiters, checkers, started, threadIdx, task, work, xpc, cop, joinee, held,
                   calls, spurious, dropped>>

\* start on a running executor, or one whose thread cannot be created.
StartReturns(c) ==
    /\ Locked(c, "start") /\ UnlockAndResume /\ Goto(c, "idle")
    /\ UNCHANGED <<checkers, started, threadIdx, task, work, cop, joinee, held, calls,
                   spurious, dropped>>

\* _z_task_init makes a thread that may run before its id is stored in _task.
StartCreates(c) ==
    /\ Locked(c, "start") /\ ~started /\ threadIdx \in Gens /\ Goto(c, "store")
    /\ xpc' = [xpc EXCEPT ![threadIdx] = "init"]
    /\ UNCHANGED <<shared, work, cop, joinee, held, calls, spurious, dropped>>

\* Mutant: the id of the new thread goes to a local variable.
StoreTaskLocal(c) ==
    /\ cpc[c] = "store" /\ Goto(c, "await")
    /\ UNCHANGED <<shared, work, xpc, cop, joinee, held, calls, spurious, dropped>>

StoreTask(c) ==
    /\ cpc[c] = "store" /\ task' = threadIdx /\ Goto(c, "await")
    /\ UNCHANGED <<mutex, waiters, checkers, started, threadIdx, work, xpc, cop, joinee, held,
                   calls, spurious, dropped>>

StartAwaits(c) ==
    /\ cpc[c] = "await" /\ started /\ UnlockAndResume /\ Goto(c, "idle")
    /\ UNCHANGED <<checkers, started, threadIdx, task, work, cop, joinee, held, calls,
                   spurious, dropped>>

\* stop, also as the first half of clear.
StopReturns(c) ==
    /\ Locked(c, "stop") \/ Locked(c, "clear")
    /\ ~started /\ UnlockAndResume /\ Goto(c, AfterStop(c))
    /\ UNCHANGED <<checkers, started, threadIdx, task, work, cop, joinee, held, calls,
                   spurious, dropped>>

StopDrains(c) ==
    /\ Locked(c, "stop") \/ Locked(c, "clear")
    /\ started /\ checkers = 0 /\ Goto(c, "flip")
    /\ UNCHANGED <<shared, work, xpc, cop, joinee, held, calls, spurious, dropped>>

StopFlips(c) ==
    /\ cpc[c] = "flip" /\ Goto(c, "join")
    /\ threadIdx' = threadIdx + 1 /\ started' = FALSE
    /\ joinee' = [joinee EXCEPT ![c] = task]
    /\ UnlockAndResume
    /\ UNCHANGED <<checkers, task, work, cop, held, calls, spurious, dropped>>

\* Mutant: the thread is detached instead of joined.
StopDetaches(c) ==
    /\ cpc[c] = "join" /\ Goto(c, AfterStop(c))
    /\ UNCHANGED <<shared, work, xpc, cop, joinee, held, calls, spurious, dropped>>

StopJoins(c) ==
    /\ cpc[c] = "join" /\ xpc[joinee[c]] = "done" /\ Goto(c, AfterStop(c))
    /\ UNCHANGED <<shared, work, xpc, cop, joinee, held, calls, spurious, dropped>>

\* clear: the executor, the condition variable and the mutex are released.
DropAll(c) ==
    /\ cpc[c] = "drop" /\ dropped' = TRUE /\ Goto(c, "gone")
    /\ ready' = {} /\ timed' = {}
    /\ UNCHANGED <<shared, cur, xpc, cop, joinee, held, calls, spurious>>

-----------------------------------------------------------------------------
(* The executor threads.                                                   *)

XGoto(g, l) == xpc' = [xpc EXCEPT ![g] = l]

\* Mutant: _started is set first and thread_idx read after it.
XInitStartsFirst(g) ==
    /\ xpc[g] = "init" /\ started' = TRUE
    /\ XGoto(g, IF started THEN "lock" ELSE "init")
    /\ UNCHANGED <<mutex, waiters, checkers, threadIdx, task, work, client, spurious, dropped>>

\* task_fn: thread_idx is read (it is g, see StartCreates) and _started set.
XInit(g) ==
    /\ xpc[g] = "init" /\ started' = TRUE /\ XGoto(g, "lock")
    /\ UNCHANGED <<mutex, waiters, checkers, threadIdx, task, work, client, spurious, dropped>>

XLock(g) ==
    /\ xpc[g] = "lock" /\ mutex = None /\ mutex' = g /\ XGoto(g, "check")
    /\ UNCHANGED <<waiters, checkers, started, threadIdx, task, work, client, spurious, dropped>>

XWait(g, l) == XGoto(g, l) /\ mutex' = None

\* The head of run_forever's loop: stop, give way to the waiters, or spin.
XExit(g) ==
    /\ xpc[g] = "check" /\ g < threadIdx /\ XWait(g, "done")
    /\ UNCHANGED <<waiters, checkers, started, threadIdx, task, work, client, spurious, dropped>>

XYield(g) ==
    /\ xpc[g] = "check" /\ g >= threadIdx /\ waiters > 0 /\ XWait(g, "wait")
    /\ UNCHANGED <<waiters, checkers, started, threadIdx, task, work, client, spurious, dropped>>

\* Mutant: the loop does not look at _waiters.
XSpinIgnoresWaiters(g) ==
    /\ xpc[g] = "check" /\ g >= threadIdx
    /\ IF ready = {}
       THEN XGoto(g, "status") /\ UNCHANGED work
       ELSE /\ XGoto(g, "task") /\ UNCHANGED timed
            /\ \E t \in ready : cur' = t /\ ready' = ready \ {t}
    /\ UNCHANGED <<shared, client, spurious, dropped>>

XSpin(g) ==
    /\ xpc[g] = "check" /\ g >= threadIdx /\ waiters = 0
    /\ IF ready = {}
       THEN XGoto(g, "status") /\ UNCHANGED work
       ELSE /\ XGoto(g, "task") /\ UNCHANGED timed
            /\ \E t \in ready : cur' = t /\ ready' = ready \ {t}
    /\ UNCHANGED <<shared, client, spurious, dropped>>

\* A task function calls spawn: recognised as the executor it needs no lock,
\* otherwise it would block on the mutex its own thread holds.
XCall(g) ==
    /\ xpc[g] = "task"
    /\ IF started /\ task = g
       THEN /\ \E t \in Tasks \ (ready \cup timed \cup {cur}) : ready' = ready \cup {t}
            /\ xpc' = xpc
       ELSE XGoto(g, "stuck") /\ ready' = ready
    /\ UNCHANGED <<shared, timed, cur, client, spurious, dropped>>

\* The task function returns finished, running or sleeping.
XTaskEnd(g) ==
    /\ xpc[g] = "task" /\ XGoto(g, "status") /\ cur' = None
    /\ \/ UNCHANGED <<ready, timed>>
       \/ ready' = ready \cup {cur} /\ timed' = timed
       \/ timed' = timed \cup {cur} /\ ready' = ready
    /\ UNCHANGED <<shared, client, spurious, dropped>>

\* The result of _z_executor_spin decides whether to wait; a wake-up time no
\* more than 1 ms away is not worth waiting for.
XAgain(g) ==
    /\ xpc[g] = "status" /\ ready \cup timed # {} /\ XGoto(g, "check")
    /\ UNCHANGED <<shared, work, client, spurious, dropped>>

XSleep(g) ==
    /\ xpc[g] = "status" /\ ready = {}
    /\ XWait(g, IF timed = {} THEN "wait" ELSE "timedwait")
    /\ UNCHANGED <<waiters, checkers, started, threadIdx, task, work, client, spurious, dropped>>

XTimeout(g) ==
    /\ xpc[g] = "timedwait" /\ XGoto(g, "lock")
    /\ UNCHANGED <<shared, work, client, spurious, dropped>>

XSpurious(g) ==
    /\ xpc[g] = "wait" /\ spurious < MaxSpurious /\ spurious' = spurious + 1
    /\ XGoto(g, "lock")
    /\ UNCHANGED <<shared, work, client, dropped>>

\* Time passes: a sleeping task becomes due.
Elapse(t) ==
    /\ t \in timed /\ timed' = timed \ {t} /\ ready' = ready \cup {t}
    /\ UNCHANGED <<shared, cur, xpc, client, spurious, dropped>>

-----------------------------------------------------------------------------
Proceed(c) ==
    \/ LoadStarted(c) \/ ReadTask(c) \/ Count(c) \/ Lock(c)
    \/ DoSpawn(c) \/ DoNothing(c) \/ DoCancel(c) \/ DoSuspend(c) \/ DoResume(c)
    \/ StartReturns(c) \/ StartCreates(c) \/ StoreTask(c) \/ StartAwaits(c)
    \/ StopReturns(c) \/ StopDrains(c) \/ StopFlips(c) \/ StopJoins(c) \/ DropAll(c)

XProceed(g) ==
    \/ XInit(g) \/ XLock(g) \/ XExit(g) \/ XYield(g) \/ XSpin(g)
    \/ XTaskEnd(g) \/ XAgain(g) \/ XSleep(g) \/ XTimeout(g)

Next ==
    \/ \E c \in Clients : Proceed(c) \/ \E op \in Ops : Call(c, op)
    \/ \E g \in Gens : XProceed(g) \/ XCall(g) \/ XSpurious(g)
    \/ \E t \in Tasks : Elapse(t)

\* Every thread runs when it can, and time passes.  No fairness is asked of the
\* mutex: the calls are bounded, and that is what lets a caller in.
Fairness ==
    /\ \A c \in Clients : WF_vars(Proceed(c))
    /\ \A g \in Gens : WF_vars(XProceed(g))
    /\ \A t \in Tasks : WF_vars(Elapse(t))

Spec     == Init /\ [][Next]_vars
FairSpec == Spec /\ Fairness

-----------------------------------------------------------------------------
(* Properties.                                                             *)

\* A client counts once for the call it is in and once while it is suspended.
InCall  == {c \in Clients : cop[c] # "resume" /\
                cpc[c] \in {"lock", "locked", "store", "await", "flip"}}
Holding == {c \in Clients : held[c]}

ClientPC == {"idle", "check", "read", "count", "lock", "locked", "store", "await", "flip",
             "join", "drop", "gone"}
ThreadPC == {"none", "init", "lock", "check", "task", "status", "wait", "timedwait", "done",
             "stuck"}

\* Every variable keeps its type (_z_background_executor_inner_t); neither counter
\* falls below zero.
TypeOK ==
    /\ mutex \in Clients \cup Gens \cup {None}
    /\ waiters \in Nat /\ checkers \in Nat /\ started \in BOOLEAN
    /\ threadIdx \in 0..(MaxGen + 1) /\ task \in Gens \cup {None}
    /\ ready \subseteq Tasks /\ timed \subseteq Tasks /\ cur \in Tasks \cup {None}
    /\ xpc \in [Gens -> ThreadPC] /\ cpc \in [Clients -> ClientPC]
    /\ cop \in [Clients -> Ops]
    /\ joinee \in [Clients -> Gens \cup {None}]
    /\ held \in [Clients -> BOOLEAN]
    /\ calls \in [Clients -> 0..MaxCalls]
    /\ spurious \in 0..MaxSpurious /\ dropped \in BOOLEAN

\* _waiters is exactly the number of callers between suspend_and_lock and
\* unlock_and_resume plus the suspended clients: it never underflows, and no
\* early return leaves the executor waiting for nobody.
WaitersExact == waiters = Cardinality(InCall) + Cardinality(Holding)

\* While a client is between suspend and resume the executor thread runs no
\* task: not one that was already selected, not one another client spawns
\* meanwhile, and not on a thread started meanwhile.
SuspendExcludes ==
    \A c \in Clients : held[c] => \A g \in Gens : xpc[g] # "task"

\* _z_background_executor_inner_stop: "after resume the executor thread will
\* proceed to stop directly without trying to execute any tasks".
StoppedIsQuiet == ~started => \A g \in Gens : xpc[g] # "task"

\* A call made by a task function is always recognised as coming from the
\* executor thread, so it never waits for the mutex its own thread holds, and
\* two executor threads never run tasks together.
NoSelfDeadlock ==
    \A g \in Gens : xpc[g] # "stuck" /\ (xpc[g] = "task" => started /\ task = g)

\* _z_background_executor_inner_task_fn reads _thread_idx without the mutex:
\* "this is safe since _z_background_executor_inner_start holds the mutex until
\* be->_started is set to true".
ThreadIdxStable == \A g \in Gens : xpc[g] = "init" => threadIdx = g

\* Once the last reference has been dropped no thread still uses the mutex or
\* the condition variable that clear destroyed.
DroppedUnused ==
    dropped => mutex = None /\ \A g \in Gens : xpc[g] \in {"none", "done"}

\* A stop whose thread has not yet left when another client starts a new one.
Overtaken(c) == cpc[c] = "join" /\ task # joinee[c]

\* Every call returns, stop also while a client keeps the executor suspended
\* ("extra check to allow to stop executor thread even if there are waiters")
\* and all of them while tasks are always ready, although run_forever never
\* releases the mutex between two such tasks except for a waiter.  The one
\* exception is a stop overtaken by a start.
CallsReturn ==
    \A c \in Clients : []<>(cpc[c] \in {"idle", "gone"} \/ Overtaken(c))

\* No wake-up is lost: ready work on a started executor is run, unless somebody
\* stops or suspends it.
ReadyWorkRuns ==
    []<>(cur # None \/ ready = {} \/ ~started \/ \E c \in Clients : held[c])
=============================================================================
