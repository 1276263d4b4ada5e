------------------------------ MODULE Executor ------------------------------
(***************************************************************************)
(* The cooperative executor of src/src/runtime/executor.c: a fixed pool of *)
(* tasks (_tasks), a FIFO of pool indices ready to run (_ready_tasks) and  *)
(* a binary heap of pool indices ordered by wake-up time (_sleeping_tasks).*)
(*                                                                         *)
(* _z_executor_spin is three kinds of step: SpinStart enters it, every     *)
(* SpinLoop is one turn of its selection loop, and Complete* is the task   *)
(* function returning.  Between them the task function may call the        *)
(* executor again (spawn, cancel, resume), which is why those operations   *)
(* are enabled both outside spin and while a task runs, but never inside   *)
(* the selection loop.                                                     *)
(*                                                                         *)
(* A future stands for itself, for its pool key and for its handle: ids    *)
(* are drawn from a counter that skips 0, so no two spawned futures share  *)
(* one.  Futures are numbered in the order in which they are spawned.      *)
(***************************************************************************)
EXTENDS PQueue, FiniteSets

CONSTANTS MaxFuts,    \* bound on the futures the program spawns
          Capacities, \* values of Z_RUNTIME_MAX_TASKS to consider
          Delays,     \* the arguments of _z_fut_fn_result_wake_up_after
          MaxTime,    \* bound on the clock, relative to _epoch
          NullFut,    \* a task whose _fut_fn is NULL
          NoSlot      \* no pool index

ASSUME ExecutorAssumption ==
    /\ MaxFuts \in Nat /\ Capacities \subseteq Nat \ {0} /\ NoSlot \notin Nat
    /\ NullFut \notin 1 .. MaxFuts
    /\ Delays \subseteq Nat /\ MaxTime \in Nat

Futs == 1 .. MaxFuts

VARIABLES maxTasks,   \* Z_RUNTIME_MAX_TASKS of this build
          tasks,      \* _tasks: occupied pool indices and their _z_fut_data_t
          free,       \* its free list
          ready,      \* _ready_tasks
          sleeping,   \* _sleeping_tasks
          now,        \* the clock in ms since _epoch
          pc,         \* "out" of spin, in its "loop", in a task ("run"), "dead"
          cur,        \* fut_idx while a task function runs
          drops       \* how often each future's destroy function was called

vars == <<maxTasks, tasks, free, ready, sleeping, now, pc, cur, drops>>

Slots == 1 .. maxTasks  \* pool indices

\* A task that is to run is "ready", also where the code says "running": only
\* _z_executor_get_fut_status tells them apart.
Schedule(st, w) == [status |-> st, wake |-> w]
Ready     == Schedule("ready", 0)
Suspended == Schedule("suspended", 0)

Task == [key : Futs, fut : Futs \cup {NullFut},
         sched : {Ready, Suspended} \cup
                 {Schedule("sleeping", w) : w \in 0..MaxTime}]

Occupied == DOMAIN tasks
Spawned  == {f \in Futs : drops[f] > 0 \/ \E s \in Occupied : tasks[s].fut = f}

Init ==
    /\ maxTasks \in Capacities
    /\ tasks = << >> /\ free = [k \in Slots |-> k]
    /\ ready = << >> /\ sleeping = << >>
    /\ now = 0
    /\ pc = "out" /\ cur = NoSlot
    /\ drops = [f \in Futs |-> 0]

-----------------------------------------------------------------------------
(* Pool, queues and destruction.                                           *)

Without(fn, s) == [t \in DOMAIN fn \ {s} |-> fn[t]]
With(fn, s, v) == [t \in DOMAIN fn \cup {s} |-> IF t = s THEN v ELSE fn[t]]

\* An index that becomes free is the first to be used again.
Release(tsk, s) == tasks' = Without(tsk, s) /\ free' = <<s>> \o free

\* _z_fut_destroy calls the destroy function once and then forgets it.
Drop(f) == IF f = NullFut THEN drops ELSE [drops EXCEPT ![f] = @ + 1]

\* Mutant: push_front instead of push_back.
PushReadyFront(q, s) == IF Len(q) = maxTasks THEN q ELSE <<s>> \o q

\* The deque refuses an element when it is full.
PushReady(q, s) == IF Len(q) = maxTasks THEN q ELSE Append(q, s)

\* The order of the heap: the wake-up bits of the schedule, 0 when not sleeping.
Wake(tsk) == [s \in DOMAIN tsk |-> tsk[s].sched.wake]

\* Mutant: the index is appended to the heap and left there.
PushSleepingUnsifted(q, tsk, s) == IF Len(q) = maxTasks THEN q ELSE Append(q, s)

PushSleeping(q, tsk, s) == PQPush(q, Wake(tsk), maxTasks, s)

PopSleeping(q, tsk) == PQPop(q, Wake(tsk))

-----------------------------------------------------------------------------
(* The operations other code calls.                                        *)

CanCall == pc \in {"out", "run"}

\* A full pool destroys the future and returns the null handle.
Spawn ==
    /\ CanCall /\ Spawned # Futs
    /\ LET f == Cardinality(Spawned) + 1
       IN  \/ /\ free # << >> /\ free' = Tail(free)
              /\ tasks' = With(tasks, Head(free), [key |-> f, fut |-> f, sched |-> Ready])
              /\ ready' = PushReady(ready, Head(free))
              /\ drops' = drops
           \/ /\ free = << >>
              /\ drops' = Drop(f)
              /\ UNCHANGED <<tasks, free, ready>>
    /\ UNCHANGED <<maxTasks, sleeping, now, pc, cur>>

\* The task becomes a null task in place; its index stays in whatever queue
\* holds it.
Cancel(f) ==
    /\ CanCall
    /\ \E s \in Occupied :
        /\ tasks[s].key = f
        /\ tasks' = [tasks EXCEPT ![s].fut = NullFut, ![s].sched = Ready]
        /\ drops' = Drop(tasks[s].fut)
    /\ UNCHANGED <<maxTasks, free, ready, sleeping, now, pc, cur>>

ResumeSuspended(f) ==
    /\ CanCall
    /\ \E s \in Occupied :
        /\ tasks[s].key = f /\ tasks[s].sched = Suspended
        /\ tasks' = [tasks EXCEPT ![s].sched = Ready]
        /\ ready' = PushReady(ready, s)
    /\ UNCHANGED <<maxTasks, free, sleeping, now, pc, cur, drops>>

-----------------------------------------------------------------------------
(* _z_executor_spin.                                                       *)

SpinStart ==
    /\ pc = "out" /\ pc' = "loop"
    /\ UNCHANGED <<maxTasks, tasks, free, ready, sleeping, now, cur, drops>>

RootDue == sleeping # << >> /\ now > Wake(tasks)[Head(sleeping)]

\* What the loop does with the selected index: a null task is removed and a
\* suspended one is passed over, both turning the loop again.
Dispatch(s, tsk) ==
    CASE tsk[s].fut = NullFut ->
            /\ Release(tsk, s) /\ UNCHANGED <<pc, cur>>
      [] tsk[s].fut # NullFut /\ tsk[s].sched = Suspended ->
            /\ tasks' = tsk /\ UNCHANGED <<free, pc, cur>>
      [] OTHER ->
            /\ tasks' = tsk /\ pc' = "run" /\ cur' = s /\ free' = free

\* Mutant: the due sleeper is popped but not queued behind the ready tasks.
SelectDueForgets ==
    /\ pc = "loop" /\ RootDue
    /\ sleeping' = PopSleeping(sleeping, tasks)
    /\ IF ready # << >>
       THEN ready' = Tail(ready) /\ Dispatch(Head(ready), tasks)
       ELSE ready' = ready /\ Dispatch(Head(sleeping), tasks)
    /\ UNCHANGED <<maxTasks, now, drops>>

\* A due sleeper yields to the head of the ready queue and joins its tail; it
\* runs at once only when nothing is ready.
SelectDue ==
    /\ pc = "loop" /\ RootDue
    /\ LET s == Head(sleeping)
       IN  /\ sleeping' = PopSleeping(sleeping, tasks)
           /\ IF ready # << >>
              THEN /\ ready' = PushReady(Tail(ready), s)
                   /\ Dispatch(Head(ready), [tasks EXCEPT ![s].sched = Ready])
              ELSE /\ ready' = ready
                   /\ Dispatch(s, tasks)
    /\ UNCHANGED <<maxTasks, now, drops>>

SelectReady ==
    /\ pc = "loop" /\ ~RootDue /\ ready # << >>
    /\ ready' = Tail(ready)
    /\ Dispatch(Head(ready), tasks)
    /\ UNCHANGED <<maxTasks, sleeping, now, drops>>

NothingToRun ==
    /\ pc = "loop" /\ ~RootDue /\ ready = << >>
    /\ pc' = "out"
    /\ UNCHANGED <<maxTasks, tasks, free, ready, sleeping, now, cur, drops>>

\* The task function returns; cur may meanwhile have been cancelled by itself.
Return ==
    /\ pc = "run" /\ pc' = "out" /\ cur' = NoSlot
    /\ UNCHANGED <<maxTasks, now>>

Reschedule(sched) == tasks' = [tasks EXCEPT ![cur].sched = sched] /\ free' = free

CompleteRunning ==
    /\ Return /\ Reschedule(Ready)
    /\ ready' = PushReady(ready, cur)
    /\ UNCHANGED <<sleeping, drops>>

CompleteSleeping(d) ==
    /\ now + d < MaxTime
    /\ Return /\ Reschedule(Schedule("sleeping", now + d))
    /\ sleeping' = PushSleeping(sleeping, tasks', cur)
    /\ UNCHANGED <<ready, drops>>

CompleteReady ==
    /\ Return /\ Release(tasks, cur)
    /\ drops' = Drop(tasks[cur].fut)
    /\ UNCHANGED <<ready, sleeping>>

CompleteSuspended ==
    /\ Return /\ Reschedule(Suspended)
    /\ UNCHANGED <<ready, sleeping, drops>>

Complete ==
    \/ CompleteRunning \/ CompleteReady \/ CompleteSuspended
    \/ \E d \in Delays : CompleteSleeping(d)

SpinLoop == SelectDue \/ SelectReady \/ NothingToRun

-----------------------------------------------------------------------------
\* _z_executor_destroy empties the pool, destroying what is left in it.
Destroy ==
    /\ pc = "out" /\ pc' = "dead"
    /\ tasks' = << >> /\ free' = << >> /\ ready' = << >> /\ sleeping' = << >>
    /\ drops' = [f \in Futs |-> drops[f] + Cardinality({s \in Occupied : tasks[s].fut = f})]
    /\ UNCHANGED <<maxTasks, now, cur>>

Tick ==
    /\ now < MaxTime /\ now' = now + 1
    /\ UNCHANGED <<maxTasks, tasks, free, ready, sleeping, pc, cur, drops>>

Spin == SpinStart \/ SpinLoop \/ Complete

Next ==
    \/ Spawn \/ \E f \in Futs : Cancel(f) \/ ResumeSuspended(f)
    \/ SpinStart \/ SelectDue \/ SelectReady \/ NothingToRun
    \/ CompleteRunning \/ CompleteReady \/ CompleteSuspended
    \/ \E d \in Delays : CompleteSleeping(d)
    \/ Destroy \/ Tick

\* The owner of the executor keeps spinning it, task functions return and time
\* passes.
Fairness == WF_vars(Spin) /\ WF_vars(Tick)

Spec     == Init /\ [][Next]_vars
FairSpec == Spec /\ Fairness

-----------------------------------------------------------------------------
(* Properties.                                                             *)

Range1(q)   == {q[i] : i \in DOMAIN q}
Queued      == Range1(ready) \cup Range1(sleeping)
Live(s)     == tasks[s].fut # NullFut
InFlight(s) == s \in Queued \/ (pc = "run" /\ s = cur)

\* Every variable keeps its type (executor.h: _z_executor_t).
TypeOK ==
    /\ Occupied \subseteq Slots /\ \A s \in Occupied : tasks[s] \in Task
    /\ pc # "dead" => {free[k] : k \in DOMAIN free} = Slots \ Occupied
    /\ ready \in Seq(Slots) /\ sleeping \in Seq(Slots)
    /\ now \in 0..MaxTime
    /\ pc \in {"out", "loop", "run", "dead"}
    /\ cur \in Slots \cup {NoSlot}
    /\ drops \in [Futs -> Nat]

\* Every task is in exactly one place.  The ready queue, the heap and the
\* running task hold disjoint, duplicate-free sets of occupied indices, which
\* makes "can't fail since we have enough capacity" true of every push and keeps
\* a reused index from running another task's turn; and a live task that is not
\* suspended is in one of them: no path through cancel, resume, due sleepers and
\* the bounded pushes loses one.  And executor.h: "The executor takes the ownership
\* of the future, and will destroy the future [...] when the future is finished or
\* cancelled": once, whether it finishes, is cancelled (even by itself while it
\* runs), is refused by a full pool or is there when the executor is destroyed.
TasksOwnedOnce ==
    LET q == ready \o sleeping
    IN  /\ \A i, j \in DOMAIN q : q[i] = q[j] => i = j
        /\ Range1(q) \subseteq Occupied
        /\ pc = "run" => cur \in Occupied \ Range1(q)
        /\ \A s \in Occupied : Live(s) /\ tasks[s].sched # Suspended => InFlight(s)
        /\ \A f \in Futs :
              /\ drops[f] + Cardinality({s \in Occupied : tasks[s].fut = f}) <= 1
              /\ pc = "dead" => \A s \in Occupied : tasks[s].fut # f

\* Entries left behind by a cancellation are the only thing that disturbs the
\* order of the heap: once they have drained, its root is the earliest sleeper.
RootEarliestOnceDrained ==
    (\A s \in Range1(sleeping) : Live(s)) =>
        \A s \in Range1(sleeping) : Wake(tasks)[Head(sleeping)] <= Wake(tasks)[s]

\* A task in a queue gets its turn: it runs, unless it is destroyed first.  The
\* FIFO hand-over between due sleepers and ready tasks starves nobody, and a
\* heap disturbed by cancellations still wakes every sleeper.
QueuedRuns ==
    \A f \in Futs :
        []<>(\/ \A s \in Queued : tasks[s].fut # f
             \/ drops[f] > 0 \/ (pc = "run" /\ tasks[cur].fut = f))
=============================================================================
