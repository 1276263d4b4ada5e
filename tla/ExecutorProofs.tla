--------------------------- MODULE ExecutorProofs ---------------------------
(***************************************************************************)
(* Proofs about the executor: every task is in exactly one place, its      *)
(* future is destroyed once, and the heap of sleepers is in order but for  *)
(* the entries that a cancellation has left behind.                        *)
(*                                                                         *)
(* And about the threads around it: they wait for each other only in the   *)
(* uses that are known for it, however many threads the application has.   *)
(***************************************************************************)
EXTENDS Executor, Locking, PQueueProofs

PoolInv ==
    /\ maxTasks \in Nat \ {0} /\ Occupied \subseteq Slots /\ tasks \in [Occupied -> Task]
    /\ now \in 0..MaxTime /\ pc \in {"out", "loop", "run", "dead"}
    /\ cur \in Slots \cup {NoSlot} /\ drops \in [Futs -> Nat]
    /\ pc = "dead" => Occupied = {}
    /\ pc # "dead" => free \in Seq(Slots) /\ OneToOne(free) /\ Elements(free) = Slots \ Occupied

QueueInv ==
    /\ ready \in Seq(Occupied) /\ sleeping \in Seq(Occupied) /\ OneToOne(ready) /\ OneToOne(sleeping)
    /\ Elements(ready) \cap Elements(sleeping) = {}
    /\ pc = "run" => cur \in Occupied \ (Elements(ready) \cup Elements(sleeping))

Flying(s) == s \in Elements(ready) \/ s \in Elements(sleeping) \/ (pc = "run" /\ s = cur)

\* A live task is in a queue or running if and only if it is not suspended.
FlightInv ==
    \A s \in Occupied : /\ Live(s) /\ tasks[s].sched # Suspended => Flying(s)
                        /\ tasks[s].sched = Suspended => ~Flying(s)

\* No two tasks have the same future, none has a destroyed one, and the futures
\* spawned so far are the first ones.
FutInv ==
    /\ \A s, t \in Occupied : tasks[s].fut = tasks[t].fut /\ tasks[s].fut # NullFut => s = t
    /\ \A f \in Futs : drops[f] <= 1 /\ (drops[f] = 1 => \A s \in Occupied : tasks[s].fut # f)
    /\ \E k \in 0..MaxFuts : Spawned = 1..k

\* What a cancellation leaves in the heap.
LeftBehind == {s \in Occupied : ~Live(s) /\ tasks[s].sched.wake = 0}

HeapInv == Ordered(sleeping, Wake(tasks), LeftBehind)

ExecInv == PoolInv /\ QueueInv /\ FlightInv /\ FutInv /\ HeapInv

-----------------------------------------------------------------------------
\* What schedules and tasks are made of.
LEMMA SchedTypes ==
    /\ Ready.wake = 0 /\ Suspended.wake = 0 /\ Ready # Suspended
    /\ \A t \in Task : t.sched.wake \in Nat /\ t.key \in Futs /\ t.fut \in Futs \cup {NullFut}
    /\ \A w \in 0..MaxTime : Schedule("sleeping", w) # Suspended /\ Schedule("sleeping", w).wake = w
BY ExecutorAssumption DEF Ready, Suspended, Schedule, Task

\* The updates of a task that the actions make leave a task.
LEMMA SetTask ==
    ASSUME NEW t \in Task, NEW w \in 0..MaxTime
    PROVE  /\ [t EXCEPT !.sched = Ready] \in Task /\ [t EXCEPT !.sched = Suspended] \in Task
           /\ [t EXCEPT !.sched = Schedule("sleeping", w)] \in Task
           /\ [t EXCEPT !.fut = NullFut, !.sched = Ready] \in Task
BY DEF Task

\* The sleeping heap is ordered by the wake-up times of the tasks.
LEMMA WakeTypes ==
    ASSUME PoolInv
    PROVE  \A s \in Occupied : Wake(tasks)[s] = tasks[s].sched.wake /\ Wake(tasks)[s] \in Nat
BY SchedTypes DEF PoolInv, Wake, Occupied

\* The new executor: an empty pool.
LEMMA InitExec == Init => ExecInv
<1> SUFFICES ASSUME Init PROVE ExecInv
  OBVIOUS
<1>1. Occupied = {}
  BY DEF Init, Occupied
<1>2. maxTasks \in Nat \ {0}
  BY ExecutorAssumption DEF Init
<1>3. PoolInv
  <2>1. free \in [1..maxTasks -> Slots]
    BY <1>2 DEF Init, Slots
  <2>2. free \in Seq(Slots) /\ Len(free) = maxTasks
    BY <1>2, <2>1, FunctionIsSeq
  <2>3. OneToOne(free) /\ Elements(free) = Slots
    BY <1>2, <2>2 DEF Init, OneToOne, Elements, Slots
  <2>4. tasks \in [Occupied -> Task]
    BY <1>1 DEF Init
  <2> QED BY <1>1, <1>2, <2>2, <2>3, <2>4, ExecutorAssumption DEF Init, PoolInv
<1>4. QueueInv
  BY <1>1, EmptyQueue DEF Init, QueueInv
<1>5. FlightInv
  BY <1>1 DEF FlightInv
<1>6. FutInv
  <2>1. Spawned = {}
    BY <1>1 DEF Init, Spawned
  <2>2. 1..0 = {} /\ 0 \in 0..MaxFuts
    BY ExecutorAssumption
  <2> QED BY <1>1, <2>1, <2>2 DEF Init, FutInv
<1>7. HeapInv
  BY DEF Init, HeapInv, Ordered
<1> QED BY <1>3, <1>4, <1>5, <1>6, <1>7 DEF ExecInv

-----------------------------------------------------------------------------
(* Facts that several steps need.                                          *)

\* A step that leaves the heap alone, and the schedules of what is in it but for
\* cancellations, keeps it in order.
LEMMA HeapKept ==
    ASSUME PoolInv, PoolInv', QueueInv, HeapInv, sleeping' = sleeping, Elements(sleeping) \subseteq Occupied',
           \A t \in Elements(sleeping) :
               \/ tasks'[t].fut = tasks[t].fut /\ tasks'[t].sched = tasks[t].sched
               \/ tasks'[t].fut = NullFut /\ tasks'[t].sched.wake = 0
    PROVE  HeapInv'
<1>1. \A t \in Elements(sleeping) : Wake(tasks)[t] = tasks[t].sched.wake /\ Wake(tasks)[t] \in Nat
  BY WakeTypes DEF QueueInv, Elements
<1>2. \A t \in Elements(sleeping) : Wake(tasks')[t] = tasks'[t].sched.wake /\ Wake(tasks')[t] \in Nat
  BY SchedTypes DEF PoolInv, Wake, Occupied
<1> SUFFICES ASSUME NEW j \in 2..Len(sleeping)
             PROVE  Fits(sleeping, Wake(tasks'), LeftBehind', j \div 2, j)
  BY DEF HeapInv, Ordered
<1> DEFINE u == sleeping[j \div 2]
           t == sleeping[j]
<1>3. u \in Elements(sleeping) /\ t \in Elements(sleeping)
  BY DEF Elements, QueueInv
<1>4. Wake(tasks)[u] <= Wake(tasks)[t] \/ t \in LeftBehind
  BY DEF HeapInv, Ordered, Fits
<1> HIDE DEF u, t
<1>5. Wake(tasks')[u] <= Wake(tasks')[t] \/ t \in LeftBehind'
  <2>1. CASE tasks'[t].fut = NullFut /\ tasks'[t].sched.wake = 0
    BY <1>3, <2>1 DEF LeftBehind, Live
  <2>2. CASE tasks'[u].fut = NullFut /\ tasks'[u].sched.wake = 0
    BY <1>2, <1>3, <2>2
  <2>3. CASE /\ tasks'[t].fut = tasks[t].fut /\ tasks'[t].sched = tasks[t].sched
             /\ tasks'[u].fut = tasks[u].fut /\ tasks'[u].sched = tasks[u].sched
    <3>1. Wake(tasks')[u] = Wake(tasks)[u] /\ Wake(tasks')[t] = Wake(tasks)[t]
      BY <1>1, <1>2, <1>3, <2>3
    <3>2. t \in LeftBehind => t \in LeftBehind'
      BY <1>3, <2>3 DEF LeftBehind, Live
    <3> QED BY <1>4, <3>1, <3>2
  <2> QED BY <1>3, <2>1, <2>2, <2>3
<1> QED BY <1>5 DEF Fits, u, t

\* The ready queue has room for a slot that it does not hold.
LEMMA ReadyTakes ==
    ASSUME NEW q, NEW n \in Nat, maxTasks = n, q \in Seq(1..n), OneToOne(q), NEW s \in 1..n, s \notin Elements(q)
    PROVE  PushReady(q, s) = Append(q, s)
<1>1. Len(q) < n
  BY NotFull
<1> QED BY <1>1 DEF PushReady

\* The next future is one that was not spawned yet.
LEMMA NextFut ==
    ASSUME FutInv, PoolInv, Spawned # Futs
    PROVE  LET f == Cardinality(Spawned) + 1
           IN  /\ f \in Futs /\ f # NullFut /\ f \notin Spawned /\ drops[f] = 0
               /\ \E k \in 0..MaxFuts : Spawned \cup {f} = 1..k
               /\ \A s \in Occupied : tasks[s].fut # f
<1>1. PICK k \in 0..MaxFuts : Spawned = 1..k
  BY DEF FutInv
<1>2. Cardinality(Spawned) = k
  BY <1>1, CountUpTo
<1>3. k # MaxFuts /\ MaxFuts \in Nat
  BY <1>1, ExecutorAssumption DEF Futs
<1>4. k + 1 \in Futs /\ k + 1 \notin Spawned /\ Spawned \cup {k + 1} = 1..(k + 1) /\ k + 1 \in 0..MaxFuts
  BY <1>1, <1>3 DEF Futs
<1>5. drops[k + 1] = 0 /\ \A s \in Occupied : tasks[s].fut # k + 1
  BY <1>4 DEF Spawned, PoolInv
<1>6. k + 1 # NullFut
  BY <1>4, ExecutorAssumption DEF Futs
<1> QED BY <1>2, <1>4, <1>5, <1>6

-----------------------------------------------------------------------------
(* The steps.                                                              *)

LEMMA IdleSteps ==
    ASSUME ExecInv, SpinStart \/ NothingToRun \/ Tick \/ UNCHANGED vars
    PROVE  ExecInv'
<1>1. UNCHANGED <<maxTasks, tasks, free, ready, sleeping, cur, drops>>
  BY DEF SpinStart, NothingToRun, Tick, vars
<1>2. \/ pc = "out" /\ pc' = "loop"
      \/ pc = "loop" /\ pc' = "out"
      \/ pc' = pc
  BY DEF SpinStart, NothingToRun, Tick, vars
<1>3. now' \in 0..MaxTime
  BY ExecutorAssumption DEF ExecInv, PoolInv, SpinStart, NothingToRun, Tick, vars
<1>4. PoolInv'
  BY <1>1, <1>2, <1>3 DEF ExecInv, PoolInv, Occupied, Slots
<1>5. QueueInv'
  BY <1>1, <1>2 DEF ExecInv, QueueInv, Occupied
<1>6. FlightInv'
  BY <1>1, <1>2 DEF ExecInv, FlightInv, Flying, Live, Occupied
<1>7. FutInv'
  BY <1>1 DEF ExecInv, FutInv, Spawned, Occupied
<1>8. HeapInv'
  BY <1>1 DEF ExecInv, HeapInv, LeftBehind, Live, Occupied
<1> QED BY <1>4, <1>5, <1>6, <1>7, <1>8 DEF ExecInv

\* _z_executor_spawn: the new task takes a free slot and goes to the end of the ready queue.
LEMMA SpawnStep ==
    ASSUME ExecInv, Spawn
    PROVE  ExecInv'
<1> DEFINE f == Cardinality(Spawned) + 1
<1>1. /\ f \in Futs /\ f # NullFut /\ f \notin Spawned /\ drops[f] = 0
      /\ \E k \in 0..MaxFuts : Spawned \cup {f} = 1..k
      /\ \A s \in Occupied : tasks[s].fut # f
  BY NextFut DEF ExecInv, Spawn
<1>2. UNCHANGED <<maxTasks, sleeping, now, pc, cur>> /\ pc \in {"out", "run"}
  BY DEF Spawn, CanCall
<1>3. PoolInv /\ QueueInv /\ FlightInv /\ FutInv /\ HeapInv
  BY DEF ExecInv
<1>4. /\ maxTasks \in Nat /\ Slots = 1..maxTasks /\ Occupied \subseteq Slots /\ DOMAIN tasks = Occupied
      /\ free \in Seq(Slots) /\ OneToOne(free) /\ Elements(free) = Slots \ Occupied
  BY <1>2, <1>3 DEF PoolInv, Slots, Occupied
<1>5. CASE free # << >>
  <2>1. PICK s \in Slots : s = Head(free)
    BY <1>4, <1>5, Tailed
  <2> DEFINE new == [key |-> f, fut |-> f, sched |-> Ready]
  <2>2. free' = Tail(free) /\ tasks' = With(tasks, s, new) /\ ready' = PushReady(ready, s) /\ drops' = drops
    BY <1>5, <2>1 DEF Spawn
  <2>3. s \in Slots \ Occupied /\ free' \in Seq(Slots) /\ OneToOne(free') /\ Elements(free') = Elements(free) \ {s}
    BY <1>4, <1>5, <2>2, <2>1, Tailed
  <2>4. new \in Task /\ new.fut = f /\ new.sched = Ready
    BY <1>1 DEF Task
  <2> HIDE DEF f, new
  <2>5. Occupied' = Occupied \cup {s} /\ tasks'[s] = new /\ \A t \in Occupied : tasks'[t] = tasks[t]
    <3>1. DOMAIN tasks' = DOMAIN tasks \cup {s} /\ tasks'[s] = new /\ \A t \in DOMAIN tasks : t # s => tasks'[t] = tasks[t]
      BY <2>2 DEF With
    <3> QED BY <2>3, <3>1 DEF Occupied
  <2>6. PoolInv'
    <3>1. tasks' \in [Occupied' -> Task]
      BY <1>3, <2>2, <2>4, <2>5 DEF PoolInv, With, Occupied
    <3> QED BY <1>2, <1>3, <1>4, <2>2, <2>3, <2>5, <3>1 DEF PoolInv, Slots
  <2>7. ready' \in Seq(Occupied') /\ OneToOne(ready') /\ Elements(ready') = Elements(ready) \cup {s}
    <3>1. ready \in Seq(Occupied) /\ Elements(ready) \subseteq Occupied /\ OneToOne(ready)
      BY <1>3 DEF QueueInv, Elements
    <3>2. ready \in Seq(Slots) /\ ready \in Seq(Occupied')
      BY <1>4, <2>5, <3>1, SeqOver
    <3>3. ready' = Append(ready, s)
      BY <1>4, <2>2, <2>3, <3>1, <3>2, ReadyTakes
    <3> QED BY <2>3, <2>5, <3>1, <3>2, <3>3, Appended
  <2>8. QueueInv'
    <3>1. sleeping \in Seq(Occupied) /\ Elements(sleeping) \subseteq Occupied
      BY <1>3 DEF QueueInv, Elements
    <3>2. sleeping' \in Seq(Occupied')
      BY <1>2, <2>5, <3>1, SeqOver
    <3> QED BY <1>2, <1>3, <2>3, <2>5, <2>7, <3>1, <3>2 DEF QueueInv
  <2>9. FlightInv'
    <3>1. Flying(s)'
      BY <2>7 DEF Flying
    <3>2. \A t \in Occupied : Flying(t)' <=> Flying(t)
      BY <1>2, <2>3, <2>7 DEF Flying
    <3> QED BY <1>3, <2>4, <2>5, <3>1, <3>2, SchedTypes DEF FlightInv, Live
  <2>10. FutInv'
    <3>1. Spawned' = Spawned \cup {f}
      BY <1>1, <2>2, <2>4, <2>5 DEF Spawned
    <3> QED BY <1>1, <1>3, <2>2, <2>4, <2>5, <3>1 DEF FutInv
  <2>11. HeapInv'
    <3>1. Elements(sleeping) \subseteq Occupied
      BY <1>3 DEF QueueInv, Elements
    <3> QED BY <1>2, <1>3, <2>5, <2>6, <3>1, HeapKept
  <2> QED BY <2>6, <2>8, <2>9, <2>10, <2>11 DEF ExecInv
<1>6. CASE free = << >>
  <2>1. drops' = [drops EXCEPT ![f] = @ + 1] /\ UNCHANGED <<tasks, free, ready>>
    BY <1>1, <1>6 DEF Spawn, Drop
  <2> HIDE DEF f
  <2>2. PoolInv'
    BY <1>1, <1>2, <1>3, <2>1 DEF PoolInv, Occupied, Slots
  <2>3. QueueInv' /\ HeapInv'
    BY <1>2, <1>3, <2>1 DEF QueueInv, HeapInv, LeftBehind, Live, Occupied
  <2>4. FlightInv'
    BY <1>2, <1>3, <2>1 DEF FlightInv, Flying, Live, Occupied
  <2>5. FutInv'
    <3>1. drops \in [Futs -> Nat]
      BY <1>3 DEF PoolInv
    <3>2. drops'[f] = 1 /\ \A g \in Futs : g # f => drops'[g] = drops[g]
      BY <1>1, <2>1, <3>1
    <3>3. Spawned' = Spawned \cup {f}
      BY <1>1, <2>1, <3>2 DEF Spawned, Occupied
    <3> QED BY <1>1, <1>3, <2>1, <3>2, <3>3 DEF FutInv, Occupied
  <2> QED BY <2>2, <2>3, <2>4, <2>5 DEF ExecInv
<1> QED BY <1>5, <1>6

\* _z_fut_handle_cancel: the future goes, its slot stays until the executor meets it.
LEMMA CancelStep ==
    ASSUME ExecInv, NEW k \in Futs, Cancel(k)
    PROVE  ExecInv'
<1>1. PoolInv /\ QueueInv /\ FlightInv /\ FutInv /\ HeapInv
  BY DEF ExecInv
<1>2. UNCHANGED <<maxTasks, free, ready, sleeping, now, pc, cur>>
  BY DEF Cancel
<1>3. PICK s \in Occupied : /\ tasks' = [tasks EXCEPT ![s].fut = NullFut, ![s].sched = Ready]
                            /\ drops' = Drop(tasks[s].fut)
  BY DEF Cancel
<1>4. tasks \in [Occupied -> Task] /\ drops \in [Futs -> Nat]
  BY <1>1 DEF PoolInv
<1>5. /\ Occupied' = Occupied /\ tasks'[s].fut = NullFut /\ tasks'[s].sched = Ready
      /\ \A t \in Occupied : t # s => tasks'[t] = tasks[t]
  BY <1>3, <1>4 DEF Occupied, Task
<1>6. PoolInv'
  <2>1. [tasks[s] EXCEPT !.fut = NullFut, !.sched = Ready] \in Task
    BY <1>4, SetTask, ExecutorAssumption DEF Task
  <2>2. tasks' \in [Occupied' -> Task]
    BY <1>3, <1>4, <1>5, <2>1
  <2>3. drops' \in [Futs -> Nat]
    BY <1>3, <1>4 DEF Drop, Task
  <2> QED BY <1>1, <1>2, <1>5, <2>2, <2>3 DEF PoolInv, Slots
<1>7. QueueInv'
  BY <1>1, <1>2, <1>5 DEF QueueInv
<1>8. FlightInv'
  <2>1. \A t \in Occupied : Flying(t)' <=> Flying(t)
    BY <1>2 DEF Flying
  <2> QED BY <1>1, <1>5, <2>1, SchedTypes DEF FlightInv, Live
<1>9. FutInv'
  <2>1. CASE tasks[s].fut = NullFut
    <3>1. drops' = drops /\ \A t \in Occupied : tasks'[t].fut = tasks[t].fut
      BY <1>3, <1>5, <2>1 DEF Drop
    <3>2. Spawned' = Spawned
      BY <1>5, <3>1 DEF Spawned
    <3> QED BY <1>1, <1>5, <3>1, <3>2 DEF FutInv
  <2>2. CASE tasks[s].fut # NullFut
    <3> DEFINE g == tasks[s].fut
    <3>1. g \in Futs /\ drops[g] = 0
      BY <1>1, <1>4, <2>2 DEF FutInv, Task
    <3>2. drops' = [drops EXCEPT ![g] = @ + 1]
      BY <1>3, <2>2 DEF Drop
    <3>3. drops'[g] = 1 /\ \A e \in Futs : e # g => drops'[e] = drops[e]
      BY <1>4, <3>1, <3>2
    <3>4. \A t \in Occupied : t # s => tasks[t].fut # g
      BY <1>1, <2>2 DEF FutInv
    <3>5. NullFut \notin Futs
      BY ExecutorAssumption DEF Futs
    <3>6. Spawned' = Spawned
      BY <1>5, <3>1, <3>3, <3>5 DEF Spawned
    <3>7. ASSUME NEW e \in Futs PROVE drops'[e] <= 1 /\ (drops'[e] = 1 => \A t \in Occupied : tasks'[t].fut # e)
      BY <1>1, <1>5, <3>3, <3>4, <3>5, <3>7 DEF FutInv
    <3>8. \A t, u \in Occupied : tasks'[t].fut = tasks'[u].fut /\ tasks'[t].fut # NullFut => t = u
      BY <1>1, <1>5 DEF FutInv
    <3> QED BY <1>1, <1>5, <3>6, <3>7, <3>8 DEF FutInv
  <2> QED BY <2>1, <2>2
<1>10. HeapInv'
  <2>1. Elements(sleeping) \subseteq Occupied
    BY <1>1 DEF QueueInv, Elements
  <2> QED BY <1>1, <1>2, <1>5, <1>6, <2>1, SchedTypes, HeapKept
<1> QED BY <1>6, <1>7, <1>8, <1>9, <1>10 DEF ExecInv

\* The schedule of a task that is in no queue changes.
Rescheduled(s, sched) ==
    tasks \in [Occupied -> Task] /\ s \in Occupied /\ tasks' = [tasks EXCEPT ![s].sched = sched]

\* Writing the schedule of one task changes neither the pool nor the futures.
LEMMA RescheduledIs ==
    ASSUME NEW s, NEW sched, Rescheduled(s, sched), PoolInv, QueueInv, FutInv,
           UNCHANGED <<maxTasks, free, now, drops>>, pc # "dead", pc' # "dead", pc' \in {"out", "run"},
           cur' \in Slots \cup {NoSlot},
           sched \in {Ready, Suspended} \cup {Schedule("sleeping", w) : w \in 0..MaxTime}
    PROVE  /\ Occupied' = Occupied /\ tasks'[s].fut = tasks[s].fut /\ tasks'[s].sched = sched
           /\ \A t \in Occupied : t # s => tasks'[t] = tasks[t]
           /\ PoolInv' /\ FutInv'
<1>1. tasks \in [Occupied -> Task] /\ s \in Occupied /\ tasks' = [tasks EXCEPT ![s].sched = sched]
  BY DEF Rescheduled
<1>2. /\ Occupied' = Occupied /\ tasks'[s].fut = tasks[s].fut /\ tasks'[s].sched = sched
      /\ \A t \in Occupied : t # s => tasks'[t] = tasks[t]
  BY <1>1 DEF Occupied, Task
<1>3. [tasks[s] EXCEPT !.sched = sched] \in Task
  BY <1>1 DEF Task
<1>4. tasks' \in [Occupied' -> Task]
  BY <1>1, <1>2, <1>3
<1>5. PoolInv'
  BY <1>2, <1>4 DEF PoolInv, Slots
<1>6. \A t \in Occupied : tasks'[t].fut = tasks[t].fut
  BY <1>2
<1>7. Spawned' = Spawned
  BY <1>2, <1>6 DEF Spawned
<1>8. FutInv'
  BY <1>2, <1>6, <1>7 DEF FutInv
<1> QED BY <1>2, <1>5, <1>8

\* _z_executor_resume_suspended_fut: a suspended task, in no queue, returns to the ready queue.
LEMMA ResumeStep ==
    ASSUME ExecInv, NEW k \in Futs, ResumeSuspended(k)
    PROVE  ExecInv'
<1>1. PoolInv /\ QueueInv /\ FlightInv /\ FutInv /\ HeapInv
  BY DEF ExecInv
<1>2. UNCHANGED <<maxTasks, free, sleeping, now, pc, cur, drops>> /\ pc \in {"out", "run"}
  BY DEF ResumeSuspended, CanCall
<1>3. PICK s \in Occupied : /\ tasks[s].sched = Suspended /\ tasks' = [tasks EXCEPT ![s].sched = Ready]
                            /\ ready' = PushReady(ready, s)
  BY DEF ResumeSuspended
<1>4. Rescheduled(s, Ready)
  BY <1>1, <1>3 DEF Rescheduled, PoolInv
<1>5. cur' \in Slots \cup {NoSlot}
  BY <1>1, <1>2 DEF PoolInv
<1>6. /\ Occupied' = Occupied /\ tasks'[s].fut = tasks[s].fut /\ tasks'[s].sched = Ready
      /\ \A t \in Occupied : t # s => tasks'[t] = tasks[t]
      /\ PoolInv' /\ FutInv'
  BY <1>1, <1>2, <1>4, <1>5, RescheduledIs
<1>7. ~Flying(s)
  BY <1>1, <1>3 DEF FlightInv
<1>8. ready' \in Seq(Occupied) /\ OneToOne(ready') /\ Elements(ready') = Elements(ready) \cup {s}
  <2>1. ready \in Seq(Occupied) /\ Elements(ready) \subseteq Occupied /\ OneToOne(ready) /\ s \notin Elements(ready)
    BY <1>1, <1>7 DEF QueueInv, Elements, Flying
  <2>2. maxTasks \in Nat /\ Occupied \subseteq 1..maxTasks
    BY <1>1 DEF PoolInv, Slots
  <2>3. ready \in Seq(1..maxTasks)
    BY <2>1, <2>2, SeqOver
  <2>4. ready' = Append(ready, s)
    BY <1>3, <2>1, <2>2, <2>3, ReadyTakes
  <2> QED BY <2>1, <2>4, Appended
<1>9. QueueInv'
  BY <1>1, <1>2, <1>6, <1>7, <1>8 DEF QueueInv, Flying
<1>10. FlightInv'
  <2>1. Flying(s)' /\ \A t \in Occupied : t # s => (Flying(t)' <=> Flying(t))
    BY <1>2, <1>8 DEF Flying
  <2> QED BY <1>1, <1>6, <2>1, SchedTypes DEF FlightInv, Live
<1>11. HeapInv'
  <2>1. Elements(sleeping) \subseteq Occupied /\ s \notin Elements(sleeping)
    BY <1>1, <1>7 DEF QueueInv, Elements, Flying
  <2> QED BY <1>1, <1>2, <1>6, <2>1, HeapKept
<1> QED BY <1>6, <1>9, <1>10, <1>11 DEF ExecInv

-----------------------------------------------------------------------------
(* The turns of the selection loop.                                        *)

DeadIn(tsk) == {t \in DOMAIN tsk : tsk[t].fut = NullFut /\ tsk[t].sched.wake = 0}

\* The order of a heap depends on the keys of its elements alone.
LEMMA SameOrder ==
    ASSUME NEW E, NEW h \in Seq(E), NEW key, NEW X, Ordered(h, key, X), NEW keys, NEW Y,
           \A t \in Elements(h) : keys[t] = key[t] /\ (t \in X => t \in Y)
    PROVE  Ordered(h, keys, Y)
<1> SUFFICES ASSUME NEW j \in 2..Len(h) PROVE Fits(h, keys, Y, j \div 2, j)
  BY DEF Ordered
<1>1. j \div 2 \in 1..Len(h) /\ j \in 1..Len(h)
  OBVIOUS
<1>2. h[j \div 2] \in Elements(h) /\ h[j] \in Elements(h)
  BY <1>1 DEF Elements
<1>3. Fits(h, key, X, j \div 2, j)
  BY DEF Ordered
<1> QED BY <1>2, <1>3 DEF Fits

\* Taking a task from a queue, to run it or to free the slot of a cancelled one.
LEMMA DispatchKeeps ==
    ASSUME ExecInv, pc = "loop", NEW s \in Elements(ready) \cup Elements(sleeping), NEW tsk \in [Occupied -> Task],
           \A t \in Occupied : tsk[t].fut = tasks[t].fut /\ (tsk[t].sched = Suspended <=> tasks[t].sched = Suspended),
           Dispatch(s, tsk), UNCHANGED <<maxTasks, now, drops>>,
           ready' \in Seq(Occupied), sleeping' \in Seq(Occupied), OneToOne(ready'), OneToOne(sleeping'),
           Elements(ready') \cap Elements(sleeping') = {},
           Elements(ready') \cup Elements(sleeping') = (Elements(ready) \cup Elements(sleeping)) \ {s},
           Ordered(sleeping', Wake(tsk), DeadIn(tsk))
    PROVE  ExecInv'
<1>1. PoolInv /\ QueueInv /\ FlightInv /\ FutInv
  BY DEF ExecInv
<1>2. s \in Occupied /\ Flying(s) /\ tasks[s].sched # Suspended /\ s \notin Elements(sleeping') /\ s \notin Elements(ready')
  <2>1. s \in Occupied
    BY <1>1 DEF QueueInv, Elements
  <2>2. Flying(s)
    BY DEF Flying
  <2> QED BY <1>1, <2>1, <2>2 DEF FlightInv
<1>3. /\ maxTasks \in Nat /\ Slots' = Slots /\ Occupied \subseteq Slots /\ DOMAIN tasks = Occupied
      /\ free \in Seq(Slots) /\ OneToOne(free) /\ Elements(free) = Slots \ Occupied /\ cur \in Slots \cup {NoSlot}
  BY <1>1 DEF PoolInv, Slots, Occupied
<1>4. Elements(ready') \subseteq Occupied /\ Elements(sleeping') \subseteq Occupied
  BY DEF Elements
<1>5. CASE tsk[s].fut = NullFut
  <2>1. tasks' = Without(tsk, s) /\ free' = <<s>> \o free /\ pc' = pc /\ cur' = cur
    BY <1>5 DEF Dispatch, Release
  <2>2. Occupied' = Occupied \ {s} /\ \A t \in Occupied' : tasks'[t] = tsk[t]
    BY <2>1 DEF Without, Occupied
  <2>3. tasks' \in [Occupied' -> Task]
    BY <2>1, <2>2 DEF Without
  <2>4. free' \in Seq(Slots) /\ OneToOne(free') /\ Elements(free') = Slots \ Occupied'
    <3>1. s \in Slots /\ s \notin Elements(free)
      BY <1>2, <1>3
    <3> QED BY <1>2, <1>3, <2>1, <2>2, <3>1, Prepended
  <2>5. PoolInv'
    BY <1>1, <1>3, <2>1, <2>2, <2>3, <2>4 DEF PoolInv
  <2>6. QueueInv'
    <3>1. ready' \in Seq(Occupied')
      BY <1>2, <1>4, <2>2, SeqOver
    <3>2. sleeping' \in Seq(Occupied')
      BY <1>2, <1>4, <2>2, SeqOver
    <3> QED BY <2>1, <3>1, <3>2 DEF QueueInv
  <2>7. FlightInv'
    <3>1. \A t \in Occupied' : Flying(t)' <=> Flying(t)
      BY <2>1, <2>2 DEF Flying
    <3>2. \A t \in Occupied' : t \in Occupied /\ tasks'[t].fut = tasks[t].fut /\ (tasks'[t].sched = Suspended <=> tasks[t].sched = Suspended)
      BY <2>2
    <3> QED BY <1>1, <3>1, <3>2 DEF FlightInv, Live
  <2>8. FutInv'
    <3>1. \A t \in Occupied' : t \in Occupied /\ tasks'[t].fut = tasks[t].fut
      BY <2>2
    <3>2. tasks[s].fut \notin Futs
      BY <1>2, <1>5, ExecutorAssumption DEF Futs
    <3>3. Spawned' = Spawned
      BY <1>2, <2>2, <3>1, <3>2 DEF Spawned
    <3> QED BY <1>1, <3>1, <3>3 DEF FutInv
  <2>9. HeapInv'
    <3>1. \A t \in Elements(sleeping') : t \in Occupied' /\ Wake(tasks')[t] = Wake(tsk)[t]
      BY <1>2, <1>4, <2>2, <2>3 DEF Wake
    <3>2. \A t \in Elements(sleeping') : t \in DeadIn(tsk) => t \in LeftBehind'
      BY <2>2, <3>1 DEF DeadIn, LeftBehind, Live
    <3> QED BY <3>1, <3>2, SameOrder DEF HeapInv
  <2> QED BY <2>5, <2>6, <2>7, <2>8, <2>9 DEF ExecInv
<1>6. CASE tsk[s].fut # NullFut
  <2>1. tasks' = tsk /\ pc' = "run" /\ cur' = s /\ free' = free
    BY <1>2, <1>6 DEF Dispatch
  <2>2. Occupied' = Occupied
    BY <2>1 DEF Occupied
  <2>3. PoolInv'
    BY <1>1, <1>2, <1>3, <2>1, <2>2 DEF PoolInv
  <2>4. QueueInv'
    BY <1>2, <2>1, <2>2 DEF QueueInv
  <2>5. FlightInv'
    <3>1. \A t \in Occupied : Flying(t)' <=> Flying(t)
      BY <1>2, <2>1 DEF Flying
    <3> QED BY <1>1, <2>1, <2>2, <3>1 DEF FlightInv, Live
  <2>6. FutInv'
    <3>1. Spawned' = Spawned
      BY <2>1, <2>2 DEF Spawned
    <3> QED BY <1>1, <2>1, <2>2, <3>1 DEF FutInv
  <2>7. HeapInv'
    <3>1. \A t \in Elements(sleeping') : t \in DeadIn(tsk) => t \in LeftBehind'
      BY <2>1, <2>2 DEF DeadIn, LeftBehind, Live, Occupied
    <3> QED BY <2>1, <3>1, SameOrder DEF HeapInv
  <2> QED BY <2>3, <2>4, <2>5, <2>6, <2>7 DEF ExecInv
<1> QED BY <1>5, <1>6

\* spin takes the head of the ready queue.
LEMMA SelectReadyStep ==
    ASSUME ExecInv, SelectReady
    PROVE  ExecInv'
<1>1. QueueInv /\ HeapInv /\ tasks \in [Occupied -> Task]
  BY DEF ExecInv, PoolInv
<1>2. PICK s : s = Head(ready)
  OBVIOUS
<1>3. /\ pc = "loop" /\ ready # << >> /\ ready' = Tail(ready) /\ Dispatch(s, tasks)
      /\ UNCHANGED <<maxTasks, sleeping, now, drops>>
  BY <1>2 DEF SelectReady
<1>4. /\ ready \in Seq(Occupied) /\ sleeping \in Seq(Occupied) /\ OneToOne(ready) /\ OneToOne(sleeping)
      /\ Elements(ready) \cap Elements(sleeping) = {}
  BY <1>1 DEF QueueInv
<1>5. s \in Elements(ready) /\ ready' \in Seq(Occupied) /\ OneToOne(ready') /\ Elements(ready') = Elements(ready) \ {s}
  BY <1>2, <1>3, <1>4, Tailed
<1>6. Ordered(sleeping', Wake(tasks), DeadIn(tasks))
  BY <1>1, <1>3 DEF HeapInv, LeftBehind, DeadIn, Live, Occupied
<1>7. /\ Elements(ready') \cap Elements(sleeping') = {}
      /\ Elements(ready') \cup Elements(sleeping') = (Elements(ready) \cup Elements(sleeping)) \ {s}
  BY <1>3, <1>4, <1>5
<1> QED BY <1>1, <1>3, <1>4, <1>5, <1>6, <1>7, DispatchKeeps

\* spin takes the root of the sleeping heap.
LEMMA SelectDueStep ==
    ASSUME ExecInv, SelectDue
    PROVE  ExecInv'
<1>1. PoolInv /\ QueueInv /\ FlightInv /\ HeapInv /\ tasks \in [Occupied -> Task]
  BY DEF ExecInv, PoolInv
<1>2. PICK z : z = Head(sleeping)
  OBVIOUS
<1>3. /\ pc = "loop" /\ sleeping # << >> /\ sleeping' = PQPop(sleeping, Wake(tasks))
      /\ UNCHANGED <<maxTasks, now, drops>>
  BY DEF SelectDue, RootDue, PopSleeping
<1>4. /\ ready \in Seq(Occupied) /\ sleeping \in Seq(Occupied) /\ OneToOne(ready) /\ OneToOne(sleeping)
      /\ Elements(ready) \cap Elements(sleeping) = {}
  BY <1>1 DEF QueueInv
<1>5. \A t \in Occupied : Wake(tasks)[t] = tasks[t].sched.wake /\ Wake(tasks)[t] \in Nat
  BY <1>1, WakeTypes
<1>6. DeadIn(tasks) \in SUBSET Occupied /\ LeftBehind = DeadIn(tasks) /\ \A x \in DeadIn(tasks) : Wake(tasks)[x] = 0
  BY <1>5 DEF LeftBehind, DeadIn, Live, Occupied
<1>7. /\ z \in Elements(sleeping) /\ z \in Occupied /\ sleeping' \in Seq(Occupied) /\ OneToOne(sleeping')
      /\ Elements(sleeping') = Elements(sleeping) \ {z}
      /\ Ordered(sleeping', Wake(tasks), DeadIn(tasks))
  <2>1. z \in Elements(sleeping) /\ z \in Occupied
    BY <1>2, <1>3, <1>4, Tailed
  <2>2. /\ sleeping' \in Seq(Occupied) /\ OneToOne(sleeping') /\ Elements(sleeping') = Elements(sleeping) \ {z}
        /\ \A X \in SUBSET Occupied : (\A x \in X : Wake(tasks)[x] = 0) /\ Ordered(sleeping, Wake(tasks), X)
                                         => Ordered(sleeping', Wake(tasks), X)
    BY <1>2, <1>3, <1>4, <1>5, Pops
  <2> QED BY <1>1, <1>6, <2>1, <2>2 DEF HeapInv
<1>8. CASE ready = << >>
  <2>1. ready' = ready /\ Dispatch(z, tasks)
    BY <1>2, <1>8 DEF SelectDue
  <2>2. /\ Elements(ready') \cap Elements(sleeping') = {}
        /\ Elements(ready') \cup Elements(sleeping') = (Elements(ready) \cup Elements(sleeping)) \ {z}
    BY <1>4, <1>7, <2>1
  <2> QED BY <1>1, <1>3, <1>4, <1>7, <2>1, <2>2, DispatchKeeps
<1>9. CASE ready # << >>
  <2>1. PICK s : s = Head(ready)
    OBVIOUS
  <2> DEFINE tsk == [tasks EXCEPT ![z].sched = Ready]
  <2>2. ready' = PushReady(Tail(ready), z) /\ Dispatch(s, tsk)
    BY <1>2, <1>9, <2>1 DEF SelectDue
  <2>3. /\ s \in Elements(ready) /\ Tail(ready) \in Seq(Occupied) /\ OneToOne(Tail(ready))
        /\ Elements(Tail(ready)) = Elements(ready) \ {s}
    BY <1>4, <1>9, <2>1, Tailed
  <2>4. maxTasks \in Nat /\ Occupied \subseteq 1..maxTasks
    BY <1>1 DEF PoolInv, Slots
  <2>5. z \notin Elements(Tail(ready))
    BY <1>4, <1>7, <2>3
  <2>6. Tail(ready) \in Seq(1..maxTasks)
    <3>1. Elements(Tail(ready)) \subseteq Occupied
      BY <2>3 DEF Elements
    <3> QED BY <2>3, <2>4, <3>1, SeqOver
  <2>7. ready' = Append(Tail(ready), z)
    BY <1>7, <2>2, <2>3, <2>4, <2>5, <2>6, ReadyTakes
  <2>8. ready' \in Seq(Occupied) /\ OneToOne(ready') /\ Elements(ready') = (Elements(ready) \ {s}) \cup {z}
    <3>1. PICK q \in Seq(Occupied) : q = Tail(ready)
      BY <2>3
    <3>2. OneToOne(q) /\ z \notin Elements(q) /\ Elements(q) = Elements(ready) \ {s} /\ ready' = Append(q, z)
      BY <2>3, <2>5, <2>7, <3>1
    <3> QED BY <1>7, <3>2, Appended
  <2>9. /\ Elements(ready') \cap Elements(sleeping') = {}
        /\ Elements(ready') \cup Elements(sleeping') = (Elements(ready) \cup Elements(sleeping)) \ {s}
    BY <1>4, <1>7, <2>3, <2>8
  <2>10. tsk \in [Occupied -> Task] /\ tsk[z].fut = tasks[z].fut /\ tsk[z].sched = Ready
         /\ \A t \in Occupied : t # z => tsk[t] = tasks[t]
    <3>1. [tasks[z] EXCEPT !.sched = Ready] \in Task
      BY <1>1, <1>7 DEF Task
    <3> QED BY <1>1, <1>7, <3>1 DEF Task
  <2> HIDE DEF tsk
  <2>11. tasks[z].sched # Suspended
    BY <1>1, <1>7 DEF FlightInv, Flying
  <2>12. \A t \in Occupied : tsk[t].fut = tasks[t].fut /\ (tsk[t].sched = Suspended <=> tasks[t].sched = Suspended)
    BY <2>10, <2>11, SchedTypes
  <2>13. Ordered(sleeping', Wake(tsk), DeadIn(tsk))
    <3>1. \A t \in Elements(sleeping') : t \in Occupied /\ t # z
      BY <1>7 DEF Elements
    <3>2. \A t \in Elements(sleeping') : Wake(tsk)[t] = Wake(tasks)[t] /\ (t \in DeadIn(tasks) => t \in DeadIn(tsk))
      BY <1>1, <2>10, <3>1 DEF Wake, DeadIn, Occupied
    <3> QED BY <1>7, <3>2, SameOrder
  <2> QED BY <1>3, <1>7, <2>2, <2>3, <2>8, <2>9, <2>10, <2>12, <2>13, DispatchKeeps
<1> QED BY <1>8, <1>9

-----------------------------------------------------------------------------
(* The task function returns.                                              *)

\* What the steps in which it returns have in common.
LEMMA Returns ==
    ASSUME ExecInv, Return
    PROVE  /\ PoolInv /\ QueueInv /\ FlightInv /\ FutInv /\ HeapInv
           /\ pc = "run" /\ pc' = "out" /\ cur' = NoSlot /\ UNCHANGED <<maxTasks, now>>
           /\ cur \in Occupied /\ cur \notin Elements(ready) /\ cur \notin Elements(sleeping) /\ cur \in Nat
           /\ Elements(ready) \subseteq Occupied /\ Elements(sleeping) \subseteq Occupied
           /\ maxTasks \in Nat /\ Occupied \subseteq 1..maxTasks /\ tasks \in [Occupied -> Task]
<1>1. PoolInv /\ QueueInv /\ FlightInv /\ FutInv /\ HeapInv
  BY DEF ExecInv
<1>2. pc = "run" /\ pc' = "out" /\ cur' = NoSlot /\ UNCHANGED <<maxTasks, now>>
  BY DEF Return
<1>3. maxTasks \in Nat /\ Occupied \subseteq 1..maxTasks /\ tasks \in [Occupied -> Task]
  BY <1>1 DEF PoolInv, Slots
<1>4. /\ cur \in Occupied /\ cur \notin Elements(ready) /\ cur \notin Elements(sleeping)
      /\ Elements(ready) \subseteq Occupied /\ Elements(sleeping) \subseteq Occupied
  BY <1>1, <1>2 DEF QueueInv, Elements
<1> QED BY <1>1, <1>2, <1>3, <1>4

\* What they have in common when the task stays in the pool.
LEMMA Rescheduling ==
    ASSUME ExecInv, Return, NEW sched, Reschedule(sched), drops' = drops,
           sched \in {Ready, Suspended} \cup {Schedule("sleeping", w) : w \in 0..MaxTime}
    PROVE  /\ Occupied' = Occupied /\ tasks'[cur].fut = tasks[cur].fut /\ tasks'[cur].sched = sched
           /\ \A t \in Occupied : t # cur => tasks'[t] = tasks[t]
           /\ PoolInv' /\ FutInv'
<1>1. PICK s : s = cur
  OBVIOUS
<1>2. Rescheduled(s, sched) /\ free' = free
  BY <1>1, Returns DEF Rescheduled, Reschedule
<1>3. cur' \in Slots \cup {NoSlot}
  BY Returns
<1>4. UNCHANGED <<maxTasks, free, now, drops>> /\ pc # "dead" /\ pc' # "dead" /\ pc' \in {"out", "run"}
  BY <1>2, Returns
<1>5. PoolInv /\ QueueInv /\ FutInv
  BY Returns
<1> QED BY <1>1, <1>2, <1>3, <1>4, <1>5, RescheduledIs

\* A task function that is to run again: to the end of the ready queue.
LEMMA CompleteRunningStep ==
    ASSUME ExecInv, CompleteRunning
    PROVE  ExecInv'
<1>1. Return /\ Reschedule(Ready) /\ ready' = PushReady(ready, cur) /\ UNCHANGED <<sleeping, drops>>
  BY DEF CompleteRunning
<1>2. /\ PoolInv /\ QueueInv /\ FlightInv /\ FutInv /\ HeapInv
      /\ pc = "run" /\ pc' = "out"
      /\ cur \in Occupied /\ cur \notin Elements(ready) /\ cur \notin Elements(sleeping)
      /\ Elements(ready) \subseteq Occupied /\ Elements(sleeping) \subseteq Occupied
      /\ maxTasks \in Nat /\ Occupied \subseteq 1..maxTasks
  BY <1>1, Returns
<1>3. /\ Occupied' = Occupied /\ tasks'[cur].fut = tasks[cur].fut /\ tasks'[cur].sched = Ready
      /\ \A t \in Occupied : t # cur => tasks'[t] = tasks[t]
      /\ PoolInv' /\ FutInv'
  BY <1>1, Rescheduling
<1>4. PICK s \in Occupied : s = cur
  BY <1>2
<1>5. ready' \in Seq(Occupied) /\ OneToOne(ready') /\ Elements(ready') = Elements(ready) \cup {s}
  <2>1. ready \in Seq(Occupied) /\ OneToOne(ready)
    BY <1>2 DEF QueueInv
  <2>2. ready \in Seq(1..maxTasks)
    BY <1>2, <2>1, SeqOver
  <2>3. ready' = Append(ready, s)
    BY <1>1, <1>2, <1>4, <2>1, <2>2, ReadyTakes
  <2> QED BY <1>2, <1>4, <2>1, <2>3, Appended
<1>6. QueueInv'
  BY <1>1, <1>2, <1>3, <1>4, <1>5 DEF QueueInv
<1>7. FlightInv'
  <2>1. \A t \in Occupied : Flying(t)' <=> Flying(t)
    BY <1>1, <1>2, <1>4, <1>5 DEF Flying
  <2> QED BY <1>2, <1>3, <1>4, <1>5, <2>1, SchedTypes DEF FlightInv, Live, Flying
<1>8. HeapInv'
  BY <1>1, <1>2, <1>3, HeapKept
<1> QED BY <1>3, <1>6, <1>7, <1>8 DEF ExecInv

\* A task function that suspends: to no queue.
LEMMA CompleteSuspendedStep ==
    ASSUME ExecInv, CompleteSuspended
    PROVE  ExecInv'
<1>1. Return /\ Reschedule(Suspended) /\ UNCHANGED <<ready, sleeping, drops>>
  BY DEF CompleteSuspended
<1>2. /\ PoolInv /\ QueueInv /\ FlightInv /\ FutInv /\ HeapInv
      /\ pc = "run" /\ pc' = "out"
      /\ cur \in Occupied /\ cur \notin Elements(ready) /\ cur \notin Elements(sleeping)
      /\ Elements(sleeping) \subseteq Occupied
  BY <1>1, Returns
<1>3. /\ Occupied' = Occupied /\ tasks'[cur].fut = tasks[cur].fut /\ tasks'[cur].sched = Suspended
      /\ \A t \in Occupied : t # cur => tasks'[t] = tasks[t]
      /\ PoolInv' /\ FutInv'
  BY <1>1, Rescheduling
<1>4. QueueInv'
  BY <1>1, <1>2, <1>3 DEF QueueInv
<1>5. FlightInv'
  <2>1. PICK s \in Occupied : s = cur
    BY <1>2
  <2>2. ~Flying(s)' /\ \A t \in Occupied : t # s => (Flying(t)' <=> Flying(t))
    BY <1>1, <1>2, <2>1 DEF Flying
  <2> QED BY <1>2, <1>3, <2>1, <2>2 DEF FlightInv, Live
<1>6. HeapInv'
  BY <1>1, <1>2, <1>3, HeapKept
<1> QED BY <1>3, <1>4, <1>5, <1>6 DEF ExecInv

\* A task function that sleeps: into the heap, in its place.
LEMMA CompleteSleepingStep ==
    ASSUME ExecInv, NEW d \in Delays, CompleteSleeping(d)
    PROVE  ExecInv'
<1> DEFINE sched == Schedule("sleeping", now + d)
<1>1. Return /\ Reschedule(sched) /\ sleeping' = PQPush(sleeping, Wake(tasks'), maxTasks, cur) /\ UNCHANGED <<ready, drops>>
  BY DEF CompleteSleeping, PushSleeping
<1>2. /\ PoolInv /\ QueueInv /\ FlightInv /\ FutInv /\ HeapInv
      /\ pc = "run" /\ pc' = "out"
      /\ cur \in Occupied /\ cur \notin Elements(ready) /\ cur \notin Elements(sleeping)
      /\ Elements(ready) \subseteq Occupied /\ Elements(sleeping) \subseteq Occupied
      /\ maxTasks \in Nat /\ Occupied \subseteq 1..maxTasks
  BY <1>1, Returns
<1>3. now + d \in 0..MaxTime
  BY <1>2, ExecutorAssumption DEF CompleteSleeping, PoolInv
<1>4. /\ Occupied' = Occupied /\ tasks'[cur].fut = tasks[cur].fut /\ tasks'[cur].sched = sched
      /\ \A t \in Occupied : t # cur => tasks'[t] = tasks[t]
      /\ PoolInv' /\ FutInv'
  BY <1>1, <1>3, Rescheduling
<1>5. sched # Suspended
  BY <1>3, SchedTypes
<1> HIDE DEF sched
<1>6. PICK s \in Occupied : s = cur
  BY <1>2
<1>7. PICK keys : keys = Wake(tasks')
  OBVIOUS
<1>8. \A t \in Occupied : keys[t] = tasks'[t].sched.wake /\ keys[t] \in Nat
  BY <1>4, <1>7, SchedTypes DEF PoolInv, Wake, Occupied
<1>9. sleeping \in Seq(Occupied) /\ OneToOne(sleeping) /\ Len(sleeping) # maxTasks
  <2>1. sleeping \in Seq(Occupied) /\ OneToOne(sleeping)
    BY <1>2 DEF QueueInv
  <2>2. sleeping \in Seq(1..maxTasks)
    BY <1>2, <2>1, SeqOver
  <2>3. Len(sleeping) < maxTasks
    BY <1>2, <2>1, <2>2, NotFull
  <2> QED BY <1>2, <2>1, <2>3
<1>10. \A t \in Elements(sleeping) : keys[t] = Wake(tasks)[t] /\ (t \in LeftBehind => t \in LeftBehind')
  <2>1. \A t \in Elements(sleeping) : t \in Occupied /\ t # s /\ tasks'[t] = tasks[t]
    BY <1>2, <1>4, <1>6
  <2>2. \A t \in Occupied : Wake(tasks)[t] = tasks[t].sched.wake
    BY <1>2, WakeTypes
  <2>3. \A t \in Elements(sleeping) : t \in LeftBehind => t \in LeftBehind'
    BY <1>4, <2>1 DEF LeftBehind, Live
  <2> QED BY <1>8, <2>1, <2>2, <2>3
<1>11. PICK X : X = LeftBehind'
  OBVIOUS
<1>12. X \in SUBSET Occupied /\ \A x \in X : keys[x] = 0
  BY <1>4, <1>8, <1>11 DEF LeftBehind
<1>13. Ordered(sleeping, keys, X)
  BY <1>2, <1>9, <1>10, <1>11, SameOrder DEF HeapInv
<1>14. /\ sleeping' \in Seq(Occupied) /\ OneToOne(sleeping') /\ Elements(sleeping') = Elements(sleeping) \cup {s}
       /\ Ordered(sleeping', keys, X)
  <2>1. sleeping' = PQPush(sleeping, keys, maxTasks, s)
    BY <1>1, <1>6, <1>7
  <2>2. s \notin Elements(sleeping)
    BY <1>2, <1>6
  <2>3. PICK r : r = PQPush(sleeping, keys, maxTasks, s)
    OBVIOUS
  <2>4. \A t \in Occupied : keys[t] \in Nat
    BY <1>8
  <2>5. /\ r \in Seq(Occupied) /\ Elements(r) = Elements(sleeping) \cup {s}
        /\ OneToOne(sleeping) /\ s \notin Elements(sleeping) => OneToOne(r)
        /\ \A Y \in SUBSET Occupied : (\A x \in Y : keys[x] = 0) /\ Ordered(sleeping, keys, Y) => Ordered(r, keys, Y)
    <3>1. sleeping \in Seq(Occupied) /\ maxTasks \in Nat /\ s \in Occupied /\ Len(sleeping) # maxTasks
      BY <1>2, <1>9
    <3>2. LET p == PQPush(sleeping, keys, maxTasks, s)
          IN  /\ p \in Seq(Occupied) /\ Len(p) = Len(sleeping) + 1
              /\ Permuted(p, Append(sleeping, s), Len(sleeping) + 1)
              /\ Elements(p) = Elements(sleeping) \cup {s}
              /\ OneToOne(sleeping) /\ s \notin Elements(sleeping) => OneToOne(p)
              /\ \A Y \in SUBSET Occupied : (\A x \in Y : keys[x] = 0) /\ Ordered(sleeping, keys, Y) => Ordered(p, keys, Y)
      BY <2>4, <3>1, PushDoes, Zenon
    <3> QED BY <2>3, <3>2
  <2> QED BY <1>9, <1>12, <1>13, <2>1, <2>2, <2>3, <2>5
<1>15. QueueInv'
  BY <1>1, <1>2, <1>4, <1>6, <1>14 DEF QueueInv
<1>16. FlightInv'
  <2>1. \A t \in Occupied : Flying(t)' <=> Flying(t)
    BY <1>1, <1>2, <1>6, <1>14 DEF Flying
  <2> QED BY <1>2, <1>4, <1>5, <1>6, <1>14, <2>1 DEF FlightInv, Live, Flying
<1>17. HeapInv'
  BY <1>7, <1>11, <1>14 DEF HeapInv
<1> QED BY <1>4, <1>15, <1>16, <1>17 DEF ExecInv

\* A task function that is done: its future is dropped and its slot is free again.
LEMMA CompleteReadyStep ==
    ASSUME ExecInv, CompleteReady
    PROVE  ExecInv'
<1>1. /\ Return /\ tasks' = Without(tasks, cur) /\ free' = <<cur>> \o free /\ drops' = Drop(tasks[cur].fut)
      /\ UNCHANGED <<ready, sleeping>>
  BY DEF CompleteReady, Release
<1>2. /\ PoolInv /\ QueueInv /\ FlightInv /\ FutInv /\ HeapInv
      /\ pc = "run" /\ pc' = "out" /\ cur' = NoSlot /\ UNCHANGED <<maxTasks, now>>
      /\ cur \in Occupied /\ cur \notin Elements(ready) /\ cur \notin Elements(sleeping)
      /\ Elements(ready) \subseteq Occupied /\ Elements(sleeping) \subseteq Occupied
  BY <1>1, Returns
<1>3. PICK s \in Occupied : s = cur
  BY <1>2
<1>4. Occupied' = Occupied \ {s} /\ \A t \in Occupied' : tasks'[t] = tasks[t]
  BY <1>1, <1>3 DEF Without, Occupied
<1>5. tasks \in [Occupied -> Task] /\ drops \in [Futs -> Nat] /\ NullFut \notin Futs
  BY <1>2, ExecutorAssumption DEF PoolInv, Futs
<1>6. PoolInv'
  <2>1. /\ Slots' = Slots /\ Occupied \subseteq Slots /\ free \in Seq(Slots) /\ OneToOne(free)
        /\ Elements(free) = Slots \ Occupied
    BY <1>2 DEF PoolInv, Slots
  <2>2. s \in Slots /\ s \notin Elements(free)
    BY <2>1
  <2>3. free' \in Seq(Slots) /\ OneToOne(free') /\ Elements(free') = Elements(free) \cup {s}
    BY <1>1, <1>3, <2>1, <2>2, Prepended
  <2>4. tasks' \in [Occupied' -> Task]
    BY <1>1, <1>3, <1>4, <1>5 DEF Without
  <2>5. drops' \in [Futs -> Nat]
    BY <1>1, <1>2, <1>5 DEF Drop, Task
  <2> QED BY <1>2, <1>4, <2>1, <2>2, <2>3, <2>4, <2>5 DEF PoolInv
<1>7. QueueInv'
  <2>1. ready \in Seq(Occupied) /\ sleeping \in Seq(Occupied)
    BY <1>2 DEF QueueInv
  <2>2. ready' \in Seq(Occupied')
    BY <1>1, <1>2, <1>3, <1>4, <2>1, SeqOver
  <2>3. sleeping' \in Seq(Occupied')
    BY <1>1, <1>2, <1>3, <1>4, <2>1, SeqOver
  <2> QED BY <1>1, <1>2, <2>2, <2>3 DEF QueueInv
<1>8. FlightInv'
  <2>1. \A t \in Occupied' : t \in Occupied /\ (Flying(t)' <=> Flying(t))
    BY <1>1, <1>2, <1>3, <1>4 DEF Flying
  <2> QED BY <1>2, <1>4, <2>1 DEF FlightInv, Live
<1>9. FutInv'
  <2>1. CASE tasks[s].fut = NullFut
    <3>1. drops' = drops
      BY <1>1, <1>3, <2>1 DEF Drop
    <3>2. Spawned' = Spawned
      BY <1>4, <1>5, <2>1, <3>1 DEF Spawned
    <3> QED BY <1>2, <1>4, <3>1, <3>2 DEF FutInv
  <2>2. CASE tasks[s].fut # NullFut
    <3>1. PICK g \in Futs : g = tasks[s].fut
      BY <1>5, <2>2 DEF Task
    <3>2. drops[g] = 0
      BY <1>2, <1>5, <3>1 DEF FutInv
    <3>3. drops'[g] = 1 /\ \A e \in Futs : e # g => drops'[e] = drops[e]
      BY <1>1, <1>3, <1>5, <2>2, <3>1, <3>2 DEF Drop
    <3>4. \A t \in Occupied : t # s => tasks[t].fut # g
      BY <1>2, <2>2, <3>1 DEF FutInv
    <3>5. Spawned' = Spawned
      BY <1>4, <1>5, <3>1, <3>3 DEF Spawned
    <3>6. ASSUME NEW e \in Futs PROVE drops'[e] <= 1 /\ (drops'[e] = 1 => \A t \in Occupied' : tasks'[t].fut # e)
      BY <1>2, <1>4, <3>3, <3>4, <3>6 DEF FutInv
    <3>7. \A t, u \in Occupied' : tasks'[t].fut = tasks'[u].fut /\ tasks'[t].fut # NullFut => t = u
      BY <1>2, <1>4 DEF FutInv
    <3> QED BY <1>2, <3>5, <3>6, <3>7 DEF FutInv
  <2> QED BY <2>1, <2>2
<1>10. HeapInv'
  <2>1. Elements(sleeping) \subseteq Occupied' /\ \A t \in Elements(sleeping) : tasks'[t] = tasks[t]
    BY <1>2, <1>3, <1>4
  <2> QED BY <1>1, <1>2, <1>6, <2>1, HeapKept
<1> QED BY <1>6, <1>7, <1>8, <1>9, <1>10 DEF ExecInv

-----------------------------------------------------------------------------
\* At most one task has a given future.
LEMMA OneHolder ==
    ASSUME FutInv, NEW f \in Futs
    PROVE  LET S == {s \in Occupied : tasks[s].fut = f}
           IN  /\ Cardinality(S) \in {0, 1} /\ (Cardinality(S) = 0 <=> S = {})
               /\ drops[f] = 1 => S = {}
<1> DEFINE S == {s \in Occupied : tasks[s].fut = f}
<1>1. f # NullFut
  BY ExecutorAssumption DEF Futs
<1>2. CASE S = {}
  BY <1>2, FS_EmptySet
<1>3. CASE S # {}
  <2>1. PICK s \in S : TRUE
    BY <1>3
  <2>2. S = {s}
    BY <1>1, <2>1 DEF FutInv
  <2>3. Cardinality(S) = 1
    BY <2>2, FS_Singleton
  <2>4. drops[f] # 1
    BY <2>1 DEF FutInv
  <2> QED BY <1>3, <2>3, <2>4
<1> QED BY <1>2, <1>3

\* _z_executor_destroy: every future still in the pool is dropped.
LEMMA DestroyStep ==
    ASSUME ExecInv, Destroy
    PROVE  ExecInv'
<1>1. /\ pc = "out" /\ pc' = "dead" /\ tasks' = << >> /\ ready' = << >> /\ sleeping' = << >>
      /\ UNCHANGED <<maxTasks, now, cur>>
      /\ drops' = [f \in Futs |-> drops[f] + Cardinality({s \in Occupied : tasks[s].fut = f})]
  BY DEF Destroy
<1>2. PoolInv /\ FutInv /\ drops \in [Futs -> Nat]
  BY DEF ExecInv, PoolInv
<1>3. Occupied' = {}
  BY <1>1 DEF Occupied
<1>4. ASSUME NEW f \in Futs
      PROVE  drops'[f] \in {0, 1} /\ (drops'[f] = 1 <=> f \in Spawned)
  <2> DEFINE S == {s \in Occupied : tasks[s].fut = f}
  <2>1. Cardinality(S) \in {0, 1} /\ (Cardinality(S) = 0 <=> S = {}) /\ (drops[f] = 1 => S = {})
    BY <1>2, OneHolder
  <2>2. drops'[f] = drops[f] + Cardinality(S)
    BY <1>1
  <2>3. f \in Spawned <=> drops[f] > 0 \/ S # {}
    BY DEF Spawned
  <2>4. drops[f] \in {0, 1}
    BY <1>2 DEF FutInv
  <2> HIDE DEF S
  <2> QED BY <2>1, <2>2, <2>3, <2>4
<1>5. PoolInv'
  <2>1. drops' \in [Futs -> Nat]
    BY <1>1, <1>4
  <2>2. tasks' \in [Occupied' -> Task]
    BY <1>1, <1>3
  <2> QED BY <1>1, <1>2, <1>3, <2>1, <2>2 DEF PoolInv, Slots
<1>6. QueueInv'
  BY <1>1, <1>3, EmptyQueue DEF QueueInv
<1>7. FlightInv' /\ HeapInv'
  BY <1>1, <1>3 DEF FlightInv, HeapInv, Ordered
<1>8. FutInv'
  <2>1. Spawned' = Spawned
    BY <1>3, <1>4 DEF Spawned
  <2> QED BY <1>2, <1>3, <1>4, <2>1 DEF FutInv
<1> QED BY <1>5, <1>6, <1>7, <1>8 DEF ExecInv

-----------------------------------------------------------------------------
\* The invariant is inductive.
LEMMA ExecSteps == ExecInv /\ [Next]_vars => ExecInv'
<1> SUFFICES ASSUME ExecInv, [Next]_vars PROVE ExecInv'
  OBVIOUS
<1>1. CASE Spawn
  BY <1>1, SpawnStep
<1>2. CASE \E f \in Futs : Cancel(f) \/ ResumeSuspended(f)
  BY <1>2, CancelStep, ResumeStep
<1>3. CASE SelectDue \/ SelectReady
  BY <1>3, SelectDueStep, SelectReadyStep
<1>4. CASE CompleteRunning \/ CompleteReady \/ CompleteSuspended
  BY <1>4, CompleteRunningStep, CompleteReadyStep, CompleteSuspendedStep
<1>5. CASE \E d \in Delays : CompleteSleeping(d)
  BY <1>5, CompleteSleepingStep
<1>6. CASE Destroy
  BY <1>6, DestroyStep
<1>7. CASE SpinStart \/ NothingToRun \/ Tick \/ UNCHANGED vars
  BY <1>7, IdleSteps
<1> QED BY <1>1, <1>2, <1>3, <1>4, <1>5, <1>6, <1>7 DEF Next

\* It holds in every state.
LEMMA ExecAlways == Spec => []ExecInv
<1>1. Init => ExecInv
  BY InitExec
<1>2. ExecInv /\ [Next]_vars => ExecInv'
  BY ExecSteps
<1> QED BY <1>1, <1>2, PTL DEF Spec

\* The places of q \o r.
LEMMA Joined ==
    ASSUME NEW S, NEW q \in Seq(S), NEW r \in Seq(S), OneToOne(q), OneToOne(r), Elements(q) \cap Elements(r) = {}
    PROVE  /\ \A i, j \in DOMAIN (q \o r) : (q \o r)[i] = (q \o r)[j] => i = j
           /\ Range1(q \o r) = Elements(q) \cup Elements(r)
<1> DEFINE a == q \o r
           m == Len(q)
           n == Len(r)
<1>1. a \in Seq(S) /\ Len(a) = m + n /\ m \in Nat /\ n \in Nat /\ DOMAIN a = 1..(m + n)
  OBVIOUS
<1>2. /\ \A i \in 1..m : a[i] = q[i] /\ i \in DOMAIN a
      /\ \A i \in 1..n : a[m + i] = r[i] /\ m + i \in DOMAIN a
  OBVIOUS
<1>3. \A i \in 1..(m + n) : i \in 1..m \/ (i - m \in 1..n /\ i = m + (i - m))
  BY <1>1
<1>4. /\ \A i \in 1..m : q[i] \in Elements(q)
      /\ \A i \in 1..n : r[i] \in Elements(r)
  BY DEF Elements
<1>5. /\ \A i, j \in 1..m : q[i] = q[j] => i = j
      /\ \A i, j \in 1..n : r[i] = r[j] => i = j
  BY DEF OneToOne
<1>6. Elements(q) = {q[i] : i \in 1..m} /\ Elements(r) = {r[i] : i \in 1..n} /\ Range1(a) = {a[i] : i \in DOMAIN a}
  BY DEF Elements, Range1
<1> HIDE DEF a, m, n
<1>7. ASSUME NEW i \in 1..(m + n), NEW j \in 1..(m + n), a[i] = a[j] PROVE i = j
  <2>1. CASE i \in 1..m /\ j \in 1..m
    BY <1>2, <1>5, <1>7, <2>1
  <2>2. CASE i \in 1..m /\ j \notin 1..m
    <3>1. a[i] \in Elements(q) /\ a[j] \in Elements(r)
      BY <1>2, <1>3, <1>4, <2>2
    <3> QED BY <1>7, <3>1
  <2>3. CASE i \notin 1..m /\ j \in 1..m
    <3>1. a[j] \in Elements(q) /\ a[i] \in Elements(r)
      BY <1>2, <1>3, <1>4, <2>3
    <3> QED BY <1>7, <3>1
  <2>4. CASE i \notin 1..m /\ j \notin 1..m
    <3>1. i - m \in 1..n /\ j - m \in 1..n /\ i = m + (i - m) /\ j = m + (j - m)
      BY <1>3, <2>4
    <3>2. r[i - m] = r[j - m]
      BY <1>2, <1>7, <3>1
    <3>3. i - m = j - m
      BY <1>5, <3>1, <3>2
    <3> QED BY <3>1, <3>3
  <2> QED BY <2>1, <2>2, <2>3, <2>4
<1>8. \A e \in Range1(a) : e \in Elements(q) \cup Elements(r)
  <2>1. \A i \in 1..(m + n) : a[i] \in Elements(q) \cup Elements(r)
    BY <1>2, <1>3, <1>4
  <2> QED BY <1>1, <1>6, <2>1
<1>9. \A e \in Elements(q) \cup Elements(r) : e \in Range1(a)
  BY <1>2, <1>6
<1> QED BY <1>1, <1>7, <1>8, <1>9 DEF a

\* The executor loses no task, runs none twice and destroys each future once:
\* the ready queue, the heap of sleepers and the running task share out the
\* occupied slots of the pool, for every capacity and every number of futures.
THEOREM TasksOwnedOnceAlways == Spec => []TasksOwnedOnce
<1>1. ASSUME ExecInv PROVE TasksOwnedOnce
  <2>1. PoolInv /\ QueueInv /\ FlightInv /\ FutInv
    BY <1>1 DEF ExecInv
  <2>2. /\ ready \in Seq(Occupied) /\ sleeping \in Seq(Occupied) /\ OneToOne(ready) /\ OneToOne(sleeping)
        /\ Elements(ready) \cap Elements(sleeping) = {}
        /\ Range1(ready) = Elements(ready) /\ Range1(sleeping) = Elements(sleeping)
    BY <2>1 DEF QueueInv, Elements, Range1
  <2>3. PICK q : q = ready \o sleeping
    OBVIOUS
  <2>4. (\A i, j \in DOMAIN q : q[i] = q[j] => i = j) /\ Range1(q) = Elements(ready) \cup Elements(sleeping)
    BY <2>2, <2>3, Joined
  <2>5. Range1(q) \subseteq Occupied /\ (pc = "run" => cur \in Occupied \ Range1(q))
    BY <2>1, <2>4 DEF QueueInv, Elements
  <2>6. \A s \in Occupied : Live(s) /\ tasks[s].sched # Suspended => InFlight(s)
    BY <2>1, <2>2 DEF FlightInv, Flying, InFlight, Queued
  <2>7. ASSUME NEW f \in Futs
        PROVE  /\ drops[f] + Cardinality({s \in Occupied : tasks[s].fut = f}) <= 1
               /\ pc = "dead" => \A s \in Occupied : tasks[s].fut # f
    <3>1. PICK S : S = {s \in Occupied : tasks[s].fut = f}
      OBVIOUS
    <3>2. Cardinality(S) \in {0, 1} /\ (Cardinality(S) = 0 <=> S = {}) /\ (drops[f] = 1 => S = {})
      BY <2>1, <3>1, OneHolder
    <3>3. drops[f] \in {0, 1}
      BY <2>1 DEF PoolInv, FutInv
    <3>4. drops[f] + Cardinality(S) <= 1
      BY <3>2, <3>3
    <3> QED BY <2>1, <3>1, <3>4 DEF PoolInv
  <2> QED BY <2>3, <2>4, <2>5, <2>6, <2>7 DEF TasksOwnedOnce
<1> QED BY <1>1, ExecAlways, PTL

\* Only the entries that a cancellation leaves in the heap of sleepers disturb
\* its order: when there are none, the root is the sleeper that is due first.
THEOREM RootEarliestAlways == Spec => []RootEarliestOnceDrained
<1>1. ASSUME ExecInv PROVE RootEarliestOnceDrained
  <2> SUFFICES ASSUME \A s \in Range1(sleeping) : Live(s)
               PROVE  \A s \in Range1(sleeping) : Wake(tasks)[Head(sleeping)] <= Wake(tasks)[s]
    BY DEF RootEarliestOnceDrained
  <2>1. PICK key : key = Wake(tasks)
    OBVIOUS
  <2>2. sleeping \in Seq(Occupied) /\ Ordered(sleeping, key, LeftBehind) /\ \A x \in Occupied : key[x] \in Nat
    BY <1>1, <2>1, WakeTypes DEF ExecInv, QueueInv, HeapInv
  <2>3. Range1(sleeping) = Elements(sleeping)
    BY <2>2 DEF Range1, Elements
  <2>4. Ordered(sleeping, key, {})
    <3>1. \A t \in Elements(sleeping) : key[t] = key[t] /\ (t \in LeftBehind => t \in {})
      BY <2>3 DEF LeftBehind
    <3> QED BY <2>2, <3>1, SameOrder
  <2>5. \A i \in 1..Len(sleeping) : key[sleeping[1]] <= key[sleeping[i]]
    BY <2>2, <2>4, RootLeast
  <2>6. sleeping # << >> => Head(sleeping) = sleeping[1]
    BY <2>2
  <2>7. \A s \in Elements(sleeping) : sleeping # << >> /\ key[sleeping[1]] <= key[s]
    BY <2>2, <2>5 DEF Elements
  <2> QED BY <2>1, <2>3, <2>6, <2>7
<1> QED BY <1>1, ExecAlways, PTL

(***************************************************************************)
(* Mutexes.                                                                *)
(***************************************************************************)
Holdings == [Mutexes -> Nat]
Nothing  == [m \in Mutexes |-> 0]

\* How often a thread holds each mutex.
Held(t) == [m \in Mutexes |-> IF owner[m] = t THEN depth[m] ELSE 0]

\* The order in which the mutexes are taken.
Rank == [admin |-> 0, filter |-> 1, transport |-> 2, peer |-> 3, session |-> 4]

LockSteps == [do : {"lock", "call", "push", "pull", "wait"}, mutex : Mutexes \cup {"none"}, free : Seq(Mutexes),
              inside : {"none"} \cup Callbacks]

\* What a thread that holds h may wait for: a mutex above those it holds, or one it
\* holds if that is recursive, or it does so in one of the known uses.  The thread of
\* the executor takes a filter's mutex whatever it holds; those of the application hold
\* one only in a callback.
MayWait(t, s, h) ==
    /\ t \in AppThreads /\ h["filter"] > 0 => s.inside # "none"
    /\ \/ \A m \in Mutexes : h[m] > 0 => Rank[m] < Rank[s.mutex]
       \/ s.mutex \in Recursives /\ h[s.mutex] > 0
       \/ s.mutex = "filter" /\ t = ExecThread /\ h["filter"] = 0
       \/ s.mutex = "peer" /\ h["session"] > 0 /\ s.inside = "none"
       \/ s.inside # "none" /\ h["session"] > 0
       \/ s.inside # "none" /\ h["filter"] > 0 /\ t \in AppThreads
       \/ s.inside = "info" /\ h["peer"] > 0

Fine(t, s, h) ==
    /\ s.do = "lock" => s.mutex \in Mutexes /\ MayWait(t, s, h)
    /\ s.do = "wait" => h = Nothing /\ s.inside = "none"

Frees(ms, m) == Cardinality({i \in DOMAIN ms : ms[i] = m})

After(s, h) == [m \in Mutexes |-> h[m] + (IF s.do = "lock" /\ s.mutex = m THEN 1 ELSE 0) - Frees(s.free, m)]

\* The steps w of t lead from holding h to holding g.
Path(t, w, h, g) ==
    /\ w \in Seq(LockSteps)
    /\ \E st \in [0 .. Len(w) -> Holdings] :
           /\ st[0] = h /\ st[Len(w)] = g
           /\ \A n \in 1 .. Len(w) : Fine(t, w[n], st[n - 1]) /\ st[n] = After(w[n], st[n - 1])

\* Whatever steps a thread is at, they free what it holds.
LockInv ==
    /\ owner \in [Mutexes -> LockThreads \cup {NoOwner}] /\ depth \in [Mutexes -> Nat]
    /\ \A m \in Mutexes : owner[m] = NoOwner <=> depth[m] = 0
    /\ DOMAIN steps = LockThreads
    /\ \A t \in LockThreads : Path(t, steps[t], Held(t), Nothing)

-----------------------------------------------------------------------------
\* A sequence of mutexes frees finitely many.
LEMMA FreesNat ==
    ASSUME NEW ms \in Seq(Mutexes), NEW m PROVE Frees(ms, m) \in Nat /\ IsFiniteSet({i \in DOMAIN ms : ms[i] = m})
<1>1. DOMAIN ms = 1 .. Len(ms) /\ Len(ms) \in Nat
    OBVIOUS
<1>2. IsFiniteSet(1 .. Len(ms))
    BY <1>1, FS_Interval
<1>3. IsFiniteSet({i \in DOMAIN ms : ms[i] = m})
    BY <1>1, <1>2, FS_Subset
<1>q. QED
    BY <1>3, FS_CardinalityType DEF Frees

\* Two sequences free what each of them does.
LEMMA FreesCat ==
    ASSUME NEW a \in Seq(Mutexes), NEW b \in Seq(Mutexes), NEW m
    PROVE  Frees(a \o b, m) = Frees(a, m) + Frees(b, m)
<1> DEFINE A == {i \in DOMAIN a : a[i] = m}
           B == {i \in DOMAIN b : b[i] = m}
           C == {i \in DOMAIN (a \o b) : (a \o b)[i] = m}
           B2 == C \ A
           f == [i \in B |-> i + Len(a)]
<1>1. /\ DOMAIN a = 1 .. Len(a) /\ Len(a) \in Nat /\ DOMAIN b = 1 .. Len(b) /\ Len(b) \in Nat
      /\ a \o b \in Seq(Mutexes) /\ Len(a \o b) = Len(a) + Len(b) /\ DOMAIN (a \o b) = 1 .. Len(a) + Len(b)
    OBVIOUS
<1>2. /\ \A i \in 1 .. Len(a) : (a \o b)[i] = a[i]
      /\ \A i \in 1 .. Len(b) : (a \o b)[i + Len(a)] = b[i]
    BY <1>1
<1>3. A \subseteq C
    BY <1>1, <1>2
<1>4. \A i \in C : i \in B2 <=> i > Len(a)
    BY <1>1, <1>2
<1>5. f \in Bijection(B, B2)
  <2>1. \A i \in B : i + Len(a) \in B2
    BY <1>1, <1>2, <1>4
  <2>2. \A i, j \in B : i + Len(a) = j + Len(a) => i = j
    BY <1>1
  <2>3. \A j \in B2 : j - Len(a) \in B /\ (j - Len(a)) + Len(a) = j
    <3> SUFFICES ASSUME NEW j \in B2 PROVE j - Len(a) \in B /\ (j - Len(a)) + Len(a) = j
      OBVIOUS
    <3>1. j \in Nat /\ j > Len(a) /\ j <= Len(a) + Len(b) /\ (a \o b)[j] = m
      BY <1>1, <1>4
    <3>2. j - Len(a) \in 1 .. Len(b) /\ (j - Len(a)) + Len(a) = j
      BY <1>1, <3>1
    <3>3. b[j - Len(a)] = m
      BY <1>2, <3>1, <3>2
    <3>q. QED
      BY <1>1, <3>2, <3>3
  <2>4. \A j \in B2 : \E i \in B : f[i] = j
    BY <2>3
  <2> HIDE DEF B, B2
  <2>5. f \in Injection(B, B2) /\ f \in Surjection(B, B2)
    BY <2>1, <2>2, <2>4 DEF Injection, Surjection, IsInjective
  <2>q. QED
    BY <2>5 DEF Bijection
<1>6. IsFiniteSet(A) /\ IsFiniteSet(B) /\ IsFiniteSet(C)
    BY <1>1, FreesNat
<1> HIDE DEF A, B, C, B2, f
<1>7. IsFiniteSet(B2) /\ Cardinality(B2) = Cardinality(B)
  <2>1. ExistsBijection(B, B2)
    BY <1>5 DEF ExistsBijection
  <2>q. QED
    BY <1>6, <2>1, FS_Bijection
<1>8. Cardinality(C) = Cardinality(A) + Cardinality(B2)
  <2>1. C = A \cup B2 /\ A \cap B2 = {}
    BY <1>3 DEF B2
  <2>2. Cardinality(C) = Cardinality(A) + Cardinality(B2) - Cardinality(A \cap B2)
    BY <1>6, <1>7, <2>1, FS_Union
  <2>3. Cardinality({}) = 0 /\ Cardinality(A) \in Nat /\ Cardinality(B2) \in Nat
    BY <1>6, <1>7, FS_EmptySet, FS_CardinalityType
  <2>4. Cardinality(A \cap B2) = 0
    BY <2>1, <2>3
  <2>q. QED
    BY <2>2, <2>3, <2>4
<1>q. QED
    BY <1>7, <1>8 DEF Frees, A, B, C

\* What one mutex and none frees.
LEMMA FreesOne ==
    /\ \A m : Frees(<< >>, m) = 0
    /\ \A m, x \in Mutexes : Frees(<<x>>, m) = IF x = m THEN 1 ELSE 0
<1>1. \A m : {i \in DOMAIN << >> : << >>[i] = m} = {}
    OBVIOUS
<1>2. \A x, m : {i \in DOMAIN <<x>> : <<x>>[i] = m} = IF x = m THEN {1} ELSE {}
    OBVIOUS
<1>3. Cardinality({}) = 0 /\ Cardinality({1}) = 1
    BY FS_EmptySet, FS_Singleton
<1>q. QED
    BY <1>1, <1>2, <1>3 DEF Frees

\* No step leads nowhere.
LEMMA PathNil == ASSUME NEW t, NEW h \in Holdings PROVE Path(t, << >>, h, h)
<1> DEFINE st == [n \in 0 .. 0 |-> h]
<1>1. << >> \in Seq(LockSteps) /\ Len(<< >>) = 0
    OBVIOUS
<1>2. st \in [0 .. 0 -> Holdings] /\ st[0] = h /\ \A n \in 1 .. 0 : FALSE
    OBVIOUS
<1>3. \E x \in [0 .. Len(<< >>) -> Holdings] :
         /\ x[0] = h /\ x[Len(<< >>)] = h
         /\ \A n \in 1 .. Len(<< >>) : Fine(t, << >>[n], x[n - 1]) /\ x[n] = After(<< >>[n], x[n - 1])
    BY <1>1, <1>2
<1>q. QED
    BY <1>1, <1>3 DEF Path

\* One step.
LEMMA PathOne ==
    ASSUME NEW t, NEW h \in Holdings, NEW g \in Holdings, NEW s \in LockSteps, Fine(t, s, h), g = After(s, h)
    PROVE  Path(t, <<s>>, h, g)
<1> DEFINE st == [n \in 0 .. 1 |-> IF n = 0 THEN h ELSE g]
<1>1. <<s>> \in Seq(LockSteps) /\ Len(<<s>>) = 1 /\ <<s>>[1] = s
    OBVIOUS
<1>2. st \in [0 .. 1 -> Holdings] /\ st[0] = h /\ st[1] = g
    OBVIOUS
<1>3. \A n \in 1 .. 1 : n = 1 /\ n - 1 = 0
    OBVIOUS
<1> HIDE DEF st
<1>4. \A n \in 1 .. Len(<<s>>) : Fine(t, <<s>>[n], st[n - 1]) /\ st[n] = After(<<s>>[n], st[n - 1])
    BY <1>1, <1>2, <1>3
<1>q. QED
    BY <1>1, <1>2, <1>4 DEF Path

\* Steps after steps.
LEMMA PathCat ==
    ASSUME NEW t, NEW h, NEW k, NEW g, NEW v, NEW w, Path(t, v, h, k), Path(t, w, k, g)
    PROVE  Path(t, v \o w, h, g)
<1>1. PICK a \in [0 .. Len(v) -> Holdings] :
          /\ a[0] = h /\ a[Len(v)] = k
          /\ \A n \in 1 .. Len(v) : Fine(t, v[n], a[n - 1]) /\ a[n] = After(v[n], a[n - 1])
    BY DEF Path
<1>2. PICK b \in [0 .. Len(w) -> Holdings] :
          /\ b[0] = k /\ b[Len(w)] = g
          /\ \A n \in 1 .. Len(w) : Fine(t, w[n], b[n - 1]) /\ b[n] = After(w[n], b[n - 1])
    BY DEF Path
<1>3. v \in Seq(LockSteps) /\ w \in Seq(LockSteps)
    BY DEF Path
<1>4. /\ v \o w \in Seq(LockSteps) /\ Len(v) \in Nat /\ Len(w) \in Nat /\ Len(v \o w) = Len(v) + Len(w)
      /\ \A n \in 1 .. Len(v) : (v \o w)[n] = v[n]
      /\ \A n \in 1 .. Len(v) + Len(w) : n > Len(v) => (v \o w)[n] = w[n - Len(v)]
  <2> HIDE DEF LockSteps
  <2>q. QED
    BY <1>3
<1> DEFINE st == [n \in 0 .. Len(v) + Len(w) |-> IF n <= Len(v) THEN a[n] ELSE b[n - Len(v)]]
<1>5. /\ st \in [0 .. Len(v) + Len(w) -> Holdings] /\ st[0] = h
      /\ \A n \in 0 .. Len(v) : st[n] = a[n]
    BY <1>1, <1>2, <1>4
<1>6. \A n \in Len(v) .. Len(v) + Len(w) : st[n] = b[n - Len(v)]
    BY <1>1, <1>2, <1>4
<1>7. st[Len(v) + Len(w)] = g
  <2>1. Len(v) + Len(w) \in Len(v) .. Len(v) + Len(w) /\ (Len(v) + Len(w)) - Len(v) = Len(w)
    BY <1>4
  <2> HIDE DEF st
  <2>q. QED
    BY <1>2, <1>6, <2>1
<1> HIDE DEF st
<1>8. ASSUME NEW n \in 1 .. Len(v) + Len(w)
      PROVE  Fine(t, (v \o w)[n], st[n - 1]) /\ st[n] = After((v \o w)[n], st[n - 1])
  <2>1. CASE n <= Len(v)
    <3>1. n \in 1 .. Len(v) /\ n - 1 \in 0 .. Len(v) /\ n \in 0 .. Len(v)
      BY <1>4, <2>1
    <3>2. (v \o w)[n] = v[n] /\ st[n - 1] = a[n - 1] /\ st[n] = a[n]
      BY <1>4, <1>5, <3>1
    <3>q. QED
      BY <1>1, <3>1, <3>2
  <2>2. CASE n > Len(v)
    <3>1. /\ n - Len(v) \in 1 .. Len(w) /\ n - 1 \in Len(v) .. Len(v) + Len(w) /\ n \in Len(v) .. Len(v) + Len(w)
          /\ (n - 1) - Len(v) = (n - Len(v)) - 1
      BY <1>4, <2>2
    <3>2. (v \o w)[n] = w[n - Len(v)] /\ st[n - 1] = b[(n - Len(v)) - 1] /\ st[n] = b[n - Len(v)]
      BY <1>4, <1>6, <2>2, <3>1
    <3>q. QED
      BY <1>2, <3>1, <3>2
  <2>q. QED
    BY <1>4, <2>1, <2>2
<1>9. /\ st \in [0 .. Len(v \o w) -> Holdings] /\ st[0] = h /\ st[Len(v \o w)] = g
      /\ \A n \in 1 .. Len(v \o w) : Fine(t, (v \o w)[n], st[n - 1]) /\ st[n] = After((v \o w)[n], st[n - 1])
    BY <1>4, <1>5, <1>7, <1>8
<1>q. QED
    BY <1>4, <1>9 DEF Path

\* The first step taken.
LEMMA PathTail ==
    ASSUME NEW t, NEW h, NEW g, NEW w, Path(t, w, h, g), w # << >>
    PROVE  /\ Head(w) \in LockSteps /\ Fine(t, Head(w), h) /\ After(Head(w), h) \in Holdings
           /\ Path(t, Tail(w), After(Head(w), h), g)
<1>1. PICK a \in [0 .. Len(w) -> Holdings] :
          /\ a[0] = h /\ a[Len(w)] = g
          /\ \A n \in 1 .. Len(w) : Fine(t, w[n], a[n - 1]) /\ a[n] = After(w[n], a[n - 1])
    BY DEF Path
<1>2. w \in Seq(LockSteps)
    BY DEF Path
<1>3. /\ Len(w) \in Nat \ {0} /\ Head(w) = w[1] /\ Head(w) \in LockSteps /\ Tail(w) \in Seq(LockSteps)
      /\ Len(Tail(w)) = Len(w) - 1 /\ \A n \in 1 .. Len(w) - 1 : Tail(w)[n] = w[n + 1]
  <2> HIDE DEF LockSteps
  <2>q. QED
    BY <1>2
<1>4. 1 \in 1 .. Len(w) /\ 1 - 1 = 0 /\ 1 \in 0 .. Len(w)
    BY <1>3
<1>5. Fine(t, w[1], a[0]) /\ a[1] = After(w[1], a[0]) /\ a[1] \in Holdings
    BY <1>1, <1>4
<1> DEFINE st == [n \in 0 .. Len(w) - 1 |-> a[n + 1]]
<1>6. /\ st \in [0 .. Len(w) - 1 -> Holdings] /\ st[0] = a[1] /\ st[Len(w) - 1] = a[Len(w)]
      /\ \A n \in 0 .. Len(w) - 1 : st[n] = a[n + 1]
    BY <1>1, <1>3
<1> HIDE DEF st
<1>7. ASSUME NEW n \in 1 .. Len(w) - 1
      PROVE  Fine(t, Tail(w)[n], st[n - 1]) /\ st[n] = After(Tail(w)[n], st[n - 1])
  <2>1. n + 1 \in 1 .. Len(w) /\ (n + 1) - 1 = n /\ n - 1 \in 0 .. Len(w) - 1 /\ n \in 0 .. Len(w) - 1 /\ (n - 1) + 1 = n
    BY <1>3
  <2>2. st[n - 1] = a[n] /\ st[n] = a[n + 1] /\ Tail(w)[n] = w[n + 1]
    BY <1>3, <1>6, <2>1
  <2>3. Fine(t, w[n + 1], a[n]) /\ a[n + 1] = After(w[n + 1], a[n])
    BY <1>1, <2>1
  <2>q. QED
    BY <2>2, <2>3
<1>8. /\ st \in [0 .. Len(Tail(w)) -> Holdings] /\ st[0] = After(Head(w), h) /\ st[Len(Tail(w))] = g
      /\ \A n \in 1 .. Len(Tail(w)) : Fine(t, Tail(w)[n], st[n - 1]) /\ st[n] = After(Tail(w)[n], st[n - 1])
    BY <1>1, <1>3, <1>5, <1>6, <1>7
<1>q. QED
    BY <1>1, <1>3, <1>5, <1>8 DEF Path

\* Steps the last of which frees more.
LEMMA PathFreeing ==
    ASSUME NEW t, NEW h, NEW g, NEW w, Path(t, w, h, g), w # << >>, NEW ms \in Seq(Mutexes),
           NEW k \in Holdings, \A m \in Mutexes : k[m] = g[m] - Frees(ms, m)
    PROVE  Path(t, Freeing(w, ms), h, k) /\ Freeing(w, ms) # << >>
<1>1. PICK a \in [0 .. Len(w) -> Holdings] :
          /\ a[0] = h /\ a[Len(w)] = g
          /\ \A n \in 1 .. Len(w) : Fine(t, w[n], a[n - 1]) /\ a[n] = After(w[n], a[n - 1])
    BY DEF Path
<1>2. w \in Seq(LockSteps)
    BY DEF Path
<1>3. Len(w) \in Nat \ {0} /\ \A n \in 1 .. Len(w) : w[n] \in LockSteps
  <2> HIDE DEF LockSteps
  <2>q. QED
    BY <1>2
<1>4. PICK s : s = w[Len(w)]
    OBVIOUS
<1>5. PICK z : z = [s EXCEPT !.free = @ \o ms]
    OBVIOUS
<1>6. s \in LockSteps
    BY <1>3, <1>4
<1>7. s.free \in Seq(Mutexes)
    BY <1>6 DEF LockSteps
<1>8. z \in LockSteps /\ z.do = s.do /\ z.mutex = s.mutex /\ z.inside = s.inside /\ z.free = s.free \o ms
  <2>1. s.free \o ms \in Seq(Mutexes)
    BY <1>7
  <2>2. PICK f \in Seq(Mutexes) : f = s.free \o ms
    BY <2>1
  <2>3. z = [s EXCEPT !.free = f]
    BY <1>5, <2>2
  <2>q. QED
    BY <1>6, <2>2, <2>3 DEF LockSteps
<1>9. PICK v : v = [w EXCEPT ![Len(w)] = z]
    OBVIOUS
<1>10. Freeing(w, ms) = v
    BY <1>4, <1>5, <1>9 DEF Freeing
<1>11. /\ v \in Seq(LockSteps) /\ Len(v) = Len(w) /\ v # << >> /\ v[Len(w)] = z
       /\ \A n \in 1 .. Len(w) : n # Len(w) => v[n] = w[n]
  <2> HIDE DEF LockSteps
  <2>q. QED
    BY <1>2, <1>3, <1>8, <1>9
<1>12. PICK st : st = [a EXCEPT ![Len(w)] = k]
    OBVIOUS
<1>13. /\ st \in [0 .. Len(w) -> Holdings] /\ st[Len(w)] = k
       /\ \A n \in 0 .. Len(w) : n # Len(w) => st[n] = a[n]
    BY <1>1, <1>3, <1>12
<1>14. st[0] = h
    BY <1>1, <1>3, <1>13
<1>15. \A x : Fine(t, s, x) => Fine(t, z, x)
    BY <1>8 DEF Fine, MayWait
<1>16. \A x \in Holdings : g = After(s, x) => k = After(z, x)
  <2> SUFFICES ASSUME NEW x \in Holdings, g = After(s, x) PROVE k = After(z, x)
    OBVIOUS
  <2>1. ASSUME NEW m \in Mutexes PROVE k[m] = After(z, x)[m]
    <3>1. Frees(s.free, m) \in Nat /\ Frees(ms, m) \in Nat /\ Frees(z.free, m) = Frees(s.free, m) + Frees(ms, m)
      <4>1. Frees(s.free, m) \in Nat /\ Frees(ms, m) \in Nat
        BY <1>7, FreesNat
      <4>2. Frees(s.free \o ms, m) = Frees(s.free, m) + Frees(ms, m)
        BY <1>7, FreesCat
      <4>q. QED
        BY <1>8, <4>1, <4>2
    <3>2. x[m] \in Nat
      BY DEF Holdings
    <3>3. PICK l \in Nat : l = IF s.do = "lock" /\ s.mutex = m THEN 1 ELSE 0
      OBVIOUS
    <3>4. g[m] = x[m] + l - Frees(s.free, m) /\ After(z, x)[m] = x[m] + l - Frees(z.free, m)
      BY <1>8, <3>3 DEF After
    <3>5. k[m] = g[m] - Frees(ms, m)
      OBVIOUS
    <3>q. QED
      BY <3>1, <3>2, <3>3, <3>4, <3>5
  <2>2. k = [m \in Mutexes |-> k[m]] /\ After(z, x) = [m \in Mutexes |-> After(z, x)[m]]
    BY DEF Holdings, After
  <2>q. QED
    BY <2>1, <2>2
<1>17. ASSUME NEW n \in 1 .. Len(w) PROVE Fine(t, v[n], st[n - 1]) /\ st[n] = After(v[n], st[n - 1])
  <2>1. n - 1 \in 0 .. Len(w) /\ n - 1 # Len(w) /\ n \in 0 .. Len(w)
    BY <1>3
  <2>2. st[n - 1] = a[n - 1] /\ a[n - 1] \in Holdings /\ Fine(t, w[n], a[n - 1]) /\ a[n] = After(w[n], a[n - 1])
    BY <1>1, <1>13, <2>1
  <2>3. CASE n = Len(w)
    BY <1>1, <1>4, <1>11, <1>13, <1>15, <1>16, <2>2, <2>3
  <2>4. CASE n # Len(w)
    BY <1>11, <1>13, <2>1, <2>2, <2>4
  <2>q. QED
    BY <2>3, <2>4
<1>18. /\ st \in [0 .. Len(v) -> Holdings] /\ st[0] = h /\ st[Len(v)] = k
       /\ \A n \in 1 .. Len(v) : Fine(t, v[n], st[n - 1]) /\ st[n] = After(v[n], st[n - 1])
    BY <1>11, <1>13, <1>14, <1>17
<1>q. QED
    BY <1>10, <1>11, <1>18 DEF Path

\* A mutex held while other steps are taken.
Plus(h, m) == [h EXCEPT ![m] = @ + 1]

\* What the steps of the operations are.
LEMMA StepTypes ==
    /\ \A m \in Mutexes : Lock(m) \in LockSteps /\ Touch(m) \in LockSteps
    /\ \A x \in {"call", "push", "pull", "wait"} : Step(x) \in LockSteps
    /\ \A h \in Holdings : \A m \in Mutexes : Plus(h, m) \in Holdings
    /\ Nothing \in Holdings
<1>1. << >> \in Seq(Mutexes) /\ \A m \in Mutexes : <<m>> \in Seq(Mutexes)
    OBVIOUS
<1>2. \A f \in Seq(Mutexes) : \A m \in Mutexes \cup {"none"} : \A x \in {"lock", "call", "push", "pull", "wait"} :
          [do |-> x, mutex |-> m, free |-> f, inside |-> "none"] \in LockSteps
    BY DEF LockSteps
<1>3. \A h \in Holdings : \A m \in Mutexes : Plus(h, m) \in Holdings
    BY DEF Plus, Holdings
<1>4. Nothing \in Holdings
    BY DEF Nothing, Holdings
<1>q. QED
    BY <1>1, <1>2, <1>3, <1>4 DEF Lock, Touch, Step

\* A mutex is taken and freed, around other steps or at once, if t may wait for it.
LEMMA PathUnder ==
    ASSUME NEW t, NEW h \in Holdings, NEW m \in Mutexes, NEW w, MayWait(t, Lock(m), h),
           Path(t, w, Plus(h, m), Plus(h, m)), w # << >>
    PROVE  Path(t, Under(m, w), h, h) /\ Under(m, w) # << >>
<1>1. Plus(h, m) \in Holdings /\ Plus(h, m)[m] = h[m] + 1 /\ \A x \in Mutexes \ {m} : Plus(h, m)[x] = h[x]
    BY StepTypes DEF Plus, Holdings
<1>2. \A x \in Mutexes : h[x] = Plus(h, m)[x] - Frees(<<m>>, x)
    BY <1>1, FreesOne DEF Holdings
<1>3. <<m>> \in Seq(Mutexes)
    OBVIOUS
<1>4. Path(t, Freeing(w, <<m>>), Plus(h, m), h) /\ Freeing(w, <<m>>) # << >>
  <2>1. PICK ms \in Seq(Mutexes) : ms = <<m>>
    BY <1>3
  <2>2. PICK g : g = Plus(h, m)
    OBVIOUS
  <2>3. \A x \in Mutexes : h[x] = g[x] - Frees(ms, x)
    BY <1>2, <2>1, <2>2
  <2>4. Path(t, w, g, g)
    BY <2>2
  <2>5. Path(t, Freeing(w, ms), g, h) /\ Freeing(w, ms) # << >>
    BY <2>3, <2>4, PathFreeing
  <2>q. QED
    BY <2>1, <2>2, <2>5
<1>5. Lock(m) \in LockSteps /\ Fine(t, Lock(m), h)
    BY StepTypes DEF Fine, Lock
<1>6. After(Lock(m), h) = Plus(h, m)
  <2>1. \A x \in Mutexes : After(Lock(m), h)[x] = Plus(h, m)[x]
    BY <1>1, FreesOne DEF After, Lock, Holdings
  <2>2. Plus(h, m) = [x \in Mutexes |-> Plus(h, m)[x]] /\ After(Lock(m), h) = [x \in Mutexes |-> After(Lock(m), h)[x]]
    BY <1>1 DEF Holdings, After
  <2>q. QED
    BY <2>1, <2>2
<1>7. Path(t, <<Lock(m)>>, h, Plus(h, m))
    BY <1>1, <1>5, <1>6, PathOne
<1>8. Path(t, Under(m, w), h, h)
    BY <1>4, <1>7, PathCat DEF Under
<1>9. \A S : \A x \in S : \A y \in Seq(S) : <<x>> \o y # << >>
    OBVIOUS
<1>10. Freeing(w, <<m>>) \in Seq(LockSteps)
    BY <1>4 DEF Path
<1>q. QED
    BY <1>5, <1>8, <1>9, <1>10 DEF Under

\* A mutex taken and freed at once.
LEMMA PathTouch ==
    ASSUME NEW t, NEW h \in Holdings, NEW m \in Mutexes, NEW y \in {"none"} \cup Callbacks, NEW s,
           s = [do |-> "lock", mutex |-> m, free |-> <<m>>, inside |-> y], MayWait(t, s, h)
    PROVE  Path(t, <<s>>, h, h)
<1>1. <<m>> \in Seq(Mutexes)
    OBVIOUS
<1>2. s \in LockSteps /\ s.do = "lock" /\ s.mutex = m /\ s.free = <<m>>
    BY <1>1 DEF LockSteps
<1>3. Fine(t, s, h)
    BY <1>2 DEF Fine
<1>4. h = After(s, h)
  <2>1. \A x \in Mutexes : After(s, h)[x] = h[x]
    BY <1>2, FreesOne DEF After, Holdings
  <2>2. h = [x \in Mutexes |-> h[x]] /\ After(s, h) = [x \in Mutexes |-> After(s, h)[x]]
    BY DEF Holdings, After
  <2>q. QED
    BY <2>1, <2>2
<1>q. QED
    BY <1>2, <1>3, <1>4, PathOne

\* A step that takes no mutex.
LEMMA PathStep ==
    ASSUME NEW t, NEW h \in Holdings, NEW x \in {"call", "push", "pull", "wait"}, x = "wait" => h = Nothing,
           NEW y \in {"none"} \cup Callbacks, x = "wait" => y = "none", NEW s,
           s = [do |-> x, mutex |-> "none", free |-> << >>, inside |-> y]
    PROVE  Path(t, <<s>>, h, h)
<1>1. << >> \in Seq(Mutexes)
    OBVIOUS
<1>2. s \in LockSteps /\ s.do = x /\ s.do # "lock" /\ s.free = << >> /\ s.inside = y
    BY <1>1 DEF LockSteps
<1>3. Fine(t, s, h)
    BY <1>2 DEF Fine
<1>4. h = After(s, h)
  <2>1. \A m \in Mutexes : After(s, h)[m] = h[m]
    BY <1>2, FreesOne DEF After, Holdings
  <2>2. h = [m \in Mutexes |-> h[m]] /\ After(s, h) = [m \in Mutexes |-> After(s, h)[m]]
    BY DEF Holdings, After
  <2>q. QED
    BY <2>1, <2>2
<1>q. QED
    BY <1>2, <1>3, <1>4, PathOne

\* What may be waited for in an operation, by what is held.
LEMMA OpWaits ==
    ASSUME NEW t \in LockThreads, NEW h \in Holdings, h["filter"] = 0
    PROVE  /\ MayWait(t, Touch("peer"), h)
           /\ h["session"] = 0 => MayWait(t, Touch("session"), h) /\ MayWait(t, Lock("session"), h)
           /\ h["session"] = 0 => MayWait(t, Lock("peer"), h)
           /\ h = Nothing => \A m \in Mutexes : MayWait(t, Touch(m), h) /\ MayWait(t, Lock(m), h)
           /\ t = ExecThread => MayWait(t, Lock("filter"), h)
<1> USE DEF Holdings
<1>1. \A m \in Mutexes : h[m] \in Nat
    OBVIOUS
<1>2. /\ Rank["admin"] = 0 /\ Rank["filter"] = 1 /\ Rank["transport"] = 2 /\ Rank["peer"] = 3 /\ Rank["session"] = 4
    BY DEF Rank
<1>3. \A m \in Mutexes : /\ Touch(m).mutex = m /\ Touch(m).inside = "none" /\ Lock(m).mutex = m /\ Lock(m).inside = "none"
    BY DEF Touch, Lock
<1>4. MayWait(t, Touch("peer"), h)
    BY <1>1, <1>2, <1>3 DEF MayWait, Mutexes, Recursives
<1>5. h["session"] = 0 => MayWait(t, Touch("session"), h) /\ MayWait(t, Lock("session"), h)
    BY <1>1, <1>2, <1>3 DEF MayWait, Mutexes, Recursives
<1>6. h["session"] = 0 => MayWait(t, Lock("peer"), h)
    BY <1>1, <1>2, <1>3 DEF MayWait, Mutexes, Recursives
<1>7. h = Nothing => \A m \in Mutexes : MayWait(t, Touch(m), h) /\ MayWait(t, Lock(m), h)
    BY <1>1, <1>2, <1>3 DEF MayWait, Nothing
<1>8. t = ExecThread => MayWait(t, Lock("filter"), h)
    BY <1>1, <1>3 DEF MayWait, Mutexes
<1>q. QED
    BY <1>4, <1>5, <1>6, <1>7, <1>8

\* The steps of operations that free all they take.
Closed(t, w, h) == Path(t, w, h, h) /\ w # << >>

\* Operations after each other.
LEMMA ClosedCat ==
    ASSUME NEW t, NEW h, NEW v, NEW w, Closed(t, v, h), Closed(t, w, h) PROVE Closed(t, v \o w, h)
<1>1. v \in Seq(LockSteps) /\ w \in Seq(LockSteps) /\ v # << >>
    BY DEF Closed, Path
<1>2. v \o w # << >>
  <2> HIDE DEF LockSteps
  <2>q. QED
    BY <1>1
<1>q. QED
    BY <1>2, PathCat DEF Closed

\* A mutex taken and freed at once.
LEMMA ClosedTouch ==
    ASSUME NEW t, NEW h \in Holdings, NEW m \in Mutexes, MayWait(t, Touch(m), h) PROVE Closed(t, <<Touch(m)>>, h)
<1>1. PICK s : s = Touch(m)
    OBVIOUS
<1>2. Path(t, <<s>>, h, h)
    BY <1>1, PathTouch DEF Touch
<1>q. QED
    BY <1>1, <1>2 DEF Closed

\* A callback.
LEMMA ClosedCall == ASSUME NEW t, NEW h \in Holdings PROVE Closed(t, <<Call>>, h)
<1>1. PICK s : s = [do |-> "call", mutex |-> "none", free |-> << >>, inside |-> "none"]
    OBVIOUS
<1>2. Path(t, <<s>>, h, h)
    BY <1>1, PathStep
<1>3. Call = s
    BY <1>1 DEF Call, Step
<1>q. QED
    BY <1>2, <1>3 DEF Closed

\* Steps under a mutex.
LEMMA ClosedUnder ==
    ASSUME NEW t, NEW h \in Holdings, NEW m \in Mutexes, NEW w, MayWait(t, Lock(m), h), Closed(t, w, Plus(h, m))
    PROVE  Closed(t, Under(m, w), h)
BY PathUnder DEF Closed

\* With the one mutex m held.
Only(m) == Plus(Nothing, m)

\* That mutex and no other.
LEMMA OnlyTypes ==
    ASSUME NEW m \in Mutexes
    PROVE  Only(m) \in Holdings /\ Only(m)[m] = 1 /\ \A x \in Mutexes \ {m} : Only(m)[x] = 0
BY StepTypes DEF Only, Plus, Nothing

\* Short sequences as concatenations.
LEMMA ShortSeqs ==
    ASSUME NEW S
    PROVE  /\ \A a, b \in S : <<a, b>> = <<a>> \o <<b>>
           /\ \A a, b, c \in S : <<a, b, c>> = <<a, b>> \o <<c>>
           /\ \A a, b, c, d \in S : <<a, b, c, d>> = <<a, b, c>> \o <<d>>
<1>1. ASSUME NEW a \in S, NEW b \in S PROVE <<a, b>> = <<a>> \o <<b>>
  <2>1. /\ <<a, b>> \in Seq(S) /\ Len(<<a, b>>) = 2 /\ <<a, b>>[1] = a /\ <<a, b>>[2] = b
    OBVIOUS
  <2>2. <<a>> \o <<b>> \in Seq(S) /\ Len(<<a>> \o <<b>>) = 2 /\ (<<a>> \o <<b>>)[1] = a /\ (<<a>> \o <<b>>)[2] = b
    OBVIOUS
  <2>3. PICK x \in Seq(S), y \in Seq(S) : x = <<a, b>> /\ y = <<a>> \o <<b>>
    BY <2>1, <2>2
  <2>4. Len(x) = 2 /\ Len(y) = 2 /\ x[1] = a /\ y[1] = a /\ x[2] = b /\ y[2] = b
    BY <2>1, <2>2, <2>3
  <2>5. \A i \in 1 .. 2 : i = 1 \/ i = 2
    OBVIOUS
  <2>6. \A i \in 1 .. Len(x) : x[i] = y[i]
    BY <2>4, <2>5
  <2>q. QED
    BY <2>3, <2>4, <2>6, SeqEqual
<1>2. ASSUME NEW a \in S, NEW b \in S, NEW c \in S PROVE <<a, b, c>> = <<a, b>> \o <<c>>
  <2>1. /\ <<a, b, c>> \in Seq(S) /\ Len(<<a, b, c>>) = 3
        /\ <<a, b, c>>[1] = a /\ <<a, b, c>>[2] = b /\ <<a, b, c>>[3] = c
    OBVIOUS
  <2>2. /\ <<a, b>> \o <<c>> \in Seq(S) /\ Len(<<a, b>> \o <<c>>) = 3
        /\ (<<a, b>> \o <<c>>)[1] = a /\ (<<a, b>> \o <<c>>)[2] = b /\ (<<a, b>> \o <<c>>)[3] = c
    OBVIOUS
  <2>q. QED
    BY <2>1, <2>2, SeqEqual
<1>3. ASSUME NEW a \in S, NEW b \in S, NEW c \in S, NEW d \in S PROVE <<a, b, c, d>> = <<a, b, c>> \o <<d>>
  <2>1. /\ <<a, b, c, d>> \in Seq(S) /\ Len(<<a, b, c, d>>) = 4
        /\ <<a, b, c, d>>[1] = a /\ <<a, b, c, d>>[2] = b /\ <<a, b, c, d>>[3] = c /\ <<a, b, c, d>>[4] = d
    OBVIOUS
  <2>2. /\ <<a, b, c>> \o <<d>> \in Seq(S) /\ Len(<<a, b, c>> \o <<d>>) = 4
        /\ (<<a, b, c>> \o <<d>>)[1] = a /\ (<<a, b, c>> \o <<d>>)[2] = b
        /\ (<<a, b, c>> \o <<d>>)[3] = c /\ (<<a, b, c>> \o <<d>>)[4] = d
    OBVIOUS
  <2>q. QED
    BY <2>1, <2>2, SeqEqual
<1>q. QED
    BY <1>1, <1>2, <1>3

\* Two, three and four steps, each of which frees what it takes.
LEMMA ClosedShort ==
    ASSUME NEW t, NEW h, NEW a, NEW b, Closed(t, <<a>>, h), Closed(t, <<b>>, h)
    PROVE  /\ Closed(t, <<a, b>>, h)
           /\ \A c : Closed(t, <<c>>, h) => Closed(t, <<a, b, c>>, h)
           /\ \A c, d : Closed(t, <<c>>, h) /\ Closed(t, <<d>>, h) => Closed(t, <<a, b, c, d>>, h)
<1>1. \A x : Closed(t, <<x>>, h) => x \in LockSteps
  <2>1. \A x : Closed(t, <<x>>, h) => <<x>> \in Seq(LockSteps)
    BY DEF Closed, Path
  <2>2. \A S : \A x : <<x>> \in Seq(S) => x \in S
    <3> SUFFICES ASSUME NEW S, NEW x, <<x>> \in Seq(S) PROVE x \in S
      OBVIOUS
    <3>1. 1 \in 1 .. Len(<<x>>) /\ <<x>>[1] = x
      OBVIOUS
    <3>2. <<x>>[1] \in S
      BY <3>1
    <3>q. QED
      BY <3>1, <3>2
  <2>q. QED
    BY <2>1, <2>2
<1>2. a \in LockSteps /\ b \in LockSteps
    BY <1>1
<1>3. Closed(t, <<a, b>>, h)
  <2>1. <<a, b>> = <<a>> \o <<b>>
    BY <1>2, ShortSeqs
  <2>q. QED
    BY <2>1, ClosedCat
<1>4. ASSUME NEW c, Closed(t, <<c>>, h) PROVE Closed(t, <<a, b, c>>, h)
  <2>1. <<a, b, c>> = <<a, b>> \o <<c>>
    BY <1>1, <1>2, <1>4, ShortSeqs
  <2>q. QED
    BY <1>3, <1>4, <2>1, ClosedCat
<1>5. ASSUME NEW c, NEW d, Closed(t, <<c>>, h), Closed(t, <<d>>, h) PROVE Closed(t, <<a, b, c, d>>, h)
  <2>1. <<a, b, c, d>> = <<a, b, c>> \o <<d>>
    BY <1>1, <1>2, <1>5, ShortSeqs
  <2>q. QED
    BY <1>4, <1>5, <2>1, ClosedCat
<1>q. QED
    BY <1>3, <1>4, <1>5

\* A message sent before or after other steps.
LEMMA ClosedSend ==
    ASSUME NEW t \in LockThreads, NEW h \in Holdings, h["filter"] = 0, NEW w, Closed(t, w, h)
    PROVE  Closed(t, Send \o w, h) /\ Closed(t, w \o Send, h)
<1>1. CASE clientMode
  <2>1. Send = << >> /\ w \in Seq(LockSteps)
    BY <1>1 DEF Send, Closed, Path
  <2>2. Send \o w = w /\ w \o Send = w
    BY <2>1, ConcatEmptySeq
  <2>q. QED
    BY <2>2
<1>2. CASE ~clientMode
  <2>1. Closed(t, <<Touch("peer")>>, h)
    BY OpWaits, ClosedTouch DEF Mutexes
  <2>2. Send = <<Touch("peer")>>
    BY <1>2 DEF Send
  <2>q. QED
    BY <2>1, <2>2, ClosedCat
<1>q. QED
    BY <1>1, <1>2

\* The parts of the operations.
LEMMA ClosedParts ==
    ASSUME NEW t \in LockThreads, NEW h \in Holdings, h["filter"] = 0, h["session"] = 0
    PROVE  /\ Closed(t, <<Touch("session")>>, h) /\ Closed(t, <<Touch("peer")>>, h) /\ Closed(t, <<Call>>, h)
           /\ Closed(t, Final, h) /\ Closed(t, PicoHandler, h)
           /\ t = ExecThread \/ h = Nothing => Closed(t, Filters, h)
<1>1. "session" \in Mutexes /\ "peer" \in Mutexes /\ "filter" \in Mutexes
    BY DEF Mutexes
<1>2. /\ MayWait(t, Touch("session"), h) /\ MayWait(t, Touch("peer"), h) /\ MayWait(t, Lock("session"), h)
      /\ t = ExecThread \/ h = Nothing => MayWait(t, Lock("filter"), h)
    BY <1>1, OpWaits
<1>3. Closed(t, <<Touch("session")>>, h) /\ Closed(t, <<Touch("peer")>>, h) /\ Closed(t, <<Call>>, h)
    BY <1>1, <1>2, ClosedTouch, ClosedCall
<1>4. Plus(h, "session") \in Holdings /\ Plus(h, "filter") \in Holdings /\ Plus(h, "session")["filter"] = 0
    BY <1>1, StepTypes DEF Plus, Holdings
<1>5. Closed(t, Final, h)
    BY <1>1, <1>2, <1>4, ClosedCall, ClosedUnder DEF Final
<1>6. t = ExecThread \/ h = Nothing => Closed(t, Filters, h)
    BY <1>1, <1>2, <1>4, ClosedCall, ClosedUnder DEF Filters
<1>7. Closed(t, <<Touch("peer")>>, Plus(h, "session"))
    BY <1>1, <1>4, OpWaits, ClosedTouch
<1>8. Closed(t, Under("session", <<Touch("peer")>>), h)
    BY <1>1, <1>2, <1>7, ClosedUnder
<1>9. Closed(t, PicoHandler, h)
    BY <1>3, <1>8, ClosedCat DEF PicoHandler
<1>q. QED
    BY <1>3, <1>5, <1>6, <1>9

\* What is done with nothing held.
LEMMA ClosedFree ==
    ASSUME NEW t \in LockThreads
    PROVE  /\ Nothing \in Holdings /\ Nothing["filter"] = 0 /\ Nothing["session"] = 0
           /\ \A m \in Mutexes : Closed(t, <<Touch(m)>>, Nothing)
           /\ \A m \in Mutexes : \A w : Closed(t, w, Only(m)) => Closed(t, Under(m, w), Nothing)
           /\ \A w : Closed(t, w, Nothing) /\ Closed(t, w, Only("peer")) => Closed(t, Read(w), Nothing)
           /\ Closed(t, DispatchEvents, Nothing) /\ Closed(t, SessionHandler, Nothing)
<1>1. Nothing \in Holdings /\ Nothing["filter"] = 0 /\ Nothing["session"] = 0
    BY StepTypes DEF Nothing, Mutexes
<1>2. \A m \in Mutexes : MayWait(t, Touch(m), Nothing) /\ MayWait(t, Lock(m), Nothing)
    BY <1>1, OpWaits
<1>3. \A m \in Mutexes : Closed(t, <<Touch(m)>>, Nothing)
    BY <1>1, <1>2, ClosedTouch
<1>4. \A m \in Mutexes : \A w : Closed(t, w, Only(m)) => Closed(t, Under(m, w), Nothing)
    BY <1>1, <1>2, ClosedUnder DEF Only
<1>5. ASSUME NEW w, Closed(t, w, Nothing), Closed(t, w, Only("peer")) PROVE Closed(t, Read(w), Nothing)
    BY <1>4, <1>5 DEF Read, Mutexes
<1>6. Closed(t, DispatchEvents, Nothing)
    BY <1>1, <1>3, ClosedCall, ClosedShort DEF DispatchEvents, Mutexes
<1>7. Closed(t, <<Touch("peer")>>, Only("transport"))
  <2>1. Only("transport") \in Holdings /\ Only("transport")["filter"] = 0 /\ Only("transport")["session"] = 0
    BY OnlyTypes DEF Mutexes
  <2>q. QED
    BY <2>1, ClosedParts
<1>8. Closed(t, SessionHandler, Nothing)
    BY <1>4, <1>7 DEF SessionHandler, Mutexes
<1>q. QED
    BY <1>1, <1>3, <1>4, <1>5, <1>6, <1>8

\* Every operation frees all it takes, and waits only where it may.
LEMMA ClosedExecOp == \A op \in ExecOps : Closed(ExecThread, ExecOp(op), Nothing)
<1> DEFINE E == ExecThread
<1>1. E \in LockThreads /\ \A m \in {"admin", "transport", "peer", "session", "filter"} : m \in Mutexes
    BY DEF LockThreads, Mutexes
<1> USE <1>1
<1> HIDE DEF E
<1>2. /\ Nothing \in Holdings /\ Nothing["filter"] = 0 /\ Nothing["session"] = 0
      /\ Only("peer") \in Holdings /\ Only("peer")["filter"] = 0 /\ Only("peer")["session"] = 0
      /\ Only("transport") \in Holdings /\ Only("transport")["filter"] = 0 /\ Only("transport")["session"] = 0
    BY ClosedFree, OnlyTypes
<1>3. ASSUME NEW h \in {Nothing, Only("peer"), Only("transport")}
      PROVE  /\ Closed(E, <<Touch("session")>>, h) /\ Closed(E, <<Touch("peer")>>, h) /\ Closed(E, <<Call>>, h)
             /\ Closed(E, Final, h) /\ Closed(E, PicoHandler, h) /\ Closed(E, Filters, h)
             /\ Closed(E, <<Touch("session")>> \o Filters, h) /\ Closed(E, <<Touch("session"), Call>>, h)
             /\ Closed(E, PicoHandler \o Send, h)
  <2>1. h \in Holdings /\ h["filter"] = 0 /\ h["session"] = 0
    BY <1>2
  <2>2. /\ Closed(E, <<Touch("session")>>, h) /\ Closed(E, <<Touch("peer")>>, h) /\ Closed(E, <<Call>>, h)
        /\ Closed(E, Final, h) /\ Closed(E, PicoHandler, h) /\ Closed(E, Filters, h)
    BY <2>1, ClosedParts DEF E
  <2>3. Closed(E, <<Touch("session")>> \o Filters, h) /\ Closed(E, <<Touch("session"), Call>>, h)
    BY <2>2, ClosedCat, ClosedShort
  <2>4. Closed(E, PicoHandler \o Send, h)
    BY <2>1, <2>2, ClosedSend
  <2>q. QED
    BY <2>2, <2>3, <2>4
<1>4. /\ Closed(E, Read(<<Touch("session"), Call>>), Nothing) /\ Closed(E, Read(PicoHandler \o Send), Nothing)
      /\ Closed(E, Read(Final), Nothing) /\ Closed(E, Read(<<Touch("session")>> \o Filters), Nothing)
    BY <1>3, ClosedFree
<1>5. Closed(E, DispatchEvents, Nothing) /\ Closed(E, <<Touch("peer")>>, Nothing) /\ Closed(E, <<Touch("transport")>>, Nothing)
    BY ClosedFree
<1>6. Closed(E, DropPeer, Nothing)
  <2>1. Closed(E, Under("peer", <<Touch("session")>> \o Filters), Nothing)
    BY <1>3, ClosedFree
  <2>q. QED
    BY <1>5, <2>1, ClosedCat DEF DropPeer
<1>7. Closed(E, <<Touch("peer"), Touch("session")>> \o Filters \o DispatchEvents, Nothing)
  <2>1. Closed(E, <<Touch("peer"), Touch("session")>>, Nothing)
    BY <1>3, ClosedShort
  <2>2. Closed(E, <<Touch("peer"), Touch("session")>> \o Filters, Nothing)
    BY <1>3, <2>1, ClosedCat
  <2>q. QED
    BY <1>5, <2>2, ClosedCat
<1>8. Closed(E, <<Touch("peer"), Touch("session"), Touch("peer")>> \o DispatchEvents, Nothing)
  <2>1. Closed(E, <<Touch("peer"), Touch("session"), Touch("peer")>>, Nothing)
    BY <1>3, ClosedShort
  <2>q. QED
    BY <1>5, <2>1, ClosedCat
<1>9. Closed(E, <<Touch("session"), Call, Touch("peer")>> \o DispatchEvents \o <<Touch("transport")>>, Nothing)
  <2>1. Closed(E, <<Touch("session"), Call, Touch("peer")>>, Nothing)
    BY <1>3, ClosedShort
  <2>2. Closed(E, <<Touch("session"), Call, Touch("peer")>> \o DispatchEvents, Nothing)
    BY <1>5, <2>1, ClosedCat
  <2>q. QED
    BY <1>5, <2>2, ClosedCat
<1>10. Closed(E, Under("transport", <<Touch("session")>>), Nothing)
    BY <1>3, ClosedFree
<1>11. ExecOps \subseteq {"readSample", "readPico", "readFinal", "readDeclare", "dropPeer", "expirePeers", "accept",
                         "failed", "reopen"}
    BY DEF ExecOps, ClientOnly, PeerOnly
<1>q. QED
    BY <1>4, <1>6, <1>7, <1>8, <1>9, <1>10, <1>11 DEF ExecOp, E

\* So does every operation of the application.
LEMMA ClosedAppOp == ASSUME NEW t \in AppThreads PROVE \A op \in AppOps : Closed(t, AppOp(op), Nothing)
<1>1. t \in LockThreads /\ \A m \in {"admin", "transport", "peer", "session", "filter"} : m \in Mutexes
    BY DEF LockThreads, Mutexes
<1> USE <1>1
<1>2. /\ Nothing \in Holdings /\ Nothing["filter"] = 0 /\ Nothing["session"] = 0
      /\ \A m \in {"admin", "transport", "peer"} :
             Only(m) \in Holdings /\ Only(m)["filter"] = 0 /\ Only(m)["session"] = 0
    BY ClosedFree, OnlyTypes
<1>3. ASSUME NEW h \in {Nothing, Only("peer"), Only("admin")}
      PROVE  /\ Closed(t, <<Touch("session")>>, h) /\ Closed(t, <<Call>>, h) /\ Closed(t, <<Call, Touch("session")>>, h)
             /\ Closed(t, <<Touch("session"), Call>>, h) /\ Closed(t, Send \o <<Touch("session"), Call>>, h)
             /\ Closed(t, <<Touch("session")>> \o Send, h)
             /\ Closed(t, <<Touch("session")>> \o Send \o <<Touch("session")>>, h)
  <2>1. h \in Holdings /\ h["filter"] = 0 /\ h["session"] = 0
    BY <1>2
  <2>2. Closed(t, <<Touch("session")>>, h) /\ Closed(t, <<Call>>, h)
    BY <2>1, ClosedParts
  <2>3. Closed(t, <<Call, Touch("session")>>, h) /\ Closed(t, <<Touch("session"), Call>>, h)
    BY <2>2, ClosedShort
  <2>4. Closed(t, Send \o <<Touch("session"), Call>>, h) /\ Closed(t, <<Touch("session")>> \o Send, h)
    BY <2>1, <2>2, <2>3, ClosedSend
  <2>5. Closed(t, <<Touch("session")>> \o Send \o <<Touch("session")>>, h)
    BY <2>2, <2>4, ClosedCat
  <2>q. QED
    BY <2>2, <2>3, <2>4, <2>5
<1>4. Closed(t, Final, Nothing) /\ Closed(t, PicoHandler, Nothing) /\ Closed(t, Filters, Nothing)
    BY <1>2, ClosedParts
<1>5. Closed(t, SessionHandler, Nothing)
    BY ClosedFree
<1>6. Closed(t, <<Touch("session")>> \o Send \o <<Touch("session"), Call>> \o Final, Nothing)
  <2>1. Closed(t, <<Touch("session")>> \o Send \o <<Touch("session"), Call>>, Nothing)
    BY <1>3, ClosedCat
  <2>q. QED
    BY <1>4, <2>1, ClosedCat
<1>7. Closed(t, PicoHandler \o Final, Nothing)
    BY <1>4, ClosedCat
<1>8. Closed(t, <<Touch("session")>> \o SessionHandler \o Final, Nothing)
  <2>1. Closed(t, <<Touch("session")>> \o SessionHandler, Nothing)
    BY <1>3, <1>5, ClosedCat
  <2>q. QED
    BY <1>4, <2>1, ClosedCat
<1>9. Closed(t, Under("transport", Under("peer", <<Call>>)), Nothing)
  <2>1. Plus(Only("transport"), "peer") \in Holdings
    BY <1>2, StepTypes
  <2>2. Closed(t, <<Call>>, Plus(Only("transport"), "peer"))
    BY <2>1, ClosedCall
  <2>3. MayWait(t, Lock("peer"), Only("transport"))
    BY <1>2, OpWaits
  <2>4. Closed(t, Under("peer", <<Call>>), Only("transport"))
    BY <1>2, <2>2, <2>3, ClosedUnder
  <2>q. QED
    BY <2>4, ClosedFree
<1>10. Closed(t, Under("peer", <<Call, Touch("session")>>), Nothing)
    BY <1>3, ClosedFree
<1>11. Closed(t, <<Touch("session")>> \o Filters \o Send, Nothing)
  <2>1. Closed(t, <<Touch("session")>> \o Filters, Nothing)
    BY <1>3, <1>4, ClosedCat
  <2>q. QED
    BY <1>2, <2>1, ClosedSend
<1>12. Closed(t, Under("admin", <<Touch("session")>> \o Send \o <<Touch("session")>>), Nothing)
    BY <1>3, ClosedFree
<1>13. ASSUME NEW x \in {"pull", "wait"} PROVE Closed(t, <<Step(x)>>, Nothing)
  <2>1. PICK s : s = [do |-> x, mutex |-> "none", free |-> << >>, inside |-> "none"]
    OBVIOUS
  <2>2. Path(t, <<s>>, Nothing, Nothing)
    BY <1>2, <2>1, PathStep
  <2>3. Step(x) = s
    BY <2>1 DEF Step
  <2>q. QED
    BY <2>2, <2>3 DEF Closed
<1>14. Closed(t, Send \o <<Touch("session"), Step("wait")>>, Nothing)
  <2>1. Closed(t, <<Touch("session"), Step("wait")>>, Nothing)
    BY <1>3, <1>13, ClosedShort
  <2>q. QED
    BY <1>2, <2>1, ClosedSend
<1>q. QED
    BY <1>3, <1>4, <1>6, <1>7, <1>8, <1>9, <1>10, <1>11, <1>12, <1>13, <1>14 DEF AppOp, AppOps, Put

\* A function on 1 .. 2 is a pair.
LEMMA PairOf == ASSUME NEW w, w = [i \in 1 .. 2 |-> w[i]] PROVE w = <<w[1], w[2]>>
OBVIOUS

\* Sequences of one and of two steps.
LEMMA FewSteps ==
    ASSUME NEW w, NEW x \in LockSteps, NEW y \in LockSteps
    PROVE  /\ w = [i \in 1 .. 1 |-> w[i]] /\ w[1] = x => w = <<x>>
           /\ w = [i \in 1 .. 2 |-> w[i]] /\ w[1] = x /\ w[2] = y => w = <<x>> \o <<y>>
<1>1. ASSUME w = [i \in 1 .. 1 |-> w[i]], w[1] = x PROVE w = <<x>>
  <2>1. w = <<w[1]>>
    BY <1>1
  <2>q. QED
    BY <1>1, <2>1
<1>2. ASSUME w = [i \in 1 .. 2 |-> w[i]], w[1] = x, w[2] = y PROVE w = <<x>> \o <<y>>
  <2>1. w = <<w[1], w[2]>>
    BY <1>2, PairOf
  <2>2. w = <<x, y>>
    BY <1>2, <2>1
  <2>q. QED
    BY <2>2, ShortSeqs
<1>q. QED
    BY <1>1, <1>2

\* A single step that frees more.
LEMMA FreeingOne ==
    ASSUME NEW a, NEW b, NEW ms, b = [a EXCEPT !.free = @ \o ms] PROVE Freeing(<<a>>, ms) = <<b>>
<1>1. Len(<<a>>) = 1 /\ <<a>>[1] = a
    OBVIOUS
<1>2. Freeing(<<a>>, ms) = [<<a>> EXCEPT ![1] = b]
    BY <1>1 DEF Freeing
<1>3. \A x, y : [<<x>> EXCEPT ![1] = y] = <<y>>
    OBVIOUS
<1>q. QED
    BY <1>2, <1>3

\* What is done in a callback, whatever is held.
LEMMA ClosedNested ==
    ASSUME NEW t \in LockThreads, NEW h \in Holdings, NEW cb \in Callbacks, NEW w,
           w = [i \in DOMAIN Nested(cb) |-> [Nested(cb)[i] EXCEPT !.inside = cb]]
    PROVE  Closed(t, w, h)
<1> DEFINE In(m, ms) == [do |-> "lock", mutex |-> m, free |-> ms, inside |-> cb]
<1>1. \A m \in {"admin", "transport", "peer", "session", "filter"} : m \in Mutexes
    BY DEF Mutexes
<1>2. cb # "none" /\ cb \in {"none"} \cup Callbacks
    BY DEF Callbacks
<1>3. ASSUME NEW g \in Holdings, NEW m \in {"peer", "session"}, NEW ms PROVE MayWait(t, In(m, ms), g)
  <2>1. \A x \in Mutexes : g[x] \in Nat
    BY DEF Holdings
  <2>2. In(m, ms).mutex = m /\ In(m, ms).inside = cb
    OBVIOUS
  <2>3. Rank["admin"] = 0 /\ Rank["filter"] = 1 /\ Rank["transport"] = 2 /\ Rank["peer"] = 3 /\ Rank["session"] = 4
    BY DEF Rank
  <2> HIDE DEF In
  <2>q. QED
    BY <1>2, <2>1, <2>2, <2>3 DEF MayWait, Mutexes, Recursives
<1>4. ASSUME NEW m \in {"peer", "session"}, NEW g \in Holdings PROVE Closed(t, <<In(m, <<m>>)>>, g)
  <2>1. PICK s : s = In(m, <<m>>)
    OBVIOUS
  <2>2. MayWait(t, s, g)
    BY <1>3, <2>1
  <2>3. Path(t, <<s>>, g, g)
    BY <1>1, <1>2, <2>1, <2>2, PathTouch
  <2>q. QED
    BY <2>1, <2>3 DEF Closed
<1>5. \A m \in Mutexes : [Touch(m) EXCEPT !.inside = cb] = In(m, <<m>>) /\ In(m, <<m>>) \in LockSteps
  <2>1. \A m \in Mutexes : <<m>> \in Seq(Mutexes)
    OBVIOUS
  <2>q. QED
    BY <1>2, <2>1 DEF Touch, LockSteps
<1>6. CASE cb = "put" /\ clientMode
  <2>1. Nested(cb) = << >> \o <<Touch("session")>>
    BY <1>6 DEF Nested, Send
  <2>2. Nested(cb) = <<Touch("session")>>
    BY <2>1
  <2>3. w = [i \in 1 .. 1 |-> w[i]] /\ w[1] = In("session", <<"session">>)
    BY <1>1, <1>5, <2>2
  <2>4. In("session", <<"session">>) \in LockSteps
    BY <1>1, <1>5
  <2> HIDE DEF In
  <2>5. w = <<In("session", <<"session">>)>>
    BY <2>3, <2>4, FewSteps
  <2>q. QED
    BY <1>4, <2>5
<1>7. CASE cb = "put" /\ ~clientMode
  <2>1. Nested(cb) = <<Touch("peer")>> \o <<Touch("session")>>
    BY <1>7 DEF Nested, Send
  <2>2. DOMAIN Nested(cb) = 1 .. 2 /\ Nested(cb)[1] = Touch("peer") /\ Nested(cb)[2] = Touch("session")
    BY <2>1
  <2>3. w = [i \in 1 .. 2 |-> w[i]] /\ w[1] = In("peer", <<"peer">>) /\ w[2] = In("session", <<"session">>)
    BY <1>1, <1>5, <2>2
  <2>4. In("session", <<"session">>) \in LockSteps /\ In("peer", <<"peer">>) \in LockSteps
    BY <1>1, <1>5
  <2> HIDE DEF In
  <2>5. w = <<In("peer", <<"peer">>)>> \o <<In("session", <<"session">>)>>
    <3>1. PICK x \in LockSteps, y \in LockSteps : x = In("peer", <<"peer">>) /\ y = In("session", <<"session">>)
      BY <2>4
    <3>2. w = [i \in 1 .. 2 |-> w[i]] /\ w[1] = x /\ w[2] = y
      BY <2>3, <3>1
    <3>3. w = <<x>> \o <<y>>
      BY <3>2, FewSteps
    <3>q. QED
      BY <3>1, <3>3
  <2>6. Closed(t, <<In("peer", <<"peer">>)>>, h) /\ Closed(t, <<In("session", <<"session">>)>>, h)
    BY <1>4
  <2>7. Closed(t, <<In("peer", <<"peer">>)>> \o <<In("session", <<"session">>)>>, h)
    BY <2>6, ClosedCat
  <2>q. QED
    BY <2>5, <2>7
<1>8. CASE cb = "push"
  <2>1. PICK s : s = [do |-> "push", mutex |-> "none", free |-> << >>, inside |-> cb]
    OBVIOUS
  <2>2. s \in LockSteps
    <3>1. << >> \in Seq(Mutexes)
      OBVIOUS
    <3>q. QED
      BY <1>2, <2>1, <3>1 DEF LockSteps
  <2>3. Nested(cb) = <<Step("push")>>
    BY <1>8 DEF Nested
  <2>4. DOMAIN Nested(cb) = 1 .. 1 /\ Nested(cb)[1] = Step("push")
    BY <2>3
  <2>5. w = [i \in 1 .. 1 |-> w[i]] /\ w[1] = s
    BY <2>1, <2>4 DEF Step
  <2>6. w = <<s>>
    BY <2>2, <2>5, FewSteps
  <2>7. Path(t, <<s>>, h, h)
    BY <1>2, <2>1, PathStep
  <2>8. <<s>> # << >>
    OBVIOUS
  <2>q. QED
    BY <2>6, <2>7, <2>8 DEF Closed
<1>9. CASE cb = "info"
  <2>1. PICK g : g = Plus(h, "transport")
    OBVIOUS
  <2>2. g \in Holdings /\ g["transport"] = h["transport"] + 1 /\ \A m \in Mutexes \ {"transport"} : g[m] = h[m]
    BY <1>1, <2>1 DEF Plus, Holdings
  <2>3. PICK s : s = In("transport", << >>)
    OBVIOUS
  <2>4. s \in LockSteps /\ s.do = "lock" /\ s.mutex = "transport" /\ s.free = << >> /\ s.inside = cb
    <3>1. << >> \in Seq(Mutexes)
      OBVIOUS
    <3>q. QED
      BY <1>1, <1>2, <2>3, <3>1 DEF LockSteps
  <2>5. MayWait(t, s, h)
    <3>1. \A x \in Mutexes : h[x] \in Nat
      BY DEF Holdings
    <3>2. Rank["admin"] = 0 /\ Rank["filter"] = 1 /\ Rank["transport"] = 2
      BY DEF Rank
    <3>3. s.mutex = "transport" /\ s.inside # "none" /\ s.inside = "info"
      BY <1>2, <1>9, <2>4
    <3>4. t \in AppThreads \/ t = ExecThread
      BY DEF LockThreads
    <3>q. QED
      BY <3>1, <3>2, <3>3, <3>4 DEF MayWait, Mutexes, Recursives
  <2>6. Path(t, <<s>>, h, g)
    <3>1. Fine(t, s, h)
      BY <1>1, <2>4, <2>5 DEF Fine
    <3>2. \A m \in Mutexes : After(s, h)[m] = g[m]
      BY <2>2, <2>4, FreesOne DEF After, Holdings
    <3>3. g = [m \in Mutexes |-> g[m]] /\ After(s, h) = [m \in Mutexes |-> After(s, h)[m]]
      BY <2>2 DEF Holdings, After
    <3>4. g = After(s, h)
      BY <3>2, <3>3
    <3>q. QED
      BY <2>2, <2>4, <3>1, <3>4, PathOne
  <2>7. PICK z : z = In("peer", <<"peer">>)
    OBVIOUS
  <2>8. Path(t, <<z>>, g, g) /\ <<z>> # << >> /\ z \in LockSteps
    BY <1>1, <1>4, <1>5, <2>2, <2>7 DEF Closed
  <2>9. PICK ms \in Seq(Mutexes) : ms = <<"transport">>
    <3>1. \A m \in Mutexes : <<m>> \in Seq(Mutexes)
      OBVIOUS
    <3>q. QED
      BY <1>1, <3>1
  <2>10. \A m \in Mutexes : h[m] = g[m] - Frees(ms, m)
    <3>1. \A m \in Mutexes : Frees(ms, m) = IF m = "transport" THEN 1 ELSE 0
      BY <1>1, <2>9, FreesOne
    <3>2. \A m \in Mutexes : h[m] \in Nat
      BY DEF Holdings
    <3>q. QED
      BY <1>1, <2>2, <3>1, <3>2
  <2>11. Path(t, Freeing(<<z>>, ms), g, h) /\ Freeing(<<z>>, ms) # << >>
    <3>1. PICK v : v = <<z>>
      OBVIOUS
    <3>2. Path(t, v, g, g) /\ v # << >>
      BY <2>8, <3>1
    <3>3. Path(t, Freeing(v, ms), g, h) /\ Freeing(v, ms) # << >>
      BY <2>10, <3>2, PathFreeing
    <3>q. QED
      BY <3>1, <3>3
  <2>12. PICK y : y = [z EXCEPT !.free = @ \o ms]
    OBVIOUS
  <2>13. Freeing(<<z>>, ms) = <<y>>
    BY <2>12, FreeingOne
  <2>14. y \in LockSteps
    <3>1. <<y>> \in Seq(LockSteps)
      BY <2>11, <2>13 DEF Path
    <3>2. \A S : \A x : <<x>> \in Seq(S) => <<x>>[1] \in S
      OBVIOUS
    <3>3. <<y>>[1] \in LockSteps
      BY <3>1, <3>2
    <3>q. QED
      BY <3>3
  <2>15. PICK f \in Seq(Mutexes) : f = <<"peer">> \o ms
    <3>1. \A m \in Mutexes : <<m>> \o ms \in Seq(Mutexes)
      OBVIOUS
    <3>q. QED
      BY <1>1, <3>1
  <2>16. y = In("peer", f)
    BY <2>7, <2>12, <2>15
  <2>17. Nested(cb) = <<Lock("transport")>> \o Freeing(<<Touch("peer")>>, ms)
    BY <1>9, <2>9 DEF Nested, Under
  <2>18. PICK r : r = [Touch("peer") EXCEPT !.free = @ \o ms]
    OBVIOUS
  <2>19. Freeing(<<Touch("peer")>>, ms) = <<r>>
    BY <2>18, FreeingOne
  <2>20. r = [do |-> "lock", mutex |-> "peer", free |-> f, inside |-> "none"]
    BY <2>15, <2>18 DEF Touch
  <2>21. Nested(cb) = <<Lock("transport")>> \o <<r>>
    BY <2>17, <2>19
  <2>22. DOMAIN Nested(cb) = 1 .. 2 /\ Nested(cb)[1] = Lock("transport") /\ Nested(cb)[2] = r
    BY <2>21
  <2>23. [Lock("transport") EXCEPT !.inside = cb] = s
    BY <2>3 DEF Lock
  <2>24. [r EXCEPT !.inside = cb] = y
    BY <2>16, <2>20
  <2>25. w = [i \in 1 .. 2 |-> w[i]] /\ w[1] = s /\ w[2] = y
    BY <2>22, <2>23, <2>24
  <2>26. w = <<s>> \o <<y>>
    <3>1. PICK a \in LockSteps, b \in LockSteps : a = s /\ b = y
      BY <2>4, <2>14
    <3>2. w = [i \in 1 .. 2 |-> w[i]] /\ w[1] = a /\ w[2] = b
      BY <2>25, <3>1
    <3>3. w = <<a>> \o <<b>>
      <4>1. w = <<w[1], w[2]>>
        BY <3>2, PairOf
      <4>2. w = <<a, b>>
        BY <3>2, <4>1
      <4>3. <<a, b>> = <<a>> \o <<b>>
        BY ShortSeqs
      <4>q. QED
        BY <4>2, <4>3
    <3>q. QED
      BY <3>1, <3>3
  <2>27. Path(t, w, h, h)
    <3>1. Path(t, <<y>>, g, h)
      BY <2>11, <2>13
    <3>2. Path(t, <<s>> \o <<y>>, h, h)
      BY <2>6, <3>1, PathCat
    <3>q. QED
      BY <2>26, <3>2
  <2>28. w # << >>
    <3>1. \A a, b : <<a>> \o <<b>> # << >>
      OBVIOUS
    <3>q. QED
      BY <2>26, <3>1
  <2>q. QED
    BY <2>27, <2>28 DEF Closed
<1>q. QED
    BY <1>6, <1>7, <1>8, <1>9 DEF Callbacks

\* A step done: the mutexes it frees were its thread's, and nobody else's holding changes.
LEMMA DoneKeeps ==
    ASSUME LockInv, NEW t \in LockThreads, steps[t] # << >>, Done(t),
           Head(steps[t]).do = "lock" => Available(t, Head(steps[t]).mutex)
    PROVE  LockInv'
<1>1. PICK s : s = Head(steps[t])
    OBVIOUS
<1>2. Path(t, steps[t], Held(t), Nothing)
    BY DEF LockInv
<1>3. s \in LockSteps /\ After(s, Held(t)) \in Holdings /\ Path(t, Tail(steps[t]), After(s, Held(t)), Nothing)
    BY <1>1, <1>2, PathTail
<1>4. s.free \in Seq(Mutexes)
    BY <1>3 DEF LockSteps
<1>5. ASSUME NEW m \in Mutexes
      PROVE  /\ depth'[m] \in Nat /\ owner'[m] \in LockThreads \cup {NoOwner} /\ (owner'[m] = NoOwner <=> depth'[m] = 0)
             /\ Held(t)'[m] = After(s, Held(t))[m]
             /\ \A u \in LockThreads \ {t} : Held(u)'[m] = Held(u)[m]
  <2>1. PICK f \in Nat : f = Frees(s.free, m)
    BY <1>4, FreesNat
  <2>2. PICK l \in {0, 1} : l = IF s.do = "lock" /\ s.mutex = m THEN 1 ELSE 0
    OBVIOUS
  <2>3. /\ depth[m] \in Nat /\ owner[m] \in LockThreads \cup {NoOwner} /\ (owner[m] = NoOwner <=> depth[m] = 0)
        /\ NoOwner \notin LockThreads
    BY LockAssumption DEF LockInv
  <2>4. Depths(s)[m] = depth[m] + l - f
    BY <2>1, <2>2 DEF Depths, Frees
  <2>5. depth'[m] = depth[m] + l - f
    BY <1>1, <2>4 DEF Done
  <2>6. owner'[m] = IF depth'[m] = 0 THEN NoOwner ELSE IF l = 1 THEN t ELSE owner[m]
    BY <1>1, <2>2, <2>4, <2>5 DEF Done
  <2>7. After(s, Held(t))[m] = Held(t)[m] + l - f /\ After(s, Held(t))[m] \in Nat
    BY <1>3, <2>1, <2>2 DEF After, Holdings
  <2>8. /\ \A u : Held(u)[m] = IF owner[m] = u THEN depth[m] ELSE 0
        /\ \A u : Held(u)'[m] = IF owner'[m] = u THEN depth'[m] ELSE 0
    BY DEF Held
  <2>9. l = 1 => owner[m] = NoOwner \/ owner[m] = t
    BY <1>1, <2>2 DEF Available
  <2>10. CASE owner[m] = t
    <3>1. After(s, Held(t))[m] = depth[m] + l - f
      BY <2>7, <2>8, <2>10
    <3>2. depth'[m] = After(s, Held(t))[m] /\ depth'[m] \in Nat
      BY <2>5, <2>7, <3>1
    <3>3. owner'[m] = IF depth'[m] = 0 THEN NoOwner ELSE t
      BY <2>6, <2>10
    <3>q. QED
      BY <2>3, <2>8, <2>10, <3>2, <3>3
  <2>11. CASE owner[m] = NoOwner
    <3>1. Held(t)[m] = 0 /\ depth[m] = 0
      BY <2>3, <2>8, <2>11
    <3>2. depth'[m] = After(s, Held(t))[m] /\ depth'[m] \in Nat
      BY <2>5, <2>7, <3>1
    <3>3. depth'[m] # 0 => l = 1
      BY <2>1, <2>2, <2>5, <3>1, <3>2
    <3>4. owner'[m] = IF depth'[m] = 0 THEN NoOwner ELSE t
      BY <2>6, <3>3
    <3>q. QED
      BY <2>3, <2>8, <2>11, <3>2, <3>4
  <2>12. CASE owner[m] # t /\ owner[m] # NoOwner
    <3>1. Held(t)[m] = 0 /\ l = 0
      BY <2>2, <2>8, <2>9, <2>12
    <3>2. f = 0 /\ After(s, Held(t))[m] = 0
      BY <2>1, <2>7, <3>1
    <3>3. depth'[m] = depth[m] /\ owner'[m] = owner[m]
      BY <2>3, <2>5, <2>6, <2>12, <3>1, <3>2
    <3>q. QED
      BY <2>3, <2>8, <2>12, <3>2, <3>3
  <2>q. QED
    BY <2>10, <2>11, <2>12
<1>6. /\ DOMAIN owner' = Mutexes /\ owner' = [m \in Mutexes |-> owner'[m]]
      /\ DOMAIN depth' = Mutexes /\ depth' = [m \in Mutexes |-> depth'[m]]
    BY DEF Done, Depths
<1>7. owner' \in [Mutexes -> LockThreads \cup {NoOwner}] /\ depth' \in [Mutexes -> Nat]
    BY <1>5, <1>6
<1>8. Held(t)' = After(s, Held(t))
  <2>1. /\ Held(t)' = [m \in Mutexes |-> Held(t)'[m]]
        /\ After(s, Held(t)) = [m \in Mutexes |-> After(s, Held(t))[m]]
    BY DEF Held, After
  <2>q. QED
    BY <1>5, <2>1
<1>9. ASSUME NEW u \in LockThreads \ {t} PROVE Held(u)' = Held(u)
  <2>1. Held(u)' = [m \in Mutexes |-> Held(u)'[m]] /\ Held(u) = [m \in Mutexes |-> Held(u)[m]]
    BY DEF Held
  <2>q. QED
    BY <1>5, <2>1
<1>10. /\ DOMAIN steps' = LockThreads /\ steps'[t] = Tail(steps[t])
       /\ \A u \in LockThreads \ {t} : steps'[u] = steps[u]
    BY DEF Done, LockInv
<1>11. ASSUME NEW u \in LockThreads PROVE Path(u, steps'[u], Held(u)', Nothing)
  <2>1. CASE u = t
    BY <1>3, <1>8, <1>10, <2>1
  <2>2. CASE u # t
    <3>1. Path(u, steps[u], Held(u), Nothing)
      BY DEF LockInv
    <3>q. QED
      BY <1>9, <1>10, <2>2, <3>1
  <2>q. QED
    BY <2>1, <2>2
<1>12. \A m \in Mutexes : owner'[m] = NoOwner <=> depth'[m] = 0
    BY <1>5
<1>13. \A u \in LockThreads : Path(u, steps[u], Held(u), Nothing)'
    BY <1>11 DEF Path, Nothing
<1>q. QED
    BY <1>7, <1>10, <1>12, <1>13 DEF LockInv

\* A thread's steps replaced, with what all hold unchanged.
LEMMA StepsReplaced ==
    ASSUME LockInv, NEW t \in LockThreads, NEW w, Path(t, w, Held(t), Nothing),
           steps' = [steps EXCEPT ![t] = w], UNCHANGED <<owner, depth>>
    PROVE  LockInv'
<1>1. DOMAIN steps' = LockThreads /\ steps'[t] = w /\ \A u \in LockThreads \ {t} : steps'[u] = steps[u]
    BY DEF LockInv
<1>2. \A u : Held(u)' = Held(u)
    BY DEF Held
<1>3. ASSUME NEW u \in LockThreads PROVE Path(u, steps'[u], Held(u)', Nothing)
  <2>1. CASE u = t
    BY <1>1, <1>2, <2>1
  <2>2. CASE u # t
    <3>1. Path(u, steps[u], Held(u), Nothing)
      BY DEF LockInv
    <3>q. QED
      BY <1>1, <1>2, <2>2, <3>1
  <2>q. QED
    BY <2>1, <2>2
<1>4. \A u \in LockThreads : Path(u, steps[u], Held(u), Nothing)'
    BY <1>3 DEF Path, Nothing
<1>q. QED
    BY <1>1, <1>4 DEF LockInv

\* The invariant holds initially.
LEMMA LockInvInit == LockInit => LockInv
<1> SUFFICES ASSUME LockInit PROVE LockInv
    OBVIOUS
<1>1. owner = [m \in Mutexes |-> NoOwner] /\ depth = [m \in Mutexes |-> 0] /\ steps = [t \in LockThreads |-> << >>]
    BY DEF LockInit
<1>2. ASSUME NEW t \in LockThreads PROVE Path(t, steps[t], Held(t), Nothing)
  <2>1. NoOwner # t
    BY LockAssumption
  <2>2. Held(t) = Nothing /\ steps[t] = << >>
    BY <1>1, <2>1 DEF Held, Nothing
  <2>3. Nothing \in Holdings
    BY StepTypes
  <2>q. QED
    BY <2>2, <2>3, PathNil
<1>q. QED
    BY <1>1, <1>2 DEF LockInv

\* Every step of every thread keeps it.
LEMMA LockInvStep == LockInv /\ [LockNext]_lockVars => LockInv'
<1> SUFFICES ASSUME LockInv, [LockNext]_lockVars PROVE LockInv'
    OBVIOUS
<1>1. CASE UNCHANGED lockVars
  <2>1. UNCHANGED <<owner, depth, steps>>
    BY <1>1 DEF lockVars
  <2>2. \A u \in LockThreads : Path(u, steps[u], Held(u), Nothing)
    BY DEF LockInv
  <2>3. \A u : Held(u)' = Held(u)
    BY <2>1 DEF Held
  <2>4. \A u \in LockThreads : Path(u, steps'[u], Held(u)', Nothing)
    BY <2>1, <2>2, <2>3
  <2>5. \A u \in LockThreads : Path(u, steps[u], Held(u), Nothing)'
    BY <2>4 DEF Path, Nothing
  <2>q. QED
    BY <2>1, <2>5 DEF LockInv
<1>2. ASSUME NEW t \in LockThreads, Begin(t) PROVE LockInv'
  <2>1. Held(t) = Nothing
    <3>1. Path(t, << >>, Held(t), Nothing)
      BY <1>2 DEF Begin, LockInv
    <3>2. \E st \in [0 .. 0 -> Holdings] : st[0] = Held(t) /\ st[0] = Nothing
      BY <3>1 DEF Path
    <3>q. QED
      BY <3>2
  <2>2. UNCHANGED <<owner, depth>>
    BY <1>2 DEF Begin
  <2>3. PICK w : steps' = [steps EXCEPT ![t] = w] /\ Closed(t, w, Nothing)
    BY <1>2, ClosedExecOp, ClosedAppOp DEF Begin
  <2>4. Path(t, w, Held(t), Nothing)
    BY <2>1, <2>3 DEF Closed
  <2>q. QED
    BY <2>2, <2>3, <2>4, StepsReplaced
<1>3. ASSUME NEW t \in LockThreads, Acquire(t) PROVE LockInv'
    BY <1>3, DoneKeeps DEF Acquire, At
<1>4. ASSUME NEW t \in LockThreads, Push(t) \/ Pull(t) \/ Quiet(t) PROVE LockInv'
  <2>1. steps[t] # << >> /\ Done(t) /\ Head(steps[t]).do # "lock"
    BY <1>4 DEF Push, Pull, Quiet, At
  <2>q. QED
    BY <2>1, DoneKeeps
<1>5. ASSUME NEW t \in LockThreads, Callback(t) PROVE LockInv'
  <2>1. steps[t] # << >> /\ Head(steps[t]).do = "call"
    BY <1>5 DEF Callback, At
  <2>2. CASE Done(t)
    BY <2>1, <2>2, DoneKeeps
  <2>3. CASE ~Done(t)
    <3>a. PICK cb \in Callbacks :
              \E w : /\ w = [i \in DOMAIN Nested(cb) |-> [Nested(cb)[i] EXCEPT !.inside = cb]]
                     /\ steps' = [steps EXCEPT ![t] = Freeing(w, Head(@).free) \o Tail(@)]
                     /\ UNCHANGED <<owner, depth>>
      BY <1>5, <2>3 DEF Callback
    <3>1. PICK w : /\ w = [i \in DOMAIN Nested(cb) |-> [Nested(cb)[i] EXCEPT !.inside = cb]]
                   /\ steps' = [steps EXCEPT ![t] = Freeing(w, Head(@).free) \o Tail(@)]
                   /\ UNCHANGED <<owner, depth>>
      BY <3>a
    <3>2. PICK s : s = Head(steps[t])
      OBVIOUS
    <3>3. Path(t, steps[t], Held(t), Nothing)
      BY DEF LockInv
    <3>4. s \in LockSteps /\ After(s, Held(t)) \in Holdings /\ Path(t, Tail(steps[t]), After(s, Held(t)), Nothing)
      BY <2>1, <3>2, <3>3, PathTail
    <3>5. PICK ms \in Seq(Mutexes) : ms = s.free
      BY <3>4 DEF LockSteps
    <3>6. Held(t) \in Holdings
      BY DEF LockInv, Held, Holdings
    <3>7. Path(t, w, Held(t), Held(t)) /\ w # << >>
      BY <3>1, <3>6, ClosedNested DEF Closed
    <3>8. \A m \in Mutexes : After(s, Held(t))[m] = Held(t)[m] - Frees(ms, m)
      <4>1. s.do # "lock"
        BY <2>1, <3>2
      <4>2. \A m \in Mutexes : After(s, Held(t))[m] = Held(t)[m] + 0 - Frees(ms, m)
        BY <3>5, <4>1 DEF After
      <4>3. \A m \in Mutexes : Held(t)[m] \in Nat
        BY <3>6 DEF Holdings
      <4>4. \A m \in Mutexes : Frees(ms, m) \in Nat
        BY FreesNat
      <4>q. QED
        BY <4>2, <4>3, <4>4
    <3>9. Path(t, Freeing(w, ms), Held(t), After(s, Held(t)))
      <4>1. PICK h, k \in Holdings : h = Held(t) /\ k = After(s, Held(t))
        BY <3>4, <3>6
      <4>2. Path(t, w, h, h) /\ \A m \in Mutexes : k[m] = h[m] - Frees(ms, m)
        BY <3>7, <3>8, <4>1
      <4>3. Path(t, Freeing(w, ms), h, k)
        BY <3>7, <4>2, PathFreeing
      <4>q. QED
        BY <4>1, <4>3
    <3>10. PICK v : v = Freeing(w, ms) \o Tail(steps[t])
      OBVIOUS
    <3>11. Path(t, v, Held(t), Nothing)
      BY <3>4, <3>9, <3>10, PathCat
    <3>12. steps' = [steps EXCEPT ![t] = v]
      BY <3>1, <3>2, <3>5, <3>10
    <3>q. QED
      BY <3>1, <3>11, <3>12, StepsReplaced
  <2>q. QED
    BY <2>2, <2>3
<1>q. QED
    BY <1>1, <1>2, <1>3, <1>4, <1>5 DEF LockNext, ThreadStep

\* Of threads that wait for each other in none of the known uses, every one that
\* waits for a mutex waits for one that waits for a mutex above that.
LEMMA WaitsAbove ==
    ASSUME LockInv, NEW D \in SUBSET LockThreads, Deadlocked(D), \A t \in D : ~Inverts(t),
           NEW t \in D, At(t, "lock"), ~Available(t, Head(steps[t]).mutex)
    PROVE  \E u \in D : /\ At(u, "lock") /\ ~Available(u, Head(steps[u]).mutex)
                        /\ Rank[Head(steps[u]).mutex] > Rank[Head(steps[t]).mutex]
<1>1. ASSUME NEW x \in LockThreads, steps[x] # << >>
      PROVE  /\ Head(steps[x]) \in LockSteps /\ Fine(x, Head(steps[x]), Held(x))
             /\ \A m \in Mutexes : Held(x)[m] \in Nat /\ (Held(x)[m] > 0 <=> owner[m] = x)
  <2>1. Path(x, steps[x], Held(x), Nothing)
    BY DEF LockInv
  <2>2. Head(steps[x]) \in LockSteps /\ Fine(x, Head(steps[x]), Held(x))
    BY <1>1, <2>1, PathTail
  <2>3. \A m \in Mutexes : Held(x)[m] = IF owner[m] = x THEN depth[m] ELSE 0
    BY DEF Held
  <2>4. \A m \in Mutexes : depth[m] \in Nat /\ (owner[m] = NoOwner <=> depth[m] = 0)
    BY DEF LockInv
  <2>5. x # NoOwner
    BY LockAssumption
  <2>q. QED
    BY <2>2, <2>3, <2>4, <2>5
<1>2. PICK a, m : a = Head(steps[t]) /\ m = a.mutex
    OBVIOUS
<1>3. m \in Mutexes /\ MayWait(t, a, Held(t)) /\ a.do = "lock" /\ t \in LockThreads
    BY <1>1, <1>2 DEF At, Fine
<1>4. PICK u \in D : u = owner[m]
  <2>1. Blockers(t) = {owner[m]}
    BY <1>2 DEF Blockers, At
  <2>q. QED
    BY <2>1 DEF Deadlocked
<1>5. Blockers(u) # {} /\ u \in LockThreads
    BY DEF Deadlocked
<1>6. steps[u] # << >>
    BY <1>5 DEF Blockers, At
<1>7. PICK b : b = Head(steps[u])
    OBVIOUS
<1>8. b \in LockSteps /\ Fine(u, b, Held(u)) /\ Held(u)[m] > 0
    BY <1>1, <1>3, <1>4, <1>5, <1>6, <1>7
<1>9. ~At(u, "wait")
  <2>1. Nothing[m] = 0
    BY <1>3 DEF Nothing
  <2>q. QED
    BY <1>7, <1>8, <2>1 DEF At, Fine
<1>10. ~At(u, "push")
    BY DEF Inverts
<1>11. At(u, "lock") /\ ~Available(u, b.mutex)
    BY <1>5, <1>7, <1>9, <1>10 DEF Blockers
<1>12. b.do = "lock" /\ b.mutex \in Mutexes /\ MayWait(u, b, Held(u))
    BY <1>7, <1>8, <1>11 DEF At, Fine
<1>13. \A x \in Mutexes : Held(u)[x] \in Nat /\ (Held(u)[x] > 0 <=> owner[x] = u)
    BY <1>1, <1>5, <1>6
<1>14. InCallback(u) <=> b.inside # "none"
    BY <1>6, <1>7 DEF InCallback
<1>15. /\ ~(b.mutex = "peer" /\ owner["session"] = u /\ b.inside = "none")
       /\ ~(b.inside # "none" /\ owner["session"] = u)
       /\ ~(b.inside # "none" /\ b.inside = "info" /\ owner["peer"] = u)
       /\ ~(b.inside # "none" /\ owner["filter"] = u /\ u \in AppThreads)
    BY <1>7, <1>11, <1>14 DEF Inverts, Holds
<1>16. ~(b.mutex \in Recursives /\ owner[b.mutex] = u)
    BY <1>11 DEF Available
\* Nobody of the application holds a filter's mutex, so the executor does not wait for it.
<1>17. ~(b.mutex = "filter" /\ u = ExecThread /\ Held(u)["filter"] = 0)
  <2> SUFFICES ASSUME b.mutex = "filter", u = ExecThread, Held(u)["filter"] = 0 PROVE FALSE
    OBVIOUS
  <2>1. "filter" \in Mutexes
    BY DEF Mutexes
  <2>2. PICK v \in D : v = owner["filter"]
    <3>1. Blockers(u) = {owner["filter"]}
      BY <1>7, <1>11 DEF Blockers, At
    <3>q. QED
      BY <3>1 DEF Deadlocked
  <2>3. v # u
    BY <1>13, <2>1, <2>2
  <2>4. v \in AppThreads /\ v \in LockThreads
    BY <2>3 DEF LockThreads
  <2>5. Blockers(v) # {}
    BY DEF Deadlocked
  <2>6. steps[v] # << >>
    BY <2>5 DEF Blockers, At
  <2>7. PICK c : c = Head(steps[v])
    OBVIOUS
  <2>8. Fine(v, c, Held(v)) /\ Held(v)["filter"] > 0
    BY <1>1, <2>1, <2>2, <2>4, <2>6, <2>7
  <2>9. ~At(v, "wait")
    <3>1. Nothing["filter"] = 0
      BY <2>1 DEF Nothing
    <3>q. QED
      BY <2>7, <2>8, <3>1 DEF At, Fine
  <2>10. ~At(v, "push")
    BY DEF Inverts
  <2>11. At(v, "lock")
    BY <2>5, <2>9, <2>10 DEF Blockers
  <2>12. c.inside # "none"
    BY <2>4, <2>7, <2>8, <2>11 DEF At, Fine, MayWait
  <2>13. InCallback(v) /\ Holds(v, "filter")
    BY <2>2, <2>6, <2>7, <2>12 DEF InCallback, Holds
  <2>q. QED
    BY <2>4, <2>13 DEF Inverts
<1>18. \A x \in Mutexes : Held(u)[x] > 0 => Rank[x] < Rank[b.mutex]
  <2>1. "session" \in Mutexes /\ "peer" \in Mutexes /\ "filter" \in Mutexes /\ "none" # "info"
    BY DEF Mutexes
  <2>q. QED
    BY <1>12, <1>13, <1>15, <1>16, <1>17, <2>1 DEF MayWait
<1>19. Rank[m] < Rank[b.mutex]
    BY <1>3, <1>8, <1>18
<1>20. Rank[m] \in Nat /\ Rank[b.mutex] \in Nat
    BY <1>3, <1>12 DEF Rank, Mutexes
<1>q. QED
    BY <1>2, <1>7, <1>11, <1>19, <1>20

\* So nobody waits for a mutex, and nobody waits at all.
LEMMA LockInvGives == LockInv => OnlyKnownDeadlocks
<1> SUFFICES ASSUME LockInv, NEW D \in SUBSET LockThreads, Deadlocked(D), \A t \in D : ~Inverts(t)
             PROVE  FALSE
    BY DEF OnlyKnownDeadlocks
<1> DEFINE Stuck == {t \in D : At(t, "lock") /\ ~Available(t, Head(steps[t]).mutex)}
           R(t) == Rank[Head(steps[t]).mutex]
<1>1. \A t \in Stuck : R(t) \in 0 .. 4
  <2> SUFFICES ASSUME NEW t \in Stuck PROVE R(t) \in 0 .. 4
    OBVIOUS
  <2>1. Path(t, steps[t], Held(t), Nothing) /\ steps[t] # << >> /\ Head(steps[t]).do = "lock"
    BY DEF LockInv, At
  <2>2. Fine(t, Head(steps[t]), Held(t))
    BY <2>1, PathTail
  <2>3. PICK m \in Mutexes : m = Head(steps[t]).mutex
    BY <2>1, <2>2 DEF Fine
  <2>q. QED
    BY <2>3 DEF Rank, Mutexes
<1>2. \A t \in Stuck : \E u \in Stuck : R(u) > R(t)
    BY WaitsAbove
<1>3. \E t : t \in Stuck
  <2>1. PICK t \in D : Blockers(t) # {} /\ Blockers(t) \subseteq D
    BY DEF Deadlocked
  <2>2. ~At(t, "push")
    BY DEF Inverts
  <2>3. CASE t \in Stuck
    BY <2>3
  <2>4. CASE t \notin Stuck
    <3>1. Blockers(t) = {u \in LockThreads \ {t} : InCallback(u)}
      BY <2>1, <2>2, <2>4 DEF Blockers
    <3>2. PICK u \in D : InCallback(u)
      BY <2>1, <3>1
    <3>3. Blockers(u) # {} /\ ~At(u, "push") /\ u \in LockThreads
      BY DEF Deadlocked, Inverts
    <3>4. Path(u, steps[u], Held(u), Nothing) /\ steps[u] # << >>
      BY <3>2, <3>3 DEF LockInv, InCallback
    <3>5. Fine(u, Head(steps[u]), Held(u))
      BY <3>4, PathTail
    <3>6. ~At(u, "wait")
      BY <3>2, <3>5 DEF Fine, At, InCallback
    <3>7. u \in Stuck
      BY <3>3, <3>6 DEF Blockers
    <3>q. QED
      BY <3>7
  <2>q. QED
    BY <2>3, <2>4
<1> HIDE DEF Stuck, R
<1>4. PICK t0 \in Stuck : TRUE
    BY <1>3
<1>5. PICK t1 \in Stuck : R(t1) > R(t0)
    BY <1>2
<1>6. PICK t2 \in Stuck : R(t2) > R(t1)
    BY <1>2
<1>7. PICK t3 \in Stuck : R(t3) > R(t2)
    BY <1>2
<1>8. PICK t4 \in Stuck : R(t4) > R(t3)
    BY <1>2
<1>9. PICK t5 \in Stuck : R(t5) > R(t4)
    BY <1>2
<1>q. QED
    BY <1>1, <1>5, <1>6, <1>7, <1>8, <1>9

\* Threads wait for each other only in the five uses that are known for it, however
\* many threads the application has: every other operation takes the mutexes in the
\* order admin, filter, transport, peer, session, save that the thread of the executor
\* may take a filter's after the peers'.
THEOREM OnlyKnownDeadlocksAlways == LockSpec => []OnlyKnownDeadlocks
<1>1. LockInit => LockInv
    BY LockInvInit
<1>2. LockInv /\ [LockNext]_lockVars => LockInv'
    BY LockInvStep
<1>3. LockInv => OnlyKnownDeadlocks
    BY LockInvGives
<1>q. QED
    BY <1>1, <1>2, <1>3, PTL DEF LockSpec
=============================================================================
