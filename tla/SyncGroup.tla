------------------------------ MODULE SyncGroup ------------------------------
(***************************************************************************)
(* _z_sync_group_t of src/src/collections/sync_group.c: threads wait until *)
(* every notifier handed out has been dropped.                             *)
(*                                                                         *)
(* A notifier is a weak reference to the state and a live notifier is one  *)
(* unit of the weak count.  Every access to the flag and to the weak count *)
(* is under counter_mutex, so each critical section is one step; what is   *)
(* not under the mutex (the upgrade of the weak reference and the release  *)
(* of the strong one, when the owner may already have dropped the group)   *)
(* is a step of its own.  The mutex and the condition variable do not      *)
(* fail.                                                                   *)
(***************************************************************************)
EXTENDS Integers, FiniteSets

CONSTANTS Notifiers, Threads

VARIABLES closed,   \* is_closed
          owned,    \* the _z_sync_group_t has not been dropped
          cleared,  \* _z_sync_group_state_clear has destroyed mutex and condvar
          note,     \* where each notifier is in its life
          wpc,      \* where each waiting thread is
          ret       \* what its wait returned

groupVars == <<closed, owned, cleared, note, wpc, ret>>

\* Live notifiers, each one unit of the weak count; the upgraded ones hold a
\* strong reference too, until they release it.
Live     == {n \in Notifiers : note[n] \in {"live", "upgraded"}}
Upgraded == {n \in Notifiers : note[n] \in {"upgraded", "signalled"}}

\* __unsafe_z_sync_group_has_no_alive_notifiers, negated in the wait loops.
NoneAlive == Live = {}

StrongRefs == Cardinality(Upgraded) + (IF owned THEN 1 ELSE 0)

GroupInit ==
    /\ closed = FALSE /\ owned = TRUE /\ cleared = FALSE
    /\ note = [n \in Notifiers |-> "none"]
    /\ wpc = [t \in Threads |-> "idle"] /\ ret = [t \in Threads |-> "none"]

\* _z_condvar_signal_all.
SignalAll == wpc' = [t \in Threads |-> CASE wpc[t] = "sleep"      -> "woken"
                                         [] wpc[t] = "timedsleep" -> "timedwoken"
                                         [] OTHER                 -> wpc[t]]

-----------------------------------------------------------------------------
(* Notifiers.                                                              *)

CreateNotifier(n) ==
    /\ owned /\ note[n] = "none" /\ ~closed
    /\ note' = [note EXCEPT ![n] = "live"]
    /\ UNCHANGED <<closed, owned, cleared, wpc, ret>>

\* _z_sync_group_notifier_drop up to the lock: when no strong reference is left
\* nobody can wait, and the weak one is simply dropped.
UpgradeNotifier(n) ==
    /\ note[n] = "live"
    /\ note' = [note EXCEPT ![n] = IF StrongRefs > 0 THEN "upgraded" ELSE "dropped"]
    /\ UNCHANGED <<closed, owned, cleared, wpc, ret>>

\* Mutant: nobody is woken.
DropNotifierSilently(n) ==
    /\ note[n] = "upgraded"
    /\ note' = [note EXCEPT ![n] = "signalled"]
    /\ UNCHANGED <<closed, owned, cleared, wpc, ret>>

\* Under the mutex: the weak reference goes and the waiters are woken.
DropNotifier(n) ==
    /\ note[n] = "upgraded"
    /\ note' = [note EXCEPT ![n] = "signalled"]
    /\ SignalAll
    /\ UNCHANGED <<closed, owned, cleared, ret>>

\* The strong reference goes; the last one clears the state.
ReleaseNotifier(n) ==
    /\ note[n] = "signalled"
    /\ note' = [note EXCEPT ![n] = "dropped"]
    /\ cleared' = (cleared \/ StrongRefs = 1)
    /\ UNCHANGED <<closed, owned, wpc, ret>>

-----------------------------------------------------------------------------
(* The owner's calls.                                                      *)

Close ==
    /\ owned /\ closed' = TRUE /\ SignalAll
    /\ UNCHANGED <<owned, cleared, note, ret>>

\* Mutant: the state goes with the owner.
DropGroupAndState ==
    /\ owned /\ \A t \in Threads : wpc[t] = "idle"
    /\ owned' = FALSE /\ cleared' = TRUE
    /\ UNCHANGED <<closed, note, wpc, ret>>

\* _z_sync_group_drop, by the thread that owns the group: nobody waits on it.
DropGroup ==
    /\ owned /\ \A t \in Threads : wpc[t] = "idle"
    /\ owned' = FALSE /\ cleared' = (StrongRefs = 1)
    /\ UNCHANGED <<closed, note, wpc, ret>>

Return(t, r) == wpc' = [wpc EXCEPT ![t] = "idle"] /\ ret' = [ret EXCEPT ![t] = r]

\* The loop condition of both waits and what follows it when no time-out has
\* been reported: the first wait to find no notifier closes the group.
Recheck(t, asleep) ==
    \/ /\ closed /\ Return(t, "closed")
       /\ UNCHANGED closed
    \/ /\ ~closed /\ NoneAlive /\ Return(t, "ok")
       /\ closed' = TRUE
    \/ /\ ~closed /\ ~NoneAlive /\ wpc' = [wpc EXCEPT ![t] = asleep]
       /\ UNCHANGED <<closed, ret>>

\* _z_sync_group_wait and _z_sync_group_wait_deadline, on their way to the mutex.
Wait(t) ==
    /\ owned /\ wpc[t] = "idle" /\ wpc' = [wpc EXCEPT ![t] = "woken"]
    /\ UNCHANGED <<closed, owned, cleared, note, ret>>

WaitDeadline(t) ==
    /\ owned /\ wpc[t] = "idle" /\ wpc' = [wpc EXCEPT ![t] = "timedwoken"]
    /\ UNCHANGED <<closed, owned, cleared, note, ret>>

\* With the mutex, at the start and after every wake-up.
Resume(t) ==
    /\ \/ wpc[t] = "woken" /\ Recheck(t, "sleep")
       \/ wpc[t] = "timedwoken" /\ Recheck(t, "timedsleep")
    /\ UNCHANGED <<owned, cleared, note>>

Spurious(t) ==
    /\ wpc[t] \in {"sleep", "timedsleep"}
    /\ wpc' = [wpc EXCEPT ![t] = IF @ = "sleep" THEN "woken" ELSE "timedwoken"]
    /\ UNCHANGED <<closed, owned, cleared, note, ret>>

\* The deadline passes; the thread has yet to take the mutex.
Expire(t) ==
    /\ wpc[t] = "timedsleep" /\ wpc' = [wpc EXCEPT ![t] = "expired"]
    /\ UNCHANGED <<closed, owned, cleared, note, ret>>

\* Mutant: whatever the flag says, the wait has found no notifier.
ExpiredReturnsOk(t) ==
    /\ wpc[t] = "expired" /\ Return(t, IF closed THEN "closed" ELSE "ok")
    /\ closed' = TRUE
    /\ UNCHANGED <<owned, cleared, note>>

\* The time-out is reported unless the group has been closed meanwhile, even
\* when the last notifier has just gone.
ExpiredReturns(t) ==
    /\ wpc[t] = "expired" /\ Return(t, IF closed THEN "closed" ELSE "timedout")
    /\ UNCHANGED <<closed, owned, cleared, note>>

-----------------------------------------------------------------------------
GroupNext ==
    \/ \E n \in Notifiers : \/ CreateNotifier(n) \/ UpgradeNotifier(n)
                            \/ DropNotifier(n) \/ ReleaseNotifier(n)
    \/ \E t \in Threads : \/ Wait(t) \/ WaitDeadline(t) \/ Resume(t)
                          \/ Spurious(t) \/ Expire(t) \/ ExpiredReturns(t)
    \/ Close \/ DropGroup

\* A thread that can go on does, deadlines pass, and a notifier that has begun
\* to be dropped is dropped.
GroupFairness ==
    /\ \A t \in Threads : WF_groupVars(Resume(t)) /\ WF_groupVars(Expire(t)) /\ WF_groupVars(ExpiredReturns(t))
    /\ \A n \in Notifiers : WF_groupVars(DropNotifier(n) \/ ReleaseNotifier(n))

GroupSpec     == GroupInit /\ [][GroupNext]_groupVars
GroupFairSpec == GroupSpec /\ GroupFairness

-----------------------------------------------------------------------------
(* Properties.                                                             *)

WaitPC == {"idle", "sleep", "timedsleep", "woken", "timedwoken", "expired"}

\* Every variable keeps its type.
GroupTypeOK ==
    /\ closed \in BOOLEAN /\ owned \in BOOLEAN /\ cleared \in BOOLEAN
    /\ note \in [Notifiers -> {"none", "live", "upgraded", "signalled", "dropped"}]
    /\ wpc \in [Threads -> WaitPC]
    /\ ret \in [Threads -> {"none", "ok", "closed", "timedout"}]

\* The state is destroyed exactly when nobody can touch its mutex any more: a
\* notifier that is being dropped keeps it alive after the owner is gone, and
\* whoever goes last clears it, so that it neither dangles nor leaks.
ClearedByTheLast ==
    /\ cleared <=> ~owned /\ Upgraded = {}
    /\ cleared => \A t \in Threads : wpc[t] = "idle"

\* What a caller sees of the group is SyncGroupSpec: a wait is one step that
\* happens when it may, whatever mutex, condition variable, spurious wake-ups
\* and reference counts do underneath.
Abstract == INSTANCE SyncGroupSpec
              WITH alive <- Live,
                   call  <- [t \in Threads |->
                                CASE wpc[t] = "idle"               -> "none"
                                  [] wpc[t] \in {"sleep", "woken"} -> "wait"
                                  [] OTHER                         -> "timedwait"]
ImplementsSyncGroup == Abstract!Spec

\* No wake-up is lost: a waiter does not sleep on once no notifier is alive or
\* the group is closed, even without a deadline.
WaitersReleased ==
    \A t \in Threads : []<>(closed \/ NoneAlive => wpc[t] = "idle")
=============================================================================
