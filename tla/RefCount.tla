------------------------------ MODULE RefCount ------------------------------
(***************************************************************************)
(* The reference counters of src/src/collections/refcount.c and the strong *)
(* and weak references of refcount.h, one atomic operation a step.  A      *)
(* reference is the variable that holds it; those that hold none are       *)
(* "null".  A reference that is being cloned or upgraded is borrowed, so   *)
(* its owner does not drop it meanwhile.                                   *)
(***************************************************************************)
EXTENDS Naturals, FiniteSets

CONSTANTS Refs,      \* the variables that can hold a reference
          FirstRef,  \* the one _z_rc_init is called for
          MaxCount,  \* _Z_RC_MAX_COUNT
          MaxLost    \* bound on the increments at the limit

ASSUME RefsAssumption == IsFiniteSet(Refs) /\ FirstRef \in Refs /\ MaxCount \in Nat \ {0} /\ MaxLost \in Nat

VARIABLES ref,        \* reference -> its state
          lender,     \* reference -> the weak one it is being upgraded from
          prev,       \* reference -> the strong count its upgrade has read
          strongCnt, weakCnt,
          lostStrong, lostWeak,  \* increments that overflowed, so that nobody undoes them
          counters,   \* "allocated" or "freed"
          value       \* "alive" or "cleared"

rcVars == <<ref, lender, prev, strongCnt, weakCnt, lostStrong, lostWeak, counters, value>>

\* "last" has taken the strong count to 0 and is to give up the weak count that
\* stands for the strong ones; "clear" is to clear the value then.
RefStates == {"null", "strong", "weak", "upgrading", "last", "clear"}

RcInit ==
    /\ ref = [r \in Refs |-> IF r = FirstRef THEN "strong" ELSE "null"]
    /\ lender = [r \in Refs |-> r] /\ prev = [r \in Refs |-> 0]
    /\ strongCnt = 1 /\ weakCnt = 1 /\ lostStrong = 0 /\ lostWeak = 0
    /\ counters = "allocated" /\ value = "alive"

-----------------------------------------------------------------------------
\* _z_rc_increase_strong in name##_rc_clone: at the limit the count is increased
\* all the same and the clone is null.
CloneStrong(r, new) ==
    /\ ref[r] = "strong" /\ ref[new] = "null"
    /\ strongCnt' = strongCnt + 1
    /\ IF strongCnt < MaxCount
       THEN ref' = [ref EXCEPT ![new] = "strong"] /\ UNCHANGED lostStrong
       ELSE lostStrong < MaxLost /\ lostStrong' = lostStrong + 1 /\ UNCHANGED ref
    /\ UNCHANGED <<lender, prev, weakCnt, lostWeak, counters, value>>

\* _z_rc_increase_weak in name##_rc_clone_as_weak and name##_weak_clone.
CloneWeak(r, new) ==
    /\ ref[r] \in {"strong", "weak"} /\ ref[new] = "null"
    /\ weakCnt' = weakCnt + 1
    /\ IF weakCnt < MaxCount
       THEN ref' = [ref EXCEPT ![new] = "weak"] /\ UNCHANGED lostWeak
       ELSE lostWeak < MaxLost /\ lostWeak' = lostWeak + 1 /\ UNCHANGED ref
    /\ UNCHANGED <<lender, prev, strongCnt, lostStrong, counters, value>>

\* _z_rc_weak_upgrade: the count is read,
Upgrade(r, new) ==
    /\ ref[r] = "weak" /\ ref[new] = "null"
    /\ ref' = [ref EXCEPT ![new] = "upgrading"] /\ lender' = [lender EXCEPT ![new] = r]
    /\ prev' = [prev EXCEPT ![new] = strongCnt]
    /\ UNCHANGED <<strongCnt, weakCnt, lostStrong, lostWeak, counters, value>>

Forget(new) == lender' = [lender EXCEPT ![new] = new] /\ prev' = [prev EXCEPT ![new] = 0]

\* Mutation: the count is written back without comparing it.
UpgradeStores(new) ==
    /\ ref[new] = "upgrading" /\ Forget(new)
    /\ IF prev[new] = 0 \/ prev[new] >= MaxCount
       THEN ref' = [ref EXCEPT ![new] = "null"] /\ UNCHANGED strongCnt
       ELSE ref' = [ref EXCEPT ![new] = "strong"] /\ strongCnt' = prev[new] + 1
    /\ UNCHANGED <<weakCnt, lostStrong, lostWeak, counters, value>>

\* and increased if it is still the same, never from 0 and never at the limit.
CompareExchange(new) ==
    /\ ref[new] = "upgrading"
    /\ \/ /\ prev[new] = 0 \/ prev[new] >= MaxCount
          /\ ref' = [ref EXCEPT ![new] = "null"] /\ Forget(new)
          /\ UNCHANGED strongCnt
       \/ /\ prev[new] # 0 /\ prev[new] < MaxCount /\ prev[new] = strongCnt
          /\ ref' = [ref EXCEPT ![new] = "strong"] /\ strongCnt' = strongCnt + 1
          /\ Forget(new)
       \/ /\ prev[new] # 0 /\ prev[new] < MaxCount /\ prev[new] # strongCnt
          /\ prev' = [prev EXCEPT ![new] = strongCnt]
          /\ UNCHANGED <<ref, lender, strongCnt>>
    /\ UNCHANGED <<weakCnt, lostStrong, lostWeak, counters, value>>

\* _z_rc_decrease_strong in name##_rc_drop.
DropStrong(r) ==
    /\ ref[r] = "strong"
    /\ strongCnt' = strongCnt - 1
    /\ ref' = [ref EXCEPT ![r] = IF strongCnt > 1 THEN "null" ELSE "last"]
    /\ UNCHANGED <<lender, prev, weakCnt, lostStrong, lostWeak, counters, value>>

\* _z_rc_decrease_weak, whose last caller frees the counters.
DecreaseWeak ==
    /\ weakCnt' = weakCnt - 1
    /\ counters' = IF weakCnt > 1 THEN counters ELSE "freed"

DropWeak(r) ==
    /\ ref[r] = "weak" /\ \A new \in Refs : ref[new] = "upgrading" => lender[new] # r
    /\ DecreaseWeak
    /\ ref' = [ref EXCEPT ![r] = "null"]
    /\ UNCHANGED <<lender, prev, strongCnt, lostStrong, lostWeak, value>>

DropFakeWeak(r) ==
    /\ ref[r] = "last"
    /\ DecreaseWeak
    /\ ref' = [ref EXCEPT ![r] = "clear"]
    /\ UNCHANGED <<lender, prev, strongCnt, lostStrong, lostWeak, value>>

\* name##_rc_clear_inner and z_free.
ClearValue(r) ==
    /\ ref[r] = "clear"
    /\ ref' = [ref EXCEPT ![r] = "null"] /\ value' = "cleared"
    /\ UNCHANGED <<lender, prev, strongCnt, weakCnt, lostStrong, lostWeak, counters>>

RcNext ==
    \/ \E r, new \in Refs : CloneStrong(r, new) \/ CloneWeak(r, new) \/ Upgrade(r, new)
    \/ \E r \in Refs : CompareExchange(r) \/ DropStrong(r) \/ DropWeak(r) \/ DropFakeWeak(r) \/ ClearValue(r)

RcSpec == RcInit /\ [][RcNext]_rcVars

-----------------------------------------------------------------------------
\* The type invariant.
RcTypeOK ==
    /\ ref \in [Refs -> RefStates] /\ lender \in [Refs -> Refs] /\ prev \in [Refs -> Nat]
    /\ strongCnt \in Nat /\ weakCnt \in Nat /\ lostStrong \in Nat /\ lostWeak \in Nat
    /\ counters \in {"allocated", "freed"} /\ value \in {"alive", "cleared"}

\* Whoever will still use the counters finds them allocated, and whoever holds a
\* strong reference or is to clear the value finds it alive: an upgrade never
\* revives a value whose last reference is gone, and only one reference is ever
\* the last.  An overflow leaks and never frees early.
UsesAlive ==
    /\ \A r \in Refs : ref[r] \in {"strong", "weak", "upgrading", "last"} => counters = "allocated"
    /\ \A r \in Refs : ref[r] \in {"strong", "last", "clear"} => value = "alive"
    /\ \A r, s \in Refs : ref[r] \in {"last", "clear"} => ref[s] # "strong" /\ (ref[s] \in {"last", "clear"} => r = s)

\* With every reference dropped, the value is cleared and the counters are freed,
\* unless a count has overflowed.
NothingLeft ==
    (\A r \in Refs : ref[r] = "null") =>
        /\ lostStrong = 0 => value = "cleared"
        /\ lostStrong = 0 /\ lostWeak = 0 => counters = "freed"

RefCountSafe == UsesAlive /\ NothingLeft
=============================================================================
