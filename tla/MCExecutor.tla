----------------------------- MODULE MCExecutor -----------------------------
(***************************************************************************)
(* The executor, and the mutexes that its tasks and the application take.  *)
(* They share nothing; a behaviour is one of the part that "part" names.   *)
(***************************************************************************)
EXTENDS Executor, Locking

CONSTANTS a1, a2

VARIABLE part

MCInit ==
    /\ part \in {"executor", "locks"}
    /\ Init /\ LockInit
    /\ part = "executor" => ~clientMode
    /\ part = "locks" => \A n \in Capacities : maxTasks <= n

MCNext ==
    \/ part = "executor" /\ Next /\ UNCHANGED <<part, lockVars>>
    \/ part = "locks" /\ LockNext /\ UNCHANGED <<part, vars>>

MCSpec ==
    /\ MCInit /\ [][MCNext]_<<part, vars, lockVars>>
    /\ WF_vars(part = "executor" /\ Spin) /\ WF_vars(part = "executor" /\ Tick)
=============================================================================
