----------------------------- MODULE MCSession -----------------------------
(***************************************************************************)
(* What a session keeps and what may not be stuck, side by side: pending   *)
(* queries, cancellation tokens, subscribers and queryables, the readers   *)
(* of a stream, and an advanced publisher with its subscriber.  They share *)
(* no variable; a behaviour is one of the part that "part" names.          *)
(***************************************************************************)
EXTENDS Cancellation, Subscriptions, StreamFraming

CONSTANTS Rx, l1, None, ErrReply,  \* PendingQuery
          t1, t2, o1, o2, b1,      \* Cancellation
          e1, e2, putter           \* Subscriptions

VARIABLES part,
          pending, query, used, sending, queryPc, at, rep, got, seen, drops, cancelled,
          session,                                                     \* PendingQuery
          options, published, writing, cache, lastBeat, wire, lost, beats, phase, globalPending,
          source, queries, lateSeen, fails, samples, missed, calledIn  \* AdvancedPubSub

\* Whether queries end; MCSafety looks at their replies.
Query == INSTANCE PendingQuery
             WITH Ids <- {1}, Local <- {l1}, Targets <- {0, 2},
                  Replies <- {[key |-> "a", ts |-> 1]}, MaxReplies <- 2

\* One thread cancels twice, the other once.
MCMaxCalls == [t \in {t1, t2} |-> IF t = t1 THEN 2 ELSE 1]

\* One entity takes local and remote data, the other one remote data only.
MCEntityOrigin == [e \in {e1, e2} |-> IF e = e1 THEN {"remote", "local"} ELSE {"remote"}]

Option(sequencing, history, depth, late, recovery, miss) ==
    [sequencing |-> sequencing, history |-> history, depth |-> depth, late |-> late,
     recovery |-> recovery, miss |-> miss]

Advanced == INSTANCE AdvancedPubSub
                WITH Options <- {Option("sn", TRUE, 0, TRUE, TRUE, "none"),
                                 Option("sn", TRUE, 2, FALSE, TRUE, "periodic"),
                                 Option("sn", TRUE, 1, FALSE, FALSE, "none"),
                                 Option("sn", FALSE, 0, FALSE, TRUE, "heartbeat"),
                                 Option("sn", FALSE, 0, FALSE, TRUE, "sporadic"),
                                 Option("timestamp", TRUE, 2, TRUE, FALSE, "none")},
                     CacheSize <- 2, MaxSn <- 3, MaxLost <- 1, MaxBeats <- 1, MaxQueries <- 2,
                     MaxFails <- 1, CounterSpan <- 8, delivered <- samples

queryVars  == <<pending, query, used, sending, queryPc, at, rep, got, seen, drops, cancelled, session>>
advVars    == <<options, published, writing, cache, lastBeat, wire, lost, beats, phase, globalPending,
                source, queries, lateSeen, fails, samples, missed, calledIn>>

MCInit ==
    /\ part \in {"queries", "token", "entities", "stream", "advanced"}
    /\ Query!Init /\ Init /\ SubscriptionsInit /\ StreamInit
    /\ Advanced!AdvInit
    /\ entityKind[e1] = "queryable" => entityKind[e2] = "queryable"
    /\ part # "entities" => ~rxCache /\ entityKind = [e \in {e1, e2} |-> "subscriber"]
    /\ part # "stream" => reader = "client"
    /\ part # "advanced" => options = Option("sn", TRUE, 1, FALSE, FALSE, "none")

MCNext ==
    \/ /\ part = "queries" /\ Query!Next
       /\ UNCHANGED <<part, vars, subscriptionVars, streamVars, advVars>>
    \/ /\ part = "token" /\ Next
       /\ UNCHANGED <<part, queryVars, subscriptionVars, streamVars, advVars>>
    \/ /\ part = "entities" /\ SubscriptionsNext
       /\ UNCHANGED <<part, queryVars, vars, streamVars, advVars>>
    \/ /\ part = "stream" /\ StreamNext
       /\ UNCHANGED <<part, queryVars, vars, subscriptionVars, advVars>>
    \/ /\ part = "advanced" /\ Advanced!AdvNext
       /\ UNCHANGED <<part, queryVars, vars, subscriptionVars, streamVars>>

\* The fairness of each specification, for the part in use.
MCFairness ==
    /\ WF_queryVars(part = "queries" /\ Query!TimeoutTask(pending))
    /\ \A t \in {Rx, l1} : WF_queryVars(part = "queries" /\ Query!Proceed(t))
    /\ WF_queryVars(part = "queries" /\ Query!RuntimeStops)
    /\ WF_queryVars(part = "queries" /\ Query!FlushPendingQueries)
    /\ \A t \in Threads : WF_vars(part = "token" /\ CancelStep(t))
    /\ \A o \in Ops : WF_vars(part = "token" /\ (GetNotifier(o) \/ FinishOp(o)))
    /\ \A o \in Bare : WF_vars(part = "token" /\ (RemoveHandler(o) \/ FinishOp(o)))
    /\ \A e \in Entities : WF_subscriptionVars(part = "entities" /\ EntityStep(e))
    /\ \A t \in Deliverers : WF_subscriptionVars(part = "entities" /\ DeliveryStep(t))
    /\ WF_subscriptionVars(part = "entities" /\ CloseStep)
    /\ WF_streamVars(part = "stream" /\ ClientRead)
    /\ WF_streamVars(part = "stream" /\ PeerStep)
    /\ WF_advVars(part = "advanced" /\ Advanced!ReceiveSample)
    /\ WF_advVars(part = "advanced" /\ Advanced!InitialQuery)
    /\ WF_advVars(part = "advanced" /\ Advanced!FirstEnds)

MCSpec ==
    /\ MCInit /\ [][MCNext]_<<part, queryVars, vars, subscriptionVars, streamVars, advVars>>
    /\ MCFairness

-----------------------------------------------------------------------------
\* Every get comes to an end.
QueryEnds == Query!QueryEnds

\* The samples of an advanced publisher are delivered once and in order, and the
\* others reported as missed.
SamplesAccounted == Advanced!SamplesAccounted

\* api.rst: "call will never be called once drop has started", of the closure of an
\* advanced subscriber.
NoCallAfterDrop == Advanced!NoCallAfterDrop

\* A sample that waits for a query is delivered or given up.
PendingDelivered == Advanced!PendingDelivered
=============================================================================
