---------------------------- MODULE PendingQuery ----------------------------
(***************************************************************************)
(* Pending queries of src/src/session/query.c and the get of               *)
(* src/src/net/primitives.c: registration, replies and their               *)
(* consolidation, finals, time-outs, cancellation, undeclaration of the    *)
(* querier and the close of the session.                                   *)
(*                                                                         *)
(* The list of pending queries is only touched under the session's mutex,  *)
(* one step per critical section.  A reply is delivered in two steps: the  *)
(* query is looked up and its cache updated under the mutex, then the      *)
(* query is read again, and its callback called, without it.  Replies come *)
(* through the read task (thread Rx, which also runs the time-out task)    *)
(* and, from queryables of the same session, through any thread that       *)
(* replies.  A reply that does not match the query's key expression        *)
(* changes nothing and is left out, and so are allocation failures.        *)
(***************************************************************************)
EXTENDS Integers, Sequences, SequencesExt

CONSTANTS Ids,         \* query ids, in the order of _query_id: 1..n
          Rx,          \* the executor thread
          Local,       \* other threads that deliver replies
          Replies,     \* records [key, ts]: the replies there may be
          ErrReply,    \* a reply that carries an error
          Targets,     \* the numbers of targets a query may have
          MaxReplies,  \* bound on the replies to each query
          None         \* no query

Modes   == {"none", "monotonic", "latest"}
Deliverers == Local \cup {Rx}

VARIABLES pending,   \* _pending_queries: the ids in the list
          query,     \* mode, remaining finals and pending replies of each query
          used,      \* ids handed out
          sending,   \* queries whose get has not returned yet
          queryPc, at, rep,  \* delivery in progress: where, for which query, which reply
          got,       \* what the callback of each query was called with
          seen,      \* the replies that found their query in the list
          drops,     \* how often each query's dropper was called
          cancelled, \* queries whose cancel has returned successfully
          session    \* "open", "closing", "stopped", "closed"

delivery == <<queryPc, at, rep>>
history  == <<got, seen, drops, cancelled>>
vars     == <<pending, query, used, sending, delivery, history, session>>

NoQuery == [mode |-> "none", remaining |-> 0, cache |-> << >>]

Init ==
    /\ pending = {} /\ query = [i \in Ids |-> NoQuery] /\ used = {} /\ sending = {}
    /\ queryPc = [t \in Deliverers |-> "idle"] /\ at = [t \in Deliverers |-> None]
    /\ rep = [t \in Deliverers |-> ErrReply]
    /\ got = [i \in Ids |-> << >>] /\ seen = [i \in Ids |-> << >>]
    /\ drops = [i \in Ids |-> 0] /\ cancelled = {}
    /\ session = "open"

\* _z_pending_query_slist_drop_*: the queries leave the list and are cleared,
\* which calls their droppers.
Drop(S) ==
    /\ pending' = pending \ S
    /\ drops' = [i \in Ids |-> IF i \in pending \cap S THEN drops[i] + 1 ELSE drops[i]]

-----------------------------------------------------------------------------
(* _z_query.                                                               *)

NextId(i) == i \notin used /\ \A j \in Ids : j < i => j \in used

\* The dropper is called at once when there is no target or the session has
\* been closed.
GetRefused(i) ==
    /\ NextId(i) /\ used' = used \cup {i}
    /\ 0 \in Targets \/ session # "open"
    /\ drops' = [drops EXCEPT ![i] = @ + 1]
    /\ UNCHANGED <<pending, query, sending, delivery, got, seen, cancelled, session>>

RegisterPendingQuery(i, mode, n) ==
    /\ NextId(i) /\ session = "open" /\ n > 0
    /\ used' = used \cup {i} /\ sending' = sending \cup {i}
    /\ pending' = pending \cup {i}
    /\ query' = [query EXCEPT ![i] = [mode |-> mode, remaining |-> n, cache |-> << >>]]
    /\ UNCHANGED <<delivery, history, session>>

SendSucceeds(i) ==
    /\ i \in sending /\ sending' = sending \ {i}
    /\ UNCHANGED <<pending, query, used, delivery, history, session>>

\* Mutant: the dropper is called although the query may be gone.
SendFailsAgain(i) ==
    /\ i \in sending /\ sending' = sending \ {i}
    /\ pending' = pending \ {i} /\ drops' = [drops EXCEPT ![i] = @ + 1]
    /\ UNCHANGED <<query, used, delivery, got, seen, cancelled, session>>

SendFails(i) ==
    /\ i \in sending /\ sending' = sending \ {i}
    /\ Drop({i})
    /\ UNCHANGED <<query, used, delivery, got, seen, cancelled, session>>

-----------------------------------------------------------------------------
(* Replies.                                                                *)

FirstWith(cache, P(_)) == SelectInSeq(cache, P)

\* _z_trigger_query_reply_partial_inner: the first pending reply for the same key
\* decides; when it is older, the first one *with its timestamp* is removed
\* (_z_pending_reply_eq compares nothing else).
Consolidate(cache, r) ==
    LET k    == FirstWith(cache, LAMBDA e : e.key = r.key)
        same == FirstWith(cache, LAMBDA e : e.ts = cache[k].ts)
    IN  IF k = 0 THEN <<r>> \o cache
        ELSE IF r.ts <= cache[k].ts THEN cache
        ELSE <<r>> \o RemoveAt(cache, same)

\* Under the mutex.  The thread keeps a pointer to the query.
ReplyFound(t, i, r) ==
    /\ session = "open" /\ queryPc[t] = "idle" /\ i \in pending
    /\ Len(seen[i]) < MaxReplies /\ seen' = [seen EXCEPT ![i] = Append(@, r)]
    /\ query' = IF query[i].mode = "none" \/ r = ErrReply THEN query
                ELSE [query EXCEPT ![i].cache = Consolidate(@, r)]
    /\ queryPc' = [queryPc EXCEPT ![t] = "found"] /\ at' = [at EXCEPT ![t] = i]
    /\ rep' = [rep EXCEPT ![t] = r]
    /\ UNCHANGED <<pending, used, sending, got, drops, cancelled, session>>

\* The mutex has been released.  What is read of a query that has been freed
\* meanwhile may be anything.
CallsBack(t) == query[at[t]].mode # "latest" \/ rep[t] = ErrReply \/ at[t] \notin pending
Skips(t)     == (query[at[t]].mode = "latest" /\ rep[t] # ErrReply) \/ at[t] \notin pending

CallbackBegins(t) ==
    /\ queryPc[t] = "found" /\ CallsBack(t)
    /\ got' = [got EXCEPT ![at[t]] = Append(@, rep[t])]
    /\ queryPc' = [queryPc EXCEPT ![t] = "callback"]
    /\ UNCHANGED <<pending, query, used, sending, at, rep, seen, drops, cancelled, session>>

DeliveryEnds(t) ==
    /\ queryPc[t] = "callback" \/ (queryPc[t] = "found" /\ Skips(t))
    /\ queryPc' = [queryPc EXCEPT ![t] = "idle"] /\ at' = [at EXCEPT ![t] = None]
    /\ UNCHANGED <<pending, query, used, sending, rep, history, session>>

\* Mutant: the pending replies are delivered with every final.
ReplyFinalEach(t, i) ==
    /\ session = "open" /\ queryPc[t] = "idle" /\ i \in pending
    /\ LET n == query[i].remaining - 1
       IN  /\ query' = [query EXCEPT ![i].remaining = n]
           /\ got' = IF query[i].mode = "latest"
                     THEN [got EXCEPT ![i] = @ \o query[i].cache] ELSE got
           /\ Drop(IF n = 0 THEN {i} ELSE {})
    /\ UNCHANGED <<used, sending, delivery, seen, cancelled, session>>

\* _z_trigger_query_reply_final: the last one delivers the pending replies, still
\* under the mutex, and drops the query.
ReplyFinal(t, i) ==
    /\ session = "open" /\ queryPc[t] = "idle" /\ i \in pending
    /\ LET n == query[i].remaining - 1
       IN  /\ query' = [query EXCEPT ![i].remaining = n,
                                     ![i].cache = IF n = 0 THEN << >> ELSE @]
           /\ got' = IF n = 0 /\ query[i].mode = "latest"
                     THEN [got EXCEPT ![i] = @ \o query[i].cache] ELSE got
           /\ Drop(IF n = 0 THEN {i} ELSE {})
    /\ UNCHANGED <<used, sending, delivery, seen, cancelled, session>>

-----------------------------------------------------------------------------
(* Other ends of a query.                                                  *)

\* _z_pending_query_process_timeout, a task of the executor thread.
TimeoutTask(S) ==
    /\ session \in {"open", "closing"} /\ queryPc[Rx] = "idle"
    /\ S # {} /\ S \subseteq pending /\ Drop(S)
    /\ UNCHANGED <<query, used, sending, delivery, got, seen, cancelled, session>>

\* The cancel of a token the query was registered with: its handler drops the
\* query and with it the notifier that the cancel waits for.
CancelPendingQuery(i) ==
    /\ session = "open" /\ i \in used \ cancelled /\ Drop({i})
    /\ cancelled' = cancelled \cup {i}
    /\ UNCHANGED <<query, used, sending, delivery, got, seen, session>>

\* _z_undeclare_querier: its queries, here all of them.
UndeclareQuerier ==
    /\ session = "open" /\ pending # {} /\ Drop(pending)
    /\ UNCHANGED <<query, used, sending, delivery, got, seen, cancelled, session>>

\* _z_session_close: the flag under the mutex, ...
CloseBegins ==
    /\ session = "open" /\ session' = "closing"
    /\ UNCHANGED <<pending, query, used, sending, delivery, history>>

\* ... then _z_runtime_stop, which joins the executor thread, ...
RuntimeStops ==
    /\ session = "closing" /\ queryPc[Rx] = "idle" /\ session' = "stopped"
    /\ UNCHANGED <<pending, query, used, sending, delivery, history>>

\* Mutant: the pending queries are left alone.
FlushPendingNone ==
    /\ session = "stopped" /\ session' = "closed"
    /\ UNCHANGED <<pending, query, used, sending, delivery, history>>

\* ... then _z_flush_pending_queries.
FlushPendingQueries ==
    /\ session = "stopped" /\ session' = "closed" /\ Drop(pending)
    /\ UNCHANGED <<query, used, sending, delivery, got, seen, cancelled>>

-----------------------------------------------------------------------------
Proceed(t) == CallbackBegins(t) \/ DeliveryEnds(t)

Next ==
    \/ \E i \in Ids : \/ GetRefused(i) \/ SendSucceeds(i) \/ SendFails(i)
                      \/ CancelPendingQuery(i)
    \/ \E i \in Ids, m \in Modes, n \in Targets : RegisterPendingQuery(i, m, n)
    \/ \E t \in Deliverers, i \in Ids :
           ReplyFinal(t, i) \/ \E r \in Replies \cup {ErrReply} : ReplyFound(t, i, r)
    \/ \E t \in Deliverers : CallbackBegins(t) \/ DeliveryEnds(t)
    \/ \E S \in SUBSET Ids : TimeoutTask(S)
    \/ UndeclareQuerier \/ CloseBegins \/ RuntimeStops \/ FlushPendingQueries

\* The time-out task runs every second and every query has a time-out; threads
\* run and callbacks return; a close that has begun goes on.
Fairness ==
    /\ WF_vars(TimeoutTask(pending))
    /\ \A t \in Deliverers : WF_vars(Proceed(t))
    /\ WF_vars(RuntimeStops) /\ WF_vars(FlushPendingQueries)

Spec     == Init /\ [][Next]_vars
FairSpec == Spec /\ Fairness

-----------------------------------------------------------------------------
(* Properties.                                                             *)

Data(s)     == {s[k] : k \in DOMAIN s} \cap Replies
NewestOf(S) == {r \in S : \A o \in S : o.key = r.key => o.ts <= r.ts}

\* With consolidation "latest" the replies are delivered when the query ends with
\* its last final, and then the newest seen for each key.
LatestAtTheEnd ==
    [][\A i \in pending : query[i].mode = "latest" /\ Data(got'[i]) # Data(got[i]) =>
           i \notin pending' /\ Data(got'[i]) = NewestOf(Data(seen[i]))]_vars

\* constants.h, Z_CONSOLIDATION_MODE_MONOTONIC: "two replies received at t1 and t2
\* will have timestamp ts2 > ts1".
MonotonicInTime ==
    \A i \in Ids : query[i].mode = "monotonic" =>
        \A j, k \in DOMAIN got[i] :
            j < k /\ got[i][j] # ErrReply /\ got[i][k] # ErrReply /\ got[i][j].key = got[i][k].key
                => got[i][j].ts < got[i][k].ts

\* A get's dropper, which frees what the callback uses, is called exactly once,
\* whichever of final, time-out, cancel, undeclaration, failed send and close
\* ends the query, and however they race.
DropperOnce == \A i \in Ids : drops[i] = IF i \in used \ pending THEN 1 ELSE 0

\* Every get comes to an end: its dropper is called.
QueryEnds == \A i \in Ids : []<>(i \notin pending)
=============================================================================
