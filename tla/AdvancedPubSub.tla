--------------------------- MODULE AdvancedPubSub ---------------------------
(***************************************************************************)
(* An advanced publisher with its cache (src/src/api/advanced_publisher.c, *)
(* src/src/collections/advanced_cache.c) and an advanced subscriber        *)
(* (src/src/api/advanced_subscriber.c): history, recovery of lost samples  *)
(* by queries, heartbeats, periodic queries, late publishers and the       *)
(* undeclaration.  A sample is its sequence number, or its timestamp for a *)
(* publisher without sample miss detection.                                *)
(*                                                                         *)
(* Samples and heartbeats arrive in the order they were written in, or not *)
(* at all; replies overtake them (the cache has a priority of its own).    *)
(* Every step of the subscriber is one critical section of its mutex,      *)
(* together with the query that is sent after it: both run on the executor *)
(* thread, which also handles the replies.                                 *)
(***************************************************************************)
EXTENDS Integers, Sequences, FiniteSets, FiniteSetsExt, SequencesExt

CONSTANTS Options,       \* the options of publisher and subscriber that are tried
          CacheSize,     \* max_samples of the cache
          MaxSn,         \* bound on the samples
          MaxLost,       \* bound on the writes that do not arrive
          MaxBeats,      \* bound on the heartbeats and periodic queries
          MaxQueries,    \* bound on the queries under way
          MaxFails,      \* bound on the queries that cannot be sent
          CounterSpan    \* 2^64, the values of _pending_queries

VARIABLES options,
          published,     \* _seqnumber
          writing,       \* what a put or delete still has to do with its sample
          cache,         \* the ring of the cache, oldest first
          lastBeat,      \* _last_published_sn
          wire,          \* samples and heartbeats on their way
          lost, beats,
          phase,         \* of the subscriber, from its declaration to its end
          globalPending, \* _global_pending_queries
          source,        \* the state of the publisher in _sequenced_states or _timestamped_states
          queries,       \* queries under way
          lateSeen,      \* the publisher's token has been seen
          fails,
          delivered,     \* history: what the callback was called with
          missed,        \* history: samples reported to the miss listeners
          calledIn       \* history: the phases in which the callback was called

pubVars == <<published, writing, cache, lastBeat>>
netVars == <<wire, lost, beats>>
subVars == <<phase, globalPending, source, queries, lateSeen, fails, delivered, missed, calledIn>>
advVars == <<options, pubVars, netVars, subVars>>

Idle     == [todo |-> "none", sn |-> 0]
NoSource == [known |-> FALSE, hasLast |-> FALSE, last |-> 0, pendingQueries |-> 0, pending |-> {},
             periodic |-> FALSE]
Sequenced == options.sequencing = "sn"

AdvInit ==
    /\ options \in Options
    /\ published = 0 /\ writing = Idle /\ cache = << >> /\ lastBeat = 0
    /\ wire = << >> /\ lost = 0 /\ beats = 0
    /\ phase = "declaring" /\ globalPending = (IF options.history THEN 1 ELSE 0) /\ source = NoSource
    /\ queries = << >> /\ lateSeen = FALSE /\ fails = 0
    /\ delivered = << >> /\ missed = 0 /\ calledIn = {}

-----------------------------------------------------------------------------
(* The publisher.                                                          *)

\* _ze_advanced_cache_add: the ring drops its oldest sample.
CacheAdd(sn) == IF Len(cache) = CacheSize THEN Append(Tail(cache), sn) ELSE Append(cache, sn)

\* _z_write, which a write filter, congestion or the network may stop.
Write(m) ==
    \/ wire' = Append(wire, m) /\ UNCHANGED lost
    \/ lost < MaxLost /\ lost' = lost + 1 /\ UNCHANGED wire

\* ze_advanced_publisher_put: into the cache, then onto the wire.
PutCaches ==
    /\ writing = Idle /\ published < MaxSn /\ published' = published + 1
    /\ cache' = CacheAdd(published) /\ writing' = [todo |-> "write", sn |-> published]
    /\ UNCHANGED <<options, lastBeat, netVars, subVars>>

\* ze_advanced_publisher_delete: onto the wire, then into the cache.
DeleteWrites ==
    /\ writing = Idle /\ published < MaxSn /\ published' = published + 1
    /\ Write([beat |-> FALSE, sn |-> published]) /\ writing' = [todo |-> "cache", sn |-> published]
    /\ UNCHANGED <<options, cache, lastBeat, beats, subVars>>

WriteEnds ==
    /\ writing' = Idle
    /\ \/ writing.todo = "write" /\ Write([beat |-> FALSE, sn |-> writing.sn]) /\ UNCHANGED cache
       \/ writing.todo = "cache" /\ cache' = CacheAdd(writing.sn) /\ UNCHANGED <<wire, lost>>
    /\ UNCHANGED <<options, published, lastBeat, beats, subVars>>

\* _ze_advanced_publisher_heartbeat_handler: the number of the last sample, one
\* below 0 before the first; a sporadic one only when it has changed.
Heartbeat ==
    /\ options.miss \in {"heartbeat", "sporadic"} /\ beats < MaxBeats /\ beats' = beats + 1
    /\ options.miss = "sporadic" => published > lastBeat
    /\ lastBeat' = published
    /\ Write([beat |-> TRUE, sn |-> published - 1])
    /\ UNCHANGED <<options, published, writing, cache, subVars>>

-----------------------------------------------------------------------------
(* Samples.  An operator on the source gives its new state, the samples    *)
(* the callback is called with, and the number of samples reported missed. *)

Result(s, out, n) == [src |-> s, out |-> out, missed |-> n]

\* The numbers in S one after the other, each at its rank.
Ordered(S) == [i \in 1 .. Cardinality(S) |-> CHOOSE n \in S : Cardinality({m \in S : m <= n}) = i]

\* __unsafe_ze_advanced_subscriber_deliver_and_flush: the sample and the pending
\* ones that follow it without a gap.
DeliverAndFlush(s, sn) ==
    LET end == CHOOSE e \in sn .. MaxSn : (sn + 1) .. e \subseteq s.pending /\ e + 1 \notin s.pending
    IN  Result([s EXCEPT !.hasLast = TRUE, !.last = end, !.pending = @ \ (sn + 1 .. end)],
               [i \in 1 .. end - sn + 1 |-> sn + i - 1], 0)

\* Mutation: the samples older than the last one are delivered as well.
FlushAnyAge(s) ==
    LET fresh == s.pending
        past  == IF s.hasLast THEN s.last ELSE Min(s.pending) - 1
    IN  IF s.pendingQueries # 0 \/ s.pending = {} THEN Result(s, << >>, 0)
        ELSE IF fresh = {} THEN Result([s EXCEPT !.pending = {}], << >>, 0)
        ELSE Result([s EXCEPT !.hasLast = TRUE, !.last = Max(fresh), !.pending = {}], Ordered(fresh),
                    IF Sequenced THEN Max(fresh) - past - Cardinality(fresh) ELSE 0)

\* __unsafe_ze_advanced_subscriber_flush_sequenced_source, and the same for a
\* timestamped source: with no query pending every pending sample is delivered
\* in order, older ones dropped, and each gap of numbers reported.
Flush(s) ==
    LET fresh == {sn \in s.pending : s.hasLast => sn > s.last}
        past  == IF s.hasLast THEN s.last ELSE Min(s.pending) - 1
    IN  IF s.pendingQueries # 0 \/ s.pending = {} THEN Result(s, << >>, 0)
        ELSE IF fresh = {} THEN Result([s EXCEPT !.pending = {}], << >>, 0)
        ELSE Result([s EXCEPT !.hasLast = TRUE, !.last = Max(fresh), !.pending = {}], Ordered(fresh),
                    IF Sequenced THEN Max(fresh) - past - Cardinality(fresh) ELSE 0)

\* __unsafe_ze_advanced_subscriber_handle_sample with a source info.
HandleSequenced(s, sn) ==
    LET waits == s.pending \cup {sn}
        first == Min(waits)
    IN  CASE ~s.hasLast /\ globalPending # 0 ->
                 IF options.depth = 1 THEN Result([s EXCEPT !.hasLast = TRUE, !.last = sn], <<sn>>, 0)
                 ELSE IF options.depth > 0 /\ Cardinality(waits) >= options.depth
                 THEN DeliverAndFlush([s EXCEPT !.pending = waits \ {first}], first)
                 ELSE Result([s EXCEPT !.pending = waits], << >>, 0)
          [] s.hasLast /\ sn > s.last + 1 ->
                 IF options.recovery THEN Result([s EXCEPT !.pending = waits], << >>, 0)
                 ELSE Result([s EXCEPT !.last = sn], <<sn>>, sn - s.last - 1)
          [] s.hasLast /\ sn <= s.last -> Result(s, << >>, 0)
          [] OTHER -> DeliverAndFlush(s, sn)

\* The same with a timestamp only.
HandleTimestamped(s, ts) ==
    LET waits == s.pending \cup {ts}
    IN  IF s.hasLast /\ ts <= s.last THEN Result(s, << >>, 0)
        ELSE IF (globalPending = 0 /\ s.pendingQueries = 0) \/ options.depth = 1
        THEN Result([s EXCEPT !.hasLast = TRUE, !.last = ts], <<ts>>, 0)
        ELSE IF options.depth > 0 /\ Cardinality(waits) >= options.depth
        THEN Flush([s EXCEPT !.pending = waits])
        ELSE Result([s EXCEPT !.pending = waits], << >>, 0)

HandleSample(sn) ==
    LET s == [source EXCEPT !.known = TRUE]
    IN  IF Sequenced THEN HandleSequenced(s, sn) ELSE HandleTimestamped(s, sn)

\* __unsafe_ze_advanced_subscriber_spawn_periodic_query.
Spawned(s, global) == [s EXCEPT !.periodic = @ \/ (global = 0 /\ options.miss = "periodic" /\ s.known)]

\* What the callbacks of a result leave behind.
Calls(r) ==
    /\ delivered' = delivered \o r.out /\ missed' = missed + r.missed
    /\ calledIn' = IF r.out = << >> THEN calledIn ELSE calledIn \cup {phase}

-----------------------------------------------------------------------------
(* Queries.                                                                *)

Query(kind, from, to, max) ==
    [kind |-> kind, from |-> from, to |-> to, max |-> max, answered |-> FALSE, replies |-> << >>]

Unbounded == MaxSn
FromNext(s, to) == Query("source", IF s.hasLast THEN s.last + 1 ELSE 0, to, CacheSize)
History(kind)   == Query(kind, 0, Unbounded, IF options.depth > 0 THEN options.depth ELSE CacheSize)

\* Mutation: the pending samples of the source stay where they are.
SourceDropForgets(s, global) ==
    IF ~s.known THEN Result(s, << >>, 0)
    ELSE Result([s EXCEPT !.pendingQueries = IF @ > 0 THEN @ - 1 ELSE 0], << >>, 0)

\* __unsafe_ze_advanced_subscriber_sequenced_query_drop_handler, or _timestamped_.
SourceDrop(s, global) ==
    LET ended == [s EXCEPT !.pendingQueries = IF @ > 0 THEN @ - 1 ELSE 0]
    IN  IF ~s.known THEN Result(s, << >>, 0)
        ELSE IF global = 0 THEN Flush(ended) ELSE Result(ended, << >>, 0)

\* __unsafe_ze_advanced_subscriber_initial_query_drop_handler.
InitialDrop(s, global) ==
    LET r == Flush(s)
    IN  IF global # 0 THEN Result(s, << >>, 0) ELSE [r EXCEPT !.src = Spawned(@, 0)]

\* _ze_advanced_subscriber_query_drop_handler, also while undeclaring.
QueryDrop(q) ==
    LET global == IF q.kind = "initial" /\ globalPending > 0 THEN globalPending - 1 ELSE globalPending
        r      == IF q.kind = "initial" THEN InitialDrop(source, global) ELSE SourceDrop(source, global)
    IN  globalPending' = global /\ source' = r.src /\ Calls(r)

\* _ze_advanced_subscriber_sequenced_query or _timestamped_query after the counter was
\* incremented: when z_get cannot send, it calls the drop handler, and the
\* caller decrements the counter as well.
RunQuery(r, q) ==
    LET s     == [r.src EXCEPT !.pendingQueries = (@ + 1) % CounterSpan]
        ended == SourceDrop(s, globalPending)
    IN  \/ /\ Len(queries) < MaxQueries /\ queries' = Append(queries, q)
           /\ source' = s /\ Calls(r) /\ UNCHANGED fails
        \/ /\ fails < MaxFails /\ fails' = fails + 1
           /\ source' = [ended.src EXCEPT !.pendingQueries = (@ - 1) % CounterSpan]
           /\ Calls(Result(source', r.out \o ended.out, r.missed + ended.missed))
           /\ UNCHANGED queries

NoQuery(r) == source' = r.src /\ Calls(r) /\ UNCHANGED <<queries, fails>>

\* _ze_advanced_cache_query_handler: the newest samples that match, up to the
\* maximum, sent oldest first.
Answer(i) ==
    LET match  == Ordered({k \in DOMAIN cache : queries[i].from <= cache[k] /\ cache[k] <= queries[i].to})
        from   == IF Len(match) > queries[i].max THEN Len(match) - queries[i].max + 1 ELSE 1
        newest == SubSeq(match, from, Len(match))
    IN  /\ ~queries[i].answered
        /\ queries' = [queries EXCEPT ![i].answered = TRUE,
                                      ![i].replies = [k \in DOMAIN newest |-> cache[newest[k]]]]
        /\ UNCHANGED <<options, pubVars, netVars, phase, globalPending, source, lateSeen, fails, delivered,
                       missed, calledIn>>

Cancelled == phase \in {"undeclaring", "undeclared"}

\* Mutation: _is_undeclaring is not looked at.
ReplyAlways(i) ==
    LET r == HandleSample(Head(queries[i].replies))
    IN  /\ queries[i].replies # << >> /\ queries' = [queries EXCEPT ![i].replies = Tail(@)]
        /\ source' = r.src /\ Calls(r)
        /\ UNCHANGED <<options, pubVars, netVars, phase, globalPending, lateSeen, fails>>

\* _ze_advanced_subscriber_query_reply_handler.
Reply(i) ==
    LET r == HandleSample(Head(queries[i].replies))
    IN  /\ queries[i].replies # << >> /\ queries' = [queries EXCEPT ![i].replies = Tail(@)]
        /\ IF Cancelled THEN UNCHANGED <<source, delivered, missed, calledIn>> ELSE source' = r.src /\ Calls(r)
        /\ UNCHANGED <<options, pubVars, netVars, phase, globalPending, lateSeen, fails>>

\* The last final of a query, or its time-out, after which the replies that are
\* still to come are not for anyone.
QueryEnds(i) ==
    /\ queries' = RemoveAt(queries, i) /\ QueryDrop(queries[i])
    /\ UNCHANGED <<options, pubVars, netVars, phase, lateSeen, fails>>

-----------------------------------------------------------------------------
(* The subscriber.                                                         *)

\* ze_declare_advanced_subscriber: the subscriber is declared, then the history is
\* asked for; when that fails everything is undeclared.
InitialQuery ==
    /\ phase = "declaring"
    /\ \/ /\ ~options.history /\ phase' = "declared"
          /\ UNCHANGED <<globalPending, source, queries, fails, delivered, missed, calledIn>>
       \/ /\ options.history /\ phase' = "declared"
          /\ Len(queries) < MaxQueries /\ queries' = Append(queries, History("initial"))
          /\ UNCHANGED <<globalPending, source, fails, delivered, missed, calledIn>>
       \/ /\ options.history /\ fails < MaxFails /\ fails' = fails + 1 /\ phase' = "dropping"
          /\ QueryDrop(History("initial")) /\ UNCHANGED queries
    /\ UNCHANGED <<options, pubVars, netVars, lateSeen>>

\* _ze_advanced_subscriber_subscriber_callback: the subscriber's own callback, which has
\* ended for good before the dropper is called.
ReceiveSample ==
    LET r == HandleSample(Head(wire).sn)
        n == [r EXCEPT !.src = IF source.known THEN @ ELSE Spawned(@, globalPending)]
    IN  /\ wire # << >> /\ ~Head(wire).beat /\ wire' = Tail(wire)
        /\ IF phase \notin {"declaring", "declared"}
           THEN UNCHANGED <<source, queries, fails, delivered, missed, calledIn>>
           ELSE IF Sequenced /\ options.recovery /\ n.src.pendingQueries = 0 /\ n.src.pending # {}
           THEN RunQuery(n, FromNext(n.src, Unbounded))
           ELSE NoQuery(n)
        /\ UNCHANGED <<options, pubVars, lost, beats, phase, globalPending, lateSeen>>

\* _ze_advanced_subscriber_heartbeat_callback.
ReceiveHeartbeat ==
    LET sn == Head(wire).sn
        s  == [source EXCEPT !.known = TRUE]
        to == IF sn = -1 THEN Unbounded ELSE sn
    IN  /\ wire # << >> /\ Head(wire).beat /\ wire' = Tail(wire)
        /\ IF phase = "declaring" \/ Cancelled \/ ~options.recovery \/ (~source.known /\ globalPending > 0)
           THEN UNCHANGED <<source, queries, fails, delivered, missed, calledIn>>
           ELSE IF ~s.hasLast \/ (sn > s.last /\ s.pendingQueries = 0)
           THEN RunQuery(Result(s, << >>, 0), FromNext(s, to))
           ELSE NoQuery(Result(s, << >>, 0))
        /\ UNCHANGED <<options, pubVars, lost, beats, phase, globalPending, lateSeen>>

\* _ze_advanced_subscriber_periodic_query_handler.
PeriodicQuery ==
    /\ source.periodic /\ ~Cancelled /\ globalPending = 0 /\ source.pendingQueries = 0
    /\ beats < MaxBeats /\ beats' = beats + 1
    /\ RunQuery(Result(source, << >>, 0), FromNext(source, Unbounded))
    /\ UNCHANGED <<options, pubVars, wire, lost, phase, globalPending, lateSeen>>

\* _ze_advanced_subscriber_liveliness_callback, for the publisher's token.
LatePublisher ==
    LET s == [source EXCEPT !.known = TRUE]
    IN  /\ options.history /\ options.late /\ ~lateSeen /\ lateSeen' = TRUE
        /\ phase \in {"declared", "dropping"}
        /\ RunQuery(Result(IF source.known THEN s ELSE Spawned(s, globalPending), << >>, 0), History("source"))
        /\ UNCHANGED <<options, pubVars, netVars, phase, globalPending>>

\* _ze_advanced_subscriber_subscriber_drop_handler: the user's dropper is called, ...
Undeclare ==
    /\ phase = "declared" /\ phase' = "dropping"
    /\ UNCHANGED <<options, pubVars, netVars, globalPending, source, queries, lateSeen, fails, delivered,
                   missed, calledIn>>

\* ... then, under the mutex, the subscriber is marked and its sources cleared, ...
SetUndeclaring ==
    /\ phase = "dropping" /\ phase' = "undeclaring" /\ source' = NoSource
    /\ UNCHANGED <<options, pubVars, netVars, globalPending, queries, lateSeen, fails, delivered, missed, calledIn>>

\* ... then the queries are cancelled, which ends them.
CancelQueries ==
    /\ phase = "undeclaring" /\ phase' = "undeclared" /\ queries' = << >> /\ globalPending' = 0
    /\ UNCHANGED <<options, pubVars, netVars, source, lateSeen, fails, delivered, missed, calledIn>>

-----------------------------------------------------------------------------
AdvNext ==
    \/ PutCaches \/ DeleteWrites \/ WriteEnds \/ Heartbeat
    \/ InitialQuery \/ ReceiveSample \/ ReceiveHeartbeat \/ PeriodicQuery \/ LatePublisher
    \/ Undeclare \/ SetUndeclaring \/ CancelQueries
    \/ \E i \in DOMAIN queries : Answer(i) \/ Reply(i) \/ QueryEnds(i)

FirstEnds == queries # << >> /\ QueryEnds(1)

\* Messages are handled, every query has a time-out.
AdvFairness == WF_advVars(ReceiveSample) /\ WF_advVars(InitialQuery) /\ WF_advVars(FirstEnds)

AdvSpec == AdvInit /\ [][AdvNext]_advVars /\ AdvFairness

-----------------------------------------------------------------------------
(* Properties.                                                             *)

\* The callback gets the samples of a publisher once and in order, whatever is
\* lost, repeated by queries or pending; from the first one on, every sample up
\* to the last is delivered or reported to the miss listeners, once; and the
\* callback is not called any more when the subscriber is marked.
SamplesAccounted ==
    /\ \A j, k \in DOMAIN delivered : j < k => delivered[j] < delivered[k]
    /\ Sequenced /\ delivered # << >> =>
           Last(delivered) - Head(delivered) + 1 = Len(delivered) + missed
    /\ calledIn \cap {"undeclaring", "undeclared"} = {}

\* A sample that waits for a query is delivered or given up, unless a query could
\* not be sent.
PendingDelivered == []<>(source.pending = {} \/ fails > 0)

\* docs/api.rst: "call will never be called once drop has started".
NoCallAfterDrop == calledIn \subseteq {"declaring", "declared"}
=============================================================================
