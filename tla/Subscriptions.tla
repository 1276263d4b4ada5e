---------------------------- MODULE Subscriptions ----------------------------
(***************************************************************************)
(* The subscribers, liveliness subscribers and queryables of a session     *)
(* (src/src/session/subscription.c, queryable.c and the declare and        *)
(* undeclare calls of src/src/net/primitives.c): the session's lists, the  *)
(* look-up cache of Z_FEATURE_RX_CACHE, the reference counts and the sync  *)
(* groups an undeclare and the session close wait on.  All entities match  *)
(* one key.  A sample or query is delivered by the read task (remote) or,  *)
(* to local entities, by an application thread in z_put or z_get.  What is *)
(* done under the session mutex is one step.                               *)
(***************************************************************************)
EXTENDS Naturals, FiniteSets

CONSTANTS Entities,
          EntityOrigin,  \* entity -> its _allowed_origin, a subset of {"remote", "local"}
          ReadTask,      \* the task of the runtime that delivers remote samples
          Putters,       \* application threads in z_put or z_get
          MaxDeliveries  \* bound on the samples and queries delivered

VARIABLES entityKind,   \* entity -> "subscriber", "liveliness" or "queryable"
          entityState,  \* entity -> where its declaration is
          lists,        \* _subscriptions, _liveliness_subscriptions and _local_queryable
          holders,      \* entity -> who holds a reference to it
          dropperRuns,  \* entity -> calls of its dropper
          rxCache,      \* Z_FEATURE_RX_CACHE
          lookups,      \* cache and origin -> the cached infos, or NotCached
          delivery,     \* thread -> what its trigger function looked up
          closing,      \* _z_session_close, step by step
          deliveries

subscriptionVars == <<entityKind, entityState, lists, holders, dropperRuns, rxCache, lookups, delivery, closing, deliveries>>

Deliverers == {ReadTask} \cup Putters
Origin(t) == IF t = ReadTask THEN "remote" ELSE "local"

\* _subscription_cache serves both kinds of subscribers.
CacheOf(kind) == IF kind = "queryable" THEN "_queryable_cache" ELSE "_subscription_cache"
CacheKeys     == {"_queryable_cache", "_subscription_cache"} \X {"remote", "local"}
NotCached     == {"none"}

Idle == [kind |-> "none", infos |-> {}, todo |-> {}, running |-> {}]

SubscriptionsInit ==
    /\ entityKind \in [Entities -> {"subscriber", "liveliness", "queryable"}]
    /\ entityState = [e \in Entities |-> "new"] /\ lists = {}
    /\ holders = [e \in Entities |-> {}] /\ dropperRuns = [e \in Entities |-> 0]
    /\ rxCache \in BOOLEAN /\ lookups = [k \in CacheKeys |-> NotCached]
    /\ delivery = [t \in Deliverers |-> Idle] /\ closing = "open" /\ deliveries = 0

-----------------------------------------------------------------------------
\* The references become those of rest: whoever drops the last one runs
\* _z_subscription_clear or _z_session_queryable_clear, which calls the dropper
\* and then drops the notifiers of both sync groups.
HoldersBecome(rest) ==
    /\ holders' = rest
    /\ dropperRuns' = [e \in Entities |-> dropperRuns[e] + IF holders[e] # {} /\ rest[e] = {} THEN 1 ELSE 0]

\* _z_unsafe_subscription_cache_invalidate and _z_unsafe_queryable_cache_invalidate
\* forget the infos and the references they hold.
Invalidated(cache) == [k \in CacheKeys |-> IF k[1] = cache THEN NotCached ELSE lookups[k]]
Uncached(cache)    == [e \in Entities |-> IF CacheOf(entityKind[e]) = cache THEN holders[e] \ {"cache"} ELSE holders[e]]

\* A closed session drops the entity, an open one lists it.
Refuse(e) ==
    /\ closing # "open"
    /\ entityState' = [entityState EXCEPT ![e] = "failed"]
    /\ dropperRuns' = [dropperRuns EXCEPT ![e] = @ + 1]
    /\ UNCHANGED <<lists, holders, lookups>>

List(e, others) ==
    /\ closing = "open"
    /\ entityState' = [entityState EXCEPT ![e] = "declaring"]
    /\ lists' = lists \cup {e}
    /\ HoldersBecome([others EXCEPT ![e] = {"list", "declare"}])

\* _z_register_subscription leaves the cached look-ups as they are,
RegisterSubscription(e) ==
    /\ entityKind[e] # "queryable" /\ entityState[e] = "new"
    /\ Refuse(e) \/ (List(e, holders) /\ UNCHANGED lookups)
    /\ UNCHANGED <<entityKind, rxCache, delivery, closing, deliveries>>

\* Mutation: so does the registration of a queryable.
RegisterQueryableCached(e) ==
    /\ entityKind[e] = "queryable" /\ entityState[e] = "new"
    /\ Refuse(e) \/ (List(e, holders) /\ UNCHANGED lookups)
    /\ UNCHANGED <<entityKind, rxCache, delivery, closing, deliveries>>

\* _z_register_session_queryable invalidates them.
RegisterQueryable(e) ==
    /\ entityKind[e] = "queryable" /\ entityState[e] = "new"
    /\ \/ Refuse(e)
       \/ List(e, Uncached("_queryable_cache")) /\ lookups' = Invalidated("_queryable_cache")
    /\ UNCHANGED <<entityKind, rxCache, delivery, closing, deliveries>>

\* The declaration is sent, when the entity takes remote messages.
Declared(e) ==
    /\ entityState[e] = "declaring"
    /\ entityState' = [entityState EXCEPT ![e] = "declared"]
    /\ HoldersBecome([holders EXCEPT ![e] = @ \ {"declare"}])
    /\ UNCHANGED <<entityKind, lists, rxCache, lookups, delivery, closing, deliveries>>

DeclareFails(e) ==
    /\ entityState[e] = "declaring" /\ "remote" \in EntityOrigin[e]
    /\ entityState' = [entityState EXCEPT ![e] = "withdrawing"]
    /\ UNCHANGED <<entityKind, lists, holders, dropperRuns, rxCache, lookups, delivery, closing, deliveries>>

\* _z_undeclare_subscriber, _z_undeclare_liveliness_subscriber and
\* _z_undeclare_queryable: only in an open session and for an entity still
\* listed; the undeclaration is sent before it is unregistered.
Undeclare(e) ==
    /\ entityState[e] = "declared"
    /\ IF closing = "open" /\ e \in lists
       THEN /\ entityState' = [entityState EXCEPT ![e] = "undeclaring"]
            /\ holders' = [holders EXCEPT ![e] = @ \cup {"declare"}]
       ELSE /\ entityState' = [entityState EXCEPT ![e] = "refused"]
            /\ UNCHANGED holders
    /\ UNCHANGED <<entityKind, lists, dropperRuns, rxCache, lookups, delivery, closing, deliveries>>

\* Mutation: the cache keeps its references.
UnregisterKeepsCache(e) ==
    /\ entityState[e] \in {"withdrawing", "undeclaring"} /\ "declare" \in holders[e]
    /\ entityState' = [entityState EXCEPT ![e] = IF @ = "undeclaring" THEN "unregistered" ELSE "failed"]
    /\ lists' = lists \ {e}
    /\ HoldersBecome([holders EXCEPT ![e] = @ \ {"list", "declare"}])
    /\ UNCHANGED <<entityKind, rxCache, lookups, delivery, closing, deliveries>>

\* _z_unregister_subscription and _z_unregister_session_queryable: under the
\* mutex the cache is invalidated and the list's reference dropped.
Unregister(e) ==
    LET cache == CacheOf(entityKind[e])
    IN  /\ entityState[e] \in {"withdrawing", "undeclaring"} /\ "declare" \in holders[e]
        /\ entityState' = [entityState EXCEPT ![e] = IF @ = "undeclaring" THEN "unregistered" ELSE "failed"]
        /\ lists' = lists \ {e}
        /\ lookups' = Invalidated(cache)
        /\ HoldersBecome([Uncached(cache) EXCEPT ![e] = @ \ {"list", "declare"}])
        /\ UNCHANGED <<entityKind, rxCache, delivery, closing, deliveries>>

\* Mutation: the undeclare does not wait.
UndeclareReturnsAtOnce(e) ==
    /\ entityState[e] = "unregistered"
    /\ entityState' = [entityState EXCEPT ![e] = "undeclared"]
    /\ UNCHANGED <<entityKind, lists, holders, dropperRuns, rxCache, lookups, delivery, closing, deliveries>>

\* The undeclare returns once _z_sync_group_wait on the entity's group does.
UndeclareReturns(e) ==
    /\ entityState[e] = "unregistered" /\ holders[e] = {}
    /\ entityState' = [entityState EXCEPT ![e] = "undeclared"]
    /\ UNCHANGED <<entityKind, lists, holders, dropperRuns, rxCache, lookups, delivery, closing, deliveries>>

-----------------------------------------------------------------------------
\* __unsafe_z_get_subscriptions_by_key and its sibling for queryables.
Matching(kind, origin) == {e \in lists : entityKind[e] = kind /\ origin \in EntityOrigin[e]}

\* A hit of the cache is returned as it is, a miss is looked up and cached.
GetInfos(t, kind) ==
    LET key   == <<CacheOf(kind), Origin(t)>>
        hit   == rxCache /\ lookups[key] # NotCached
        infos == IF hit THEN lookups[key] ELSE Matching(kind, Origin(t))
    IN  /\ delivery[t].kind = "none" /\ closing = "open"
        /\ deliveries < MaxDeliveries /\ deliveries' = deliveries + 1
        /\ delivery' = [delivery EXCEPT ![t] = [Idle EXCEPT !.kind = kind, !.infos = infos, !.todo = infos]]
        /\ lookups' = IF rxCache /\ ~hit THEN [lookups EXCEPT ![key] = infos] ELSE lookups
        /\ holders' = [e \in Entities |-> holders[e] \cup
               IF e \in infos THEN {t} \cup (IF rxCache THEN {"cache"} ELSE {}) ELSE {}]
        /\ UNCHANGED <<entityKind, entityState, lists, dropperRuns, rxCache, closing>>

\* _z_subscription_get_infos; tokens reach the liveliness subscribers from the
\* read task only.
TriggerSubscriptions(t) ==
    \E kind \in {"subscriber", "liveliness"} : (kind = "liveliness" => t = ReadTask) /\ GetInfos(t, kind)

\* _z_session_queryable_get_infos.
TriggerQueryables(t) == GetInfos(t, "queryable")

\* _z_trigger_subscriptions_impl and _z_trigger_queryables call one callback
\* after the other, outside the mutex,
Callback(t) ==
    /\ delivery[t].running = {}
    /\ \E e \in delivery[t].todo :
           delivery' = [delivery EXCEPT ![t].todo = @ \ {e}, ![t].running = {e}]
    /\ UNCHANGED <<entityKind, entityState, lists, holders, dropperRuns, rxCache, lookups, closing, deliveries>>

CallbackReturns(t) ==
    /\ delivery[t].running # {}
    /\ delivery' = [delivery EXCEPT ![t].running = {}]
    /\ UNCHANGED <<entityKind, entityState, lists, holders, dropperRuns, rxCache, lookups, closing, deliveries>>

\* and drop the infos at the end.
DropInfos(t) ==
    /\ delivery[t].kind # "none" /\ delivery[t].todo = {} /\ delivery[t].running = {}
    /\ HoldersBecome([e \in Entities |-> holders[e] \ {t}])
    /\ delivery' = [delivery EXCEPT ![t] = Idle]
    /\ UNCHANGED <<entityKind, entityState, lists, rxCache, lookups, closing, deliveries>>

-----------------------------------------------------------------------------
\* _z_session_close: mark the session closed, stop the runtime (which waits for
\* the read task), flush the lists, wait for the session's sync group.
CloseSession ==
    /\ closing = "open" /\ closing' = "closed"
    /\ UNCHANGED <<entityKind, entityState, lists, holders, dropperRuns, rxCache, lookups, delivery, deliveries>>

StopRuntime ==
    /\ closing = "closed" /\ delivery[ReadTask].kind = "none"
    /\ closing' = "stopped"
    /\ UNCHANGED <<entityKind, entityState, lists, holders, dropperRuns, rxCache, lookups, delivery, deliveries>>

Flush ==
    /\ closing = "stopped" /\ closing' = "flushed"
    /\ lists' = {} /\ lookups' = [k \in CacheKeys |-> NotCached]
    /\ HoldersBecome([e \in Entities |-> holders[e] \ {"list", "cache"}])
    /\ UNCHANGED <<entityKind, entityState, rxCache, delivery, deliveries>>

CloseReturns ==
    /\ closing = "flushed" /\ \A e \in Entities : holders[e] = {}
    /\ closing' = "done"
    /\ UNCHANGED <<entityKind, entityState, lists, holders, dropperRuns, rxCache, lookups, delivery, deliveries>>

EntityStep(e)   == Declared(e) \/ Unregister(e) \/ UndeclareReturns(e)
DeliveryStep(t) == Callback(t) \/ CallbackReturns(t) \/ DropInfos(t)
CloseStep       == StopRuntime \/ Flush \/ CloseReturns

SubscriptionsNext ==
    \/ \E e \in Entities : RegisterSubscription(e) \/ RegisterQueryable(e) \/ DeclareFails(e) \/ Undeclare(e) \/ EntityStep(e)
    \/ \E t \in Deliverers : DeliveryStep(t) \/ TriggerSubscriptions(t) \/ TriggerQueryables(t)
    \/ CloseSession \/ CloseStep

\* Threads are not stopped for ever and callbacks return.
SubscriptionsSpec ==
    /\ SubscriptionsInit /\ [][SubscriptionsNext]_subscriptionVars
    /\ \A e \in Entities : WF_subscriptionVars(EntityStep(e))
    /\ \A t \in Deliverers : WF_subscriptionVars(DeliveryStep(t))
    /\ WF_subscriptionVars(CloseStep)

-----------------------------------------------------------------------------
\* What the sync groups are for: once an undeclare or the close has returned, no
\* callback of the entity runs or is still to run, and its dropper has run
\* exactly once, whoever held the last reference.
QuietAfterReturn ==
    \A e \in Entities :
        /\ dropperRuns[e] <= 1
        /\ entityState[e] = "undeclared" \/ (closing = "done" /\ entityState[e] # "new")
              => /\ dropperRuns[e] = 1
                 /\ \A t \in Deliverers : e \notin delivery[t].todo \cup delivery[t].running

\* A queryable whose declaration has returned is in the infos of every later
\* query: a cached look-up is never older than a change of the list.
QueryableCacheFresh ==
    \A origin \in {"remote", "local"} :
        LET cached == lookups[<<"_queryable_cache", origin>>]
        IN  cached # NotCached => cached = Matching("queryable", origin)

\* Every undeclare and every close returns: no reference stays behind in the
\* cache, in a list or with a thread.
UndeclaresReturn ==
    /\ \A e \in Entities : []<>(entityState[e] \notin {"undeclaring", "unregistered"})
    /\ []<>(closing \in {"open", "done"})

\* primitives.h: the callback of a subscriber "will be called each time a data
\* matching the subscribed resource is received".
SubscribersCalled ==
    [][\A t \in Deliverers :
           delivery[t].kind = "none" /\ delivery'[t].kind = "subscriber"
           => {e \in Matching("subscriber", Origin(t)) : entityState[e] = "declared"} \subseteq delivery'[t].infos
      ]_subscriptionVars
=============================================================================
