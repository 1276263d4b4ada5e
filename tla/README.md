# zenoh-pico: a TLA+ verification project

zenoh-pico is a C implementation of the zenoh publish/subscribe/query protocol for
constrained devices. This directory holds TLA+ modules translated from its source
(`src/src` and `src/include`), TLC configurations that check them on small instances and
TLAPS proofs that hold for every value of the constants. `PROJECT.json` lists, for machines,
what this file says in words: components, runs, mutants, the source lines of every
definition, findings, hazards and theorems.

Contents: [inventory](#inventory) - [modules](#modules) - [runs](#runs) -
[findings](#findings) - [proofs](#proofs) - [plan](#plan) - [not modelled](#not-modelled).

## Inventory

The build modelled is the default multi-threaded one (`Z_FEATURE_MULTI_THREAD = 1`, unstable
API on). One *executor thread* per session runs every background task (read, lease, keep-alive,
accept, reconnect, query time-outs); any number of *application threads* call the API. They
meet in four places: the executor's mutex, the session mutex (`_mutex_inner`), the transport
mutexes (`_mutex_tx`, the peer mutex) and the reference counters.

| component | state it keeps | operations | hard behaviour | what makes it correct |
|---|---|---|---|---|
| executor (`runtime/executor.c`) | task pool, ready deque, sleeping heap | spawn, cancel, resume, spin, destroy | a task may cancel itself or others while it runs; heap keys change in place | no task lost, duplicated or destroyed twice; wake-ups in order; slots come back |
| priority queue (`static_pqueue_template.h`) | array heap | push, pop | both sift loops, boundary child | pops the smallest |
| background executor (`runtime/background_executor.c`) | mutex, condvar, `_waiters`, `_thread_checkers`, `_started`, `_task`, `_thread_idx` | spawn, cancel, suspend, resume, start, stop, clear | preemption by `_waiters`, lock-free test "am I the executor thread", restart over a late thread | exclusion while suspended, no self-deadlock, no lost wake-up, quiet after stop |
| reference counter (`collections/refcount.c`) | strong and weak count | clone, downgrade, upgrade, drop | upgrade races the last drop | the value is destroyed once, never under a strong handle; the counter outlives every handle |
| sync group (`collections/sync_group.c`) | closed flag, live notifiers (weak count), condvar | wait, wait_deadline, close, create and drop notifier | time-out races the last notifier; owner dropped under a notifier | a wait that succeeds means all work is done; no lost wake-up |
| cancellation token (`session/cancellation.c`) | handlers, their own notifier, result | cancel (with or without time-out), add/remove handler, get notifier | concurrent cancels, a handler that fails, registration racing a cancel | nobody's cancel returns before the work is done; each handler is called or dropped once |
| pending queries (`session/query.c`, `net/primitives.c`) | list of pending queries, consolidation caches, remaining finals | get, reply, error reply, final, time-out, cancel, undeclare querier, flush | the query is used after the session mutex is released; finals from several peers | consolidation guarantees; nothing runs after cancel returned |
| sequence numbers (`transport/utils.c`, `seqnumber.h`) | resolution mask, reorder window | precedes, increment, window accept/reset | wrap-around at every resolution, half-range comparison | agrees with the modular order; no duplicate delivered |
| unicast TX (`transport/common/tx.c`) | SN per reliability, batch buffer and count, congestion control | send, fragment, batch start/flush/stop, keep-alive | failure between SN use and link write; batch shared by peers | frames leave in SN order; no message lost except as reported |
| unicast RX (`transport/unicast/rx.c`) | last SN per reliability, defragmentation buffer and state | frame, fragment, keep-alive, close | lost, duplicated or reordered datagrams; drop marker; buffer limit | in order, at most once, fragments of one message only |
| multicast RX, lease (`transport/multicast`) | peer table keyed by address, lease countdown | join, frame, fragment, close, expiry | joins repeat, a peer restarts with new SNs | a peer expires only when silent; the table agrees with joins |
| lease, keep-alive, accept, reconnect (`transport/unicast/lease.c`, `accept.c`, `manager.c`, `net/session.c`) | `_received`/`_transmitted` flags, session state, declaration cache | expire peer, send keep-alive, accept peer, reopen | peers added and removed while tasks iterate; state changes between tasks | a live peer is never expired; a dead one is; declarations are replayed once |
| handshake (`unicast/transport.c`) | negotiated SN resolution, batch size, lease | InitSyn/Ack, OpenSyn/Ack, join | unexpected and missing answers | both sides agree on the parameters |
| resources, subscriptions, queryables (`session/resource.c`, `subscription.c`, `queryable.c`) | per-session lists, LRU cache of matches | declare, undeclare, trigger | cache must follow declarations; callbacks run outside the mutex | delivery to exactly the matching subscribers |
| interests and write filters (`session/interest.c`, `net/filtering.c`, `net/matching.c`) | remote declarations per peer, filter state, matching listeners | declare/undeclare, current-final, peer lost | updates racing puts, lost peers | a put is filtered only if nobody matches |
| liveliness (`session/liveliness.c`, `net/liveliness.c`) | local and remote tokens, pending gets | declare, undeclare, get, time-out | historical samples racing live ones | every token is announced and withdrawn once |
| channels (`collections/fifo_mt.c`, `ring_mt.c`) | bounded buffer, condvars, closed flag | push, pull, try_pull, close | full and empty, close while blocked | no element lost (fifo) or only the oldest (ring); nobody blocks for ever after close |
| advanced publisher/subscriber (`api/advanced_*.c`) | per-source sequence numbers, pending samples, recovery queries, sample cache | sample, history, heartbeat, miss notification | gaps, out-of-order and recovered samples, periodic queries | in order, no duplicate, misses reported once |
| key expressions (`session/keyexpr.c`, `keyexpr_match_template.h`) | pure | canonicalise, includes, intersects | wildcards `*`, `**`, `$*`, `@` chunks | agrees with the set of keys each expression denotes |
| serial link (`link/transport/upper/serial_protocol.c`, `codec/serial.c`) | COBS framing, CRC, connect handshake | connect, send, receive | resets and partial reads | frames survive encoding, or are dropped |
| LRU cache, hash map, containers (`collections`) | arrays and lists | insert, get, remove | eviction, tombstones | map semantics within the capacity |
| connectivity and admin space (`api/connectivity.c`, `admin_space.c`) | listeners, published state | add/remove listener, dispatch event | listener removed while its event runs | no callback after undeclare |

## Modules

Every module says in its header what it abstracts. Where steps of several threads interleave,
a step ends exactly where the code touches something another thread can see: a mutex, a
condition variable, an atomic, or data read outside its mutex. Everything between taking and
releasing a mutex is one step when all accesses to the data are under that mutex.

```
 runtime      Executor -- PQueue <- HeapPQueue --(implements)-- PQueueSpec
              BackgroundExecutor    RefCount    Channel    Locking
              SyncGroup --(implements)-- SyncGroupSpec <- Cancellation
 transport    UnicastTx + UnicastRx = UnicastTransport --(implements)-- OrderedChannel
              Multicast --(implements, per sender)-- OrderedChannel
              SnWindow --(implements)-- SeqNum     StreamFraming     Codec
 connecting   OpenSession -> PeerLinks -> Reconnect
 session      PendingQuery  Subscriptions  WriteFilter  Liveliness  Connectivity  AdminSpace  AdvancedPubSub
 containers   HashMap  LruCache  KeyExpr <- KeyExprSpec
 proofs       PQueueProofs <- ExecutorProofs (Executor, Locking)    BackgroundExecutorProofs    ExchangeProofs (PendingQuery, UnicastTx)
              CollectionsProofs (RefCount, SyncGroup, Channel, HeapPQueue)
              SessionProofs (Cancellation, Subscriptions, StreamFraming)
              ObserverProofs (WriteFilter, Connectivity, AdminSpace, Liveliness)
 TLC          MCExecutor  MCRuntime  MCSession  MCSafety  MCTransport
```

**`Executor`** - `_z_executor_t` in full: the pool (`tasks`), the ready deque, the sleeping
heap (the real array heap of `PQueue`), spin split into selection (due sleeper, ready task,
nothing to run), the run of a task function (during which the task may spawn,
cancel or resume through the same executor) and completion with each of the four results.
The hash map holding the pool is a partial function and its free list; the clock is relative to
`_epoch`.

**`PQueue`, `PQueueSpec`, `HeapPQueue`** - push and pop of `static_pqueue_template.h` with
both sift loops, each as the iteration of its turn (one comparison and swap); an abstract queue
that counts its elements and returns a smallest one; the machine that shows the first to implement
the second.

**`BackgroundExecutor`** - the executor thread (one process per generation, numbered by
`thread_idx`) and application threads, interleaved at every access to the mutex, the condition
variable and the three atomics. Tasks are abstracted to *ready* and *sleeping*; calls made by a
task function (`XCall`) take the real "am I the executor thread" test. Spurious wake-ups of the
condition variable are included, failures of the platform's primitives are not.
`BackgroundExecutorProofs` holds its theorems.

**`SyncGroup`, `SyncGroupSpec`** - `collections/sync_group.c`. A live notifier is one unit of
the weak count. Dropping a notifier is the code's sequence of upgrade, drop of the weak
reference and signal under the mutex, release of the strong reference; the owner's drop may
come between any two of them. `SyncGroupSpec` is what users rely on; `Cancellation` is built on
it instead of on the details.

**`Cancellation`** - `session/cancellation.c`. Threads that cancel (with and without deadline,
concurrently and again), operations that register a handler and a notifier in two steps, or a
notifier alone, operations that end by themselves, handlers that fail, and the drop of the
token. A reply finds its query under the session mutex (`FindQuery`) and calls back without it, and
without a notifier (`CallCallback`).

**`PendingQuery`** - `session/query.c` with the get of `net/primitives.c`. A reply is delivered
in two steps, because the code reads the query again, and calls the callback, after it released
the session mutex. Replies come from the read task and from local queryables. A query ends by
finals, time-out, cancellation, undeclaration of its querier, a failed send or the close.

**`SeqNum`, `SnWindow`** - sequence numbers as residues, the reorder window as a set of
distances (`SeqNum`, used by the transport modules), and the window as the code stores it, words
of bits with a shift over several words (`SnWindow`), which implements the former.

**`UnicastTx`** - `transport/common/tx.c` and the batching calls. Frames, batches and fragments
with their numbers; the three encoding paths of a message that does not fit into the batch; link
failures after a number was used; keep-alives; `zp_batch_start`, `flush` and `stop` whose
changes of the batching state are not under the TX mutex. Sizes are counted in units, `Cap` of
which fit into a batch.

**`UnicastRx`** - `transport/unicast/rx.c`. The order check of each reliability, the reorder
window of best-effort datagrams, the reassembly buffer with its states (null, ongoing,
overflow), the first-fragment markers.

**`UnicastTransport`, `OrderedChannel`** - sender, link and receiver together. The link is
external: a stream hands over once and in order, a datagram link loses, duplicates and reorders.
`OrderedChannel` is the abstract channel: what arrives arrives once and in order.

**`StreamFraming`** - `transport/unicast/read.c`: the bytes of a stream link, cut into receives
in every way, and the three readers (client task, peer task with its flow states, `zp_read`)
that find the batches in it. Bytes carry the low and the high part of sizes in a small base, so
a wrongly assembled size is a wrong number as in the code.

**`RefCount`** - `collections/refcount.c` and the strong and weak references of `refcount.h`, one
atomic operation a step: clone, downgrade, upgrade, drop, with the overflow check after the
increment. A reference in use by a clone or an upgrade is borrowed, so its owner does not drop it
meanwhile.

**`Channel`** - the FIFO and ring channels of `handlers.h` (`collections/fifo_mt.c`, `ring_mt.c`,
`ring.c`): blocking and non-blocking receive, a sender that waits for room, overwriting, the close
by the dropped closure, spurious wake-ups. The buffer is the code's array with two indices.

**`Subscriptions`** - `session/subscription.c`, `session/queryable.c` and their declare and
undeclare calls: the session's lists, the look-up cache of `Z_FEATURE_RX_CACHE`, the counted
references that a delivery holds outside the session mutex, and the sync groups that undeclare and
the close of the session wait on.

**`WriteFilter`** - `net/filtering.c`, `net/matching.c` and the part of `session/interest.c` that
feeds it: remote declarations stored and announced by the read task in two critical sections, a
filter that registers its interest, clones the stored declarations and replays them, local entities
that look for filters before or after they enter the list, the matching listener. An entity is a peer and
its number, and the peers count alike; the history variable `eclipsed` holds the entities that the session
does not know because another peer's entity has their number.

**`Liveliness`** - `session/liveliness.c`, `net/liveliness.c`: tokens of others told by
declarations, by the replies to a subscriber's interest and by queries; a lost and reopened
connection; the subscribers' callbacks run after the session mutex is released. Interests and queries have
numbers of their own counters (`InterestNumber`), and an answer goes to the pending query of its number;
`misread` records that it belonged to another one, or that its query had ended.

**`Connectivity`** - `api/connectivity.c`: the runtime changes the list of peers under the peer
mutex and then tells a snapshot of the listeners without it; a listener with history replays the
list under the peer mutex and registers; undeclare and the close wait for the callbacks. A client
whose router is lost tells its listeners before the list is cleared, and a listener declared in
between is told of a router that is gone (`misled`). When the router is back there is no event
(`RouterAdded`): listeners that have looked already do not learn of it (`unannounced`).

**`AdminSpace`** - `api/admin_space.c`: the four declarations of a start, in order, undone when one
fails; a stop; the close of the session beside both; the events and queries that tell an observer
of the peers.

**`AdvancedPubSub`** - `api/advanced_publisher.c`, `advanced_subscriber.c`,
`collections/advanced_cache.c`: one publisher with its cache and one subscriber with history,
recovery by query, heartbeats, periodic queries and miss notification, over a link that loses. `RunQuery` takes
the release of the subscriber's mutex and the `z_get` that follows for one step, and leaves out the failures
before the `z_get` (`advanced_subscriber.c:919-922`, out of memory).

**`Reconnect`, `PeerLinks`, `OpenSession`** - how links come and go. `OpenSession`: the locators
of `z_open`, their retries and back-off and the background task that goes on adding peers.
`PeerLinks`: the handshake of both sides, with a listener that refuses a link by a CLOSE, the accept task, the peer list, the read and lease tasks
of a listening peer. `Reconnect`: a client's read, lease and keep-alive tasks, the failure of its
transport, the reopening and the replay of the declaration cache while the application declares and
undeclares.

**`Multicast`** - `transport/multicast/`: JOIN, frames, fragments, CLOSE and leases over a link
that loses and repeats; nodes that crash and start again, also with other resolutions or another batch
size; the peer list of one observed node, in its order. A known peer whose settings have changed is dropped, and
when it was the first of the list `_peers` is left pointing at the freed entry (`freed`); a later walk
of the list gets past it, takes it for a peer or ends the process.

**`Codec`** - `protocol/codec.c` and `protocol/codec/`: every transport, network and declaration
message and extension with its encoder and decoder. A wire is a sequence of items (header with
flags, number, bytes, extension); the bytes of a variable-length number are modelled by themselves
at a smaller scale.

**`KeyExpr`, `KeyExprSpec`** - canonization (`session/keyexpr.c`) and matching
(`keyexpr_match_template.h`), against the set of keys an expression denotes; an assertion that fails in the
canonization is an outcome of its own (`ASSERTION`). **`HashMap`**
(`hashmap_template_internal.h`) against a partial function; **`LruCache`** (`lru_cache.c`).

**`Locking`** - the operations of a session as the sequences of mutexes they take, on the executor
thread and on application threads, and the callbacks they run on the way.

**MC modules** - TLC checks several components in one run: the module extends or instantiates
them, a variable (`part`, `block` or `link`) says which of them a behaviour is one of, and the
others stay in their initial states. Components whose properties are proved are extended, so that
run and theorem speak of the same definition.

## Runs

`tlc -workers 2 -config <cfg> <module>` in this directory. Bounds are named CONSTANTS of the
modules (`Max...`) and appear in guards only.

*Bounds.*

Run `executor`:

* Executor: a pool of four slots is the smallest whose heap has a grandchild, which the late
  wake-up below a cancelled sleeper needs; a pool of two slots is full early and refuses, and its
  slots are used again; four futures and two wake-up times fill both.
* Mutexes: the executor thread and two application threads, which is enough for every cycle of two
  and of three waiters over the five kinds of mutex.

Run `runtime` (about 420,000 distinct states):

* Background executor: two clients with two calls each, two tasks and one restart: a start over
  a thread that has not noticed the stop, with the other client checking or suspended, and one
  spurious wake-up.
* References: four variables, counters that overflow at three; one reference may be lost.
* Sync group: three notifiers (one may be created while the others are in different steps of
  their drop) and two waiters, every kind of wait.
* Channels: two senders and two receivers, four elements through a buffer of two, so that it fills,
  empties, overwrites and wraps.
* `z_open`: two locators, time-outs without end, none and of two back-offs. Links between peers:
  two connecting nodes, three connections, room for two peers, one fault. Reconnection: a lease of
  two ticks, two failures, one subscriber and one token.

Run `session` (about 660,000):

* Cancellation: two threads that cancel, one of them twice, two operations with a handler and one without.
* Pending queries: one query - the code treats queries independently - with each consolidation
  mode, up to two peers to answer, two delivering threads.
* Subscriptions: two entities, the read task and one putting thread, two deliveries.
* Framing: base 5 makes a size of six need both size bytes; the buffer of nine holds one large
  batch or several small ones and a part; three batches, by each of the three readers.
* Advanced: six sets of options (history, recovery, heartbeat, periodic queries, late publishers,
  timestamps instead of numbers), a cache of two and three samples.

Run `safety` (about 1,060,000, with two symmetries: the tokens' two ids; and the tokens' two keys and the two admin
callers, which are exchanged together, no part having more than one such pair):

* A window of seven distances over words of three bits has a partial last word, and the
  environment passes twice over the sixteen numbers, with jumps below, at and above a word and the
  window; six heap elements with four values give three levels and ties; two keys of the hash map
  share a bucket of two and two others a bucket of three.
* Key expressions of three chunks with at most two `**` (three reach the loop of the finding
  `keyexpr_match`), against all keys of up to three chunks; raw ones with every kind of chunk, correct or not, of one and of
  several characters.
* Replies: two keys, one with two times; two replies (the theorems are for any number). Tokens: one router, two ids, two keys, a
  subscriber with and one without history, one query that has the number of the first subscriber, one lost connection. Write filter: the
  first entities of two peers, which have the same number, and a local one. Listeners: one of transports, one of links (restricted or
  not), two changes of the peers. Admin space: two callers, two starts, two events.

Run `transport`:

* Unicast: numbers wrap at 8 and start at 6, so that every trace with three messages wraps; a
  message fills half a batch, a batch, two fragments, or exceeds the buffer; one link failure;
  two threads.
* Multicast: as a group, messages of three sizes, one restart and one fault of the link; with
  leases, three keep-alives to a lease check, and one restart with the same or other settings; two nodes that
  are restarted twice, in every order in the list. Numbers start one below the wrap.
* Codec: every message with every combination of its optional parts.

*Fairness.* Only what threads that are scheduled give: a thread that can take a step takes one
(weak fairness of each thread's steps; nothing is asked of a mutex beyond that), task functions
and user callbacks return, time passes. Two facts of the code limit
liveness and appear in the property instead of being assumed away: a `stop` that a `start` of
another client overtakes joins a thread that may never notice (`CallsReturn` excludes exactly
that), and the sender of a stream link need not send (`EveryBatchHandled` speaks of batches
sent). Faults are bounded by a constant, so in the end the links work: `TransportProceeds` says that nodes
then become linked again, and that a client without a router ends up with an open transport or a
closed one.

`CHECK_DEADLOCK FALSE` is used where the bounded program comes to rest (all calls made).

*Deviations that the properties name.* In these cases the code does less than one would expect, or than a document
says; the properties state precisely the part that holds:

* a sleeper cancelled inside the heap keeps its place with a smaller key; until such entries have
  drained the root need not be the earliest sleeper, so a wake-up may be late
  (`RootEarliestOnceDrained`), though none is lost (`QueuedRuns`);
* a task cancelled while suspended keeps its slot until the executor is destroyed;
* with consolidation "latest" two keys that share a timestamp replace each other's reply, so
  `LatestAtTheEnd` is checked, and proved, for distinct timestamps;
* a reply that has looked up its query calls back after it released the session mutex, without a notifier of the
  token (`query.c:176-181, 207-217`): the callback may begin, and use the freed query, after cancel, end or close.
  That contradicts `primitives.h:3401` (all operations are "cancelled or terminated" once cancel has succeeded),
  `docs/api.rst:496` (the drop "after every call has ended") and the test of cancellation, which expects no reply after it.
  `CancelledIsQuiet` says what holds: no query is found any more, and no operation is registered or starts;
* a message that is not an OpenAck is logged and then taken for one (`unicast/transport.c:187-199` returns OK): a node that the other side
  refuses takes the link for open with lease and numbers of a zeroed message, until the socket is closed. `LinksRight`
  allows exactly that time;
* numbers of entities are counted from 1 by every session, and the declarations of others are compared by number and type only
  (`interest.c:260, 438-444`): of two peers' first subscribers the session stores one, also when the stored one is
  of a peer that has gone, and the undeclaration of one removes the other's. A publisher created after that does not see the second
  (`FilterLetsThrough` excepts it: `eclipsed`), one created before does;
* a liveliness query and a subscriber may have the same number (`session/liveliness.c:154, 296`, `session/utils.c:87`): the answer to
  the subscriber is then given to the query and the token not stored, so that its undeclaration is one of an
  unknown token, which costs the connection; the final of the one ends the other. Replies that come after their
  query was cancelled are stored as tokens, although the comment at `session/liveliness.c:241` says that "none
  of these snapshots are persistent remote-token declarations". `TokensRight` claims nothing of the tokens after that (`misread`);
* a client's reconnection is not announced to listeners of connectivity: the router is added before the transport has its session
  (`manager.c:95`, `peer.c:191, 259`), and `connectivity.c:748` returns. Listeners keep the DELETE they were told while
  the router is connected (`ListenersRight` excepts them: `unannounced`);
* the JOIN of a known multicast peer with other settings drops the entry and discards the new head of the list (`multicast/rx.c:455`;
  the CLOSE at 538 assigns it). `ListenersKnow` holds when the entry was not the first one, and claims
  nothing of what follows a dangling head;
* canonization refuses correct expressions: what follows a chunk is looked at with it, so that `$*/ab/**` has "stars in a chunk"; and a
  chunk of one character between `**` and a star, as in `**/a/**` or `**/a/*`, makes it restart in the
  wrong place, where `assert(false)` ends the process (`keyexpr.c:340`) or, without assertions, the expression is refused. Chunks of
  one character are not looked into (`#` is accepted), and `**/$*` becomes `**/*`, which is not canonical.
  `CanonizeRight`, a part of `KeyExprsRight`, names these cases;
* a recovery query that cannot be sent is counted twice (`advanced_subscriber.c:1063`); `PendingDelivered` excepts behaviours with such a failure,
  and so does not catch it;
* an accepted best-effort fragment resets the reorder window, after which older duplicates pass
  (`LinkDelivers` excludes fragmented best-effort traffic);
* `zp_read` drops what the buffer still holds after its first batch (`Framed`);
* threads wait for each other in five uses of the API, which `OnlyKnownDeadlocks` names: a pico admin
  query beside a change of the peers, a query for the session's links in a callback under the
  peer mutex, a callback at the end of a get, a matching listener's callback that publishes, and a
  push into a full FIFO by the thread that would empty it.

Each property is paired with a mutant in `PROJECT.json`: a changed definition, as a plausible
bug in the code would change it, under which TLC reports a violation.

| run | module / cfg | expected | properties | what it shows |
|---|---|---|---|---|
| executor | `MCExecutor` / `MCExecutor.cfg` | pass | `TasksOwnedOnce`, `RootEarliestOnceDrained`, `OnlyKnownDeadlocks`, `QueuedRuns` | The executor over every sequence of spawns, cancels, resumes, sleeps and task results in pools of two and four; and the mutexes of a session: threads wait for each other only in the uses that are known for it. |
| query_monotonic | `MCSafety` / `MCSafetyMonotonic.cfg` | violation | `MonotonicInTime` | With consolidation "monotonic" an older reply is delivered after a newer one. |
| batch_stop_loses | `UnicastTransport` / `UnicastTransportStop.cfg` | violation | `BatchNotLost` | A send or keep-alive of one thread during zp_batch_stop of another discards the batch, and no call reports it. |
| stream_peer_split_size | `StreamFraming` / `StreamFramingPeer.cfg` | violation | `FragmentedDataStored` | A size split over two receives leaves flow_state PENDING_SIZE behind, and the peer's task reads the next batch from its middle. |
| runtime | `MCRuntime` / `MCRuntime.cfg` | pass | `WaitersExact`, `SuspendExcludes`, `NoSelfDeadlock`, `DroppedUnused`, `RefCountSafe`, `ClearedByTheLast`, `ReceivedInOrder`, `TransportSafe`, `CallsReturn`, `ReadyWorkRuns`, `ImplementsSyncGroup`, `WaitsEnd`, `TransportProceeds` | The concurrent building blocks and the life of transports under all interleavings: the background executor through stop, restart and suspension; strong and weak references through upgrades and overflow; the sync group, which implements its specification; channels that block, overwrite and close; z_open with its retries; links between peers from the handshake to the lease; a client transport that is lost and reopened with its declarations. |
| session | `MCSession` / `MCSession.cfg` | pass | `CancelledIsQuiet`, `HandlerDroppedOnce`, `QuietAfterReturn`, `QueryableCacheFresh`, `Framed`, `SamplesAccounted`, `QueryEnds`, `CancelEnds`, `UndeclaresReturn`, `EveryBatchHandled`, `PendingDelivered` | A session at work: gets end, concurrent cancels return when the work has stopped, undeclares and the close wait for the callbacks and return, stream batches are handled whole, and an advanced subscriber accounts for every sample. |
| safety | `MCSafety` / `MCSafety.cfg` | pass | `KeyExprsRight`, `DropperOnce`, `TokensRight`, `FilterLetsThrough`, `ListenersRight`, `AdminSpaceRight`, `StructuresImplement`, `LatestAtTheEnd` | The sequential data structures against their abstract meaning (reorder window, heap, hash map, key expressions), and what a session is told: replies, liveliness tokens, the subscribers behind a write filter and the peers that come and go; the admin space is started, stopped and closed as a whole and its observers believe what is so. |
| transport | `MCTransport` / `MCTransport.cfg` | pass | `LinkDelivers`, `SenderRight`, `CodecRight`, `LinkInOrder` | The transports from end to end: on a stream with failing sends, batching and two threads nothing is lost silently, on a datagram link that loses, duplicates and reorders nothing is delivered twice, by multicast nothing is made up and no running node is given up; the channels deliver in order; and whatever one side encodes the other decodes, extensions of another version of the protocol included. |
| keyexpr_match | `KeyExprSpec` / `KeyExprSpec.cfg` | violation | `MatchesRight` | Two key expressions, one with three "**", whose intersection is computed by a loop that does not end. |
| subscription_cache | `MCSession` / `MCSessionCache.cfg` | violation | `SubscribersCalled` | With the RX cache, a sample misses a subscriber because a look-up that is stale, or was made for liveliness subscribers, is used. |
| advanced_drop | `MCSession` / `MCSessionDrop.cfg` | violation | `NoCallAfterDrop` | The callback of an advanced subscriber is called after its dropper was. |
| lru_order | `LruCache` / `LruCache.cfg` | violation | `RecentFound` | After an eviction the sorted array of the LRU cache is out of order and a value that was just inserted is not found. |

## Findings

Each is a property taken from a comment or a doc of the repository that TLC finds violated by what the code does.

* `MonotonicInTime` (run query_monotonic, src/src/session/query.c:179): The callback is called for every mode but "latest", also when the comparison with the pending reply has set drop: an older reply is delivered after a newer one. src/include/zenoh-pico/api/constants.h:178 says of Z_CONSOLIDATION_MODE_MONOTONIC: "It is guaranteed that two replies received at t1 and t2 will have timestamp ts2 > ts1".
* `BatchNotLost` (run batch_stop_loses, src/src/api/api.c:2497): zp_batch_stop first sets _batch_state to IDLE without the TX mutex (src/src/transport/transport.c:142) and then sends the batch. A send or keep-alive of another thread in between sees no active batch, resets the write buffer (src/src/transport/common/tx.c:303) and, once sent, sets _batch_count to 0: the batch is never sent, and zp_batch_stop returns 0. src/include/zenoh-pico/api/primitives.h:3162 says "Deactivate the batching mechanism and send the currently batched on the network".
* `FragmentedDataStored` (run stream_peer_split_size, src/src/transport/unicast/read.c:273): src/src/transport/unicast/read.c:226 says "If we receive fragmented data we have to store it on a separate buffer". When a receive ends after the first of the two size bytes, flow_state becomes PENDING_SIZE; if the next receive holds the second byte and exactly the rest of the batch, the case ends with break (line 285) and neither it nor _zp_unicast_process_peer_event sets flow_state back to INACTIVE or flow_curr_size to 0. The next receive takes the low size byte of the next batch for a high byte and adds it to the stale flow_curr_size, so the stream is cut at the wrong places from then on.
* `MatchesRight` (run keyexpr_match, src/include/zenoh-pico/session/keyexpr_match_template.h:398): src/include/zenoh-pico/api/primitives.h:333 says of z_keyexpr_intersects: "``true`` if keyexprs intersect, i.e. there exists at least one key which is contained in both of the sets defined by ``l`` and ``r``", and the comment at src/include/zenoh-pico/session/keyexpr_match_template.h:389 says "every chunk of left **/L1/**/L2/**/../LN/** is matched in right in the correct order and without overlap". After a sub-expression of left is matched, lbegin is left at the "**" that follows it; from then on _z_keyexpr_get_next_double_star_chunk(lbegin, lend) returns lbegin itself, lcend falls before lcbegin, the inner loop does not run, and the outer loop repeats for ever with lbegin unchanged: "**/bb/**/cc/**" against "x/bb/y/cc/z" gets no answer. The run reaches the repeated state.
* `SubscribersCalled` (run subscription_cache, src/src/session/subscription.c:163): With Z_FEATURE_RX_CACHE, src/include/zenoh-pico/net/primitives.h:164 says "callback: The callback function that will be called each time a data matching the subscribed resource is received". _z_register_subscription adds to the list without invalidating zn->_subscription_cache (_z_register_session_queryable does it, src/src/session/queryable.c:179): the infos that an earlier sample of the key left in the cache do not hold the new subscriber, which is then not called. The key of the cache has no subscriber kind either (src/src/session/subscription.c:241).
* `NoCallAfterDrop` (run advanced_drop, src/src/api/advanced_subscriber.c:1212): src/docs/api.rst:496 says of closures "``call`` will never be called once ``drop`` has started". The drop handler of an advanced subscriber calls the user's dropper before it takes the mutex and sets _is_undeclaring (src/src/api/advanced_subscriber.c:1219), and cancels the recovery and history queries only later: a reply handled in between still delivers samples to the callback.
* `RecentFound` (run lru_order, src/src/collections/lru_cache.c:184): src/tests/z_lru_cache_test.c:138 expects of a full cache that every remaining value is found ("// Check remaining value"), and src/src/collections/lru_cache.c:163 says "Rightmost value doesn't move unless we have a new maximum". When the cache is full, detach_last has already decremented len: _z_lru_cache_find_position looks at all entries but the rightmost and may return capacity - 1 for a value smaller than it, which move_elem_slist takes for a new maximum. Capacity 3, inserting 1, 2, 4 and then 3 leaves the array as 2, 4, 3, and the bisection no longer finds 3.

## Proofs

Checked by TLAPS for all values of the constants; hypotheses on the constants are named `ASSUME`s of
the component's module, or hypotheses of the theorem, given below. Each theorem states a
definition that a run also checks on a small instance. Every proof has the same shape: an inductive invariant,
one lemma for each of its conjuncts with one step for each action, and a temporal step that combines
them.

**`BackgroundExecutorProofs`.** `Invariance` proves `Spec => []Inv`. `Inv` conjoins: the type
invariant; *MutexInv* (the mutex is held by exactly the thread whose program counter is inside
a critical section - without it two threads could be inside, and nothing else is inductive);
*CallInv* (what a client's program counter says about the call it is in and the thread it
joins); *GenInv* (generations below `_thread_idx` are finished or on their way out, the current
one is `_task`, later ones do not exist); and *CountInv* (the two counters equal the number of
threads between their increment and decrement). From it follow `SuspendExcludesAlways` (no task
runs while a client is suspended: the suspended client is counted in `_waiters`, which the
thread tests under the mutex before each task), `GenerationsSafe` (`StoppedIsQuiet`,
`NoSelfDeadlock`, `ThreadIdxStable`) and `CountersExact`. The counting part uses the cardinality
theorems of the library: each step adds or removes at most one thread from each counted set.
`DroppedUnusedAlways` needs more (*LastInv*): the client that clears is alone, and every earlier
generation has ended or is awaited by somebody, so that nobody uses what the last owner destroys.

**`PQueueProofs`, `ExecutorProofs`.** The sift loops are the one place where a theorem needs induction
over data. `Least` and `Induction` derive it from the library's `WFMin` on the naturals, as facts about *sets*
of numbers, so that no operator parameter has to be instantiated; `Loop` gives from them the run of a loop, the
function of its states after each turn, and `IterateIs` says that the definition of the model is its
last state. Each loop then has a loop invariant (*RiseInv*, *SinkInv*: in order except at the current
index, whose children fit under its parent) and a variant (the index). What results is independent of
the executor: push and pop rearrange (`Permuted`), and keep the heap in order. *In order* is `Ordered(h, key, X)`:
each element has at least its parent's key *or is in X*, because a cancelled sleeper stays in the heap with
key 0 at a place where it no longer belongs. For the executor `X` is *LeftBehind*, and that makes the order
inductive: a push may stop below such an entry, and a pop may leave one in the way, but only these
are ever out of order (`HeapInv`). With *PoolInv* (a slot is free once or occupied), *QueueInv* (the queues
hold occupied slots, none twice and none in both), *FlightInv* (a live task is in a queue, running, or
suspended, and exactly one of these) and *FutInv* (a future is in one slot or dropped once) this gives
`TasksOwnedOnceAlways` and `RootEarliestAlways`, for any pool size, number of futures and times.

Mutexes: `OnlyKnownDeadlocksAlways`, for any number of threads of the application. Invariant (*LockInv*): the steps that
are left of a thread's operation are a *path* from what the thread holds to holding nothing, along which it waits only
where it may (*MayWait*): for a mutex above all it holds (*Rank*: admin, filter, transport, peer, session), for a
recursive one it holds, or in one of the five known uses; the thread of the executor may take a filter's mutex
whatever it holds. Every operation of the code is shown to be such a path from its parts (`ClosedExecOp`,
`ClosedAppOp`), and a callback inside it too, whatever is held (`ClosedNested`). Then, of threads that wait for each other in none
of the known uses, each waits for one that waits for a higher mutex (`WaitsAbove`), and there are only
five. The exception for the executor is sound since a thread of the application that holds a filter's mutex and waits is in a callback,
which is one of the five uses.

**`CollectionsProofs`.** References: `RefCountIsSafe`, from *CountsExact* (each count is the number of
references of its kind plus those that an overflow lost, the weak count with the fake reference that
stands for all strong ones), *OneClears* (at most one reference is the last), *FreedAtZero* and
*Borrowed*. Sync group: `ClearedByTheLastAlways` and `ImplementsSyncGroupAlways`, for finitely many
notifiers; the invariant adds that nobody waits once the owner has dropped the group, and the
refinement maps the threads between signal and wake-up to waiting ones; each step is a step or a
stutter of `SyncGroupSpec`. Channels: `ReceivedInOrderAlways`, for a buffer with room for at least one
element (`HasRoom`); *HoldsNewest* says that the i-th slot from the read index holds the i-th oldest of
the newest elements, around the wrap of both indices, *GotInOrder* and *LeftOut* relate what was
received to it. Priority queue: `ImplementsPQueueAlways`, `HeapSpec => AbstractQueue!Spec` for natural keys and
any size (`NumericKeys`); the mapping counts how often each element occurs, a rearrangement does not
change the counts, and the root of a heap in order is a smallest element (*HeapOK*).

**`SessionProofs`.** Cancellation: `CancelledIsQuietAlways` and `HandlerDroppedOnceAlways`, when operations with
and without handler and the token's own notifier are different things. Invariant: the token's own
notifier lives as long as handlers may be added, so that the group cannot be closed before the handlers
have been called (*CoreWithHandlers*); a closed group has no registered operation, so that no reply finds one (`FoundStep`); each handler is
with the token, with a cancelling thread, or gone once. Subscriptions: `QuietAfterReturnAlways` and
`QueryableCacheFreshAlways`, when entities, threads and the read task are different things (`NamesDiffer`).
Invariant: an entity in the list, in the cache or in the hands of a delivering thread is one whose dropper has not
run; the reference count is not needed as a number, only that the dropper runs with the last holder.
Readers of a stream: `FramedAlways`, for bytes in any base, any buffer and any batches whose size fits into two
bytes (`StreamAssumption`). Invariant (*StreamInv*): unless a reader slipped, the bytes it holds (*Held*: unread ones
in `_zbuf`, half a size, or a size and the part of a batch in `flow_buff`, depending on the state) followed by those on
their way *encode* exactly the batches that are not handled yet. `Encodes` says this with the offset of each
batch instead of recursion, and two lemmas are all the actions need: a batch sent appends to both sides
(`EncodesMore`), a batch handled is the first of both (`EncodesNext`).

**`ExchangeProofs`.** Pending queries: `DropperOnceAlways`, without hypotheses: a query is pending, kept by the
thread that ends it, or dropped (*DropInv*). `LatestAtTheEndAlways`, where timestamps of replies are
unique (`UniqueReplies`) and the number of targets is a natural number: the cache holds, for each key
seen, the newest reply and no other; `ConsolidateRight` proves this of the consolidation itself, which
replaces one element of a sequence. Replies without a timestamp are outside this theorem: they
compare equal, and the code then may remove the wrong one.

The sender of a transport: `SenderRightAlways`, for any number of threads, messages, failures and batching
calls, any resolution of the numbers and any buffer (`SeqNumAssumption`, `UnicastTxAssumption`). Both halves
need an invariant over the points at which a send or a flush holds the mutex. Nothing is lost silently (*TxInv*):
as long as no batching call of one thread overlapped a send of another, a message that was accepted and is not
on the wire is in the buffer and counted, and batching is on or a thread is on its way to flush it (*TxQuiet*); a fragmented message is on the wire when as many of its fragments are as it has pieces. The
numbers (*TxTracked*): a nonempty buffer has the number given out last on its channel, and since the last
transport message of a channel on the wire at most *b* numbers were given out, where *b* is the failures so far or,
once calls overlapped, the messages so far, and one more for the buffer when it is due to be sent (*Tracks*). It takes one
lemma for each thing that can happen to the wire, the numbers and the buffer (`TracksSend`, `TracksTake`,
`TracksIdle`, `TracksForget`, `TracksRewrite`, `TracksWeaken`, and `TracksFragments` for a run of
fragments). While *b* is less than the number of sequence numbers, no number stands for two different transport messages next to
each other, and the receiver sees the gap a failure leaves.

**`ObserverProofs`.** Write filters: `FilterLetsThroughAlways`, for a filter that counts partial entities
(`_complete` of a replayed declaration is not initialized, so the property does not hold otherwise), and any
remote entities, pairs of a peer and a number (`EntitiesArePairs`), whose numbers may coincide. Invariant: from the clone of the stored declarations on, an entity a peer has declared
is a target of the filter, or its callback is still to run, or it is among those to replay, or it is eclipsed
(*TargetInv*); what a peer has declared is stored, or eclipsed, or known to the filter (*StoredInv*); a message whose callbacks have
still to run says what is so (*ReadInv*); the local count covers the local entities that believe
they are counted (*LocalInv*).

Connectivity: `ListenersRightAlways`, when the value for "none" is not a listener, a peer
or a snapshot (`NothingDiffers`). Invariant: events that wait to be dispatched tell what is so, since
nothing changes before they are (*EventInv*); a listener that replays the list, and has not lost the
peer mutex to the clearing of a client's transport, knows of exactly the connected peers it is
not still to be told of (*BeforeInv*), unless it had looked when a client's router came back; a registered one believes what is so, or an event that concerns it
is pending (*ViewInv*); the snapshot keeps alive whom the runtime calls (*CallInv*, *SnapshotInv*), and
a closed session has no callback left (*ClosedInv*).

Admin space: `AdminSpaceRightAlways`, when the value for "no thread" is not a thread (`AdminAssumption`). Invariant: the
mutex is held by the thread that starts, stops or undoes (*HolderInv*); while the session is open, the ids and the
entries are *exactly* those its operation has got to, the kinds not left to do of a start and the kinds left to do
of a stop, but for the queryable whose declaration is being sent, and the one whose undeclaration could not be
(*WholeInv*); a closed session declares nothing more, and a start that is still under way when the ids are cleared has
not declared anything (*UniqueInv*, *ClosingInv*). For the observer: an observer in step keeps the admin space running,
since a stop ends that, and a query that has not read the peers yet has not been overtaken (*SyncInv*); it is right
about a peer, or will be once its own reply is in, or an event is coming that some listener gets
(*AdminViewInv*, *DueInv*).

Liveliness: `TokensRightAlways`, for a client, which has one router (`OneRouter`), finitely many token ids,
values for "no key" and "no interest" that are neither, and numbers that each of the two counters gives once; a subscriber's
and a query's may be the same (`LivelinessAssumption`). That a query is dropped once does not depend on who ends it. For the rest, until an answer is misread: what
the router has declared to this session is what it has, once it was asked (*RouterInv*), and the messages on their way *lead*, each from the
tokens before it to those after it, from the tokens the session knows to those the router has declared to it (*WireInv*): a key is
declared under a free id and under no other, an id that is undeclared has a key, and an answer to an interest repeats
what is so. `LeadTo` says it with the token maps between the messages instead of recursion; a message sent extends the
path at its end (`LeadToMore`), a message read takes its first step. Samples that wait tell what is so
(*TriggerInv*), since the read task handles nothing else before they are told; a subscriber has been told of every key what
is so, or a sample waits, or the key is in its clone of the tokens (*SubscriberInv*); a query's dropper
runs when the query ends, and no undeclaration is of an unknown token (*EndedInv*).

**What stays with TLC.** Liveness (`CallsReturn`, `ReadyWorkRuns`, `QueuedRuns`, `WaitsEnd`, `QueryEnds`,
`CancelEnds`, `UndeclaresReturn`, `EveryBatchHandled`, `PendingDelivered`, `TransportProceeds`): fairness
and ENABLED are outside the prover's reach. What recursion over data computes, other than the heap's loops:
key expressions, the codec, the chains of the hash map, the reorder window's shift over words; each would
need its own loop invariant, as the heap did. The end-to-end properties of
the transports (`LinkDelivers`, `LinkInOrder`), `SamplesAccounted`
and `TransportSafe` are within reach in principle and not proved yet.

## Plan

Order: what everything else runs on first, then the message path, then the session.

Modelled: the runtime (executor, background executor, reference counters, sync group, channels,
cancellation, mutexes), the message path (sequence numbers, unicast TX and RX, stream framing,
multicast, codec), the life of links (`z_open`, handshake, accept, leases, reconnection), the session
(pending queries, subscriptions and queryables, interests and write filters, liveliness,
connectivity events, admin space, advanced publisher and subscriber), and the containers (heap, hash map,
LRU cache, key expressions).

Runs are kept few: a component joins an existing run (see *MC modules* above).

Proved: see the previous section. Next, in this order:

1. The safety part of `UnicastTransport` implementing `OrderedChannel`, for every resolution and batch
   size: an invariant that relates the numbers in flight to those of both ends.

Worth modelling when the code around them changes: resources (`session/resource.c`), the serial
link's framing, the raw Ethernet transport.

## Not modelled

Parts left out:

* The platform layers (`system/*`, `link/transport/*`), socket options, TLS and WebTransport
  streams: pure I/O, different for each target; models take their mutexes, condition variables,
  clocks and sockets as given.
* Raw Ethernet (`transport/raweth`): an alternative link and transport outside the default build.
* API wrappers (`api/api.c`, macros) beyond the calls that change modelled state, scouting,
  serialization, encodings, JSON, UUID, time ranges, configuration and endpoint parsing:
  conversions without state of their own.
* Resources (`session/resource.c`): key expressions of declared resources are taken as resolved.
* The serial link's COBS framing and CRC; inside the codec, the bytes of strings and payloads.
* Allocation failures, except where a bounded container refuses. Some paths are known to be wrong then
  (the peer mutex stays locked in `unicast/peer.c:203` and `unicast/read.c:344`; a push of an empty list
  element).

Behaviour seen while modelling that no property is about:

* Transport: sends of the application do not take the transport mutex while a failed transport is
  cleared; the mutex options for batches take the TX and the peer mutex in the opposite order of
  a send; a flush of the shared batch by a send to one peer reaches that peer only.
* Multicast: a JOIN reads the numbers without the TX mutex; a JOIN of a known peer rewinds its numbers
  and forgets the reorder window; one JOIN of a new peer with other settings reopens the whole transport;
  peers with longer leases can be given up; entries are compared by the zid, so that a CLOSE of a node that is
  listed under two addresses drops the newer entry; neither it nor a dropped entry is told to the interests.
* Opening: two peers that open each other wait for accept tasks that start later; nothing removes a second
  link to the same peer; values agreed in the handshake are not applied by the acceptor; a peer lost in
  peer mode is not connected to again.
* Session: `_complete` of a replayed declaration is not initialized; a lost unicast peer produces no
  liveliness DELETE; a liveliness query's time-out is not used; an undeclare
  from within its own callback waits for itself; an id counter of resources wraps at 16 bits.
* Admin space: an undeclaration whose send failed leaves the id behind, so that a later start does
  nothing and a later stop fails.
* Codec: the attachment of a DELETE is not encoded; the decoder of replies refuses any extension; source
  info with an all-zero id cannot be decoded.
