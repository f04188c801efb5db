# howk: a TLA+ model of the webhook delivery system

howk accepts webhooks over HTTP, queues them in Kafka, delivers them to the
customers' endpoints and retries what fails. Kafka holds the durable state,
Redis ("hot state") everything that is looked up while a webhook is handled.
This directory holds TLA+ models of its concurrent parts, the TLC configurations
that check them on small instances, and TLAPS proofs of their main invariants.
All paths below are relative to `src/`.

## The system

| Component | Code | State it keeps | Operations |
|---|---|---|---|
| API | `internal/api` | none | `processEnqueue`: publish to `howk.pending`, then write the initial status; batches; scripts CRUD; statistics; incoming transformers |
| Kafka consumer | `internal/broker/kafka.go` | per partition: key channels, their workers, `offsetTracker`; at the broker: the committed offset | `ConsumeClaim`, `run`, `keyWorker`, `MarkCompleted`, `MarkOffset`, rebalance and shutdown |
| Worker, slow worker | `internal/worker` | none of its own; writes Redis and Kafka | `processMessage`: idempotency key, circuit, two gates, script, delivery, then result, retry, exhaustion or DLQ |
| Retry store | `internal/hotstate/redis.go` | ZSET of `id:attempt`, `retry_data:id`, `processed:id:attempt` | `EnsureRetryData`, `ScheduleRetry`, `PopAndLockRetries`, `GetRetryData`, `AckRetry`, `DeleteRetryData` |
| Scheduler | `internal/scheduler` | none | `processBatch`: pop and lock, fetch, publish, acknowledge |
| Circuit breaker | `internal/hotstate/redis.go` | one record per endpoint, a probe lock | `ShouldAllow`, `RecordSuccess`, `RecordFailure` |
| Concurrency gates | `internal/worker`, `internal/delivery/limiter.go` | counters per endpoint and per domain, with a TTL | INCR/EXPIRE, floor-zero DECR, diversion to `howk.slow` |
| State topic, reconciler | `internal/worker`, `internal/reconciler` | compacted topic `howk.state`, status hashes, canary | snapshots and tombstones, `FlushForRebuild`, replay, `SetStatus` (last write wins) |
| Scripts | `internal/script`, `api/h_script.go` | compacted topic `howk.scripts`, Redis mirror, a `Loader` in every process | upload, delete, `Replay`, `EnsureScript`, `Execute` |
| Script modules | `internal/script/modules` | response cache and single-flight group of the http module | `http.get` and its siblings, `kv` |
| Transformers | `internal/transformer`, `api/h_incoming.go` | script registry, reloaded on a signal; pool of Lua states | `Reload`, `handleIncoming`, `Execute`, `howk.post` |
| Development mode | `internal/devmode` | in-memory broker: channels and a capped history per topic | `Publish`, `Subscribe`, `Replay`, `Close` |

How they interact: the API publishes and a consumer session hands the message to
a handler. The handler talks to Redis many times, with no lock over them, and
ends by returning nil (the offset is marked) or an error (it is not). Retries go
through Redis to the scheduler, and from there back to `howk.pending`. Several
processes of each kind run side by side; each can die at any point.

What is hard in it:

* messages are redelivered, in two sessions at once after a rebalance, and a
  handler may outlive its session;
* the idempotency key is set before the work it stands for;
* the handler's Redis and Kafka calls interleave with those of other workers and
  schedulers, and each can fail on its own;
* circuit records are read in one round trip and written in another;
* gates count first and look afterwards, and their releases can be lost;
* state records are written by goroutines nobody waits for, while the rebuild
  relies on their order and on compaction;
* a script lives in four places (topic, Redis, the API's and each worker's
  memory), written by requests, by replays and by lookups that race;
* an incoming request gives up on a script that goes on running, in a Lua state
  and with HTTP requests it shares with others.

`PROJECT.json` lists every hazard with its line and the properties aimed at it.

## Modules

Each component has one module; `AtLeastOnce` and `FanOut` state what two of them
promise; an `MC` module holds its constant definitions for
TLC, a `Proofs` module its theorems (`TransformerProofs` those of HttpModule too).
Every remote call that another process can
observe is an action of its own. What may go wrong is a constant (`Faults`,
`RedisFaults`), so that a run says exactly under which failures a property
holds.

### PartitionConsumer

One partition. `logEnd` and `committed` are the broker's side; `marked` is the
session's flush buffer; `phase`, `fetchPos` and `hold` are `run`; `queue` and
`busy` are key channels and the goroutines reading them; `lowestPending` and
`completed` are the `offsetTracker`. `ConsumeClaim` begins a session at
`ClaimOffset` (sarama starts at the newest offset when nothing is committed) and
seeds the tracker with `claim.InitialOffset()`. `HandlerOk` is the handler's nil
together with `MarkCompleted` under its mutex; `MarkOffset` is separate because it comes after the
unlock. `Cancel`, `CloseChannels`, `Return` and `Crash` end sessions; workers of
an ended session stay in `busy`, and their marks no longer count.

`AtLeastOnce` is the promise in three variables: what is published, what is
committed, what has been handled; a message is handed out after it is published
and is committed once handled. `ImplementsAtLeastOnce` instantiates it with
`published <- logEnd` and `base <- groupStart` (where the group began).

### WebhookDelivery

The API, workers of both lanes, the retry store and schedulers. `topic` is the
set of uncommitted messages, the interface PartitionConsumer justifies: a
message can be received again until it is committed, also by two workers at
once. `pc[w]` walks through `processMessage`; `zset` has each reference absent,
waiting or locked (the visibility timeout of `PopAndLockRetries`). Time is
abstract: a waiting reference may be due and a lock may lapse at any moment. The
outcomes of circuit, gates and script are choices. A failed Redis write is taken
as not applied; a lost reply to an applied one is the fault `ack` for the
acknowledgement, where it matters. The bound `PublishBound` caps messages ever
published.

### CircuitBreaker

One endpoint, any number of workers. Each Redis round trip of `ShouldAllow`,
`RecordSuccess` and `RecordFailure` is a step; `watch[w]` is "touched" when the
key is written or expires between WATCH and EXEC. Timestamps are kept as the time
left until the comparison the code makes with them turns true; the time between
`now` and the reply of the GET is taken as none. `failures` is
capped at its threshold, with which alone it is compared. A worker may `Get` at any
time, which stands for a webhook of the endpoint that arrives. One the circuit has
denied is not checked again when it returns from the retry queue (see
`WebhookDelivery_circuit`), so new ones have to arrive for the circuit to move.
`ProbeSent` and `EndpointRecovers` state that as a hypothesis, `Arrivals`.

### ConcurrencyGate

The domain limiter and the inflight counter as `processMessage` passes them,
including the path where diversion fails and the inflight slot is taken without
a check, and the two deferred releases. `held` is what the deferred functions
will give back, `owns` (history) is what the worker's own INCR really stands in;
they differ when a Redis error was misread. All endpoints are in one
domain. Faults that can make a counter wrong are counted in `faults`: a failed INCR
that is reported as taken (`incr`), a decrement that is not applied (`decr`) or,
because the client repeats it after a lost reply, applied twice (`repeat`), a
crash, and a handler that outlasts the TTL (`slow`).

### Recovery

The records of `howk.state` with compaction, the goroutines that write them
(`publishing`), the last-write-wins status, and the reconciler: canary and flush
pattern by pattern, then each partition up to the high-water mark read at its start,
then the canary. A deletion that fails does not stop the flush: the error is collected
(`failed`), the other patterns are deleted all the same, and `Flushed` ends the run.
The failure may be that of the canary (fault `canary`), of a pattern (`flush`), or an
error that ends a SCAN and is never looked at (`scan`). `die` is a reconciler that is
cancelled, crashes or cannot list the partitions. `ScheduleForCircuit` is the
`EnsureRetryData` and `ScheduleRetry` of a webhook the circuit denies, a step after its
idempotency key; each may fail. `Stop` is the operator stopping workers and scheduler (after their
handlers and publishing goroutines have ended), which the fault `concurrent` lets
him omit. Clocks of the processes are synchronised: one `clock` gives all
timestamps. The retry data TTL is positive here, and script errors are left to
WebhookDelivery.

A webhook can come to have two lives, which the history variable `doubled` records.
A rebuild restores the retry of a snapshot whose message still waits in
`howk.pending`; and a handler that has scheduled a retry and not yet written its
status can be overtaken by that retry in another worker. Either life may then write
status, snapshot and tombstone after the other, so `Reconstructible`,
`NothingReplayed` and `StatusAgrees` speak of the other webhooks; `NothingLost`
speaks of all.

### ScriptSync

`log` and `kept` are the topic and what compaction has left of it, `redis` the
mirror, `loader[p]` the map of each process, `pos` and `mid` its replay, which
writes the Loader first and Redis in a step of its own. A script is known by the
offset of its record. A handler `h[r]` is a request (upload, delete, enqueue) or a
message in a worker; `Lookup` is the exact id and then the namespace, in the
Loader and in Redis alike. A worker runs the script its Loader has when it runs
it, not the one whose hash the webhook carries. `late[p]` marks the entries that
were last written by a request instead of the replay: those may be out of date
until the next record of their id, the price of the write-behind in
`handleUploadScript` and of the cold-start fill. Each config id has a partition of
its own, which allows more orders than real partitions do.

### MemBroker

Channels with `ChannelBuffer` places and histories with `HistoryLimit`, both far
smaller than in the code and both full in the run. `TopicFor` is the topic each
method of `MemWebhookPublisher` uses. A goroutine (`st`) reads its `snapshot`
first, then its channel `ch`. `FanOut` is the promise: each subscriber has a
growing, strictly increasing sequence of publications that are handed to it one by
one. `ImplementsFanOut` maps that sequence to what was handed over, the rest of
the snapshot and the channel.

### HttpModule and Transformer

HttpModule is the http module: allowlists, cache keys, `getCached`, the
single-flight group (`flight`: who runs a key's request, and its response on the
way), `setCached`, and calls that change the resource. A response is the version
of the resource it was read from. Transformer EXTENDS it: the callers are the
goroutines of its requests. `req[r]` is the HTTP handler, `go[r]` the goroutine of
`Execute`, `chan[r]` its two channels, `done` the expired contexts, `pool` and
`loaded` the Lua states and what they have in `package.loaded`. What a script does
is a choice at every step, among the functions `Uses[r]`. Files may change at any
time, so a reload finds any of `Files`; it is one step, the swap of the map.
`howk.post`, `http` and `kv` calls use contexts of their own and return before
the Lua machine looks at the script's.

## Runs

Run them with `tlc -config <name>.cfg <module>`.

| Run | Shows | Size (distinct states) |
|---|---|---|
| `PartitionConsumer_safety` | `NoMessageSkipped`, `KeyOrder`, `CommitNeverRegresses`, `ImplementsAtLeastOnce`, and `EventuallyCommitted` when no handler fails | 51,701 |
| `WebhookDelivery_idempotent` | `AttemptSentOnce`, `NothingAfterDelivery`: under every fault except those of the idempotency key, no attempt is sent twice and nothing happens after a 2xx | 163,000 |
| `WebhookDelivery_noloss` | `NoLoss`, `NoOrphanData`: broker errors, lost acknowledgements, scheduler crashes and an idempotency key that fails open or expires lose nothing and leave nothing behind | 985,010 |
| `WebhookDelivery_settle` | `EventuallySettled` without faults, through two retries | 601 |
| `CircuitBreaker_safety` | `CountsConsistent`, and `ProbeSent` while webhooks arrive, with Redis errors on reads and writes, for a key that never expires (its expiry would close the circuit and make `ProbeSent` easy; the theorem has `CountsConsistent` for every TTL) | 341,104 |
| `ConcurrencyGate_limit` | `LimitRespected`, `NeverUndercounts` with crashes and failed decrements | 289,712 |
| `ConcurrencyGate_quiet` | `CountsExact` until a fault occurs (failed diversions included), `QuietLeakCorrected` under every fault | 34,865 |
| `Recovery_stopped` | `NothingLost`, `Reconstructible`, `StatusAgrees`, `NothingReplayed` for the documented procedure, with a rebuild that fails in the flush, is cut off anywhere, and is repeated | 2,793,168 |
| `Recovery_online` | `ReplayKeepsNewer`: beside running workers, under every fault but `reorder`, the replay never replaces the final status of a webhook settled after the flush | 809,196 |
| `ScriptSync_replay` | `ReplayExact`, `AckedScriptApplied`, `EventuallyLearned` under crashes, broken replays, Redis errors, a flushed Redis, compaction and failed deliveries | 1,094,776 |
| `MemBroker_fanout` | `NoneMissed`, `ImplementsFanOut`, `AcceptedIsHandled`, with full buffers, a full history, `Close` and shutdown at any time | 33,996 |
| `Transformer_incoming` | `StateExclusive`, `ListedExact`, `AuthorisedRun`, `MonotonicReads`, `Settled`, with reloads, timeouts, endless scripts and ambiguous publishes | 217,648 |

Each module's `TypeOK` is checked in one of its passing runs.

Why the bounds suffice. A gap in the window needs two messages completed out of
order, a rebalance two sessions, key order two messages of one key around one of
another: three offsets, two keys, two sessions. A webhook needs one retry to have
its attempt number, its retry data and its reference race with themselves; two
workers make every pair of handlers meet (and two schedulers, in
`WebhookDelivery_idempotent`; in `WebhookDelivery_noloss` there is one, which meets
its own earlier batches through lapsed locks and crashes), and three published
messages leave room for a duplicate beside the retry. Circuit thresholds of 2
are the smallest at which "below", "at" and "above" differ, and two workers make
each transaction lose. Two workers on one endpoint and a third on the other make
both gates full at once. Two webhooks in one partition give the log a record in
front of and behind each record; two retries and two workers let a handler be
overtaken by the retry it scheduled and let a rebuild double one; two runs of the reconciler allow one to be
cut off and repeated. A script needs a second record (a new version or a tombstone)
and a namespace beside its own id, one API process and one worker, and a retry to
be transformed twice. One follower and one replayer, four messages, two places in
a buffer and in the history make both overflow. Two requests, one of which makes
two uncached reads while the other changes, caches and posts, make every pair of
calls meet; a second script that is absent gives the 404. The versions of the
resource stop at two, which is what "older than seen" needs. `ClockBound`, `FaultBound`, `FailBound`, `MaxSessions` and
`AttemptBound` only cut behaviours off. CHECK_DEADLOCK is off where such a bound,
or a settled webhook, ends a behaviour.

Symmetry is used in the two larger runs of WebhookDelivery, in
`ConcurrencyGate_limit` and in `Recovery_stopped`, over workers, schedulers, webhooks and endpoints, none of
which the specification orders; never together with liveness.

Fairness. Handlers, schedulers and the reconciler are goroutines that are never
disabled for ever by others, so their steps are weakly fair, as are the passage
of time and the expiry of keys and locks. `ConsumeClaim`, `Receive`, `Send`,
`StartHandler` and `AutoCommit` are weakly fair because `Subscribe` rejoins in a
loop and sarama flushes on a timer; a session is never obliged to end. Strong
fairness occurs twice. A message whose handler returns nil again and again is
committed in the end (`Committed`; the model lets a session end before each
commit, and PartitionConsumer shows that one that lasts does commit). And a worker
that records results again and again does not lose the race to EXEC every time.
In ScriptSync only the replay goroutines are fair; a request may hang for ever. In
MemBroker the loops are fair because handlers return. In Transformer a waiting
caller and a running goroutine are: timers fire, and the calls to Kafka, Redis and
HTTP servers have timeouts of their own or, for the publish, return. A script is
never obliged to end (`Loop`).
Nothing in a specification's fairness obliges webhooks to arrive, an endpoint to recover or a fault to occur; where a property needs the first two, it says so
itself (`Arrivals => ...`, `<>[](endpoint = "up") => ...`).

## Proofs

Checked with `tlapm <module>.tla`, for all values of the constants that satisfy
the named assumptions of the modules (bounds are naturals, thresholds and
intervals are positive, fault sets are subsets of the named ones).

* **PartitionConsumerProofs.** `TypeCorrect`. `CommitMonotone`: `committed` never
  falls: a session starts with its mark at the committed offset and only raises it.
  `NoLossAcrossSessions`: if the group starts with a committed offset then
  `NoMessageSkipped` always holds. It is not inductive: `SkipInv` adds that
  everything below `lowestPending`, below `marked` and below the target of a worker
  about to mark has been handled, and so has everything in `completed`. The
  hypothesis cannot be dropped (see *A fresh group* below).
  `RefinesAtLeastOnce`: under the same hypothesis the consumer implements
  `AtLeastOnce`. Initial states map to initial states, and with `SkipInv` every
  step is a publication, a handling, a commit or a stutter.
  `KeysInOrder`: `KeyOrder` always holds. `LineInv` describes the queue of each key
  of the current session as one line: what run holds is the last message received
  (`HoldInv`), a channel holds increasing offsets of its own key, all received
  before that (`QueueInv`), and a busy worker is on an earlier offset than its
  channel and alone on its key (`BusyInv`). `FreshInv` adds that sessions to come
  have left nothing behind.
* **WebhookDeliveryProofs.** `TypeCorrect`. `NeverLost`: without the faults that
  lose webhooks (`crash`, `circuit`, `capacity`, `redis`, `getdata`, `dlq`) and
  with a positive `RetryDataTTL`, `NoLoss` always holds, for any number of
  webhooks, workers and schedulers and with fail-open idempotency. `LossInv` says
  where each reference can be: what a handler past its idempotency check knows
  (`HandlerInv`); that a processed reference is carried on by a handler, a later
  attempt or an outcome (`ProcessedInv`); that one a scheduler is about to
  acknowledge is in the topic or carried on (`PublishedInv`); and that the first
  attempt of an accepted webhook is too (`AcceptedInv`).
  If the idempotency key neither fails open nor
  expires (`KeyReliable`), then `SentOnce` and `SilentAfterDelivery`: the properties
  `AttemptSentOnce` and `NothingAfterDelivery` hold under every other fault,
  redelivery to two workers and crashes included. `IdemInv` ties each send to the
  key: a worker about to send alone holds the key of an attempt not yet sent, and
  what was sent has its key (`SendInv`); an attempt is around, in a topic, the ZSET
  or somebody's hands, only after the earlier ones are finished (`OrderInv`);
  whatever is around of a delivered webhook is finished (`DeliveredInv`); and only
  what the API accepted is around (`KnownInv`).
  `DataCleaned`: `NoOrphanData` holds under every fault but the four that keep a
  handler from the deletion or let it store data that another attempt has made
  useless (`crash`, `circuit`, `cleanup`, `script`), key failures included.
  `OrphanInv` follows each webhook whose attempts were sent at most once
  (`Ordered`): one handler at a time concludes an attempt, and before the next one is
  out; once a handler has found that nothing is to follow, whatever is still out was
  sent, nobody stores data, and while there is data some handler is about to delete
  it. `AttemptsLimited`: `AttemptsBounded`, which no run checks, unless a script fails; `BoundInv` has the
  limit of every attempt in a topic, a handler, the ZSET or a scheduler's batch.
* **CircuitBreakerProofs.** `TypeCorrect` and `CountsAlwaysConsistent`. What
  workers are about to write can replace the stored record at any later time, so
  the invariant has to hold of the records in flight too (`InFlightFit`).
* **ConcurrencyGateProofs.** `TypeCorrect`. `CountersNeverUndercount`: if INCR
  does not fail, no decrement is applied twice and no handler outlasts the TTL
  (`SlotsReliable`), every counter is at least the number of workers in it. `CountInv` adds that a deferred release is only owed
  for a slot the worker stands in (`ClaimInv`), which is what makes a decrement
  safe. `LimitsHold`: if diversion works too (`Reliable`), the limits
  hold; `LimitInv` adds that an INCR that stands was admitted or is about to be taken
  back (`AdmitInv`), and that the admitted never outnumber the limit: each was
  admitted at a count that covered all before it. `CountersExact`: until a fault
  occurs, `CountsExact` holds; `ExactInv` adds that what a deferred release owes is
  exactly what the worker stands in, but for the slot it is about to take back
  (`ExactClaims`).
* **RecoveryProofs.** `TypeCorrect`; besides `TypeOK` it needs that a retry is only
  prepared while attempts are left and that only an outcome settles a webhook
  (`HandlerInv`). `NewerKept`: if records do not overtake each other (no `reorder`),
  `ReplayKeepsNewer` holds under every other fault, with workers running beside the
  rebuild. `StampInv` says that no timestamp is ahead of the clock and that no
  snapshot, written or about to be, is newer than a final status of its webhook.

  `NoWebhookLost`: `NothingLost` under `die`, `flush`, `reorder`, `lag` and `lateapi`
  (`Tolerated`): a reconciler that stops anywhere, or whose deletions of keys other
  than the canary fail, leaves Redis without a canary. Each other fault loses a
  webhook or leaves one without a record (see below); `canary` and `scan` are the
  two ways in which a flush that went wrong ends under a canary, left there by a
  failed deletion or set although idempotency keys are left. `LossInv` has what Kafka alone still knows of every unsettled webhook, a
  message or a record that compaction keeps (`KafkaInv`); that while the canary is
  set each is alive in a message, a handler or a usable retry (`AliveInv`); and that
  during a rebuild each is alive, restored or still to be read (`RebuildInv`).

  `Rebuildable` and `NothingRevived`: `Reconstructible` and `NothingReplayed` under
  `die`, `flush`, `scan`, `partition`, `restore` and `lateapi` (`Orderly`): what a rebuild leaves out is
  not revived either. `LifeInv` says of every webhook that is not doubled that it has
  one message or retry or one handler, and both only between the handler's
  `ScheduleRetry` and its `updateStatus` (`OneLife`); that what waits was not tried
  (`Untried`); that a last record, written or on its way, that is a snapshot is of an
  attempt still to be made, and that a retry in Redis has one, but for the record a
  handler is about to write (`SnapshotGood`, `RetrySnapshot`). `ReplayInv` adds that the
  reconciler restores only last records. `StampInv` gives the order of two records of
  a webhook that goroutines have yet to write.

  `StatusNotBehind`: `StatusAgrees` under `die`, `flush`, `partition` and `restore`
  (`Prompt`). `StatusInv` adds that a webhook whose initial status is to be written has
  only its message (`UnstartedInv`), that a flush without an error has emptied the
  retry queue, and that after it a status is gone or
  restored, or of a webhook without a record (`RewriteInv`), so that a restored
  snapshot is not turned away as older than what is there.
* **ScriptSyncProofs.** `ReplayIsExact`: if the broker never drops the last
  tombstone of an id (`retention`), `ReplayExact` holds for any number of processes,
  ids and faults of the other kinds. `ReplayInv` adds what `ReplayExact` says of a
  replay that is still on its way: the newest record of an id is never compacted
  away (`NewestKept`), positions and offsets are within the log (`InLog`), and an
  entry no request has touched is that of the last record read, unless the replay
  has been started again and an unread one is still to come (`Applied`).
  `TypeCorrect`. `AcknowledgedApplied`: `AckedScriptApplied` under every fault, for
  any number of processes, ids and requests. `ServedInv` says that an acknowledged
  script is in Redis unless it was deleted or Redis lost it, that a webhook tagged for
  one carries its tag wherever it is, and that a worker that must find a script has
  found it, in its Loader or in Redis, by the time it runs it.
* **MemBrokerProofs.** `RefinesFanOut`: the broker implements `FanOut` for any
  number of topics, subscribers and messages and any buffer size. `BrokerInv` adds
  that what is due to a subscriber is strictly increasing and ends before the next
  publication, that the history is the beginning of the topic, and that a goroutine
  that has not started has nothing. `NothingMissed`: `NoneMissed` always holds;
  `MissInv` says of every goroutine that each message of its topic is due, was dropped
  at the full channel, or is older than the subscription (`Accounted`).
  `TypeCorrect`: no channel and no history grows past its limit.
* **TransformerProofs.** `TypeCorrect`. `StatesExclusive`: a Lua state is in the pool
  or with one goroutine, also when the request was answered 504 and its goroutine
  goes on. `Authorised`: the script that runs is the one whose credentials were
  checked (`AuthInv`). `AnswersExact`: `ListedExact`; `ListInv` has it of what a
  goroutine has collected so far, and that it publishes nothing after it has sent its
  outcome. `ReadsMonotonic`:
  `MonotonicReads` if the headers of every request have one order (`OneOrder`, which
  cannot be dropped: `Transformer_orders`). `MonoInv` adds that a shared request has
  one leader, that what was seen of a resource is no newer than the server and than a
  response on its way, and that a call joins with a floor that was seen by then.

Left to TLC: the seven properties about what must eventually happen
(`EventuallyCommitted`, `EventuallySettled`, `ProbeSent`, `QuietLeakCorrected`,
`EventuallyLearned`, `AcceptedIsHandled`, `Settled`), since liveness under fairness is
out of the prover's reach. Every other property of the runs has a theorem. The one
induction over numbers the proofs need, for the first and last of the directories
a script is found in, goes through the least counterexample (`NatLeast`), as the
library's induction theorems cannot be instantiated.

## Where the code and its documentation disagree

Found while modelling. Each of these has a configuration of its own here, on which
TLC reports the named property violated. They are kept beside the runs, to be turned
into passing ones when the code or its documentation changes.

| Configuration | Property | What the code does |
|---|---|---|
| `WebhookDelivery_circuit` | `EventuallySettled` | A webhook the circuit denies is scheduled under the attempt whose idempotency key was just set, and skipped when it comes back |
| `CircuitBreaker_stale` | `OpenHolds` | The probe-lock winner saves, outside a transaction, the half-open record it read before another worker reopened the circuit |
| `Recovery_hang` | `Completes` | A tombstone is skipped past the high-water-mark check; a partition that ends with one is never finished |
| `WebhookDelivery_ttlzero` | `EventuallySettled` | `RetryDataTTL` has no default; at 0 the second `EnsureRetryData` expires the data at once |
| `WebhookDelivery_crash` | `NoLoss` | A worker that dies between the idempotency key and the delivery loses the webhook |
| `PartitionConsumer_fresh` | `NoMessageSkipped` | *A fresh group*: the tracker is seeded with the symbolic offset -1, no contiguous prefix ever forms, nothing is committed, and the next session starts at the newest offset |
| `PartitionConsumer_samekey` | `SameKeySequential` | After the channels were closed, a message still held gets a new channel and worker beside the old one |
| `CircuitBreaker_stuck` | `EndpointRecovers` | Two workers can keep writing back each other's success counts |
| `ConcurrencyGate_leak` | `LeakCorrected` | Each rejected attempt renews the TTL, so traffic keeps a leaked slot alive |
| `Recovery_partition` | `NothingLost` | A partition that cannot be consumed is left out and the canary is set |
| `Recovery_concurrent` | `NothingLost` | A retry scheduled before the flush whose snapshot follows the high-water mark is lost |
| `Recovery_lag` | `NothingReplayed` | A tombstone is skipped, not applied, so a snapshot compaction has not removed is revived |
| `ScriptSync_late` | `LoaderComplete` | `api/server.go:251` calls the Loader complete and current; an upload or a cold-start lookup can write an older or deleted script over what the replay has brought, until the id's next record |
| `ScriptSync_own` | `OwnScriptApplied` | `script/loader.go:50`: the namespace is only a fallback, but a worker whose replay has read the namespace's script and not the id's own one is satisfied with it |
| `ScriptSync_raw` | `RawPayload` | `docs/LUA_ENGINE.md:55`: the payload is the raw body; a retry runs the script on its own output |
| `ScriptSync_retention` | `ReplayExact` | A process whose replay is broken off while the broker drops an expired tombstone keeps the deleted script |
| `Transformer_modules` | `OwnModules` | `script/engine.go:166`, `docs/LUA_ENGINE.md:7`: modules are loaded for each webhook into isolated states; a pooled state answers `require` with the kv and http module of the script that first required them, and so with its namespace |
| `Transformer_orders` | `MonotonicReads` | `script/modules/http.go:300`: headers are part of the key for accurate deduplication, but in the order of a map iteration; a call can share an older request than the one before it |
| `Transformer_silent` | `SilentAfterAnswer` | `transformer/engine.go:128`: a post under way is published after the request was answered 504 |

The following are violated by the named configuration once its property is replaced
(as an INVARIANT or a PROPERTY, whichever the definition is) and the change made.

| Configuration | Change | Property | What the code does |
|---|---|---|---|
| `WebhookDelivery_circuit` | `Faults = {"capacity"}` | `EventuallySettled` | A diverted webhook is skipped in the slow lane for the same reason as a denied one |
| `WebhookDelivery_circuit` | `Faults = {"redis"}` | `EventuallySettled` | After a failed `ScheduleRetry` the redelivered message is skipped as processed |
| `WebhookDelivery_crash` | `Faults = {"script"}`, `AttemptBound = 2` | `AttemptsBounded` | `handleScriptError` does not look at `MaxAttempts` |
| `WebhookDelivery_crash` | `Faults = {"script"}` | `NoOrphanData` | `sendToDLQ` leaves the data of an earlier retry |
| `PartitionConsumer_samekey` | `FairSpec`, `FailBound = 1` | `NackRedelivered` | A handler error does not make the running session deliver the message again |
| `CircuitBreaker_stale` | none | `OneProbe` | A lost transition is an error of `ShouldAllow`, on which the worker sends all the same |
| `CircuitBreaker_stale` | `Responses = {"4xx"}` | `ClientErrorsIgnored` | 4xx responses are recorded as failures |
| `CircuitBreaker_stale` | `RedisFaults = {"get"}` | `FailClosed` | An error of the circuit check lets the request through |
| `ConcurrencyGate_limit` | `Faults = {"incr"}` | `NeverUndercounts` | On a Redis error the domain limiter reports a slot as taken, and the release gives back another worker's |
| `ConcurrencyGate_limit` | `Faults = {"repeat"}` | `NeverUndercounts` | A decrement the Redis client repeats after a lost reply gives back another worker's slot |
| `ConcurrencyGate_limit` | `Faults = {"slow"}` | `NeverUndercounts` | The TTL runs out under a handler that is still delivering; its slot, and later its release, are missing from the new count |
| `Recovery_partition` | `Faults = {"reorder"}` | `NothingReplayed` | A snapshot written after its webhook's tombstone revives it |
| `Recovery_partition` | `Faults = {"circuit"}` | `Reconstructible` | A retry scheduled for an open circuit has no snapshot |
| `Recovery_partition` | `Faults = {"schedule"}` | `RebuildFindsAll` | A retry that could not be scheduled has no snapshot either |
| `Recovery_partition` | `Faults = {"lateapi"}` | `StatusAgrees` | The initial status, stamped when written, replaces the result of a faster delivery |
| `Recovery_stopped` | `Faults = {"canary"}` | `NothingLost` | `docs/FAILURE_MODES.md:564`: the canary is not set when the reconciler fails; a canary that could not be deleted is only a collected error (`hotstate/redis.go:714`), the keys go, `Run` returns (`reconciler.go:58`), and the old canary stands over an empty Redis |
| `Recovery_stopped` | `Faults = {"scan"}` | `NothingLost` | The error that ends a SCAN is never looked at (`hotstate/redis.go:741`); a worker skips a retry the rebuild has brought back, because the idempotency key of its attempt stayed |
| `Recovery_stopped` | none | `DeliveredStays` | A handler that failed schedules its retry before it writes its status; when another worker delivers the retry first, the late status replaces "delivered" with "failed", and its snapshot follows the tombstone |
| `ScriptSync_late` | `Handlers <- MCHandlers`, `ProcOf <- MCProcOf` | `NoOrphanMirror` | `api/h_script.go:24` says the Redis mirror never accumulates orphans; the write of an upload that is slower than a later delete leaves one |
| `ScriptSync_late` | none | `UploadServed` | `api/h_script.go:130`: the pod is to serve the new script on the next enqueue; a replay that is behind overwrites it with the previous one for a while |

Seen in the code and not a property of the models: `http_cache_ttl`
(`docs/LUA_ENGINE.md:46`) is stored and never used; `setCached` may put an older
response over a newer one; the copy `applyTransformation` makes shares its header
map with the original (`script/engine.go:386`); a reload that cannot read a
directory drops its scripts; `EnsureScript` is satisfied with a namespace's script
that may be deleted before `Execute` looks for it, and the webhook is then
dead-lettered although its own script is in Redis; no binary takes the reconciler
lock that `README.md:143` describes.

## Not modelled

Lua evaluation and the crypto, json, base64 and log modules (out of TLC's reach),
the HTTP client and header
overrides (I/O; their outcome is a choice), statistics and metrics (nothing reads
them back), configuration loading, request validation, test helpers and
benchmarks. `AcquireReconcilerLock` and `WaitForCanary` are called by no binary.
Composition of the modules is by interface: WebhookDelivery's `topic` stands for
PartitionConsumer, its choices for CircuitBreaker and ConcurrencyGate, and
Recovery keeps of a handler what a rebuild can see.

## Plan

Done, in this order: PartitionConsumer, WebhookDelivery, CircuitBreaker,
ConcurrencyGate, Recovery; ScriptSync, the abstract specifications AtLeastOnce and
FanOut with their refinements, MemBroker, HttpModule and Transformer; proofs of every
safety property of the runs.

1. An abstract specification of a webhook's life (accepted, attempted, settled) that
   WebhookDelivery implements when its faults allow it.
2. **RetryStrategy**: `NextDelay` and jitter as a function, against its reference
   definition (bounds, monotonicity, overflow).
3. Batch enqueueing in the API.
4. **ReconcilerLock**: the lease and its heartbeat, once a binary uses it.
