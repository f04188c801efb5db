--------------------------- MODULE WebhookDelivery ---------------------------
(***************************************************************************)
(* The life of a webhook between the API, the workers of both lanes        *)
(* (internal/worker/worker.go, slow.go), the retry store in Redis          *)
(* (internal/hotstate/redis.go) and the scheduler                          *)
(* (internal/scheduler/scheduler.go).                                      *)
(*                                                                         *)
(* Every call on Redis or Kafka that other processes can see is a step of  *)
(* its own.  The topics howk.pending and howk.slow are the messages that   *)
(* no consumer has committed yet; PartitionConsumer shows that a consumer  *)
(* may see such a message any number of times, in two sessions at once,    *)
(* and that an error from the handler leaves it uncommitted.  Time is      *)
(* abstract: a scheduled retry may become due, and a visibility lock may   *)
(* run out, at any moment.  What can fail is the constant Faults.          *)
(*                                                                         *)
(* Status, stats, results and the state topic are not part of this module. *)
(***************************************************************************)
EXTENDS Integers, FiniteSets

CONSTANTS
    Webhooks,      \* webhook ids
    Workers,       \* goroutines running processMessage, both lanes
    Schedulers,    \* scheduler processes
    MaxAttempts,   \* Webhook.MaxAttempts
    AttemptBound,  \* bound: largest attempt number followed
    PublishBound,  \* bound: messages ever published to the two topics
    BatchSize,     \* SchedulerConfig.BatchSize
    RetryDataTTL,  \* TTLConfig.RetryDataTTL; 0 makes EXPIRE delete the key
    Faults         \* subset of AllFaults: what may go wrong in this instance

\* crash: a worker process dies.  idem: SETNX of the idempotency key fails.
\* expire: an idempotency key reaches its TTL.  circuit: the endpoint's
\* circuit denies.  capacity: a concurrency gate is full.  kafka: publishing
\* to pending or slow fails.  dlq: publishing to the dead letter topic fails.
\* redis: EnsureRetryData or ScheduleRetry fails (also: the handler's context
\* is cancelled).  getdata: GetRetryData fails.  ack: AckRetry fails.
\* cleanup: DeleteRetryData fails.  schedcrash: a scheduler dies in a batch.
\* script: the webhook's script may fail.
AllFaults == {"crash", "idem", "expire", "circuit", "capacity", "kafka", "dlq",
              "redis", "getdata", "ack", "cleanup", "schedcrash", "script"}

Attempts == 0 .. AttemptBound
Refs     == Webhooks \X Attempts           \* "webhook_id:attempt"
Lanes    == {"fast", "slow"}
Message  == [off : 0 .. PublishBound, id : Webhooks, att : Attempts, lane : Lanes]

ASSUME ConstantsAssumption ==
    /\ MaxAttempts \in Nat
    /\ AttemptBound \in Nat /\ MaxAttempts <= AttemptBound
    /\ PublishBound \in Nat
    /\ BatchSize \in Nat \ {0}
    /\ RetryDataTTL \in Nat
    /\ Faults \subseteq AllFaults

VARIABLES
    topic,      \* uncommitted messages of howk.pending and howk.slow
    nextOff,    \* messages published so far
    processed,  \* refs with an idempotency key processed:id:attempt
    data,       \* webhooks with a retry_data key
    zset,       \* the retry ZSET: each ref absent, waiting or locked
    pc,         \* where each worker is in processMessage
    msg,        \* the message each worker handles
    next,       \* the attempt number the worker is scheduling
    batch,      \* refs a scheduler has popped and not yet dealt with
    spc,        \* where each scheduler is in processBatch
    sref,       \* the ref a scheduler is working on
    accepted,   \* history: webhooks the API has answered 202 for
    posts,      \* history: HTTP calls per ref, counted up to 2
    outcome     \* history: "none", "delivered" (a 2xx) or "dead" (in the DLQ)

workerVars    == <<pc, msg, next>>
schedulerVars == <<batch, spc, sref>>
historyVars   == <<accepted, posts, outcome>>
topicVars     == <<topic, nextOff>>
redisVars     == <<processed, data, zset>>
vars == <<topicVars, redisVars, workerVars, schedulerVars, historyVars>>

WorkerPC == {"idle", "check", "circuit", "gate", "deliver", "cleanup", "ensure",
             "schedule", "exhaust", "dlq", "ack", "nack"}

NoMsg == [off |-> -1]
NoRef == <<>>

TypeOK ==
    /\ topic \subseteq Message
    /\ nextOff \in 0 .. PublishBound
    /\ processed \subseteq Refs
    /\ data \subseteq Webhooks
    /\ zset \in [Refs -> {"absent", "waiting", "locked"}]
    /\ pc \in [Workers -> WorkerPC]
    /\ msg \in [Workers -> Message \cup {NoMsg}]
    /\ \A w \in Workers : pc[w] # "idle" => msg[w] \in Message
    /\ next \in [Workers -> Attempts]
    /\ batch \in [Schedulers -> SUBSET Refs]
    /\ spc \in [Schedulers -> {"idle", "loop", "publish", "ack"}]
    /\ sref \in [Schedulers -> Refs \cup {NoRef}]
    /\ \A s \in Schedulers : spc[s] \in {"publish", "ack"} => sref[s] \in Refs
    /\ accepted \subseteq Webhooks
    /\ posts \in [Refs -> 0 .. 2]
    /\ outcome \in [Webhooks -> {"none", "delivered", "dead"}]

Init ==
    /\ topic = {} /\ nextOff = 0
    /\ processed = {} /\ data = {}
    /\ zset = [r \in Refs |-> "absent"]
    /\ pc = [w \in Workers |-> "idle"]
    /\ msg = [w \in Workers |-> NoMsg]
    /\ next = [w \in Workers |-> 0]
    /\ batch = [s \in Schedulers |-> {}]
    /\ spc = [s \in Schedulers |-> "idle"]
    /\ sref = [s \in Schedulers |-> NoRef]
    /\ accepted = {}
    /\ posts = [r \in Refs |-> 0]
    /\ outcome = [i \in Webhooks |-> "none"]

------------------------------------------------------------------------------
\* A message is appended to a topic (PublishWebhook, PublishToSlow).
PublishTo(id, att, lane) ==
    /\ nextOff < PublishBound
    /\ topic' = topic \cup {[off |-> nextOff, id |-> id, att |-> att, lane |-> lane]}
    /\ nextOff' = nextOff + 1

\* processEnqueue: the webhook counts as accepted once it is in Kafka.
Enqueue(id) ==
    /\ id \notin accepted
    /\ PublishTo(id, 0, "fast")
    /\ accepted' = accepted \cup {id}
    /\ UNCHANGED <<redisVars, workerVars, schedulerVars, posts, outcome>>

------------------------------------------------------------------------------
(* processMessage.                                                         *)

Goto(w, label) == pc' = [pc EXCEPT ![w] = label]

RefOf(w) == <<msg[w].id, msg[w].att>>

\* A consumer hands an uncommitted message to the handler.
Receive(w, m) ==
    /\ pc[w] = "idle"
    /\ m \in topic
    /\ msg' = [msg EXCEPT ![w] = m]
    /\ Goto(w, "check")
    /\ UNCHANGED <<topicVars, redisVars, next, schedulerVars, historyVars>>

\* Mutant: looks the key up without setting it.
CheckProcessedWithoutSet(w) ==
    /\ pc[w] = "check"
    /\ Goto(w, IF RefOf(w) \in processed THEN "ack" ELSE "circuit")
    /\ UNCHANGED <<topicVars, redisVars, msg, next, schedulerVars, historyVars>>

\* CheckAndSetProcessed: the first to set the key goes on, the others
\* acknowledge the message; on a Redis error the worker goes on regardless.
CheckProcessed(w) ==
    /\ pc[w] = "check"
    /\ \/ /\ RefOf(w) \notin processed
          /\ processed' = processed \cup {RefOf(w)}
          /\ Goto(w, "circuit")
       \/ /\ RefOf(w) \in processed
          /\ Goto(w, "ack")
          /\ UNCHANGED processed
       \/ /\ "idem" \in Faults
          /\ Goto(w, "circuit")
          /\ UNCHANGED processed
    /\ UNCHANGED <<topicVars, data, zset, msg, next, schedulerVars, historyVars>>

\* ShouldAllow: a denied webhook goes to scheduleRetryForCircuit, which
\* schedules the SAME attempt; an error of the check allows the request.
CheckCircuit(w) ==
    /\ pc[w] = "circuit"
    /\ \/ /\ Goto(w, "gate")
          /\ UNCHANGED next
       \/ /\ "circuit" \in Faults
          /\ Goto(w, "ensure")
          /\ next' = [next EXCEPT ![w] = msg[w].att]
    /\ UNCHANGED <<topicVars, redisVars, msg, schedulerVars, historyVars>>

\* runConcurrencyGate: proceed; or at capacity divert to the slow lane (and
\* proceed when that publish fails), or NACK if already in the slow lane.
PassGates(w) ==
    /\ pc[w] = "gate"
    /\ \/ /\ Goto(w, "deliver")
          /\ UNCHANGED topicVars
       \/ /\ "capacity" \in Faults /\ msg[w].lane = "fast"
          /\ PublishTo(msg[w].id, msg[w].att, "slow")
          /\ Goto(w, "ack")
       \/ /\ "capacity" \in Faults /\ msg[w].lane = "slow"
          /\ Goto(w, "nack")
          /\ UNCHANGED topicVars
    /\ UNCHANGED <<redisVars, msg, next, schedulerVars, historyVars>>

\* Mutant: <= instead of <.
MayRetryOnceMore(w) == msg[w].att <= MaxAttempts

\* ShouldRetry, as far as the attempt number decides it.
MayRetry(w) == msg[w].att < MaxAttempts

CountPost(w) == posts' = [posts EXCEPT ![RefOf(w)] = IF @ < 2 THEN @ + 1 ELSE 2]

\* Deliver: a 2xx; a failure worth a retry while attempts are left; or one
\* that is not (a permanent status, or the attempts are used up).
Deliver(w) ==
    /\ pc[w] = "deliver"
    /\ CountPost(w)
    /\ \/ /\ outcome' = [outcome EXCEPT ![msg[w].id] = "delivered"]
          /\ Goto(w, "cleanup")
          /\ UNCHANGED next
       \/ /\ MayRetry(w)
          /\ next' = [next EXCEPT ![w] = msg[w].att + 1]
          /\ Goto(w, "ensure")
          /\ UNCHANGED outcome
       \/ /\ Goto(w, "exhaust")
          /\ UNCHANGED <<next, outcome>>
    /\ UNCHANGED <<topicVars, redisVars, msg, schedulerVars, accepted>>

\* handleScriptError: a retryable error schedules the next attempt whatever
\* its number (AttemptBound caps the model); any other goes to sendToDLQ.
ScriptFails(w) ==
    /\ pc[w] = "deliver"
    /\ "script" \in Faults
    /\ \/ /\ msg[w].att < AttemptBound
          /\ next' = [next EXCEPT ![w] = msg[w].att + 1]
          /\ Goto(w, "ensure")
       \/ /\ Goto(w, "dlq")
          /\ UNCHANGED next
    /\ UNCHANGED <<topicVars, redisVars, msg, schedulerVars, historyVars>>

\* Mutant: refreshes the TTL but never stores missing data.
EnsureRetryDataRefreshOnly(w) ==
    /\ pc[w] = "ensure"
    /\ Goto(w, "schedule")
    /\ UNCHANGED <<topicVars, redisVars, msg, next, schedulerVars, historyVars>>

\* EnsureRetryData: EXPIRE refreshes an existing key (a TTL of 0 deletes it
\* and still reports that it existed), otherwise SET stores the webhook.  One step
\* does for the two calls: EXPIRE alone decides when the key exists; when it does not
\* the first call changes nothing, and SET leaves, at its own time, what the step
\* leaves.  (With a TTL of 0 two handlers of a webhook could tell them apart.)
EnsureRetryData(w) ==
    /\ pc[w] = "ensure"
    /\ \/ /\ data' = IF msg[w].id \notin data THEN data \cup {msg[w].id}
                     ELSE IF RetryDataTTL = 0 THEN data \ {msg[w].id}
                     ELSE data
          /\ Goto(w, "schedule")
       \/ /\ "redis" \in Faults
          /\ Goto(w, "nack")
          /\ UNCHANGED data
    /\ UNCHANGED <<topicVars, processed, zset, msg, next, schedulerVars, historyVars>>

\* ScheduleRetry: ZADD of the ref, which also overwrites a lock score.
ScheduleRetry(w) ==
    /\ pc[w] = "schedule"
    /\ \/ /\ zset' = [zset EXCEPT ![<<msg[w].id, next[w]>>] = "waiting"]
          /\ Goto(w, "ack")
       \/ /\ "redis" \in Faults
          /\ Goto(w, "nack")
          /\ UNCHANGED zset
    /\ UNCHANGED <<topicVars, processed, data, msg, next, schedulerVars, historyVars>>

\* No retry: PublishDeadLetter, whose error is only logged.
Exhaust(w) ==
    /\ pc[w] = "exhaust"
    /\ \/ outcome' = [outcome EXCEPT ![msg[w].id] = IF @ = "none" THEN "dead" ELSE @]
       \/ "dlq" \in Faults /\ UNCHANGED outcome
    /\ Goto(w, "cleanup")
    /\ UNCHANGED <<topicVars, redisVars, msg, next, schedulerVars, accepted, posts>>

\* Mutant: the terminal state does not delete the retry data.
NoCleanup(w) ==
    /\ pc[w] = "cleanup"
    /\ Goto(w, "ack")
    /\ UNCHANGED <<topicVars, redisVars, msg, next, schedulerVars, historyVars>>

\* cleanupRetryData after a success or exhaustion; an error is only logged.
CleanupRetryData(w) ==
    /\ pc[w] = "cleanup"
    /\ \/ data' = data \ {msg[w].id}
       \/ "cleanup" \in Faults /\ UNCHANGED data
    /\ Goto(w, "ack")
    /\ UNCHANGED <<topicVars, processed, zset, msg, next, schedulerVars, historyVars>>

\* sendToDLQ: an error is returned to the consumer; no retry data is deleted.
SendToDLQ(w) ==
    /\ pc[w] = "dlq"
    /\ \/ /\ outcome' = [outcome EXCEPT ![msg[w].id] = IF @ = "none" THEN "dead" ELSE @]
          /\ Goto(w, "ack")
       \/ /\ "dlq" \in Faults
          /\ Goto(w, "nack")
          /\ UNCHANGED outcome
    /\ UNCHANGED <<topicVars, redisVars, msg, next, schedulerVars, accepted, posts>>

EndHandler(w) ==
    /\ Goto(w, "idle")
    /\ msg' = [msg EXCEPT ![w] = NoMsg]
    /\ next' = [next EXCEPT ![w] = 0]

\* The handler returns nil: the offset is committed, unless the session ends
\* first and the message is delivered again.
ReturnNil(w) ==
    /\ pc[w] = "ack"
    /\ topic' \in {topic, topic \ {msg[w]}}
    /\ EndHandler(w)
    /\ UNCHANGED <<nextOff, redisVars, schedulerVars, historyVars>>

\* The handler returns an error: the message stays uncommitted.
ReturnError(w) ==
    /\ pc[w] = "nack"
    /\ EndHandler(w)
    /\ UNCHANGED <<topicVars, redisVars, schedulerVars, historyVars>>

\* The worker process dies in the middle of a handler.
WorkerCrash(w) ==
    /\ "crash" \in Faults
    /\ pc[w] # "idle"
    /\ EndHandler(w)
    /\ UNCHANGED <<topicVars, redisVars, schedulerVars, historyVars>>

\* The TTL of an idempotency key runs out.
ProcessedExpires(r) ==
    /\ "expire" \in Faults
    /\ r \in processed
    /\ processed' = processed \ {r}
    /\ UNCHANGED <<topicVars, data, zset, workerVars, schedulerVars, historyVars>>

------------------------------------------------------------------------------
(* processBatch.                                                           *)

\* PopAndLockRetries: lock a batch of the refs that are due.
PopAndLock(s, refs) ==
    /\ spc[s] = "idle"
    /\ refs # {} /\ Cardinality(refs) <= BatchSize
    /\ \A r \in refs : zset[r] = "waiting"
    /\ zset' = [r \in Refs |-> IF r \in refs THEN "locked" ELSE zset[r]]
    /\ batch' = [batch EXCEPT ![s] = refs]
    /\ spc' = [spc EXCEPT ![s] = "loop"]
    /\ UNCHANGED <<topicVars, processed, data, workerVars, sref, historyVars>>

\* The visibility timeout of a locked ref runs out.
LockExpires(r) ==
    /\ zset[r] = "locked"
    /\ zset' = [zset EXCEPT ![r] = "waiting"]
    /\ UNCHANGED <<topicVars, processed, data, workerVars, schedulerVars, historyVars>>

\* AckRetry: ZREM of the ref; an error is ignored.
AckRetry(r) ==
    \/ zset' = [zset EXCEPT ![r] = "absent"]
    \/ "ack" \in Faults /\ UNCHANGED zset

\* The loop goes on with the next ref, or the batch is done.
NextRef(s, r) ==
    /\ batch' = [batch EXCEPT ![s] = @ \ {r}]
    /\ spc' = [spc EXCEPT ![s] = IF batch[s] \ {r} = {} THEN "idle" ELSE "loop"]
    /\ sref' = [sref EXCEPT ![s] = NoRef]

\* GetRetryData finds the webhook.
FetchData(s, r) ==
    /\ spc[s] = "loop"
    /\ r \in batch[s]
    /\ r[1] \in data
    /\ spc' = [spc EXCEPT ![s] = "publish"]
    /\ sref' = [sref EXCEPT ![s] = r]
    /\ UNCHANGED <<topicVars, redisVars, workerVars, batch, historyVars>>

\* GetRetryData returns an error, no data or Redis failing alike: the ref is
\* acknowledged.
DropRef(s, r) ==
    /\ spc[s] = "loop"
    /\ r \in batch[s]
    /\ r[1] \notin data \/ "getdata" \in Faults
    /\ AckRetry(r)
    /\ NextRef(s, r)
    /\ UNCHANGED <<topicVars, processed, data, workerVars, historyVars>>

\* Mutant: a ref whose publish fails is acknowledged all the same.
RepublishAckAnyway(s) ==
    /\ spc[s] = "publish"
    /\ \/ PublishTo(sref[s][1], sref[s][2], "fast")
       \/ "kafka" \in Faults /\ UNCHANGED topicVars
    /\ spc' = [spc EXCEPT ![s] = "ack"]
    /\ UNCHANGED <<redisVars, workerVars, batch, sref, historyVars>>

\* PublishWebhook with the attempt number of the ref; on an error the ref
\* stays locked.
Republish(s) ==
    /\ spc[s] = "publish"
    /\ \/ /\ PublishTo(sref[s][1], sref[s][2], "fast")
          /\ spc' = [spc EXCEPT ![s] = "ack"]
          /\ UNCHANGED <<batch, sref>>
       \/ /\ "kafka" \in Faults
          /\ NextRef(s, sref[s])
          /\ UNCHANGED topicVars
    /\ UNCHANGED <<redisVars, workerVars, historyVars>>

AckPublished(s) ==
    /\ spc[s] = "ack"
    /\ AckRetry(sref[s])
    /\ NextRef(s, sref[s])
    /\ UNCHANGED <<topicVars, processed, data, workerVars, historyVars>>

SchedulerCrash(s) ==
    /\ "schedcrash" \in Faults
    /\ spc[s] # "idle"
    /\ batch' = [batch EXCEPT ![s] = {}]
    /\ spc' = [spc EXCEPT ![s] = "idle"]
    /\ sref' = [sref EXCEPT ![s] = NoRef]
    /\ UNCHANGED <<topicVars, redisVars, workerVars, historyVars>>

------------------------------------------------------------------------------
HandlerStep(w) ==
    \/ CheckProcessed(w) \/ CheckCircuit(w) \/ PassGates(w)
    \/ Deliver(w) \/ ScriptFails(w) \/ EnsureRetryData(w) \/ ScheduleRetry(w)
    \/ Exhaust(w) \/ CleanupRetryData(w) \/ SendToDLQ(w)
    \/ ReturnNil(w) \/ ReturnError(w)

SchedulerStep(s) ==
    \/ \E refs \in SUBSET Refs : PopAndLock(s, refs)
    \/ \E r \in Refs : FetchData(s, r) \/ DropRef(s, r)
    \/ Republish(s) \/ AckPublished(s)

Next ==
    \/ \E id \in Webhooks : Enqueue(id)
    \/ \E w \in Workers, m \in topic : Receive(w, m)
    \/ \E w \in Workers : HandlerStep(w) \/ WorkerCrash(w)
    \/ \E s \in Schedulers : SchedulerStep(s) \/ SchedulerCrash(s)
    \/ \E r \in Refs : LockExpires(r) \/ ProcessedExpires(r)

Spec == Init /\ [][Next]_vars

\* Fairness: consumers keep handing out uncommitted messages, handlers and
\* schedulers keep going, and a message whose handler returns nil is not left
\* uncommitted for ever.
Committed(w) == ReturnNil(w) /\ topic' = topic \ {msg[w]}
Fairness ==
    /\ \A w \in Workers :
         /\ WF_vars(HandlerStep(w))
         /\ WF_vars(\E m \in topic : Receive(w, m))
         /\ SF_vars(Committed(w))
    /\ \A s \in Schedulers :
         /\ WF_vars(\E r \in Refs : FetchData(s, r) \/ DropRef(s, r))
         /\ WF_vars(Republish(s)) /\ WF_vars(AckPublished(s))
         /\ WF_vars(\E refs \in SUBSET Refs : PopAndLock(s, refs))
    /\ \A r \in Refs : WF_vars(LockExpires(r))

FairSpec == Spec /\ Fairness

------------------------------------------------------------------------------
(* Properties.                                                             *)

\* The webhook is still on its way: an uncommitted message that will not be
\* skipped as already processed, a handler at work on it, or a scheduled
\* retry whose data the scheduler will find.
Live(id) ==
    \/ \E m \in topic : m.id = id /\ <<id, m.att>> \notin processed
    \/ \E w \in Workers : /\ pc[w] \notin {"idle", "check", "ack", "nack"}
                          /\ msg[w].id = id
    \/ \E a \in Attempts : /\ zset[<<id, a>>] # "absent"
                           /\ id \in data
                           /\ <<id, a>> \notin processed

\* "We never lose a webhook" (README.md:15): every webhook the API accepted has
\* been delivered, is in the dead letter topic, or is still on its way.
NoLoss == \A id \in accepted : outcome[id] # "none" \/ Live(id)

\* The idempotency key keeps a (webhook, attempt) from being sent to the
\* endpoint twice, however often its message is redelivered, published again
\* by a second scheduler or retried after a crash.
AttemptSentOnce == \A r \in Refs : posts[r] <= 1

\* Once the endpoint has answered 2xx the webhook is never sent again and never
\* dead-lettered, although stale refs, messages and locks may still be about.
NothingAfterDelivery ==
    [][\A id \in Webhooks : outcome[id] = "delivered" =>
          /\ outcome'[id] = "delivered"
          /\ \A a \in Attempts : posts'[<<id, a>>] = posts[<<id, a>>]]_vars

\* A webhook that is settled and has left every queue has no retry_data key
\* left behind in Redis (docs/ARCHITECTURE.md: deleted on a terminal state),
\* unless the idempotency key failed and let an attempt be sent twice.
NoOrphanData ==
    \A id \in accepted :
        /\ outcome[id] # "none"
        /\ \A a \in Attempts : posts[<<id, a>>] <= 1
        /\ \A m \in topic : m.id # id
        /\ \A w \in Workers : pc[w] # "idle" => msg[w].id # id
        /\ \A a \in Attempts : zset[<<id, a>>] = "absent"
        => id \notin data

\* "Automatic retries (up to max_attempts)" (docs/FAILURE_MODES.md:371): no message
\* asks for an attempt above MaxAttempts, whoever scheduled it.
AttemptsBounded == \A m \in topic : m.att <= MaxAttempts

\* Every accepted webhook ends up delivered or dead-lettered.
EventuallySettled == \A id \in Webhooks : (id \in accepted) ~> (outcome[id] # "none")
==============================================================================
