------------------------------- MODULE Recovery -------------------------------
(***************************************************************************)
(* The compacted topic howk.state and the rebuild of Redis from it         *)
(* (internal/reconciler/reconciler.go), with the workers that write both   *)
(* (updateStatus, publishStateSnapshot in internal/worker/worker.go) and   *)
(* the last-write-wins status of internal/hotstate/redis.go.               *)
(*                                                                         *)
(* A webhook's way through a handler is cut down to what the rebuild can   *)
(* see of it; WebhookDelivery has the rest.  A handler takes its message   *)
(* off howk.pending when it starts and puts it back when it returns an     *)
(* error, and the scheduler moves a due retry in one step.  Time is a      *)
(* clock that ticks with every timestamp that is taken.                    *)
(***************************************************************************)
EXTENDS Integers, Sequences, FiniteSets

CONSTANTS
    Webhooks,
    Workers,
    Partitions,    \* of howk.state
    PartitionOf,   \* the partition a webhook id hashes to
    MaxAttempts,
    ClockBound,    \* bound: timestamps taken
    RunBound,      \* bound: runs of the reconciler
    Faults         \* subset of AllFaults: what may go wrong in this instance

\* die: the reconciler is cancelled, crashes or cannot list the partitions.  canary,
\* flush: DelCanary, or the DEL of a pattern of keys, fails.  scan: the SCAN of a
\* pattern breaks off.
\* partition: ConsumePartition fails.  restore: a Redis call of restoreState
\* fails.  schedule: EnsureRetryData or ScheduleRetry of a worker fails.
\* circuit: the circuit may deny an attempt.  publish: a state record is not written.
\* reorder: the goroutines that write a webhook's state records run so late that
\* they overtake each other, or take their timestamp after a later handler's.
\* lag: compaction has not caught up when the reconciler starts.
\* lateapi: the API writes the initial status after a worker took the webhook.
\* concurrent: workers and scheduler run while Redis is lost and rebuilt.
AllFaults == {"die", "canary", "flush", "scan", "partition", "restore", "schedule",
              "circuit", "publish", "reorder", "lag", "lateapi", "concurrent"}

Attempts == 0 .. MaxAttempts
Refs     == Webhooks \X Attempts
Stamps   == 0 .. ClockBound

ASSUME ConstantsAssumption ==
    /\ IsFiniteSet(Partitions)
    /\ PartitionOf \in [Webhooks -> Partitions]
    /\ MaxAttempts \in Nat
    /\ ClockBound \in Nat
    /\ RunBound \in Nat
    /\ Faults \subseteq AllFaults

VARIABLES
    log,         \* the records of each partition of howk.state, or Gone
    publishing,  \* records whose goroutine has not written them yet
    status,      \* status hashes: state and ts
    zset,        \* refs in the retry ZSET
    data,        \* webhooks with a retry_data key
    processed,   \* refs with an idempotency key
    canary,      \* howk:system:initialized
    inbox,       \* refs of the messages in howk.pending
    initial,     \* webhooks whose initial status the API has yet to write
    pc, cur,     \* workers: where each one is, and its message
    stopped,     \* the operator has stopped workers and scheduler
    rpc,         \* where the reconciler is
    failed,      \* FlushForRebuild has collected an error
    todo,        \* partitions it has not consumed
    pos, hwm,    \* next offset and high-water mark of the current partition
    msg,         \* the snapshot it is restoring
    runs,        \* history: runs of the reconciler
    clock,       \* history: timestamps taken
    accepted,    \* history: webhooks the API has accepted
    tried,       \* history: highest attempt sent to the endpoint, -1 if none
    outcome,     \* history: "none", "delivered" or "exhausted"
    doubled      \* history: webhooks whose retry was restored beside its message in
                 \* howk.pending, or received while another handler had them

topicVars   == <<log, publishing>>
redisVars   == <<status, zset, data, processed, canary>>
queueVars   == <<inbox, initial>>
workerVars  == <<pc, cur>>
runVars     == <<stopped, rpc, failed, todo, pos, hwm, msg, runs>>
historyVars == <<accepted, tried, outcome, doubled>>
vars == <<topicVars, redisVars, queueVars, workerVars, runVars, historyVars, clock>>

Record == [id : Webhooks, kind : {"snapshot", "tombstone"}, att : Attempts, ts : Stamps]
Gone   == [kind |-> "gone"]  \* removed by compaction
Absent == [state |-> "absent", ts |-> 0]
States == {"absent", "pending", "delivering", "failed", "delivered", "exhausted"}

WorkerPC == {"idle", "check", "start", "denied", "postpone", "deliver", "ensure",
             "schedule", "failed", "settle", "cleanup", "nack"}
ReconcilerPC == {"off", "status", "queue", "data", "processed", "flushed",
                 "partition", "consume", "restoreData", "restoreZset"}

TypeOK ==
    /\ log \in [Partitions -> Seq(Record \cup {Gone})]
    /\ publishing \subseteq Record
    /\ status \in [Webhooks -> [state : States, ts : Stamps]]
    /\ zset \subseteq Refs
    /\ data \subseteq Webhooks
    /\ processed \subseteq Refs
    /\ canary \in BOOLEAN
    /\ inbox \subseteq Refs
    /\ initial \subseteq Webhooks
    /\ pc \in [Workers -> WorkerPC]
    /\ cur \in [Workers -> Refs \cup {<<>>}]
    /\ \A w \in Workers : pc[w] # "idle" => cur[w] \in Refs
    /\ stopped \in BOOLEAN
    /\ rpc \in ReconcilerPC
    /\ failed \in BOOLEAN
    /\ todo \in Seq(Partitions)
    /\ rpc \in {"consume", "restoreData", "restoreZset"} => todo # <<>>
    /\ pos \in Nat /\ hwm \in Nat
    /\ msg \in Record \cup {Gone}
    /\ rpc \in {"restoreData", "restoreZset"} => msg # Gone
    /\ runs \in 0 .. RunBound
    /\ clock \in Stamps
    /\ accepted \subseteq Webhooks
    /\ tried \in [Webhooks -> {-1} \cup Attempts]
    /\ outcome \in [Webhooks -> {"none", "delivered", "exhausted"}]
    /\ doubled \subseteq Webhooks

Init ==
    /\ log = [p \in Partitions |-> <<>>] /\ publishing = {}
    /\ status = [i \in Webhooks |-> Absent]
    /\ zset = {} /\ data = {} /\ processed = {} /\ canary = TRUE
    /\ inbox = {} /\ initial = {}
    /\ pc = [w \in Workers |-> "idle"] /\ cur = [w \in Workers |-> <<>>]
    /\ stopped = FALSE /\ rpc = "off" /\ failed = FALSE /\ todo = <<>>
    /\ pos = 1 /\ hwm = 0 /\ msg = Gone /\ runs = 0
    /\ clock = 0
    /\ accepted = {}
    /\ tried = [i \in Webhooks |-> -1]
    /\ outcome = [i \in Webhooks |-> "none"]
    /\ doubled = {}

------------------------------------------------------------------------------
(* Shared operations.                                                      *)

Now == clock + 1
Tick == clock < ClockBound /\ clock' = Now

\* Mutant: the script writes without a look at the stored timestamp.
SetStatusAlways(id, state, ts) ==
    status' = [status EXCEPT ![id] = [state |-> state, ts |-> ts]]

\* Mutant: the first write wins.
SetStatusOnce(id, state, ts) ==
    status' = IF status[id].ts = 0
              THEN [status EXCEPT ![id] = [state |-> state, ts |-> ts]]
              ELSE status

\* setStatusLWW: written only when the timestamp is newer than the stored one.
SetStatus(id, state, ts) ==
    status' = IF ts > status[id].ts
              THEN [status EXCEPT ![id] = [state |-> state, ts |-> ts]]
              ELSE status

\* publishStateSnapshot starts a goroutine that writes the record later on; ts is
\* the time it was started.
Spawn(id, kind, att) ==
    publishing' = publishing \cup {[id |-> id, kind |-> kind, att |-> att, ts |-> Now]}

Goto(w, label) == pc' = [pc EXCEPT ![w] = label]

Finish(w) ==
    /\ Goto(w, "idle")
    /\ cur' = [cur EXCEPT ![w] = <<>>]

Id(w)  == cur[w][1]
Att(w) == cur[w][2]

------------------------------------------------------------------------------
(* API, scheduler and workers.                                             *)

\* processEnqueue: publish to howk.pending ...
Enqueue(id) ==
    /\ id \notin accepted
    /\ accepted' = accepted \cup {id}
    /\ inbox' = inbox \cup {<<id, 0>>}
    /\ initial' = initial \cup {id}
    /\ UNCHANGED <<topicVars, redisVars, workerVars, runVars, clock, tried, outcome, doubled>>

\* ... and then write the initial status, stamped when it is written.
InitialStatus(id) ==
    /\ id \in initial
    /\ Tick
    /\ SetStatus(id, "pending", Now)
    /\ initial' = initial \ {id}
    /\ UNCHANGED <<topicVars, zset, data, processed, canary, inbox, workerVars,
                   runVars, historyVars>>

\* processBatch moves a due retry whose data it finds to howk.pending, and
\* drops one whose data it does not find.
Reschedule(r) ==
    /\ ~stopped
    /\ r \in zset
    /\ zset' = zset \ {r}
    /\ inbox' = IF r[1] \in data THEN inbox \cup {r} ELSE inbox
    /\ UNCHANGED <<topicVars, status, data, processed, canary, initial, workerVars,
                   runVars, historyVars, clock>>

\* A worker takes the message of a webhook.  Nothing keeps it waiting for a
\* handler that has scheduled this retry and has yet to write its status.
Receive(w, r) ==
    /\ ~stopped
    /\ pc[w] = "idle"
    /\ r \in inbox
    /\ r[1] \notin initial \/ "lateapi" \in Faults
    /\ inbox' = inbox \ {r}
    /\ cur' = [cur EXCEPT ![w] = r]
    /\ Goto(w, "check")
    /\ doubled' = IF \E v \in Workers : pc[v] # "idle" /\ Id(v) = r[1]
                  THEN doubled \cup {r[1]}
                  ELSE doubled
    /\ UNCHANGED <<topicVars, redisVars, initial, runVars, accepted, tried, outcome, clock>>

\* CheckAndSetProcessed.
CheckProcessed(w) ==
    /\ pc[w] = "check"
    /\ \/ /\ cur[w] \in processed
          /\ Finish(w)
          /\ UNCHANGED processed
       \/ /\ cur[w] \notin processed
          /\ processed' = processed \cup {cur[w]}
          /\ Goto(w, "start")
          /\ UNCHANGED cur
    /\ UNCHANGED <<topicVars, status, zset, data, canary, queueVars, runVars, historyVars,
                   clock>>

\* ShouldAllow denies the attempt and scheduleRetryForCircuit schedules it again,
\* without a status or a state record.
ScheduleForCircuit(w) ==
    /\ "circuit" \in Faults
    /\ \/ /\ pc[w] = "start"
          /\ Goto(w, "denied")
          /\ UNCHANGED <<cur, data, zset>>
       \/ /\ pc[w] = "denied"
          /\ data' = data \cup {Id(w)}
          /\ Goto(w, "postpone")
          /\ UNCHANGED <<cur, zset>>
       \/ /\ pc[w] = "postpone"
          /\ zset' = zset \cup {cur[w]}
          /\ Finish(w)
          /\ UNCHANGED data
       \/ /\ pc[w] \in {"denied", "postpone"} /\ "schedule" \in Faults
          /\ Goto(w, "nack")
          /\ UNCHANGED <<cur, data, zset>>
    /\ UNCHANGED <<topicVars, status, processed, canary, queueVars, runVars, historyVars,
                   clock>>

\* updateStatus(delivering), which writes no state record.
StartDelivery(w) ==
    /\ pc[w] = "start"
    /\ Tick
    /\ SetStatus(Id(w), "delivering", Now)
    /\ Goto(w, "deliver")
    /\ UNCHANGED <<topicVars, zset, data, processed, canary, queueVars, cur, runVars,
                   historyVars>>

Deliver(w) ==
    /\ pc[w] = "deliver"
    /\ tried' = [tried EXCEPT ![Id(w)] = IF Att(w) > @ THEN Att(w) ELSE @]
    /\ \/ /\ outcome' = [outcome EXCEPT ![Id(w)] = "delivered"]
          /\ Goto(w, "settle")
       \/ /\ Att(w) < MaxAttempts
          /\ Goto(w, "ensure")
          /\ UNCHANGED outcome
       \/ /\ outcome' = [outcome EXCEPT ![Id(w)] = IF @ = "none" THEN "exhausted" ELSE @]
          /\ Goto(w, "settle")
    /\ UNCHANGED <<topicVars, redisVars, queueVars, cur, runVars, clock, accepted, doubled>>

\* EnsureRetryData, or the handler returns its error.
EnsureRetryData(w) ==
    /\ pc[w] = "ensure"
    /\ \/ data' = data \cup {Id(w)} /\ Goto(w, "schedule")
       \/ "schedule" \in Faults /\ Goto(w, "nack") /\ UNCHANGED data
    /\ UNCHANGED <<topicVars, status, zset, processed, canary, queueVars, cur, runVars,
                   historyVars, clock>>

\* ScheduleRetry of the next attempt, or the handler returns its error.
ScheduleRetry(w) ==
    /\ pc[w] = "schedule"
    /\ \/ zset' = zset \cup {<<Id(w), Att(w) + 1>>} /\ Goto(w, "failed")
       \/ "schedule" \in Faults /\ Goto(w, "nack") /\ UNCHANGED zset
    /\ UNCHANGED <<topicVars, status, data, processed, canary, queueVars, cur, runVars,
                   historyVars, clock>>

\* Mutant: snapshots the attempt that failed instead of the one scheduled.
UpdateFailedOldAttempt(w) ==
    /\ pc[w] = "failed"
    /\ Tick
    /\ SetStatus(Id(w), "failed", Now)
    /\ Spawn(Id(w), "snapshot", Att(w))
    /\ Finish(w)
    /\ UNCHANGED <<log, zset, data, processed, canary, queueVars, runVars, historyVars>>

\* Mutant: the attempt, already incremented, is incremented again.
UpdateFailedTwice(w) ==
    /\ pc[w] = "failed"
    /\ Tick
    /\ SetStatus(Id(w), "failed", Now)
    /\ Spawn(Id(w), "snapshot", Att(w) + 2)
    /\ Finish(w)
    /\ UNCHANGED <<log, zset, data, processed, canary, queueVars, runVars, historyVars>>

\* updateStatus(failed): the snapshot has the attempt that was scheduled.
UpdateFailed(w) ==
    /\ pc[w] = "failed"
    /\ Tick
    /\ SetStatus(Id(w), "failed", Now)
    /\ Spawn(Id(w), "snapshot", Att(w) + 1)
    /\ Finish(w)
    /\ UNCHANGED <<log, zset, data, processed, canary, queueVars, runVars, historyVars>>

\* Mutant: the terminal states leave no tombstone.
UpdateSettledNoTombstone(w) ==
    /\ pc[w] = "settle"
    /\ Tick
    /\ SetStatus(Id(w), outcome[Id(w)], Now)
    /\ Goto(w, "cleanup")
    /\ UNCHANGED <<topicVars, zset, data, processed, canary, queueVars, cur, runVars,
                   historyVars>>

\* updateStatus(delivered or exhausted): the record is a tombstone.
UpdateSettled(w) ==
    /\ pc[w] = "settle"
    /\ Tick
    /\ SetStatus(Id(w), outcome[Id(w)], Now)
    /\ Spawn(Id(w), "tombstone", 0)
    /\ Goto(w, "cleanup")
    /\ UNCHANGED <<log, zset, data, processed, canary, queueVars, cur, runVars,
                   historyVars>>

CleanupRetryData(w) ==
    /\ pc[w] = "cleanup"
    /\ data' = data \ {Id(w)}
    /\ Finish(w)
    /\ UNCHANGED <<topicVars, status, zset, processed, canary, queueVars, runVars,
                   historyVars, clock>>

\* The handler returned an error: its message is delivered again.
Nack(w) ==
    /\ pc[w] = "nack"
    /\ inbox' = inbox \cup {cur[w]}
    /\ Finish(w)
    /\ UNCHANGED <<topicVars, redisVars, initial, runVars, historyVars, clock>>

\* The goroutine takes its own timestamp and writes its record to howk.state, or
\* fails to.
PublishState(r) ==
    /\ r \in publishing
    /\ "reorder" \in Faults \/ \A q \in publishing : q.id = r.id => q.ts >= r.ts
    /\ publishing' = publishing \ {r}
    /\ \/ \E ts \in r.ts .. (IF "reorder" \in Faults THEN clock ELSE r.ts) :
             log' = [log EXCEPT ![PartitionOf[r.id]] = Append(@, [r EXCEPT !.ts = ts])]
       \/ "publish" \in Faults /\ UNCHANGED log
    /\ UNCHANGED <<redisVars, queueVars, workerVars, runVars, historyVars, clock>>

------------------------------------------------------------------------------
(* The log and Redis.                                                      *)

\* The record at an offset has been followed by another one of its key.
Superseded(p, o) ==
    \E n \in o + 1 .. Len(log[p]) : log[p][n] # Gone /\ log[p][n].id = log[p][o].id

\* A tombstone may go once what it deletes is gone.
SpentTombstone(p, o) ==
    /\ log[p][o].kind = "tombstone"
    /\ \A n \in 1 .. o - 1 : log[p][n] # Gone => log[p][n].id # log[p][o].id

\* Kafka's log compaction removes superseded records and spent tombstones; the
\* others keep their offsets.
Compact(p, o) ==
    /\ log[p][o] # Gone
    /\ Superseded(p, o) \/ SpentTombstone(p, o)
    /\ log' = [log EXCEPT ![p][o] = Gone]
    /\ UNCHANGED <<publishing, redisVars, queueVars, workerVars, runVars, historyVars,
                   clock>>

\* The operator stops workers and scheduler, and what they were writing is
\* written.
Stop ==
    /\ ~stopped
    /\ "concurrent" \notin Faults
    /\ \A w \in Workers : pc[w] = "idle"
    /\ publishing = {} /\ initial = {}
    /\ stopped' = TRUE
    /\ UNCHANGED <<topicVars, redisVars, queueVars, workerVars, rpc, failed, todo, pos,
                   hwm, msg, runs, historyVars, clock>>

\* Everything in Redis is lost.
LoseRedis ==
    /\ stopped \/ "concurrent" \in Faults
    /\ rpc = "off" /\ canary /\ runs < RunBound
    /\ status' = [i \in Webhooks |-> Absent]
    /\ zset' = {} /\ data' = {} /\ processed' = {} /\ canary' = FALSE
    /\ UNCHANGED <<topicVars, queueVars, workerVars, runVars, historyVars, clock>>

\* With Redis rebuilt the operator starts workers and scheduler.
Start ==
    /\ stopped
    /\ rpc = "off" /\ canary
    /\ stopped' = FALSE
    /\ UNCHANGED <<topicVars, redisVars, queueVars, workerVars, rpc, failed, todo, pos,
                   hwm, msg, runs, historyVars, clock>>

------------------------------------------------------------------------------
(* The reconciler.                                                         *)

unchangedOutside ==
    <<topicVars, queueVars, workerVars, stopped, accepted, tried, outcome, clock>>

SomeOrder == CHOOSE s \in [1 .. Cardinality(Partitions) -> Partitions] :
                Partitions = {s[n] : n \in DOMAIN s}

\* Run starts: FlushForRebuild removes the canary first, collects the error when it
\* cannot, and goes on ...
Run ==
    /\ rpc = "off"
    /\ runs < RunBound
    /\ stopped \/ "concurrent" \in Faults
    /\ "lag" \in Faults \/ \A p \in Partitions : \A o \in DOMAIN log[p] :
                              log[p][o] # Gone => ~Superseded(p, o)
    /\ runs' = runs + 1
    /\ \/ canary' = FALSE /\ failed' = FALSE
       \/ "canary" \in Faults /\ canary' \in {canary, FALSE} /\ failed' = TRUE
    /\ todo' = SomeOrder
    /\ rpc' = "status"
    /\ UNCHANGED <<status, zset, data, processed, pos, hwm, msg, doubled, unchangedOutside>>

\* SCAN and DEL of a pattern of which some keys stay: none, unless a DEL fails, which
\* is collected, or SCAN ends with an error, which nobody looks at.
Remove(kept) ==
    \/ kept = {} /\ UNCHANGED failed
    \/ "flush" \in Faults /\ failed' = TRUE
    \/ "scan" \in Faults /\ UNCHANGED failed

\* ... with its patterns of keys, one after the other, whatever became of the ones
\* before.  The retry queue is one key, which needs no SCAN.
Flush ==
    /\ \/ /\ rpc = "status" /\ rpc' = "queue"
          /\ \E kept \in SUBSET {i \in Webhooks : status[i] # Absent} :
                /\ Remove(kept)
                /\ status' = [i \in Webhooks |-> IF i \in kept THEN status[i] ELSE Absent]
          /\ UNCHANGED <<zset, data, processed>>
       \/ /\ rpc = "queue" /\ rpc' = "data"
          /\ \/ zset' = {} /\ UNCHANGED failed
             \/ "flush" \in Faults /\ zset' \in {zset, {}} /\ failed' = TRUE
          /\ UNCHANGED <<status, data, processed>>
       \/ /\ rpc = "data" /\ rpc' = "processed"
          /\ \E kept \in SUBSET data : Remove(kept) /\ data' = kept
          /\ UNCHANGED <<status, zset, processed>>
       \/ /\ rpc = "processed" /\ rpc' = "flushed"
          /\ \E kept \in SUBSET processed : Remove(kept) /\ processed' = kept
          /\ UNCHANGED <<status, zset, data>>
    /\ UNCHANGED <<canary, todo, pos, hwm, msg, runs, doubled, unchangedOutside>>

\* Run returns the errors of the flush, or goes on to the partitions.
Flushed ==
    /\ rpc = "flushed"
    /\ \/ ~failed /\ rpc' = "partition" /\ UNCHANGED todo
       \/ failed /\ rpc' = "off" /\ todo' = <<>>
    /\ failed' = FALSE
    /\ UNCHANGED <<redisVars, pos, hwm, msg, runs, doubled, unchangedOutside>>

NextPartition ==
    /\ todo' = Tail(todo)
    /\ rpc' = "partition"
    /\ msg' = Gone
    /\ UNCHANGED <<pos, hwm>>

\* Mutant: starts at the newest offset instead of the oldest.
ConsumePartitionNewest ==
    /\ rpc = "partition"
    /\ todo # <<>>
    /\ NextPartition
    /\ UNCHANGED <<redisVars, failed, runs, doubled, unchangedOutside>>

\* consumePartition: from the oldest offset up to today's high-water mark.  An
\* empty partition is done, and so is one that cannot be consumed.
ConsumePartition ==
    /\ rpc = "partition"
    /\ todo # <<>>
    /\ \/ /\ log[Head(todo)] # <<>>
          /\ pos' = 1 /\ hwm' = Len(log[Head(todo)])
          /\ rpc' = "consume"
          /\ UNCHANGED <<todo, msg>>
       \/ /\ log[Head(todo)] = <<>> \/ "partition" \in Faults
          /\ NextPartition
    /\ UNCHANGED <<redisVars, failed, runs, doubled, unchangedOutside>>

Message == log[Head(todo)][pos]

\* The loop goes on with the next message, without a look at the offset.
Continue ==
    /\ rpc' = "consume"
    /\ pos' = pos + 1
    /\ msg' = Gone
    /\ UNCHANGED <<todo, hwm>>

\* The end of the loop's body: at the high-water mark the partition is done.
EndOfBody ==
    \/ pos >= hwm /\ NextPartition
    \/ pos < hwm /\ Continue

\* A compacted offset yields no message; a tombstone is skipped.
SkipMessage ==
    /\ rpc = "consume"
    /\ pos \in DOMAIN log[Head(todo)]
    /\ Message = Gone \/ Message.kind = "tombstone"
    /\ Continue
    /\ UNCHANGED <<redisVars, failed, runs, doubled, unchangedOutside>>

\* restoreState: the status, under its own timestamp ...
RestoreStatus ==
    /\ rpc = "consume"
    /\ pos \in DOMAIN log[Head(todo)]
    /\ Message # Gone /\ Message.kind = "snapshot"
    /\ \/ /\ SetStatus(Message.id, "failed", Message.ts)
          /\ rpc' = "restoreData"
          /\ msg' = Message
          /\ UNCHANGED <<todo, pos, hwm>>
       \/ /\ "restore" \in Faults
          /\ Continue
          /\ UNCHANGED status
    /\ UNCHANGED <<zset, data, processed, canary, failed, runs, doubled, unchangedOutside>>

\* ... the retry data ...
RestoreData ==
    /\ rpc = "restoreData"
    /\ \/ /\ data' = data \cup {msg.id}
          /\ rpc' = "restoreZset"
          /\ UNCHANGED <<todo, pos, hwm, msg>>
       \/ /\ "restore" \in Faults
          /\ Continue
          /\ UNCHANGED data
    /\ UNCHANGED <<status, zset, processed, canary, failed, runs, doubled, unchangedOutside>>

\* ... and the retry of the snapshot's attempt, without a look at howk.pending,
\* where that retry may be waiting already.
RestoreZset ==
    /\ rpc = "restoreZset"
    /\ \/ /\ zset' = zset \cup {<<msg.id, msg.att>>}
          /\ doubled' = IF \E a \in Attempts : <<msg.id, a>> \in inbox
                        THEN doubled \cup {msg.id}
                        ELSE doubled
          /\ EndOfBody
       \/ /\ "restore" \in Faults
          /\ Continue
          /\ UNCHANGED <<zset, doubled>>
    /\ UNCHANGED <<status, data, processed, canary, failed, runs, unchangedOutside>>

\* All partitions are done, consumed or not: SetCanary (and SetEpoch).
Complete ==
    /\ rpc = "partition"
    /\ todo = <<>>
    /\ canary' = TRUE
    /\ rpc' = "off"
    /\ UNCHANGED <<status, zset, data, processed, failed, todo, pos, hwm, msg, runs, doubled,
                   unchangedOutside>>

\* The reconciler is cancelled or crashes.
Die ==
    /\ "die" \in Faults
    /\ rpc # "off"
    /\ rpc' = "off"
    /\ failed' = FALSE
    /\ todo' = <<>>
    /\ msg' = Gone
    /\ UNCHANGED <<redisVars, pos, hwm, runs, doubled, unchangedOutside>>

------------------------------------------------------------------------------
HandlerStep(w) ==
    \/ CheckProcessed(w) \/ ScheduleForCircuit(w) \/ StartDelivery(w) \/ Deliver(w)
    \/ EnsureRetryData(w) \/ ScheduleRetry(w) \/ UpdateFailed(w) \/ UpdateSettled(w)
    \/ CleanupRetryData(w) \/ Nack(w)

ReconcilerStep ==
    \/ Flush \/ Flushed \/ ConsumePartition \/ SkipMessage \/ RestoreStatus
    \/ RestoreData \/ RestoreZset \/ Complete

Next ==
    \/ \E id \in Webhooks : Enqueue(id) \/ InitialStatus(id)
    \/ \E r \in zset : Reschedule(r)
    \/ \E w \in Workers : HandlerStep(w) \/ \E r \in inbox : Receive(w, r)
    \/ \E r \in publishing : PublishState(r)
    \/ \E p \in Partitions : \E o \in DOMAIN log[p] : Compact(p, o)
    \/ Stop \/ LoseRedis \/ Start
    \/ Run \/ ReconcilerStep \/ Die

Spec == Init /\ [][Next]_vars

\* A reconciler that runs keeps running.
FairSpec == Spec /\ WF_vars(ReconcilerStep)

------------------------------------------------------------------------------
(* Properties.                                                             *)

\* The webhook is in Kafka, in a handler, or has a retry the scheduler can use.
OnItsWay(id) ==
    \/ \E a \in Attempts : <<id, a>> \in inbox
    \/ \E w \in Workers : pc[w] # "idle" /\ Id(w) = id
    \/ id \in data /\ \E a \in Attempts : <<id, a>> \in zset

\* "No data loss: Redis state is fully reconstructible from Kafka's compacted
\* topic" (README.md:800): while the canary says that Redis is initialized, every
\* accepted webhook is settled or on its way, whatever Redis lost before.
NothingLost ==
    canary => \A id \in accepted : outcome[id] # "none" \/ OnItsWay(id)

\* "Redis is a cache - always rebuildable from Kafka" (FAILURE_MODES.md:132): with
\* the workers stopped, every retry the scheduler could still make has a snapshot
\* of its attempt as the last record of its webhook.  Not so for a doubled webhook:
\* one of its two lives snapshots another attempt than the other has scheduled.
Reconstructible ==
    stopped /\ canary =>
        \A r \in zset :
            outcome[r[1]] = "none" /\ r[1] \in data \ doubled =>
                \E o \in DOMAIN log[PartitionOf[r[1]]] :
                    LET rec == log[PartitionOf[r[1]]][o] IN
                    /\ rec # Gone
                    /\ rec.id = r[1] /\ rec.kind = "snapshot" /\ rec.att = r[2]
                    /\ ~Superseded(PartitionOf[r[1]], o)

\* When the reconciler sets the canary, the retry queue it built holds no retry of
\* a settled webhook and none of an attempt that was made: the snapshots it found
\* were all still good.  A doubled webhook may be settled by one handler while the
\* other goes on to write its snapshot.
NothingReplayed ==
    [][~canary /\ canary' =>
         \A r \in zset : r[1] \notin doubled =>
            outcome[r[1]] = "none" /\ r[2] > tried[r[1]]]_vars

\* While no handler has the webhook and Redis is initialized its status is not
\* behind: final, or forgotten in a rebuild, when it is settled, and failed when
\* it is not and a retry waits.  The later of two handlers of a doubled webhook has
\* the last word, even when it fails and the other one delivered.
StatusAgrees ==
    canary => \A id \in accepted \ (initial \cup doubled) :
        (\A w \in Workers : pc[w] # "idle" => Id(w) # id) =>
            /\ outcome[id] # "none" => status[id].state \in {"absent", outcome[id]}
            /\ (outcome[id] = "none" /\ \E a \in Attempts : <<id, a>> \in zset)
                 => status[id].state = "failed"

\* "Even if reconciler replays stale data, it won't overwrite newer writes"
\* (README.md:780): a webhook that a worker settled after the flush keeps its
\* final status when the reconciler gets to its old snapshot.
ReplayKeepsNewer ==
    [][\A id \in Webhooks :
          rpc = "consume" /\ rpc' = "restoreData" /\ status[id].state \in {"delivered", "exhausted"}
             => status'[id] = status[id]]_vars

\* "Terminal states (delivered/exhausted)" (worker.go:523): a status that says
\* delivered is only ever forgotten, in a rebuild or with a loss of Redis.
DeliveredStays ==
    [][\A id \in Webhooks : status[id].state = "delivered" =>
          status'[id].state \in {"delivered", "absent"}]_vars

\* When the reconciler sets the canary, it has found every webhook that is not
\* settled (worker.go:391: "reconciler handles this edge case").
RebuildFindsAll ==
    [][~canary /\ canary' => \A id \in accepted : outcome[id] # "none" \/ OnItsWay(id)']_vars

\* The reconciler reads up to the high-water mark and completes (README.md:740:
\* "Consume howk.state -> HWM", then "SET howk:system:initialized").
Completes == (rpc # "off") ~> (rpc = "off")
==============================================================================
