------------------------------ MODULE ScriptSync ------------------------------
(***************************************************************************)
(* How a delivery script reaches the processes that run it: the compacted  *)
(* topic howk.scripts (internal/script/publisher.go), its replay by every  *)
(* process (internal/script/consumer.go, Replay in internal/broker/        *)
(* kafka.go), the copy in Redis (internal/hotstate/redis.go), the Loader   *)
(* each process keeps in memory (internal/script/loader.go), the API's     *)
(* script handlers and the tagging of webhooks (internal/api), and the     *)
(* worker that runs the script (EnsureScript and Execute in                *)
(* internal/script/engine.go).                                             *)
(*                                                                         *)
(* A config id has a partition of its own here, which only adds orders in  *)
(* which a process may meet the records of two config ids.  A script is    *)
(* known by the offset of its record; 0 stands for "no script".  Every     *)
(* access to the topic, to Redis or to a Loader is a step of its own.      *)
(* Records a consumer cannot parse are left out: the API publishes none.   *)
(***************************************************************************)
EXTENDS Integers, Sequences, FiniteSets

CONSTANTS
    APIs, Workers,   \* processes
    Handlers,        \* requests and messages in work at the same time
    ProcOf,          \* the process each handler runs in
    Keys,            \* config ids
    NsOf,            \* the namespace of a config id, NoKey if it has none
    NoKey,
    RecordBound,     \* bound: records published to the topic
    HookBound,       \* bound: webhooks enqueued
    MaxAttempts,     \* bound: retries of a webhook
    FaultBound,      \* bound: crashes, replay errors and Redis faults together
    Faults           \* subset of AllFaults

\* redis: a call on Redis fails.  flush: Redis loses its contents.  replay: a
\* partition consumer fails and the replay starts again.  crash: a process dies.
\* compact: the broker drops superseded records.  retention: it drops a
\* tombstone too.  fail: a delivery or a script module fails and is retried.
AllFaults == {"redis", "flush", "replay", "crash", "compact", "retention", "fail"}

Procs   == APIs \cup Workers
Offsets == 0 .. RecordBound

ASSUME ConstantsAssumption ==
    /\ APIs \cap Workers = {}
    /\ ProcOf \in [Handlers -> Procs]
    /\ NoKey \notin Keys /\ IsFiniteSet(Keys)
    /\ NsOf \in [Keys -> Keys \cup {NoKey}]
    /\ \A k \in Keys : NsOf[k] # k
    /\ RecordBound \in Nat /\ HookBound \in Nat /\ MaxAttempts \in Nat
    /\ FaultBound \in Nat
    /\ Faults \subseteq AllFaults

VARIABLES
    log,      \* the records of each config id: "script" or "tombstone"
    kept,     \* offsets compaction has left in the topic
    redis,    \* Redis key script:<id>
    loader,   \* Loader.scripts of each process
    pos,      \* next offset the process's replay reads
    mid,      \* record whose Redis write the replay still has to do, or 0
    h,        \* each handler
    hooks,    \* webhooks published and not yet handled
    made,     \* number of webhooks enqueued
    faults,   \* history: faults so far
    lost,     \* history: a Redis call has failed or Redis was flushed
    acked,    \* history: per process and config id, the last upload answered 200
    late,     \* history: per process, entries last written by a request
    sent      \* history: what was sent to endpoints, or dead-lettered

topicVars   == <<log, kept>>
replayVars  == <<pos, mid>>
hookVars    == <<hooks, made>>
historyVars == <<faults, lost, acked, late, sent>>
vars == <<topicVars, redis, loader, replayVars, h, hookVars, historyVars>>

PCs == {"idle", "cacheRedis", "populate", "dropRedis",                \* scripts
        "lookup", "lookupNs", "fill", "publish",                      \* enqueue
        "execute"}                                                    \* worker

\* A webhook: tag is its ScriptHash, depth how often its payload has been
\* transformed, due whether its script was known to be there.
Hook == [key : Keys, tag : Offsets, depth : 0 .. 2, att : 0 .. MaxAttempts, due : BOOLEAN]

\* A handler: the config id of its request, a script (its own config id and
\* its offset), the webhook, and whether the id was acknowledged at the start.
Handler == [pc : PCs, key : Keys \cup {NoKey}, of : Keys \cup {NoKey}, ver : Offsets,
            acked : BOOLEAN, hook : Hook \cup {<<>>}]
\* What became of a webhook: posted, or dead-lettered for want of a script; the
\* config id whose script ran; due as in Hook, and still so.
Sent == [what : {"post", "notfound"}, key : Keys, of : Keys \cup {NoKey},
         depth : 0 .. 2, due : BOOLEAN]
Idle == [pc |-> "idle", key |-> NoKey, of |-> NoKey, ver |-> 0, acked |-> FALSE, hook |-> <<>>]

TypeOK ==
    /\ log \in [Keys -> Seq({"script", "tombstone"})]
    /\ kept \in [Keys -> SUBSET (1 .. RecordBound)]
    /\ redis \in [Keys -> Offsets]
    /\ loader \in [Procs -> [Keys -> Offsets]]
    /\ pos \in [Procs -> [Keys -> 1 .. RecordBound + 1]]
    /\ mid \in [Procs -> [Keys -> Offsets]]
    /\ h \in [Handlers -> Handler]
    /\ hooks \subseteq Hook
    /\ made \in 0 .. HookBound
    /\ faults \in 0 .. FaultBound
    /\ lost \in BOOLEAN
    /\ acked \in [Procs -> [Keys -> Offsets]]
    /\ late \in [Procs -> SUBSET Keys]
    /\ sent \subseteq Sent

Nothing == [k \in Keys |-> 0]

Init ==
    /\ log = [k \in Keys |-> <<>>]
    /\ kept = [k \in Keys |-> {}]
    /\ redis = Nothing
    /\ loader = [p \in Procs |-> Nothing]
    /\ pos = [p \in Procs |-> [k \in Keys |-> 1]]
    /\ mid = [p \in Procs |-> Nothing]
    /\ h = [r \in Handlers |-> Idle]
    /\ hooks = {} /\ made = 0
    /\ faults = 0 /\ lost = FALSE
    /\ acked = [p \in Procs |-> Nothing]
    /\ late = [p \in Procs |-> {}]
    /\ sent = {}

------------------------------------------------------------------------------
\* The newest script of a config id, 0 if it has none or was deleted.
Latest(k) == IF log[k] # <<>> /\ log[k][Len(log[k])] = "script" THEN Len(log[k]) ELSE 0

Records == {r \in Keys \X (1 .. RecordBound) : r[2] <= Len(log[r[1]])}

Acked(k) == \E p \in Procs : acked[p][k] # 0

Deleted(k) == \E o \in DOMAIN log[k] : log[k][o] = "tombstone"

\* Neither the script of k nor the one that stands in for it was ever deleted,
\* and Redis lost nothing.
Undisturbed(k) == ~lost /\ ~Deleted(k) /\ (NsOf[k] # NoKey => ~Deleted(NsOf[k]))

Fault(f) ==
    /\ f \in Faults
    /\ faults < FaultBound
    /\ faults' = faults + 1

\* PublishScript, DeleteScript: a record, or a tombstone, keyed by config id.
Publish(k, record) ==
    /\ Cardinality(Records) < RecordBound
    /\ log' = [log EXCEPT ![k] = Append(@, record)]
    /\ kept' = [kept EXCEPT ![k] = @ \cup {Len(log[k]) + 1}]

\* SET or DEL of the Redis key, or its error, which every caller only logs.
WriteRedis(k, v) ==
    \/ redis' = [redis EXCEPT ![k] = v] /\ UNCHANGED <<faults, lost>>
    \/ Fault("redis") /\ lost' = TRUE /\ UNCHANGED redis

\* Loader.SetScript and DeleteScript by a request handler.
SetLocal(p, k, v) ==
    /\ loader' = [loader EXCEPT ![p][k] = v]
    /\ late' = [late EXCEPT ![p] = @ \cup {k}]

\* Loader.GetScript: the config id itself, then its namespace.
Lookup(scripts, k) ==
    IF scripts[k] # 0 THEN <<k, scripts[k]>>
    ELSE IF NsOf[k] # NoKey /\ scripts[NsOf[k]] # 0 THEN <<NsOf[k], scripts[NsOf[k]]>>
    ELSE <<NoKey, 0>>

Found(script) == script[2] # 0

------------------------------------------------------------------------------
(* The API's script handlers.                                              *)

\* handleUploadScript publishes; an error is answered 500 and changes nothing.
UploadScript(r, k) ==
    /\ h[r] = Idle /\ ProcOf[r] \in APIs
    /\ Publish(k, "script")
    /\ h' = [h EXCEPT ![r] = [Idle EXCEPT !.pc = "cacheRedis", !.key = k, !.ver = Len(log[k]) + 1]]
    /\ UNCHANGED <<redis, loader, replayVars, hookVars, historyVars>>

CacheScript(r) ==
    /\ h[r].pc = "cacheRedis"
    /\ WriteRedis(h[r].key, h[r].ver)
    /\ h' = [h EXCEPT ![r].pc = "populate"]
    /\ UNCHANGED <<topicVars, loader, replayVars, hookVars, acked, late, sent>>

\* The local Loader is set, and the request answered.
PopulateLoader(r) ==
    /\ h[r].pc = "populate"
    /\ SetLocal(ProcOf[r], h[r].key, h[r].ver)
    /\ acked' = [acked EXCEPT ![ProcOf[r]][h[r].key] = h[r].ver]
    /\ h' = [h EXCEPT ![r] = Idle]
    /\ UNCHANGED <<topicVars, redis, replayVars, hookVars, faults, lost, sent>>

\* handleDeleteScript publishes a tombstone, for an id without a script too; the local
\* Loader is left alone.
DeleteScript(r, k) ==
    /\ h[r] = Idle /\ ProcOf[r] \in APIs
    /\ Publish(k, "tombstone")
    /\ h' = [h EXCEPT ![r] = [Idle EXCEPT !.pc = "dropRedis", !.key = k]]
    /\ UNCHANGED <<redis, loader, replayVars, hookVars, historyVars>>

DropScript(r) ==
    /\ h[r].pc = "dropRedis"
    /\ WriteRedis(h[r].key, 0)
    /\ h' = [h EXCEPT ![r] = Idle]
    /\ UNCHANGED <<topicVars, loader, replayVars, hookVars, acked, late, sent>>

------------------------------------------------------------------------------
(* Replay and handleMessage, one goroutine for each partition.             *)

NextKept(p, k) == {o \in kept[k] : o >= pos[p][k] /\ \A n \in kept[k] : n >= pos[p][k] => o <= n}

\* Mutant: a tombstone leaves the Loader alone, as the API's delete does.
ReplayIgnoringTombstones(p, k) ==
    /\ mid[p][k] = 0
    /\ \E o \in NextKept(p, k) :
          /\ loader' = [loader EXCEPT ![p][k] = IF log[k][o] = "script" THEN o ELSE @]
          /\ pos' = [pos EXCEPT ![p][k] = o + 1]
          /\ mid' = [mid EXCEPT ![p][k] = o]
    /\ late' = [late EXCEPT ![p] = @ \ {k}]
    /\ UNCHANGED <<topicVars, redis, h, hookVars, faults, lost, acked, sent>>

\* handleMessage sets or deletes the entry of the Loader.
ReplayRecord(p, k) ==
    /\ mid[p][k] = 0
    /\ \E o \in NextKept(p, k) :
          /\ loader' = [loader EXCEPT ![p][k] = IF log[k][o] = "script" THEN o ELSE 0]
          /\ pos' = [pos EXCEPT ![p][k] = o + 1]
          /\ mid' = [mid EXCEPT ![p][k] = o]
    /\ late' = [late EXCEPT ![p] = @ \ {k}]
    /\ UNCHANGED <<topicVars, redis, h, hookVars, faults, lost, acked, sent>>

\* Mutant: after an error of Redis the goroutine of the partition reads no more.
WriteThroughGivesUp(p, k) ==
    /\ mid[p][k] # 0 /\ ~lost
    /\ WriteRedis(k, IF log[k][mid[p][k]] = "script" THEN mid[p][k] ELSE 0)
    /\ mid' = [mid EXCEPT ![p][k] = IF lost' THEN @ ELSE 0]
    /\ UNCHANGED <<topicVars, loader, pos, h, hookVars, acked, late, sent>>

\* and writes the same to Redis.
WriteThrough(p, k) ==
    /\ mid[p][k] # 0
    /\ WriteRedis(k, IF log[k][mid[p][k]] = "script" THEN mid[p][k] ELSE 0)
    /\ mid' = [mid EXCEPT ![p][k] = 0]
    /\ UNCHANGED <<topicVars, loader, pos, h, hookVars, acked, late, sent>>

\* ConsumePartition from OffsetOldest, for every partition.
ReplayFromOldest(p) == pos' = [pos EXCEPT ![p] = [k \in Keys |-> 1]]

\* A partition consumer fails: all are torn down, after the messages in work,
\* and run starts again.  The Loader keeps its entries.
RestartReplay(p) ==
    /\ mid[p] = Nothing
    /\ Fault("replay")
    /\ ReplayFromOldest(p)
    /\ UNCHANGED <<topicVars, redis, loader, mid, h, hookVars, lost, acked, late, sent>>

\* The process dies and starts again with an empty Loader.
Crash(p) ==
    /\ Fault("crash")
    /\ loader' = [loader EXCEPT ![p] = Nothing]
    /\ ReplayFromOldest(p)
    /\ mid' = [mid EXCEPT ![p] = Nothing]
    /\ h' = [r \in Handlers |-> IF ProcOf[r] = p THEN Idle ELSE h[r]]
    /\ hooks' = hooks \cup {h[r].hook : r \in {q \in Handlers : ProcOf[q] = p /\ p \in Workers /\ h[q].hook # <<>>}}
    /\ late' = [late EXCEPT ![p] = {}]
    /\ UNCHANGED <<topicVars, redis, made, lost, acked, sent>>

\* The broker compacts a partition.
Compact(k, o) ==
    /\ o \in kept[k]
    /\ \/ o < Len(log[k]) /\ "compact" \in Faults
       \/ o = Len(log[k]) /\ log[k][o] = "tombstone" /\ "retention" \in Faults
    /\ kept' = [kept EXCEPT ![k] = @ \ {o}]
    /\ UNCHANGED <<log, redis, loader, replayVars, h, hookVars, historyVars>>

\* Redis loses the scripts.
Flush ==
    /\ Fault("flush")
    /\ redis' = Nothing
    /\ lost' = TRUE
    /\ UNCHANGED <<topicVars, loader, replayVars, h, hookVars, acked, late, sent>>

------------------------------------------------------------------------------
(* The tagging of webhooks: processEnqueue and buildWebhook.               *)

AddHook(k, tag, due) ==
    hooks' = hooks \cup {[key |-> k, tag |-> tag, depth |-> 0, att |-> 0, due |-> due]}

\* buildWebhook finds the script in the Loader, or turns to Redis.
EnqueueWebhook(r, k) ==
    /\ h[r] = Idle /\ ProcOf[r] \in APIs
    /\ made < HookBound
    /\ made' = made + 1
    /\ \E script \in {Lookup(loader[ProcOf[r]], k)} :
         \/ /\ Found(script)
            /\ AddHook(k, script[2], Acked(k) /\ Undisturbed(k))
            /\ UNCHANGED h
         \/ /\ ~Found(script)
            /\ h' = [h EXCEPT ![r] = [Idle EXCEPT !.pc = "lookup", !.key = k, !.acked = Acked(k)]]
            /\ UNCHANGED hooks
    /\ UNCHANGED <<topicVars, redis, loader, replayVars, historyVars>>

\* What follows the lookup of a script.
Resolved(r) == IF ProcOf[r] \in APIs THEN "publish" ELSE "execute"

\* RedisHotState.GetScript: GET of the config id, then of its namespace; both
\* callers take an error for a miss.
LookupRedis(r) ==
    /\ h[r].pc = "lookup"
    /\ LET k == h[r].key IN
         \/ /\ redis[k] # 0
            /\ h' = [h EXCEPT ![r] = [@ EXCEPT !.pc = "fill", !.of = k, !.ver = redis[k]]]
            /\ UNCHANGED <<faults, lost>>
         \/ /\ redis[k] = 0
            /\ h' = [h EXCEPT ![r].pc = IF NsOf[k] # NoKey THEN "lookupNs" ELSE Resolved(r)]
            /\ UNCHANGED <<faults, lost>>
         \/ /\ Fault("redis") /\ lost' = TRUE
            /\ h' = [h EXCEPT ![r].pc = Resolved(r)]
    /\ UNCHANGED <<topicVars, redis, loader, replayVars, hookVars, acked, late, sent>>

LookupNamespace(r) ==
    /\ h[r].pc = "lookupNs"
    /\ LET n == NsOf[h[r].key] IN
         \/ /\ redis[n] # 0
            /\ h' = [h EXCEPT ![r] = [@ EXCEPT !.pc = "fill", !.of = n, !.ver = redis[n]]]
            /\ UNCHANGED <<faults, lost>>
         \/ /\ redis[n] = 0
            /\ h' = [h EXCEPT ![r].pc = Resolved(r)]
            /\ UNCHANGED <<faults, lost>>
         \/ /\ Fault("redis") /\ lost' = TRUE
            /\ h' = [h EXCEPT ![r].pc = Resolved(r)]
    /\ UNCHANGED <<topicVars, redis, loader, replayVars, hookVars, acked, late, sent>>

\* The script that was read goes into the Loader, under its own config id and
\* whatever the replay has put there meanwhile.
FillLoader(r) ==
    /\ h[r].pc = "fill"
    /\ SetLocal(ProcOf[r], h[r].of, h[r].ver)
    /\ h' = [h EXCEPT ![r].pc = Resolved(r)]
    /\ UNCHANGED <<topicVars, redis, replayVars, hookVars, faults, lost, acked, sent>>

\* The webhook is published, or rejected if it has no script and require_script
\* is set.
PublishWebhook(r) ==
    /\ h[r].pc = "publish"
    /\ \/ AddHook(h[r].key, h[r].ver, h[r].acked /\ Undisturbed(h[r].key))
       \/ h[r].ver = 0 /\ UNCHANGED hooks
    /\ h' = [h EXCEPT ![r] = Idle]
    /\ UNCHANGED <<topicVars, redis, loader, replayVars, made, historyVars>>

------------------------------------------------------------------------------
(* The worker.                                                             *)

Record(what, hook, of, depth) ==
    sent' = sent \cup {[what |-> what, key |-> hook.key, of |-> of, depth |-> depth,
                        due |-> hook.due /\ Undisturbed(hook.key)]}

\* Mutant: Execute without EnsureScript, on whatever the Loader has.
ReceiveWithoutEnsure(r, m) ==
    /\ h[r] = Idle /\ ProcOf[r] \in Workers
    /\ m \in hooks
    /\ hooks' = hooks \ {m}
    /\ \/ m.tag = 0 /\ Record("post", m, NoKey, m.depth) /\ UNCHANGED h
       \/ /\ m.tag # 0
          /\ h' = [h EXCEPT ![r] = [Idle EXCEPT !.pc = "execute", !.key = m.key, !.hook = m]]
          /\ UNCHANGED sent
    /\ UNCHANGED <<topicVars, redis, loader, replayVars, made, faults, lost, acked, late>>

\* processMessage: a webhook without a ScriptHash is sent as it is; for one with
\* a ScriptHash, EnsureScript looks whether the Loader has a script.
Receive(r, m) ==
    /\ h[r] = Idle /\ ProcOf[r] \in Workers
    /\ m \in hooks
    /\ hooks' = hooks \ {m}
    /\ \/ /\ m.tag = 0
          /\ Record("post", m, NoKey, m.depth)
          /\ UNCHANGED h
       \/ /\ m.tag # 0
          /\ h' = [h EXCEPT ![r] = [Idle EXCEPT
                !.pc = IF Found(Lookup(loader[ProcOf[r]], m.key)) THEN "execute" ELSE "lookup",
                !.key = m.key, !.hook = m]]
          /\ UNCHANGED sent
    /\ UNCHANGED <<topicVars, redis, loader, replayVars, made, faults, lost, acked, late>>

\* Mutant: one retry too many.
RetryOnceMore(m, depth) ==
    /\ m.att <= MaxAttempts
    /\ hooks' = hooks \cup {[m EXCEPT !.att = @ + 1, !.depth = IF m.att = 0 THEN depth ELSE @]}

\* What EnsureRetryData keeps for the retries is the webhook as it was at the
\* first failure, after applyTransformation if the delivery failed.
Retry(m, depth) ==
    /\ m.att < MaxAttempts
    /\ hooks' = hooks \cup {[m EXCEPT !.att = @ + 1, !.depth = IF m.att = 0 THEN depth ELSE @]}

\* The script gets the payload the webhook has, and what it leaves is the payload
\* that is sent and kept; more than two transformations are counted as two.
applyTransformation(depth) == IF depth < 2 THEN depth + 1 ELSE 2

\* Execute: the script the Loader has now, whatever the webhook's ScriptHash,
\* is applied and the result delivered; without one the webhook is
\* dead-lettered.  A script that fails has its webhook retried or dead-lettered.
Execute(r) ==
    /\ h[r].pc = "execute"
    /\ \E script \in {Lookup(loader[ProcOf[r]], h[r].key)}, m \in {h[r].hook} :
         \/ ~Found(script) /\ Record("notfound", m, NoKey, m.depth) /\ UNCHANGED hooks
         \/ /\ Found(script)
            /\ Record("post", m, script[1], applyTransformation(m.depth))
            /\ \/ UNCHANGED hooks
               \/ "fail" \in Faults /\ Retry(m, applyTransformation(m.depth))
         \/ Found(script) /\ "fail" \in Faults /\ Retry(m, m.depth) /\ UNCHANGED sent
         \/ Found(script) /\ "fail" \in Faults /\ UNCHANGED <<hooks, sent>>
    /\ h' = [h EXCEPT ![r] = Idle]
    /\ UNCHANGED <<topicVars, redis, loader, replayVars, made, faults, lost, acked, late>>

------------------------------------------------------------------------------
HandlerStep(r) ==
    \/ CacheScript(r) \/ PopulateLoader(r) \/ DropScript(r)
    \/ LookupRedis(r) \/ LookupNamespace(r) \/ FillLoader(r) \/ PublishWebhook(r)
    \/ Execute(r)

Next ==
    \/ \E r \in Handlers, k \in Keys : UploadScript(r, k) \/ DeleteScript(r, k) \/ EnqueueWebhook(r, k)
    \/ \E r \in Handlers, m \in hooks : Receive(r, m)
    \/ \E r \in Handlers : HandlerStep(r)
    \/ \E p \in Procs, k \in Keys : ReplayRecord(p, k) \/ WriteThrough(p, k)
    \/ \E p \in Procs : RestartReplay(p) \/ Crash(p)
    \/ \E k \in Keys, o \in 1 .. RecordBound : Compact(k, o)
    \/ Flush

Spec == Init /\ [][Next]_vars

\* The goroutines of every process's replay keep reading.  Nothing obliges anyone
\* to upload, delete or enqueue, or a request under way to come to an end.
Fairness == \A p \in Procs, k \in Keys : WF_replayVars(ReplayRecord(p, k) \/ WriteThrough(p, k))

FairSpec == Spec /\ Fairness

------------------------------------------------------------------------------
(* Properties.                                                             *)

CaughtUp(p, k) == (\A o \in kept[k] : o < pos[p][k]) /\ mid[p][k] = 0

\* A process that has replayed the topic to its end holds exactly the newest
\* script of every config id and no deleted one, after any number of replays,
\* crashes, failures of Redis and compactions, except for an entry that a
\* request handler of that process has written since (consumer.go: "every
\* instance materializes the FULL script state in memory").
ReplayExact ==
    \A p \in Procs, k \in Keys :
        CaughtUp(p, k) => loader[p][k] = Latest(k) \/ k \in late[p]

\* Once an upload has been answered 200, every webhook enqueued for that config
\* id is transformed before it is sent and none is dead-lettered for want of a
\* script, at every attempt and on every process, also one that is starting,
\* replaying again or far behind, as long as the script is not deleted and
\* Redis loses nothing.
AckedScriptApplied ==
    \A s \in sent : s.due => s.what = "post" /\ s.depth >= 1

\* A change published to the topic reaches the Loader of every process for good,
\* unless a request handler overwrites it.
EventuallyLearned ==
    <>[](\A p \in Procs, k \in Keys : loader[p][k] = Latest(k) \/ k \in late[p])

\* server.go:251: the Loader "holds the COMPLETE script state (replayed from the
\* compacted Kafka topic and kept current by the tail)".
LoaderComplete ==
    \A p \in Procs, k \in Keys :
        CaughtUp(p, k) /\ (\A r \in Handlers : h[r] = Idle) => loader[p][k] = Latest(k)

\* h_script.go:24: deletes are propagated by tombstones, "so the mirror never
\* accumulates orphans".
NoOrphanMirror ==
    \A k \in Keys :
        /\ Latest(k) = 0
        /\ \A p \in Procs : CaughtUp(p, k)
        /\ \A r \in Handlers : h[r] = Idle
        => redis[k] = 0

\* h_script.go:130: the local Loader is set "so this pod serves the new script on
\* the very next enqueue".
UploadServed ==
    \A p \in Procs, k \in Keys :
        acked[p][k] # 0 /\ acked[p][k] = Latest(k) => loader[p][k] = Latest(k)

\* loader.go:50: an exact match comes first, so a config id with a script of its
\* own is not served by that of its namespace.
OwnScriptApplied ==
    \A s \in sent : s.due => s.of = s.key

\* docs/LUA_ENGINE.md:55: the script's payload is the raw request body.
RawPayload == \A s \in sent : s.depth <= 1
==============================================================================
