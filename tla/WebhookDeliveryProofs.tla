------------------------- MODULE WebhookDeliveryProofs -------------------------
(***************************************************************************)
(* Proofs about WebhookDelivery: with retry data that survives its refresh *)
(* and none of the faults in LossyFaults, no webhook is lost; as long as   *)
(* the idempotency key neither fails nor expires, no attempt is sent twice *)
(* and nothing is sent after a 2xx; without the faults in LitteringFaults  *)
(* no retry data is left behind; without failing scripts the attempts are  *)
(* bounded.  All of it for every number of webhooks,                       *)
(* workers, schedulers and attempts.                                       *)
(***************************************************************************)
EXTENDS WebhookDelivery, TLAPS

\* The faults that can lose a webhook; every other one may happen.
LossyFaults == {"crash", "circuit", "capacity", "redis", "getdata", "dlq"}
NoLossyFault == Faults \cap LossyFaults = {} /\ RetryDataTTL > 0

WorkingPC == {"circuit", "gate", "deliver", "ensure", "schedule", "exhaust", "dlq"}

Works(w, id, b) == pc[w] \in WorkingPC /\ msg[w].id = id /\ msg[w].att >= b

\* Unprocessed messages and findable retries of a later attempt than b.
MessageAfter(id, b) ==
    \E m \in topic : m.id = id /\ m.att > b /\ <<id, m.att>> \notin processed
RetryAfter(id, b) ==
    id \in data /\ \E a \in Attempts : a > b /\ zset[<<id, a>>] # "absent"
                                            /\ <<id, a>> \notin processed

\* Attempt b of the webhook has been taken care of: the webhook is settled, or
\* something at or beyond b carries it on without needing b's own message.
Carried(id, b) ==
    \/ outcome[id] # "none"
    \/ \E w \in Workers : Works(w, id, b)
    \/ MessageAfter(id, b)
    \/ RetryAfter(id, b)

InTopic(id, b) == \E m \in topic : m.id = id /\ m.att = b

\* What a handler knows at each label.
HandlerKnows(w) ==
    /\ pc[w] # "nack"
    /\ pc[w] = "schedule" => outcome[msg[w].id] # "none" \/ msg[w].id \in data
    /\ pc[w] = "cleanup" => outcome[msg[w].id] # "none"
    /\ pc[w] \in {"ensure", "schedule"} => next[w] = msg[w].att + 1
    /\ pc[w] = "ack" => Carried(msg[w].id, msg[w].att)

HandlerInv == \A w \in Workers : HandlerKnows(w)

ProcessedInv == \A id \in Webhooks, b \in Attempts :
                    <<id, b>> \in processed => Carried(id, b)

PublishedInv == \A s \in Schedulers : spc[s] = "ack" =>
                    InTopic(sref[s][1], sref[s][2]) \/ Carried(sref[s][1], sref[s][2])

AcceptedInv == \A id \in accepted : InTopic(id, 0) \/ Carried(id, 0)

\* The inductive invariant behind NoLoss.
LossInv == HandlerInv /\ ProcessedInv /\ PublishedInv /\ AcceptedInv

------------------------------------------------------------------------------
(* Types.                                                                  *)

LEMMA MessageFields ==
    \A m \in Message : m.id \in Webhooks /\ m.att \in Attempts /\ m.lane \in Lanes
BY DEF Message

LEMMA MessageIntro ==
    ASSUME NEW id \in Webhooks, NEW att \in Attempts, NEW lane \in Lanes,
           NEW off \in 0 .. PublishBound
    PROVE  [off |-> off, id |-> id, att |-> att, lane |-> lane] \in Message
BY DEF Message

\* A handler moves to a label and changes only what the label allows.
LEMMA GotoType ==
    ASSUME TypeOK, NEW w \in Workers, NEW label \in WorkerPC, Goto(w, label),
           pc[w] # "idle", msg' = msg
    PROVE  /\ pc' \in [Workers -> WorkerPC]
           /\ msg' \in [Workers -> Message \cup {NoMsg}]
           /\ \A v \in Workers : pc'[v] # "idle" => msg'[v] \in Message
BY DEF TypeOK, Goto

LEMMA EndType ==
    ASSUME TypeOK, NEW w \in Workers, EndHandler(w)
    PROVE  /\ pc' \in [Workers -> WorkerPC]
           /\ msg' \in [Workers -> Message \cup {NoMsg}]
           /\ \A v \in Workers : pc'[v] # "idle" => msg'[v] \in Message
           /\ next' \in [Workers -> Attempts]
<1>1. 0 \in Attempts /\ "idle" \in WorkerPC
  BY ConstantsAssumption DEF Attempts, WorkerPC
<1> QED BY <1>1 DEF TypeOK, EndHandler, Goto

LEMMA PublishType ==
    ASSUME TypeOK, NEW id \in Webhooks, NEW att \in Attempts, NEW lane \in Lanes,
           PublishTo(id, att, lane)
    PROVE  topic' \subseteq Message /\ nextOff' \in 0 .. PublishBound
<1>1. nextOff \in 0 .. PublishBound /\ nextOff < PublishBound
  BY DEF TypeOK, PublishTo
<1>2. nextOff + 1 \in 0 .. PublishBound
  BY <1>1, ConstantsAssumption
<1>3. [off |-> nextOff, id |-> id, att |-> att, lane |-> lane] \in Message
  BY <1>1, MessageIntro
<1> QED BY <1>1, <1>2, <1>3 DEF TypeOK, PublishTo

\* The types of every step of a handler.
LEMMA HandlerType ==
    ASSUME TypeOK, NEW w \in Workers, HandlerStep(w)
    PROVE  TypeOK'
<1> DEFINE m == msg[w]
<1> USE DEF workerVars, schedulerVars, historyVars, topicVars, redisVars
<1>1. pc[w] # "idle"
  BY DEF HandlerStep, CheckProcessed, CheckCircuit, PassGates, Deliver, ScriptFails,
         EnsureRetryData, ScheduleRetry, Exhaust, CleanupRetryData, SendToDLQ,
         ReturnNil, ReturnError
<1>2. m \in Message /\ m.id \in Webhooks /\ m.att \in Attempts
  BY <1>1, MessageFields DEF TypeOK
<1>3. RefOf(w) \in Refs
  BY <1>2 DEF RefOf, Refs
<1>4. {"ack", "nack", "circuit", "gate", "deliver", "cleanup", "ensure", "schedule",
       "exhaust", "dlq"} \subseteq WorkerPC /\ "slow" \in Lanes
  BY DEF WorkerPC, Lanes
<1>5. m.att < AttemptBound => m.att + 1 \in Attempts
  BY <1>2, ConstantsAssumption DEF Attempts
<1>6. MayRetry(w) => m.att < AttemptBound
  BY <1>2, ConstantsAssumption DEF MayRetry, Attempts
<1>7. \A a \in Attempts : [next EXCEPT ![w] = a] \in [Workers -> Attempts]
  BY DEF TypeOK
<1>8. next[w] \in Attempts
  BY DEF TypeOK
<1>9. CASE CheckProcessed(w)
  BY <1>9, <1>1, <1>3, <1>4, GotoType DEF CheckProcessed, TypeOK
<1>10. CASE CheckCircuit(w)
  BY <1>10, <1>1, <1>2, <1>4, <1>7, GotoType DEF CheckCircuit, TypeOK
<1>11. CASE PassGates(w)
  BY <1>11, <1>1, <1>2, <1>4, GotoType, PublishType DEF PassGates, TypeOK
<1>12. CASE Deliver(w)
  <2>1. posts' \in [Refs -> 0 .. 2]
    BY <1>12, <1>3 DEF Deliver, CountPost, TypeOK
  <2>2. outcome' \in [Webhooks -> {"none", "delivered", "dead"}]
    BY <1>12, <1>2 DEF Deliver, TypeOK
  <2>3. next' \in [Workers -> Attempts]
    BY <1>12, <1>5, <1>6, <1>7 DEF Deliver, TypeOK
  <2>4. PICK label \in WorkerPC : Goto(w, label)
    BY <1>12, <1>4 DEF Deliver
  <2> QED BY <1>12, <1>1, <2>1, <2>2, <2>3, <2>4, GotoType DEF Deliver, TypeOK
<1>13. CASE ScriptFails(w)
  BY <1>13, <1>1, <1>4, <1>5, <1>7, GotoType DEF ScriptFails, TypeOK
<1>14. CASE EnsureRetryData(w)
  BY <1>14, <1>1, <1>2, <1>4, GotoType DEF EnsureRetryData, TypeOK
<1>15. CASE ScheduleRetry(w)
  <2>1. <<m.id, next[w]>> \in Refs
    BY <1>2, <1>8 DEF Refs
  <2> QED BY <1>15, <1>1, <1>4, <2>1, GotoType DEF ScheduleRetry, TypeOK
<1>16. CASE Exhaust(w)
  BY <1>16, <1>1, <1>2, <1>4, GotoType DEF Exhaust, TypeOK
<1>17. CASE CleanupRetryData(w)
  BY <1>17, <1>1, <1>4, GotoType DEF CleanupRetryData, TypeOK
<1>18. CASE SendToDLQ(w)
  BY <1>18, <1>1, <1>2, <1>4, GotoType DEF SendToDLQ, TypeOK
<1>19. CASE ReturnNil(w)
  BY <1>19, EndType DEF ReturnNil, TypeOK
<1>20. CASE ReturnError(w)
  BY <1>20, EndType DEF ReturnError, TypeOK
<1> QED BY <1>9, <1>10, <1>11, <1>12, <1>13, <1>14, <1>15, <1>16, <1>17, <1>18,
           <1>19, <1>20 DEF HandlerStep

\* The types of every step of a scheduler.
LEMMA SchedulerType ==
    ASSUME TypeOK, NEW s \in Schedulers, SchedulerStep(s) \/ SchedulerCrash(s)
    PROVE  TypeOK'
<1> USE DEF workerVars, schedulerVars, historyVars, topicVars, redisVars
<1>1. CASE \E refs \in SUBSET Refs : PopAndLock(s, refs)
  BY <1>1 DEF PopAndLock, TypeOK
<1>2. CASE \E r \in Refs : FetchData(s, r)
  BY <1>2 DEF FetchData, TypeOK
<1>3. ASSUME NEW r, NextRef(s, r)
      PROVE  /\ batch' \in [Schedulers -> SUBSET Refs]
             /\ spc' \in [Schedulers -> {"idle", "loop", "publish", "ack"}]
             /\ sref' \in [Schedulers -> Refs \cup {NoRef}]
             /\ \A t \in Schedulers : spc'[t] \in {"publish", "ack"} => sref'[t] \in Refs
  BY <1>3 DEF NextRef, TypeOK
<1>4. ASSUME NEW r \in Refs, AckRetry(r)
      PROVE  zset' \in [Refs -> {"absent", "waiting", "locked"}]
  BY <1>4 DEF AckRetry, TypeOK
<1>5. CASE \E r \in Refs : DropRef(s, r)
  BY <1>5, <1>3, <1>4 DEF DropRef, TypeOK
<1>6. CASE Republish(s)
  <2>1. sref[s] \in Refs /\ sref[s][1] \in Webhooks /\ sref[s][2] \in Attempts
    BY <1>6 DEF Republish, TypeOK, Refs
  <2>2. CASE NextRef(s, sref[s]) /\ UNCHANGED topicVars
    BY <1>6, <2>2, <1>3 DEF Republish, TypeOK
  <2>3. CASE /\ PublishTo(sref[s][1], sref[s][2], "fast")
             /\ spc' = [spc EXCEPT ![s] = "ack"]
             /\ UNCHANGED <<batch, sref>>
    <3>1. "fast" \in Lanes
      BY DEF Lanes
    <3> QED BY <1>6, <2>1, <2>3, <3>1, PublishType DEF Republish, TypeOK
  <2> QED BY <1>6, <2>2, <2>3 DEF Republish
<1>7. CASE AckPublished(s)
  BY <1>7, <1>3, <1>4 DEF AckPublished, TypeOK
<1>8. CASE SchedulerCrash(s)
  BY <1>8 DEF SchedulerCrash, TypeOK
<1> QED BY <1>1, <1>2, <1>5, <1>6, <1>7, <1>8 DEF SchedulerStep

LEMMA TypeStep == TypeOK /\ [Next]_vars => TypeOK'
<1> SUFFICES ASSUME TypeOK, [Next]_vars PROVE TypeOK'
  OBVIOUS
<1> USE DEF workerVars, schedulerVars, historyVars, topicVars, redisVars
<1>1. CASE \E id \in Webhooks : Enqueue(id)
  <2>1. 0 \in Attempts /\ "fast" \in Lanes
    BY ConstantsAssumption DEF Attempts, Lanes
  <2> QED BY <1>1, <2>1, PublishType DEF Enqueue, TypeOK
<1>2. CASE \E w \in Workers, m \in topic : Receive(w, m)
  BY <1>2 DEF Receive, Goto, TypeOK, WorkerPC
<1>3. CASE \E w \in Workers : WorkerCrash(w)
  BY <1>3, EndType DEF WorkerCrash, TypeOK
<1>4. CASE \E r \in Refs : LockExpires(r) \/ ProcessedExpires(r)
  BY <1>4 DEF LockExpires, ProcessedExpires, TypeOK
<1>5. CASE UNCHANGED vars
  BY <1>5 DEF vars, TypeOK
<1> QED BY <1>1, <1>2, <1>3, <1>4, <1>5, HandlerType, SchedulerType DEF Next

LEMMA TypeInit == Init => TypeOK
<1>1. 0 \in Attempts /\ 0 \in 0 .. PublishBound
  BY ConstantsAssumption DEF Attempts
<1> QED BY <1>1 DEF Init, TypeOK, WorkerPC

\* Every reachable state is well typed: in particular no ref, message or attempt
\* number outside Refs is ever built, so the retry ZSET, the idempotency keys
\* and the topics agree on what an attempt is.
THEOREM TypeCorrect == Spec => []TypeOK
<1> QED BY TypeInit, TypeStep, PTL DEF Spec

------------------------------------------------------------------------------
(* What has been taken care of stays taken care of.                        *)

\* Every action that removes nothing keeps Carried.
LEMMA CarriedMono ==
    ASSUME NEW id \in Webhooks, NEW b \in Attempts, Carried(id, b),
           outcome[id] # "none" => outcome'[id] # "none",
           \A w \in Workers : Works(w, id, b) => Carried(id, b)' \/ Works(w, id, b)',
           topic \subseteq topic', processed' \subseteq processed,
           id \in data => id \in data',
           \A a \in Attempts : zset[<<id, a>>] # "absent" => zset'[<<id, a>>] # "absent"
    PROVE  Carried(id, b)'
<1>1. MessageAfter(id, b) => MessageAfter(id, b)'
  BY DEF MessageAfter
<1>2. RetryAfter(id, b) => RetryAfter(id, b)'
  BY DEF RetryAfter
<1> QED BY <1>1, <1>2 DEF Carried

\* A later attempt that is taken care of takes care of the earlier ones.
LEMMA CarriedDownNext ==
    ASSUME TypeOK', NEW id \in Webhooks, NEW a \in Attempts, NEW b \in Attempts, b <= a,
           Carried(id, a)'
    PROVE  Carried(id, b)'
<1>1. a \in Int /\ b \in Int /\ Attempts \subseteq Int
  BY ConstantsAssumption DEF Attempts
<1>2. ASSUME NEW w \in Workers, Works(w, id, a)' PROVE Works(w, id, b)'
  <2>1. msg'[w].att \in Int
    BY <1>1, <1>2, MessageFields DEF TypeOK, Works, WorkingPC
  <2> QED BY <1>1, <1>2, <2>1 DEF Works
<1>3. MessageAfter(id, a)' => MessageAfter(id, b)'
  <2>1. \A m \in topic' : m.att \in Int
    BY <1>1, MessageFields DEF TypeOK
  <2> QED BY <1>1, <2>1 DEF MessageAfter
<1>4. RetryAfter(id, a)' => RetryAfter(id, b)'
  BY <1>1 DEF RetryAfter
<1> QED BY <1>2, <1>3, <1>4 DEF Carried

\* A worker at work keeps its message when only its label changes.
LEMMA WorksGoto ==
    ASSUME TypeOK, NEW w \in Workers, NEW label \in WorkingPC, Goto(w, label), msg' = msg,
           NEW id, NEW b, NEW v \in Workers, Works(v, id, b)
    PROVE  Works(v, id, b)'
BY DEF TypeOK, Goto, Works

LEMMA CarriedHandler ==
    ASSUME TypeOK, LossInv, NoLossyFault, NEW w \in Workers, HandlerStep(w),
           NEW id \in Webhooks, NEW b \in Attempts, Carried(id, b)
    PROVE  Carried(id, b)'
<1> USE DEF workerVars, schedulerVars, historyVars, topicVars, redisVars
<1>n. /\ "crash" \notin Faults /\ "circuit" \notin Faults /\ "capacity" \notin Faults
      /\ "redis" \notin Faults /\ "dlq" \notin Faults /\ RetryDataTTL > 0
  BY DEF NoLossyFault, LossyFaults
<1>r. RetryDataTTL # 0
  BY <1>n, ConstantsAssumption
<1>m. pc[w] # "idle" => msg[w] \in Message /\ msg[w].id \in Webhooks /\ msg[w].att \in Attempts
  BY MessageFields DEF TypeOK
<1>i. Attempts \subseteq Int /\ b \in Int
  BY ConstantsAssumption DEF Attempts
<1>g. {"circuit", "gate", "deliver", "ensure", "schedule", "exhaust", "dlq"} \subseteq WorkingPC
  BY DEF WorkingPC
<1>1. CASE CheckProcessed(w)
  <2>1. CASE RefOf(w) \notin processed /\ processed' = processed \cup {RefOf(w)}
             /\ Goto(w, "circuit")
    <3>1. msg[w].id = id /\ msg[w].att > b => Works(w, id, b)'
      <4>1. msg' = msg /\ pc'[w] \in WorkingPC
        BY <1>1, <2>1, <1>g DEF CheckProcessed, Goto, TypeOK
      <4>2. msg[w].att \in Int
        BY <1>1, <1>m, <1>i DEF CheckProcessed
      <4>3. msg[w].att > b => msg[w].att >= b
        BY <4>2, <1>i
      <4> QED BY <4>1, <4>3 DEF Works
    <3>2. \A v \in Workers : Works(v, id, b) => Works(v, id, b)'
      BY <1>1, <2>1, <1>g, WorksGoto DEF CheckProcessed
    <3>3. MessageAfter(id, b) => MessageAfter(id, b)' \/ Works(w, id, b)'
      BY <1>1, <2>1, <3>1 DEF CheckProcessed, MessageAfter, RefOf
    <3>4. RetryAfter(id, b) => RetryAfter(id, b)' \/ Works(w, id, b)'
      BY <1>1, <2>1, <3>1 DEF CheckProcessed, RetryAfter, RefOf
    <3>5. outcome' = outcome
      BY <1>1 DEF CheckProcessed
    <3> QED BY <3>2, <3>3, <3>4, <3>5 DEF Carried
  <2>2. CASE processed' = processed
    <3>1. \A v \in Workers : Works(v, id, b) => Works(v, id, b)'
      BY <1>1, <2>2 DEF CheckProcessed, Goto, Works, TypeOK, WorkingPC
    <3> QED BY <1>1, <2>2, <3>1, CarriedMono DEF CheckProcessed
  <2> QED BY <1>1, <2>1, <2>2 DEF CheckProcessed
<1>2. CASE CheckCircuit(w)
  BY <1>2, <1>g, <1>n, WorksGoto, CarriedMono DEF CheckCircuit
<1>3. CASE PassGates(w)
  BY <1>3, <1>g, <1>n, WorksGoto, CarriedMono DEF PassGates
<1>4. CASE Deliver(w)
  <2>1. outcome[id] # "none" => outcome'[id] # "none"
    BY <1>4, <1>m DEF Deliver, TypeOK
  <2>2. ASSUME NEW v \in Workers, Works(v, id, b)
        PROVE  Carried(id, b)' \/ Works(v, id, b)'
    <3>1. CASE outcome' = [outcome EXCEPT ![msg[w].id] = "delivered"] /\ Goto(w, "cleanup")
      <4>1. msg[w].id = id => outcome'[id] # "none"
        BY <1>4, <3>1 DEF TypeOK
      <4>2. v # w => Works(v, id, b)'
        BY <1>4, <2>2, <3>1 DEF Deliver, Goto, Works, TypeOK
      <4> QED BY <4>1, <4>2, <2>2 DEF Carried, Works
    <3>2. CASE Goto(w, "ensure") \/ Goto(w, "exhaust")
      BY <1>4, <1>g, <2>2, <3>2, WorksGoto DEF Deliver
    <3> QED BY <1>4, <3>1, <3>2 DEF Deliver
  <2> QED BY <1>4, <2>1, <2>2, CarriedMono DEF Deliver
<1>5. CASE ScriptFails(w)
  BY <1>5, <1>g, WorksGoto, CarriedMono DEF ScriptFails
<1>6. CASE EnsureRetryData(w)
  <2>1. id \in data => id \in data'
    BY <1>6, <1>n, <1>r DEF EnsureRetryData
  <2> QED BY <1>6, <2>1, <1>g, <1>n, WorksGoto, CarriedMono DEF EnsureRetryData
<1>7. CASE ScheduleRetry(w)
  <2>1. /\ pc[w] = "schedule" /\ Goto(w, "ack") /\ msg' = msg
        /\ zset' = [zset EXCEPT ![<<msg[w].id, next[w]>>] = "waiting"]
    BY <1>7, <1>n DEF ScheduleRetry
  <2>2. next[w] = msg[w].att + 1 /\ next[w] \in Attempts
    BY <2>1 DEF LossInv, HandlerInv, HandlerKnows, TypeOK
  <2>3. \A a \in Attempts : zset[<<id, a>>] # "absent" => zset'[<<id, a>>] # "absent"
    BY <2>1 DEF TypeOK, Refs
  <2>4. ASSUME NEW c \in Attempts, Carried(id, c), ~Works(w, id, c)
        PROVE  Carried(id, c)'
    <3>1. \A v \in Workers : Works(v, id, c) => Works(v, id, c)'
      BY <2>1, <2>4 DEF Goto, Works, TypeOK
    <3> QED BY <1>7, <2>3, <2>4, <3>1, CarriedMono DEF ScheduleRetry
  <2>5. CASE ~Works(w, id, b)
    BY <2>4, <2>5
  <2>6. CASE Works(w, id, b)
    <3>1. msg[w].id = id /\ next[w] > b /\ msg[w].att \in Int
      <4>1. msg[w].id = id /\ msg[w].att >= b
        BY <2>6 DEF Works
      <4>2. msg[w].att \in Int
        BY <2>1, <1>m, <1>i
      <4> QED BY <2>2, <4>1, <4>2, <1>i
    <3>2. CASE outcome[id] # "none"
      BY <1>7, <3>2 DEF ScheduleRetry, Carried
    <3>3. CASE outcome[id] = "none" /\ <<id, next[w]>> \notin processed
      <4>1. id \in data'
        BY <1>7, <2>1, <3>1, <3>3 DEF LossInv, HandlerInv, HandlerKnows, ScheduleRetry
      <4>2. zset'[<<id, next[w]>>] # "absent"
        BY <2>1, <2>2, <3>1 DEF TypeOK, Refs
      <4>3. RetryAfter(id, b)'
        BY <1>7, <2>2, <3>1, <3>3, <4>1, <4>2 DEF RetryAfter, ScheduleRetry
      <4> QED BY <4>3 DEF Carried
    <3>4. CASE <<id, next[w]>> \in processed
      <4>1. Carried(id, next[w])
        BY <2>2, <3>4 DEF LossInv, ProcessedInv
      <4>2. ~Works(w, id, next[w])
        BY <2>2, <3>1 DEF Works
      <4>3. PICK c \in Attempts : c = next[w]
        BY <2>2
      <4>4. Carried(id, c) /\ ~Works(w, id, c)
        BY <4>1, <4>2, <4>3
      <4>5. Carried(id, c)'
        BY <2>4, <4>4
      <4>6. TypeOK'
        BY HandlerType
      <4>7. b <= c
        BY <3>1, <4>3, <1>i
      <4> QED BY <4>5, <4>6, <4>7, CarriedDownNext
    <3> QED BY <3>2, <3>3, <3>4
  <2> QED BY <2>5, <2>6
<1>8. CASE Exhaust(w)
  <2>1. outcome[id] # "none" => outcome'[id] # "none"
    BY <1>8, <1>m DEF Exhaust, TypeOK
  <2>2. msg[w].id = id => outcome'[id] # "none"
    BY <1>8, <1>n, <1>m DEF Exhaust, TypeOK
  <2>3. ASSUME NEW v \in Workers, Works(v, id, b)
        PROVE  Carried(id, b)' \/ Works(v, id, b)'
    <3>1. v # w => Works(v, id, b)'
      BY <1>8, <2>3 DEF Exhaust, Goto, Works, TypeOK
    <3> QED BY <2>2, <2>3, <3>1 DEF Carried, Works
  <2> QED BY <1>8, <2>1, <2>3, CarriedMono DEF Exhaust
<1>9. CASE CleanupRetryData(w)
  <2>1. \A v \in Workers : Works(v, id, b) => Works(v, id, b)'
    BY <1>9 DEF CleanupRetryData, Goto, Works, WorkingPC, TypeOK
  <2>2. outcome[msg[w].id] # "none" /\ outcome' = outcome
    BY <1>9 DEF CleanupRetryData, LossInv, HandlerInv, HandlerKnows
  <2>3. CASE msg[w].id = id
    BY <2>2, <2>3 DEF Carried
  <2>4. CASE msg[w].id # id
    <3>1. id \in data => id \in data'
      BY <1>9, <2>4 DEF CleanupRetryData
    <3> QED BY <1>9, <2>1, <3>1, CarriedMono DEF CleanupRetryData
  <2> QED BY <2>3, <2>4
<1>10. CASE SendToDLQ(w)
  <2>1. outcome[id] # "none" => outcome'[id] # "none"
    BY <1>10, <1>m DEF SendToDLQ, TypeOK
  <2>2. msg[w].id = id => outcome'[id] # "none"
    BY <1>10, <1>n, <1>m DEF SendToDLQ, TypeOK
  <2>3. ASSUME NEW v \in Workers, Works(v, id, b)
        PROVE  Carried(id, b)' \/ Works(v, id, b)'
    <3>1. v # w => Works(v, id, b)'
      BY <1>10, <1>n, <2>3 DEF SendToDLQ, Goto, Works, TypeOK
    <3> QED BY <2>2, <2>3, <3>1 DEF Carried, Works
  <2> QED BY <1>10, <2>1, <2>3, CarriedMono DEF SendToDLQ
<1>11. CASE ReturnNil(w)
  <2>1. pc[w] = "ack" /\ EndHandler(w) /\ topic' \in {topic, topic \ {msg[w]}}
    BY <1>11 DEF ReturnNil
  <2>2. \A v \in Workers, c \in Attempts : Works(v, id, c) => Works(v, id, c)'
    BY <2>1 DEF EndHandler, Goto, Works, WorkingPC, TypeOK
  <2>3. ASSUME NEW c \in Attempts, RetryAfter(id, c) PROVE RetryAfter(id, c)'
    BY <1>11, <2>3 DEF ReturnNil, RetryAfter
  <2>4. CASE MessageAfter(id, b) /\ ~MessageAfter(id, b)'
    <3>1. msg[w].id = id /\ msg[w].att > b /\ msg[w].att \in Attempts
      BY <1>11, <2>1, <2>4, <1>m DEF ReturnNil, MessageAfter
    <3>2. PICK c \in Attempts : c = msg[w].att
      BY <3>1
    <3>3. Carried(id, c)
      BY <2>1, <3>1, <3>2 DEF LossInv, HandlerInv, HandlerKnows
    <3>4. MessageAfter(id, c) => MessageAfter(id, c)'
      <4>1. c \in Int /\ ~(msg[w].att > c)
        BY <3>2, <1>i
      <4>2. \A x \in topic : x.att > c => x \in topic'
        BY <2>1, <4>1
      <4> QED BY <1>11, <4>2 DEF ReturnNil, MessageAfter
    <3>5. Carried(id, c)'
      BY <1>11, <2>2, <2>3, <3>3, <3>4 DEF ReturnNil, Carried
    <3>6. TypeOK'
      BY HandlerType
    <3>7. b <= c
      <4>1. c \in Int /\ c > b
        BY <3>1, <3>2, <1>i
      <4> QED BY <4>1, <1>i
    <3> QED BY <3>5, <3>6, <3>7, CarriedDownNext
  <2>5. CASE MessageAfter(id, b) => MessageAfter(id, b)'
    BY <1>11, <2>2, <2>3, <2>5 DEF ReturnNil, Carried
  <2> QED BY <2>4, <2>5
<1>12. CASE ReturnError(w)
  BY <1>12 DEF ReturnError, LossInv, HandlerInv, HandlerKnows
<1> QED BY <1>1, <1>2, <1>3, <1>4, <1>5, <1>6, <1>7, <1>8, <1>9, <1>10, <1>11, <1>12
        DEF HandlerStep

LEMMA CarriedScheduler ==
    ASSUME TypeOK, LossInv, NoLossyFault, NEW s \in Schedulers,
           SchedulerStep(s) \/ SchedulerCrash(s),
           NEW id \in Webhooks, NEW b \in Attempts, Carried(id, b)
    PROVE  Carried(id, b)'
<1> USE DEF workerVars, schedulerVars, historyVars, topicVars, redisVars
<1>w. ASSUME UNCHANGED workerVars
      PROVE  \A c \in Attempts, v \in Workers : Works(v, id, c) => Works(v, id, c)'
  BY <1>w DEF Works
<1>1. CASE \E refs \in SUBSET Refs : PopAndLock(s, refs)
  <2>1. \A a \in Attempts : zset[<<id, a>>] # "absent" => zset'[<<id, a>>] # "absent"
    BY <1>1 DEF PopAndLock, TypeOK, Refs
  <2> QED BY <1>1, <1>w, <2>1, CarriedMono DEF PopAndLock
<1>2. CASE \E r \in Refs : FetchData(s, r)
  BY <1>2, <1>w, CarriedMono DEF FetchData
<1>3. CASE \E r \in Refs : DropRef(s, r)
  <2>1. PICK r \in Refs : DropRef(s, r)
    BY <1>3
  <2>2. r[1] \notin data
    BY <2>1 DEF DropRef, NoLossyFault, LossyFaults
  <2>3. MessageAfter(id, b) => MessageAfter(id, b)'
    BY <2>1 DEF DropRef, MessageAfter
  <2>4. RetryAfter(id, b) => RetryAfter(id, b)'
    <3>1. id \in data => \A a \in Attempts : zset'[<<id, a>>] = zset[<<id, a>>]
      BY <2>1, <2>2 DEF DropRef, AckRetry, TypeOK, Refs
    <3> QED BY <2>1, <3>1 DEF DropRef, RetryAfter
  <2> QED BY <2>1, <1>w, <2>3, <2>4 DEF DropRef, Carried
<1>4. CASE Republish(s)
  <2>1. topic \subseteq topic'
    BY <1>4 DEF Republish, PublishTo
  <2> QED BY <1>4, <1>w, <2>1, CarriedMono DEF Republish
<1>5. CASE AckPublished(s)
  <2>1. sref[s] \in Refs /\ (AckRetry(sref[s])) /\ spc[s] = "ack"
    BY <1>5 DEF AckPublished, TypeOK
  <2>2. PICK i \in Webhooks, a \in Attempts : sref[s] = <<i, a>>
    BY <2>1 DEF Refs
  <2>3. a \in Int /\ b \in Int /\ Attempts \subseteq Int
    BY ConstantsAssumption DEF Attempts
  <2>4. \A r \in Refs : r # <<i, a>> => zset'[r] = zset[r]
    BY <2>1, <2>2 DEF AckRetry, TypeOK
  <2>5. ASSUME NEW c \in Attempts, MessageAfter(id, c) PROVE MessageAfter(id, c)'
    BY <1>5, <2>5 DEF AckPublished, MessageAfter
  <2>6. \A c \in Attempts, v \in Workers : Works(v, id, c) => Works(v, id, c)'
    BY <1>5, <1>w DEF AckPublished
  <2>7. outcome' = outcome
    BY <1>5 DEF AckPublished
  <2>8. CASE RetryAfter(id, b) /\ ~RetryAfter(id, b)'
    <3>1. id = i /\ a > b /\ <<id, a>> \notin processed
      BY <1>5, <2>4, <2>8 DEF AckPublished, RetryAfter, Refs
    <3>2. InTopic(id, a) \/ Carried(id, a)
      BY <2>1, <2>2, <3>1 DEF LossInv, PublishedInv
    <3>3. CASE InTopic(id, a)
      <4>1. MessageAfter(id, b)
        BY <3>1, <3>3 DEF InTopic, MessageAfter
      <4> QED BY <2>5, <4>1 DEF Carried
    <3>4. CASE Carried(id, a)
      <4>1. RetryAfter(id, a) => RetryAfter(id, a)'
        BY <1>5, <2>3, <2>4, <3>1 DEF AckPublished, RetryAfter, Refs
      <4>2. Carried(id, a)'
        BY <2>5, <2>6, <2>7, <3>4, <4>1 DEF Carried
      <4>3. TypeOK' /\ b <= a
        BY SchedulerType, <3>1, <2>3
      <4> QED BY <4>2, <4>3, CarriedDownNext
    <3> QED BY <3>2, <3>3, <3>4
  <2>9. CASE RetryAfter(id, b) => RetryAfter(id, b)'
    BY <2>5, <2>6, <2>7, <2>9 DEF Carried
  <2> QED BY <2>8, <2>9
<1>6. CASE SchedulerCrash(s)
  BY <1>6, <1>w, CarriedMono DEF SchedulerCrash
<1> QED BY <1>1, <1>2, <1>3, <1>4, <1>5, <1>6 DEF SchedulerStep

\* Attempt b of a webhook, once taken care of, remains so through every step.
LEMMA CarriedStable ==
    ASSUME TypeOK, LossInv, NoLossyFault, [Next]_vars,
           NEW id \in Webhooks, NEW b \in Attempts, Carried(id, b)
    PROVE  Carried(id, b)'
<1> USE DEF workerVars, schedulerVars, historyVars, topicVars, redisVars
<1>1. CASE \E i \in Webhooks : Enqueue(i)
  <2>1. topic \subseteq topic'
    BY <1>1 DEF Enqueue, PublishTo
  <2>2. \A v \in Workers : Works(v, id, b) => Works(v, id, b)'
    BY <1>1 DEF Enqueue, Works
  <2> QED BY <1>1, <2>1, <2>2, CarriedMono DEF Enqueue
<1>2. CASE \E w \in Workers, m \in topic : Receive(w, m)
  <2>1. \A v \in Workers : Works(v, id, b) => Works(v, id, b)'
    BY <1>2 DEF Receive, Goto, Works, WorkingPC, TypeOK
  <2> QED BY <1>2, <2>1, CarriedMono DEF Receive
<1>3. CASE \E w \in Workers : WorkerCrash(w)
  BY <1>3 DEF WorkerCrash, NoLossyFault, LossyFaults
<1>4. CASE \E r \in Refs : LockExpires(r) \/ ProcessedExpires(r)
  <2>1. \A v \in Workers : Works(v, id, b) => Works(v, id, b)'
    BY <1>4 DEF LockExpires, ProcessedExpires, Works
  <2>2. \A a \in Attempts : zset[<<id, a>>] # "absent" => zset'[<<id, a>>] # "absent"
    BY <1>4 DEF LockExpires, ProcessedExpires, TypeOK, Refs
  <2> QED BY <1>4, <2>1, <2>2, CarriedMono DEF LockExpires, ProcessedExpires
<1>5. CASE UNCHANGED vars
  BY <1>5, CarriedMono DEF vars, Works
<1> QED BY <1>1, <1>2, <1>3, <1>4, <1>5, CarriedHandler, CarriedScheduler DEF Next

------------------------------------------------------------------------------
(* The invariant.                                                          *)

\* A message leaves the topic only when its attempt is taken care of.
LEMMA TopicOrCarried ==
    ASSUME TypeOK, LossInv, NoLossyFault, [Next]_vars,
           NEW id \in Webhooks, NEW b \in Attempts, InTopic(id, b) \/ Carried(id, b)
    PROVE  InTopic(id, b)' \/ Carried(id, b)'
<1> USE DEF workerVars, schedulerVars, historyVars, topicVars, redisVars
<1>1. CASE topic \subseteq topic'
  BY <1>1, CarriedStable DEF InTopic
<1>2. CASE \E w \in Workers : ReturnNil(w)
  <2>1. PICK w \in Workers : ReturnNil(w)
    BY <1>2
  <2>2. CASE msg[w].id = id /\ msg[w].att = b
    <3>1. Carried(id, b)
      BY <2>1, <2>2 DEF ReturnNil, LossInv, HandlerInv, HandlerKnows
    <3> QED BY <3>1, CarriedStable
  <2>3. CASE ~(msg[w].id = id /\ msg[w].att = b)
    BY <2>1, <2>3, CarriedStable DEF ReturnNil, InTopic
  <2> QED BY <2>2, <2>3
<1>3. ASSUME \A w \in Workers : ~ReturnNil(w) PROVE topic \subseteq topic'
  BY <1>3 DEF Next, vars, Enqueue, Receive, HandlerStep, CheckProcessed, CheckCircuit,
     PassGates, Deliver, ScriptFails, EnsureRetryData, ScheduleRetry, Exhaust,
     CleanupRetryData, SendToDLQ, ReturnError, WorkerCrash, SchedulerStep, PopAndLock,
     FetchData, DropRef, Republish, AckPublished, SchedulerCrash, LockExpires,
     ProcessedExpires, PublishTo
<1> QED BY <1>1, <1>2, <1>3

\* Outcomes are final enough: a settled webhook stays settled.
LEMMA SettledStable ==
    ASSUME TypeOK, [Next]_vars, NEW id \in Webhooks, outcome[id] # "none"
    PROVE  outcome'[id] # "none"
<1> USE DEF workerVars, schedulerVars, historyVars, topicVars, redisVars
<1>1. CASE \E w \in Workers : Deliver(w)
  BY <1>1 DEF Deliver, TypeOK
<1>2. CASE \E w \in Workers : Exhaust(w)
  BY <1>2 DEF Exhaust, TypeOK
<1>3. CASE \E w \in Workers : SendToDLQ(w)
  BY <1>3 DEF SendToDLQ, TypeOK
<1>4. ASSUME \A w \in Workers : ~Deliver(w) /\ ~Exhaust(w) /\ ~SendToDLQ(w)
      PROVE  outcome' = outcome
  BY <1>4 DEF Next, vars, Enqueue, Receive, HandlerStep, CheckProcessed, CheckCircuit,
     PassGates, ScriptFails, EnsureRetryData, ScheduleRetry, CleanupRetryData,
     ReturnNil, ReturnError, WorkerCrash, SchedulerStep, PopAndLock, FetchData,
     DropRef, Republish, AckPublished, SchedulerCrash, LockExpires, ProcessedExpires
<1> QED BY <1>1, <1>2, <1>3, <1>4

\* Retry data disappears only from settled webhooks.
LEMMA DataStable ==
    ASSUME TypeOK, LossInv, NoLossyFault, [Next]_vars, NEW id \in Webhooks, id \in data
    PROVE  id \in data' \/ outcome'[id] # "none"
<1> USE DEF workerVars, schedulerVars, historyVars, topicVars, redisVars
<1>1. CASE \E w \in Workers : CleanupRetryData(w)
  BY <1>1 DEF CleanupRetryData, LossInv, HandlerInv, HandlerKnows
<1>2. CASE \E w \in Workers : EnsureRetryData(w)
  <2>1. RetryDataTTL # 0
    BY ConstantsAssumption DEF NoLossyFault
  <2> QED BY <1>2, <2>1 DEF EnsureRetryData
<1>3. ASSUME \A w \in Workers : ~CleanupRetryData(w) /\ ~EnsureRetryData(w)
      PROVE  data' = data
  BY <1>3 DEF Next, vars, Enqueue, Receive, HandlerStep, CheckProcessed, CheckCircuit,
     PassGates, Deliver, ScriptFails, ScheduleRetry, Exhaust, SendToDLQ,
     ReturnNil, ReturnError, WorkerCrash, SchedulerStep, PopAndLock, FetchData,
     DropRef, Republish, AckPublished, SchedulerCrash, LockExpires, ProcessedExpires
<1> QED BY <1>1, <1>2, <1>3

\* What a handler that stays at its label knows remains true.
LEMMA KnowsStable ==
    ASSUME TypeOK, LossInv, NoLossyFault, [Next]_vars, NEW v \in Workers,
           pc'[v] = pc[v], msg'[v] = msg[v], next'[v] = next[v]
    PROVE  HandlerKnows(v)'
<1>1. HandlerKnows(v)
  BY DEF LossInv, HandlerInv
<1>2. CASE pc[v] = "idle"
  BY <1>1, <1>2 DEF HandlerKnows
<1>3. CASE pc[v] # "idle"
  <2>1. PICK id \in Webhooks, b \in Attempts : id = msg[v].id /\ b = msg[v].att
    BY <1>3, MessageFields DEF TypeOK
  <2>2. pc[v] = "ack" => Carried(id, b)'
    BY <1>1, <2>1, CarriedStable DEF HandlerKnows
  <2>3. pc[v] = "schedule" => outcome'[id] # "none" \/ id \in data'
    BY <1>1, <2>1, SettledStable, DataStable DEF HandlerKnows
  <2>4. pc[v] = "cleanup" => outcome'[id] # "none"
    BY <1>1, <2>1, SettledStable DEF HandlerKnows
  <2>5. pc'[v] = "ack" => Carried(msg[v].id, msg[v].att)'
    BY <2>1, <2>2
  <2> QED BY <1>1, <2>1, <2>3, <2>4, <2>5 DEF HandlerKnows
<1> QED BY <1>2, <1>3

\* The handler that moves knows what its new label asks for.
LEMMA KnowsMover ==
    ASSUME TypeOK, LossInv, NoLossyFault, NEW w \in Workers, HandlerStep(w)
    PROVE  HandlerKnows(w)'
<1> USE DEF workerVars, schedulerVars, historyVars, topicVars, redisVars
<1>n. /\ "crash" \notin Faults /\ "circuit" \notin Faults /\ "capacity" \notin Faults
      /\ "redis" \notin Faults /\ "dlq" \notin Faults
  BY DEF NoLossyFault, LossyFaults
<1>r. RetryDataTTL # 0
  BY ConstantsAssumption DEF NoLossyFault
<1>s. HandlerKnows(w) /\ [Next]_vars
  BY DEF LossInv, HandlerInv, Next
<1>0. pc[w] # "idle"
  BY DEF HandlerStep, CheckProcessed, CheckCircuit, PassGates, Deliver, ScriptFails,
         EnsureRetryData, ScheduleRetry, Exhaust, CleanupRetryData, SendToDLQ,
         ReturnNil, ReturnError
<1>m. PICK id \in Webhooks, b \in Attempts : id = msg[w].id /\ b = msg[w].att
  BY <1>0, MessageFields DEF TypeOK
<1>c. ASSUME msg' = msg, pc'[w] = "ack", Carried(id, b)'
      PROVE  HandlerKnows(w)'
  <2>1. Carried(msg[w].id, msg[w].att)'
    BY <1>c, <1>m
  <2> QED BY <1>c, <2>1 DEF HandlerKnows
<1>1. CASE CheckProcessed(w)
  <2>1. pc[w] = "check" /\ msg' = msg
    BY <1>1 DEF CheckProcessed
  <2>2. CASE RefOf(w) \in processed /\ Goto(w, "ack")
    <3>1. Carried(id, b)
      BY <2>1, <2>2, <1>m DEF LossInv, ProcessedInv, RefOf
    <3>2. pc'[w] = "ack"
      BY <2>2 DEF Goto, TypeOK
    <3> QED BY <2>1, <3>1, <3>2, <1>s, <1>c, CarriedStable
  <2>3. CASE Goto(w, "circuit")
    BY <2>3 DEF Goto, TypeOK, HandlerKnows
  <2> QED BY <1>1, <2>2, <2>3 DEF CheckProcessed
<1>2. CASE CheckCircuit(w)
  BY <1>2, <1>n DEF CheckCircuit, Goto, TypeOK, HandlerKnows
<1>3. CASE PassGates(w)
  BY <1>3, <1>n DEF PassGates, Goto, TypeOK, HandlerKnows
<1>4. CASE Deliver(w)
  <2>1. pc[w] = "deliver" /\ msg' = msg
    BY <1>4 DEF Deliver
  <2>2. CASE outcome' = [outcome EXCEPT ![msg[w].id] = "delivered"] /\ Goto(w, "cleanup")
    BY <2>1, <2>2, <1>m DEF Goto, TypeOK, HandlerKnows
  <2>3. CASE next' = [next EXCEPT ![w] = msg[w].att + 1] /\ Goto(w, "ensure")
    BY <2>1, <2>3 DEF Goto, TypeOK, HandlerKnows
  <2>4. CASE Goto(w, "exhaust")
    BY <2>4 DEF Goto, TypeOK, HandlerKnows
  <2> QED BY <1>4, <2>2, <2>3, <2>4 DEF Deliver
<1>5. CASE ScriptFails(w)
  BY <1>5 DEF ScriptFails, Goto, TypeOK, HandlerKnows
<1>6. CASE EnsureRetryData(w)
  <2>1. pc'[w] = "schedule" /\ msg' = msg /\ next' = next /\ msg[w].id \in data'
    BY <1>6, <1>n, <1>r DEF EnsureRetryData, Goto, TypeOK
  <2> QED BY <1>6, <1>s, <2>1 DEF EnsureRetryData, HandlerKnows
<1>7. CASE ScheduleRetry(w)
  <2>1. pc'[w] = "ack" /\ msg' = msg /\ pc[w] = "schedule"
    BY <1>7, <1>n DEF ScheduleRetry, Goto, TypeOK
  <2>2. Works(w, id, b)
    <3>1. b \in Int
      BY ConstantsAssumption DEF Attempts
    <3> QED BY <2>1, <3>1, <1>m DEF Works, WorkingPC
  <2>3. Carried(id, b)
    BY <2>2 DEF Carried
  <2> QED BY <2>1, <2>3, <1>s, <1>c, CarriedStable
<1>8. CASE Exhaust(w)
  <2>1. pc[w] = "exhaust" /\ pc'[w] = "cleanup" /\ msg' = msg
    BY <1>8 DEF Exhaust, Goto, TypeOK
  <2>2. outcome'[id] # "none"
    BY <1>8, <1>n, <1>m, <2>1 DEF Exhaust, TypeOK
  <2> QED BY <2>1, <2>2, <1>m DEF HandlerKnows
<1>9. CASE CleanupRetryData(w)
  <2>1. pc[w] = "cleanup" /\ pc'[w] = "ack" /\ msg' = msg /\ outcome' = outcome
    BY <1>9 DEF CleanupRetryData, Goto, TypeOK
  <2>2. Carried(id, b)'
    BY <1>s, <1>m, <2>1 DEF HandlerKnows, Carried
  <2> QED BY <2>1, <2>2, <1>c
<1>10. CASE SendToDLQ(w)
  <2>1. pc[w] = "dlq" /\ pc'[w] = "ack" /\ msg' = msg
    BY <1>10, <1>n DEF SendToDLQ, Goto, TypeOK
  <2>2. outcome'[id] # "none"
    BY <1>10, <1>n, <1>m, <2>1 DEF SendToDLQ, TypeOK
  <2> QED BY <2>1, <2>2, <1>c DEF Carried
<1>11. CASE ReturnNil(w) \/ ReturnError(w)
  BY <1>11 DEF ReturnNil, ReturnError, EndHandler, Goto, TypeOK, HandlerKnows
<1> QED BY <1>1, <1>2, <1>3, <1>4, <1>5, <1>6, <1>7, <1>8, <1>9, <1>10, <1>11
        DEF HandlerStep

LEMMA HandlerInvStep ==
    ASSUME TypeOK, LossInv, NoLossyFault, [Next]_vars
    PROVE  HandlerInv'
<1> USE DEF workerVars, schedulerVars, historyVars, topicVars, redisVars
<1> SUFFICES ASSUME NEW v \in Workers PROVE HandlerKnows(v)'
  BY DEF HandlerInv
<1>1. CASE pc'[v] = pc[v] /\ msg'[v] = msg[v] /\ next'[v] = next[v]
  BY <1>1, KnowsStable
<1>2. CASE HandlerStep(v)
  BY <1>2, KnowsMover
<1>3. CASE \E m \in topic : Receive(v, m)
  BY <1>3 DEF Receive, Goto, TypeOK, HandlerKnows
<1>4. CASE \E w \in Workers : WorkerCrash(w)
  BY <1>4 DEF WorkerCrash, NoLossyFault, LossyFaults
<1>5. ASSUME NEW w \in Workers, w # v, HandlerStep(w)
      PROVE  pc'[v] = pc[v] /\ msg'[v] = msg[v] /\ next'[v] = next[v]
  BY <1>5 DEF HandlerStep, CheckProcessed, CheckCircuit,
     PassGates, Deliver, ScriptFails, EnsureRetryData, ScheduleRetry, Exhaust,
     CleanupRetryData, SendToDLQ, ReturnNil, ReturnError, EndHandler, Goto, TypeOK
<1>6. ASSUME NEW w \in Workers, w # v, NEW m \in topic, Receive(w, m)
      PROVE  pc'[v] = pc[v] /\ msg'[v] = msg[v] /\ next'[v] = next[v]
  BY <1>6 DEF Receive, Goto, TypeOK
<1>7. CASE UNCHANGED workerVars
  BY <1>1, <1>7
<1>8. \/ UNCHANGED workerVars
      \/ \E w \in Workers : HandlerStep(w) \/ WorkerCrash(w)
      \/ \E w \in Workers, m \in topic : Receive(w, m)
  BY DEF Next, vars, Enqueue, SchedulerStep, PopAndLock, FetchData, DropRef, Republish,
     AckPublished, SchedulerCrash, LockExpires, ProcessedExpires
<1> QED BY <1>1, <1>2, <1>3, <1>4, <1>5, <1>6, <1>7, <1>8

LEMMA ProcessedInvStep ==
    ASSUME TypeOK, LossInv, NoLossyFault, [Next]_vars
    PROVE  ProcessedInv'
<1> USE DEF workerVars, schedulerVars, historyVars, topicVars, redisVars
<1> SUFFICES ASSUME NEW id \in Webhooks, NEW b \in Attempts, <<id, b>> \in processed'
             PROVE  Carried(id, b)'
  BY DEF ProcessedInv
<1>1. CASE <<id, b>> \in processed
  BY <1>1, CarriedStable DEF LossInv, ProcessedInv
<1>2. CASE \E w \in Workers : CheckProcessed(w) /\ RefOf(w) = <<id, b>> /\ Goto(w, "circuit")
  <2>1. PICK w \in Workers : CheckProcessed(w) /\ RefOf(w) = <<id, b>> /\ Goto(w, "circuit")
    BY <1>2
  <2>2. pc'[w] = "circuit" /\ msg' = msg /\ msg[w].id = id /\ msg[w].att = b
    BY <2>1 DEF CheckProcessed, Goto, RefOf, TypeOK
  <2>3. b \in Int
    BY ConstantsAssumption DEF Attempts
  <2> QED BY <2>2, <2>3 DEF Carried, Works, WorkingPC
<1>3. ASSUME <<id, b>> \notin processed
      PROVE  \E w \in Workers : CheckProcessed(w) /\ RefOf(w) = <<id, b>> /\ Goto(w, "circuit")
  <2>1. CASE \E w \in Workers : CheckProcessed(w)
    BY <1>3, <2>1 DEF CheckProcessed
  <2>2. CASE \A w \in Workers : ~CheckProcessed(w)
    BY <1>3, <2>2 DEF Next, vars, Enqueue, Receive, HandlerStep, CheckCircuit,
       PassGates, Deliver, ScriptFails, EnsureRetryData, ScheduleRetry, Exhaust,
       CleanupRetryData, SendToDLQ, ReturnNil, ReturnError, WorkerCrash, SchedulerStep,
       PopAndLock, FetchData, DropRef, Republish, AckPublished, SchedulerCrash,
       LockExpires, ProcessedExpires
  <2> QED BY <2>1, <2>2
<1> QED BY <1>1, <1>2, <1>3

LEMMA PublishInTopic ==
    ASSUME NEW id, NEW att, NEW lane, PublishTo(id, att, lane)
    PROVE  \E m \in topic' : m.id = id /\ m.att = att
<1> DEFINE m == [off |-> nextOff, id |-> id, att |-> att, lane |-> lane]
<1>1. m \in topic' /\ m.id = id /\ m.att = att
  BY DEF PublishTo
<1> QED BY <1>1

LEMMA PublishedInvStep ==
    ASSUME TypeOK, LossInv, NoLossyFault, [Next]_vars
    PROVE  PublishedInv'
<1> USE DEF workerVars, schedulerVars, historyVars, topicVars, redisVars
<1> SUFFICES ASSUME NEW s \in Schedulers, spc'[s] = "ack"
             PROVE  (InTopic(sref[s][1], sref[s][2]) \/ Carried(sref[s][1], sref[s][2]))'
  BY DEF PublishedInv
<1>1. CASE spc[s] = "ack" /\ sref'[s] = sref[s]
  <2>1. PICK id \in Webhooks, b \in Attempts : sref[s] = <<id, b>>
    BY <1>1 DEF TypeOK, Refs
  <2>2. InTopic(id, b) \/ Carried(id, b)
    BY <1>1, <2>1 DEF LossInv, PublishedInv
  <2>3. InTopic(id, b)' \/ Carried(id, b)'
    BY <2>2, TopicOrCarried
  <2>4. sref'[s][1] = id /\ sref'[s][2] = b
    BY <1>1, <2>1
  <2> QED BY <2>3, <2>4
<1>2. CASE Republish(s)
  <2>1. spc[s] = "publish"
    BY <1>2 DEF Republish
  <2>2. PublishTo(sref[s][1], sref[s][2], "fast") /\ sref' = sref
    BY <1>2, <2>1 DEF Republish, NextRef, TypeOK
  <2>3. InTopic(sref[s][1], sref[s][2])'
    BY <2>2, PublishInTopic DEF InTopic
  <2> QED BY <2>3
<1>3. CASE spc[s] # "ack" \/ sref'[s] # sref[s]
  <2>1. CASE \E t \in Schedulers : SchedulerStep(t) \/ SchedulerCrash(t)
    <3>1. PICK t \in Schedulers : SchedulerStep(t) \/ SchedulerCrash(t)
      BY <2>1
    <3>2. CASE t # s
      <4>1. spc'[s] = spc[s] /\ sref'[s] = sref[s]
        BY <3>1, <3>2 DEF SchedulerStep, SchedulerCrash, PopAndLock, FetchData, DropRef,
           Republish, AckPublished, NextRef, TypeOK
      <4> QED BY <1>3, <4>1
    <3>3. CASE t = s /\ ~Republish(s)
      <4>1. spc'[s] # "ack"
        BY <3>1, <3>3 DEF SchedulerStep, SchedulerCrash, PopAndLock, FetchData, DropRef,
           AckPublished, NextRef, TypeOK
      <4> QED BY <4>1
    <3> QED BY <1>2, <3>1, <3>2, <3>3
  <2>2. CASE ~\E t \in Schedulers : SchedulerStep(t) \/ SchedulerCrash(t)
    <3>1. UNCHANGED schedulerVars
      BY <2>2 DEF Next, vars, Enqueue, Receive, HandlerStep, CheckProcessed, CheckCircuit,
         PassGates, Deliver, ScriptFails, EnsureRetryData, ScheduleRetry, Exhaust,
         CleanupRetryData, SendToDLQ, ReturnNil, ReturnError, WorkerCrash, LockExpires,
         ProcessedExpires
    <3> QED BY <1>3, <3>1
  <2> QED BY <2>1, <2>2
<1> QED BY <1>1, <1>3

LEMMA AcceptedInvStep ==
    ASSUME TypeOK, LossInv, NoLossyFault, [Next]_vars
    PROVE  AcceptedInv'
<1> USE DEF workerVars, schedulerVars, historyVars, topicVars, redisVars
<1> SUFFICES ASSUME NEW id \in accepted' PROVE InTopic(id, 0)' \/ Carried(id, 0)'
  BY DEF AcceptedInv
<1>1. CASE id \in accepted
  <2>1. id \in Webhooks /\ 0 \in Attempts
    BY <1>1, ConstantsAssumption DEF TypeOK, Attempts
  <2> QED BY <1>1, <2>1, TopicOrCarried DEF LossInv, AcceptedInv
<1>2. CASE \E i \in Webhooks : Enqueue(i)
  <2>1. CASE Enqueue(id)
    BY <2>1, PublishInTopic DEF Enqueue, InTopic
  <2> QED BY <1>1, <1>2, <2>1 DEF Enqueue
<1>3. CASE ~\E i \in Webhooks : Enqueue(i)
  <2>1. accepted' = accepted
    BY <1>3 DEF Next, vars, Receive, HandlerStep, CheckProcessed, CheckCircuit,
       PassGates, Deliver, ScriptFails, EnsureRetryData, ScheduleRetry, Exhaust,
       CleanupRetryData, SendToDLQ, ReturnNil, ReturnError, WorkerCrash, SchedulerStep,
       PopAndLock, FetchData, DropRef, Republish, AckPublished, SchedulerCrash,
       LockExpires, ProcessedExpires
  <2> QED BY <1>1, <2>1
<1> QED BY <1>2, <1>3

LEMMA LossInvImplies ==
    ASSUME TypeOK, LossInv
    PROVE  NoLoss
<1> SUFFICES ASSUME NEW id \in accepted, outcome[id] = "none" PROVE Live(id)
  BY DEF NoLoss
<1>1. id \in Webhooks /\ 0 \in Attempts
  BY ConstantsAssumption DEF TypeOK, Attempts
<1>2. Carried(id, 0) => Live(id)
  BY DEF Carried, Works, WorkingPC, MessageAfter, RetryAfter, Live
<1>3. CASE InTopic(id, 0) /\ <<id, 0>> \notin processed
  BY <1>3 DEF InTopic, Live
<1>4. CASE <<id, 0>> \in processed
  BY <1>1, <1>2, <1>4 DEF LossInv, ProcessedInv
<1> QED BY <1>2, <1>3, <1>4 DEF LossInv, AcceptedInv

\* Without the faults of LossyFaults no accepted webhook is ever lost: not by
\* failing publishes, failing acknowledgements, dying schedulers, visibility
\* timeouts, redelivery, a failing or expiring idempotency key, script errors
\* or undeletable retry data, in any combination and any interleaving, for any
\* number of webhooks, workers, schedulers and attempts.
THEOREM NeverLost == NoLossyFault => (Spec => []NoLoss)
<1> SUFFICES ASSUME NoLossyFault PROVE Spec => []NoLoss
  OBVIOUS
<1>1. Init => TypeOK /\ LossInv
  <2>1. Init => LossInv
    BY DEF Init, LossInv, HandlerInv, HandlerKnows, ProcessedInv, PublishedInv, AcceptedInv
  <2> QED BY <2>1, TypeInit
<1>2. TypeOK /\ LossInv /\ [Next]_vars => (TypeOK /\ LossInv)'
  <2> SUFFICES ASSUME TypeOK, LossInv, [Next]_vars PROVE TypeOK' /\ LossInv'
    OBVIOUS
  <2>1. HandlerInv' /\ ProcessedInv' /\ PublishedInv' /\ AcceptedInv'
    BY HandlerInvStep, ProcessedInvStep, PublishedInvStep, AcceptedInvStep
  <2> QED BY <2>1, TypeStep DEF LossInv
<1>3. TypeOK /\ LossInv => NoLoss
  BY LossInvImplies
<1> QED BY <1>1, <1>2, <1>3, PTL DEF Spec

------------------------------------------------------------------------------
(* The idempotency key: as long as it neither fails nor expires, no        *)
(* attempt is sent twice and nothing is sent after a 2xx, under every      *)
(* other fault.                                                            *)

\* The idempotency key is never taken for absent on a Redis error and outlives
\* the webhook.
KeyReliable == "idem" \notin Faults /\ "expire" \notin Faults

\* Labels between the idempotency key and the HTTP call.
Sending == {"circuit", "gate", "deliver"}
Sends(w, id, a) == pc[w] \in Sending /\ msg[w].id = id /\ msg[w].att = a

\* Attempt a of the webhook is somewhere on its way: in a topic, in the ZSET, in
\* the hands of a scheduler or a worker, or about to be scheduled by a worker.
Around(id, a) ==
    \/ \E m \in topic : m.id = id /\ m.att = a
    \/ zset[<<id, a>>] # "absent"
    \/ \E s \in Schedulers : <<id, a>> \in batch[s] \/ sref[s] = <<id, a>>
    \/ \E w \in Workers : /\ pc[w] # "idle" /\ msg[w].id = id
                          /\ \/ msg[w].att = a
                             \/ pc[w] \in {"ensure", "schedule"} /\ next[w] = a

\* Attempt a has its key and nobody will send it any more.
Finished(id, a) == <<id, a>> \in processed /\ \A w \in Workers : ~Sends(w, id, a)

\* A worker that is about to send holds the key of an attempt nobody has sent
\* and nobody else is about to send; what was sent has its key.
SendInv ==
    /\ \A w \in Workers : pc[w] \in Sending => RefOf(w) \in processed /\ posts[RefOf(w)] = 0
    /\ \A v, w \in Workers : pc[v] \in Sending /\ pc[w] \in Sending /\ RefOf(v) = RefOf(w) => v = w
    /\ \A r \in Refs : posts[r] <= 1 /\ (posts[r] > 0 => r \in processed)

\* An attempt is around only after the earlier ones are finished.
OrderInv ==
    \A id \in Webhooks, a \in Attempts, b \in Attempts :
        Around(id, a) /\ b < a => Finished(id, b)

\* Whatever is around of a delivered webhook is finished.
DeliveredInv ==
    \A id \in Webhooks, a \in Attempts :
        outcome[id] = "delivered" /\ Around(id, a) => Finished(id, a)

\* Only what the API accepted is around or settled.
KnownInv ==
    \A id \in Webhooks :
        /\ \A a \in Attempts : Around(id, a) => id \in accepted
        /\ outcome[id] # "none" => id \in accepted

IdemInv == SendInv /\ OrderInv /\ DeliveredInv /\ KnownInv

------------------------------------------------------------------------------
LEMMA IdemInit == Init => IdemInv
<1> SUFFICES ASSUME Init PROVE IdemInv
  OBVIOUS
<1>1. \A id \in Webhooks, a \in Attempts : ~Around(id, a)
  BY DEF Init, Around, Refs, NoRef
<1>2. SendInv
  BY DEF Init, SendInv, Sending
<1> QED
  BY <1>1, <1>2 DEF Init, IdemInv, OrderInv, DeliveredInv, KnownInv

\* What a worker that handles something has in its hands.
LEMMA MsgType ==
    ASSUME TypeOK, NEW w \in Workers, pc[w] # "idle"
    PROVE  /\ msg[w] \in Message /\ msg[w].id \in Webhooks /\ msg[w].att \in Attempts
           /\ RefOf(w) \in Refs /\ Around(msg[w].id, msg[w].att)
<1>1. msg[w] \in Message /\ msg[w].id \in Webhooks /\ msg[w].att \in Attempts
  BY MessageFields DEF TypeOK
<1> QED
  BY <1>1 DEF RefOf, Refs, Around

\* A step that brings nothing new about, sends nothing and settles nothing as
\* delivered keeps the invariant.
LEMMA Calm ==
    ASSUME TypeOK, IdemInv,
           \A id \in Webhooks, a \in Attempts : Around(id, a)' => Around(id, a),
           \A v \in Workers : pc'[v] \in Sending => pc[v] \in Sending /\ msg'[v] = msg[v],
           UNCHANGED <<processed, posts, accepted>>,
           \A id \in Webhooks : outcome'[id] = "delivered" => outcome[id] = "delivered",
           \A id \in Webhooks : outcome'[id] # "none" => id \in accepted
    PROVE  IdemInv'
<1>1. \A id \in Webhooks, a \in Attempts : Finished(id, a) => Finished(id, a)'
  BY DEF Finished, Sends
<1>2. SendInv'
  BY DEF IdemInv, SendInv, RefOf
<1>3. OrderInv'
  BY <1>1 DEF IdemInv, OrderInv
<1>4. DeliveredInv'
  BY <1>1 DEF IdemInv, DeliveredInv
<1>5. KnownInv'
  BY DEF IdemInv, KnownInv
<1> QED
  BY <1>2, <1>3, <1>4, <1>5 DEF IdemInv

\* The first worker to set the key of an attempt may send it: no later attempt
\* is around yet, and the webhook is not delivered.
LEMMA TakesKey ==
    ASSUME TypeOK, IdemInv, NEW w \in Workers, pc[w] = "check",
           RefOf(w) \notin processed, processed' = processed \cup {RefOf(w)},
           Goto(w, "circuit"),
           UNCHANGED <<topicVars, data, zset, msg, next, schedulerVars, historyVars>>
    PROVE  IdemInv'
<1> DEFINE i == msg[w].id
           n == msg[w].att
<1> USE DEF topicVars, schedulerVars, historyVars
<1>1. i \in Webhooks /\ n \in Attempts /\ RefOf(w) = <<i, n>> /\ <<i, n>> \in Refs /\ Around(i, n)
  BY MsgType DEF RefOf
<1>2. \A v \in Workers : pc'[v] = IF v = w THEN "circuit" ELSE pc[v]
  BY DEF Goto, TypeOK
<1> HIDE DEF i, n
<1>3. \A id \in Webhooks, a \in Attempts : Around(id, a)' => Around(id, a)
  BY <1>2 DEF Around
<1>4. ASSUME NEW id \in Webhooks, NEW a \in Attempts, Finished(id, a) PROVE Finished(id, a)'
  <2>1. <<id, a>> # <<i, n>>
    BY <1>1, <1>4 DEF Finished
  <2>2. ~Sends(w, id, a)'
    BY <2>1 DEF Sends, i, n
  <2> QED
    BY <1>2, <1>4, <2>2 DEF Finished, Sends
<1>5. SendInv'
  <2>1. posts[<<i, n>>] = 0
    BY <1>1 DEF IdemInv, SendInv, TypeOK
  <2>2. \A v \in Workers : v # w /\ pc[v] \in Sending => RefOf(v) # RefOf(w)
    BY DEF IdemInv, SendInv
  <2>3. \A v \in Workers : RefOf(v)' = RefOf(v)
    BY DEF RefOf
  <2> QED
    BY <1>1, <1>2, <2>1, <2>2, <2>3 DEF IdemInv, SendInv
<1>6. OrderInv' /\ DeliveredInv'
  BY <1>3, <1>4 DEF IdemInv, OrderInv, DeliveredInv
<1>7. KnownInv'
  BY <1>3 DEF IdemInv, KnownInv
<1> QED
  BY <1>5, <1>6, <1>7 DEF IdemInv

\* A worker that was about to send leaves: it may have sent, delivered, or be
\* about to schedule the next attempt.
LEMMA Leaves ==
    ASSUME TypeOK, IdemInv, NEW w \in Workers, pc[w] = "deliver",
           NEW label \in WorkerPC \ Sending, Goto(w, label),
           posts' = posts \/ CountPost(w),
           UNCHANGED <<topicVars, redisVars, msg, schedulerVars, accepted>>,
           \/ next' = [next EXCEPT ![w] = msg[w].att + 1] /\ label = "ensure" /\ outcome' = outcome
           \/ /\ next' = next /\ label \notin {"ensure", "schedule", "idle"}
              /\ outcome' = outcome \/ outcome' = [outcome EXCEPT ![msg[w].id] = "delivered"]
    PROVE  IdemInv'
<1> USE DEF topicVars, schedulerVars, redisVars
<1>0. PICK i \in Webhooks, n \in Attempts : i = msg[w].id /\ n = msg[w].att
  BY MsgType
<1>1. RefOf(w) = <<i, n>> /\ <<i, n>> \in Refs /\ Around(i, n)
  BY <1>0, MsgType DEF RefOf
<1>2. \A v \in Workers : pc'[v] = IF v = w THEN label ELSE pc[v]
  BY DEF Goto, TypeOK
<1>3. Sends(w, i, n)
  BY <1>0 DEF Sends, Sending
<1>4. \A v \in Workers : pc'[v] \in Sending => v # w /\ pc[v] \in Sending
  BY <1>2
<1>5. ASSUME NEW id \in Webhooks, NEW a \in Attempts, Finished(id, a) PROVE Finished(id, a)'
  BY <1>4, <1>5 DEF Finished, Sends
<1>6. Finished(i, n)'
  <2>1. <<i, n>> \in processed
    BY <1>1 DEF IdemInv, SendInv, Sending
  <2>2. \A v \in Workers : v # w => ~Sends(v, i, n)
    BY <1>0, <1>1 DEF IdemInv, SendInv, Sends, RefOf, Sending
  <2> QED
    BY <1>4, <2>1, <2>2 DEF Finished, Sends
<1>7. ~Finished(i, n)
  BY <1>3 DEF Finished
<1>8. Attempts \subseteq Int
  BY ConstantsAssumption DEF Attempts
<1>9. \A v \in Workers : v # w => next'[v] = next[v]
  BY DEF TypeOK
<1>10. ASSUME NEW id \in Webhooks, NEW a \in Attempts, Around(id, a)'
       PROVE  Around(id, a) \/ (id = i /\ a = n + 1 /\ label = "ensure")
  <2>1. CASE next' = next /\ label \notin {"ensure", "schedule", "idle"}
    BY <1>2, <1>10, <2>1 DEF Around
  <2>2. CASE next' = [next EXCEPT ![w] = msg[w].att + 1] /\ label = "ensure"
    <3>1. next'[w] = n + 1
      BY <1>0, <2>2 DEF TypeOK
    <3> QED
      BY <1>2, <1>9, <1>10, <2>2, <3>1, <1>0 DEF Around
  <2> QED
    BY <2>1, <2>2
<1>11. SendInv'
  <2>1. \A v \in Workers : RefOf(v)' = RefOf(v)
    BY DEF RefOf
  <2>2. posts[<<i, n>>] = 0 /\ <<i, n>> \in processed
    BY <1>1 DEF IdemInv, SendInv, Sending
  <2>3. \A r \in Refs : posts'[r] = posts[r] \/ (r = <<i, n>> /\ posts'[r] = 1)
    BY <1>1, <2>2 DEF CountPost, TypeOK
  <2>4. \A r \in Refs : posts'[r] <= 1 /\ (posts'[r] > 0 => r \in processed)
    BY <2>2, <2>3 DEF IdemInv, SendInv
  <2>5. \A v \in Workers : pc'[v] \in Sending => RefOf(v) \in Refs /\ RefOf(v) # <<i, n>>
    BY <1>1, <1>4, MsgType DEF IdemInv, SendInv, Sending
  <2> QED
    BY <1>4, <2>1, <2>3, <2>4, <2>5 DEF IdemInv, SendInv
<1>12. OrderInv'
  <2> SUFFICES ASSUME NEW id \in Webhooks, NEW a \in Attempts, NEW b \in Attempts,
                      Around(id, a)', b < a
               PROVE  Finished(id, b)'
    BY DEF OrderInv
  <2>1. CASE Around(id, a)
    BY <1>5, <2>1 DEF IdemInv, OrderInv
  <2>2. CASE id = i /\ a = n + 1
    <3>1. b = n \/ b < n
      BY <1>1, <1>8, <2>2
    <3>2. b < n => Finished(i, b)
      BY <1>1 DEF IdemInv, OrderInv
    <3> QED
      BY <1>5, <1>6, <2>2, <3>1, <3>2
  <2> QED
    BY <1>10, <2>1, <2>2
<1>13. DeliveredInv'
  <2> SUFFICES ASSUME NEW id \in Webhooks, NEW a \in Attempts,
                      outcome'[id] = "delivered", Around(id, a)'
               PROVE  Finished(id, a)'
    BY DEF DeliveredInv
  <2>1. outcome[i] # "delivered"
    BY <1>1, <1>7 DEF IdemInv, DeliveredInv
  <2>2. CASE id # i
    <3>1. outcome[id] = "delivered" /\ Around(id, a)
      BY <1>0, <1>10, <2>2 DEF TypeOK
    <3> QED
      BY <1>5, <3>1 DEF IdemInv, DeliveredInv
  <2>3. CASE id = i
    <3>1. Around(i, a)
      BY <1>10, <2>1, <2>3
    <3>2. a = n \/ a < n \/ n < a
      BY <1>1, <1>8
    <3>3. ~(n < a)
      BY <1>1, <1>7, <3>1 DEF IdemInv, OrderInv
    <3>4. a < n => Finished(i, a)
      BY <1>1 DEF IdemInv, OrderInv
    <3> QED
      BY <1>5, <1>6, <2>3, <3>2, <3>3, <3>4
  <2> QED
    BY <2>2, <2>3
<1>14. KnownInv'
  <2>1. i \in accepted
    BY <1>1 DEF IdemInv, KnownInv
  <2>2. \A id \in Webhooks : outcome'[id] = outcome[id] \/ id = i
    BY <1>0 DEF TypeOK
  <2> QED
    BY <1>10, <2>1, <2>2 DEF IdemInv, KnownInv
<1> QED
  BY <1>11, <1>12, <1>13, <1>14 DEF IdemInv

------------------------------------------------------------------------------
\* A handler that ends has nothing in its hands.
LEMMA EndAround ==
    ASSUME TypeOK, NEW w \in Workers, EndHandler(w), topic' \subseteq topic,
           UNCHANGED <<zset, schedulerVars>>
    PROVE  /\ \A id \in Webhooks, a \in Attempts : Around(id, a)' => Around(id, a)
           /\ \A v \in Workers : pc'[v] \in Sending => pc[v] \in Sending /\ msg'[v] = msg[v]
<1>1. \A v \in Workers : IF v = w THEN pc'[v] = "idle"
                         ELSE pc'[v] = pc[v] /\ msg'[v] = msg[v] /\ next'[v] = next[v]
  BY DEF EndHandler, Goto, TypeOK
<1> QED
  BY <1>1 DEF Around, Sending, schedulerVars

\* Every step of a handler.
LEMMA HandlerIdem ==
    ASSUME KeyReliable, TypeOK, IdemInv, NEW w \in Workers, HandlerStep(w) \/ WorkerCrash(w)
    PROVE  IdemInv'
<1> USE DEF workerVars, schedulerVars, historyVars, topicVars, redisVars
<1>1. pc[w] # "idle"
  BY DEF HandlerStep, WorkerCrash, CheckProcessed, CheckCircuit, PassGates, Deliver, ScriptFails,
         EnsureRetryData, ScheduleRetry, Exhaust, CleanupRetryData, SendToDLQ,
         ReturnNil, ReturnError
<1>2. /\ msg[w] \in Message /\ msg[w].id \in Webhooks /\ msg[w].att \in Attempts
      /\ Around(msg[w].id, msg[w].att) /\ msg[w].id \in accepted
  BY <1>1, MsgType DEF IdemInv, KnownInv
<1>3. \A id \in Webhooks : outcome[id] # "none" => id \in accepted
  BY DEF IdemInv, KnownInv
<1>4. \A label : Goto(w, label) => \A v \in Workers : pc'[v] = IF v = w THEN label ELSE pc[v]
  BY DEF Goto, TypeOK
<1>5. CASE CheckProcessed(w)
  <2>1. CASE RefOf(w) \in processed /\ Goto(w, "ack") /\ UNCHANGED processed
    <3>1. \A id \in Webhooks, a \in Attempts : Around(id, a)' => Around(id, a)
      BY <1>4, <1>5, <2>1 DEF CheckProcessed, Around
    <3> QED
      BY <1>3, <1>4, <1>5, <2>1, <3>1, Calm DEF CheckProcessed, Sending
  <2> QED
    BY <1>5, <2>1, TakesKey DEF CheckProcessed, KeyReliable
<1>6. CASE CheckCircuit(w)
  <2>1. CASE Goto(w, "gate") /\ next' = next
    <3>1. \A id \in Webhooks, a \in Attempts : Around(id, a)' => Around(id, a)
      BY <1>4, <1>6, <2>1 DEF CheckCircuit, Around
    <3> QED
      BY <1>3, <1>4, <1>6, <2>1, <3>1, Calm DEF CheckCircuit, Sending
  <2>2. CASE Goto(w, "ensure") /\ next' = [next EXCEPT ![w] = msg[w].att]
    <3>1. \A v \in Workers : next'[v] = IF v = w THEN msg[w].att ELSE next[v]
      BY <2>2 DEF TypeOK
    <3>2. \A id \in Webhooks, a \in Attempts : Around(id, a)' => Around(id, a)
      BY <1>1, <1>4, <1>6, <2>2, <3>1 DEF CheckCircuit, Around
    <3> QED
      BY <1>3, <1>4, <1>6, <2>2, <3>2, Calm DEF CheckCircuit, Sending
  <2> QED
    BY <1>6, <2>1, <2>2 DEF CheckCircuit
<1>7. CASE PassGates(w)
  <2>1. PICK label \in {"deliver", "ack", "nack"} : Goto(w, label)
    BY <1>7 DEF PassGates
  <2>2. \A m \in topic' : m \in topic \/ (m.id = msg[w].id /\ m.att = msg[w].att)
    BY <1>7 DEF PassGates, PublishTo
  <2>3. \A id \in Webhooks, a \in Attempts : Around(id, a)' => Around(id, a)
    BY <1>1, <1>4, <1>7, <2>1, <2>2 DEF PassGates, Around
  <2> QED
    BY <1>3, <1>4, <1>7, <2>1, <2>3, Calm DEF PassGates, Sending
<1>8. CASE Deliver(w)
  <2>1. {"cleanup", "ensure", "exhaust"} \subseteq WorkerPC \ Sending
    BY DEF WorkerPC, Sending
  <2> QED
    BY <1>8, <2>1, Leaves DEF Deliver
<1>9. CASE ScriptFails(w)
  <2>1. {"ensure", "dlq"} \subseteq WorkerPC \ Sending
    BY DEF WorkerPC, Sending
  <2> QED
    BY <1>9, <2>1, Leaves DEF ScriptFails
<1>10. CASE EnsureRetryData(w) \/ CleanupRetryData(w)
  <2>1. PICK label \in {"schedule", "nack", "ack"} : Goto(w, label) /\ (label = "schedule" => pc[w] = "ensure")
    BY <1>10 DEF EnsureRetryData, CleanupRetryData
  <2>2. UNCHANGED <<topic, zset, msg, next, batch, sref, processed, posts, accepted, outcome>>
    BY <1>10 DEF EnsureRetryData, CleanupRetryData
  <2>3. \A id \in Webhooks, a \in Attempts : Around(id, a)' => Around(id, a)
    BY <1>1, <1>4, <2>1, <2>2 DEF Around
  <2> QED
    BY <1>3, <1>4, <2>1, <2>2, <2>3, Calm DEF Sending
<1>11. CASE ScheduleRetry(w)
  <2>1. PICK label \in {"nack", "ack"} : Goto(w, label)
    BY <1>11 DEF ScheduleRetry
  <2>2. \A id \in Webhooks, a \in Attempts :
            zset'[<<id, a>>] = zset[<<id, a>>] \/ (id = msg[w].id /\ a = next[w])
    BY <1>11 DEF ScheduleRetry, TypeOK, Refs
  <2>3. \A id \in Webhooks, a \in Attempts : Around(id, a)' => Around(id, a)
    BY <1>4, <1>11, <2>1, <2>2 DEF ScheduleRetry, Around
  <2> QED
    BY <1>3, <1>4, <1>11, <2>1, <2>3, Calm DEF ScheduleRetry, Sending
<1>12. CASE Exhaust(w) \/ SendToDLQ(w)
  <2>1. PICK label \in {"cleanup", "nack", "ack"} : Goto(w, label)
    BY <1>12 DEF Exhaust, SendToDLQ
  <2>2. UNCHANGED <<topic, zset, msg, next, batch, sref, processed, posts, accepted>>
    BY <1>12 DEF Exhaust, SendToDLQ
  <2>3. \A id \in Webhooks : outcome'[id] = outcome[id] \/ (id = msg[w].id /\ outcome'[id] = "dead")
    BY <1>12 DEF Exhaust, SendToDLQ, TypeOK
  <2>4. \A id \in Webhooks, a \in Attempts : Around(id, a)' => Around(id, a)
    BY <1>1, <1>4, <2>1, <2>2 DEF Around
  <2> QED
    BY <1>2, <1>3, <1>4, <2>1, <2>2, <2>3, <2>4, Calm DEF Sending
<1>13. CASE ReturnNil(w) \/ ReturnError(w) \/ WorkerCrash(w)
  <2>1. /\ EndHandler(w) /\ topic' \subseteq topic
        /\ UNCHANGED <<zset, batch, spc, sref, processed, posts, accepted, outcome>>
    BY <1>13 DEF ReturnNil, ReturnError, WorkerCrash
  <2> QED
    BY <1>3, <2>1, EndAround, Calm
<1> QED
  BY <1>5, <1>6, <1>7, <1>8, <1>9, <1>10, <1>11, <1>12, <1>13 DEF HandlerStep

\* Every step of a scheduler only moves about what is around.
LEMMA SchedulerIdem ==
    ASSUME TypeOK, IdemInv, NEW s \in Schedulers, SchedulerStep(s) \/ SchedulerCrash(s)
    PROVE  IdemInv'
<1> USE DEF workerVars, schedulerVars, historyVars, topicVars, redisVars
<1>1. UNCHANGED <<processed, pc, msg, next, accepted, posts, outcome>>
  BY DEF SchedulerStep, SchedulerCrash, PopAndLock, FetchData, DropRef, Republish, AckPublished
<1>2. ASSUME \A m \in topic' : m \in topic \/ Around(m.id, m.att),
             \A id \in Webhooks, a \in Attempts : zset'[<<id, a>>] # "absent" => Around(id, a),
             \A id \in Webhooks, a \in Attempts :
                 (\E t \in Schedulers : <<id, a>> \in batch'[t] \/ sref'[t] = <<id, a>>)
                     => Around(id, a)
      PROVE  IdemInv'
  <2>1. ASSUME NEW id \in Webhooks, NEW a \in Attempts, Around(id, a)' PROVE Around(id, a)
    <3>1. CASE \E m \in topic' : m.id = id /\ m.att = a
      <4>1. PICK m \in topic' : m.id = id /\ m.att = a
        BY <3>1
      <4>2. m \in topic => Around(id, a)
        BY <4>1 DEF Around
      <4> QED
        BY <1>2, <4>1, <4>2
    <3>2. CASE zset'[<<id, a>>] # "absent"
      BY <1>2, <3>2
    <3>3. CASE \E t \in Schedulers : <<id, a>> \in batch'[t] \/ sref'[t] = <<id, a>>
      BY <1>2, <3>3
    <3> QED
      BY <1>1, <2>1, <3>1, <3>2, <3>3 DEF Around
  <2>2. \A id \in Webhooks : outcome[id] # "none" => id \in accepted
    BY DEF IdemInv, KnownInv
  <2> QED
    BY <1>1, <2>1, <2>2, Calm
<1>3. ASSUME NEW r, NextRef(s, r)
      PROVE  \A id \in Webhooks, a \in Attempts :
                (\E t \in Schedulers : <<id, a>> \in batch'[t] \/ sref'[t] = <<id, a>>)
                    => Around(id, a)
  BY <1>3 DEF NextRef, TypeOK, Around, NoRef
<1>4. ASSUME NEW r \in Refs, AckRetry(r)
      PROVE  \A id \in Webhooks, a \in Attempts :
                zset'[<<id, a>>] # "absent" => Around(id, a)
  <2>1. \A id \in Webhooks, a \in Attempts :
            zset'[<<id, a>>] # "absent" => zset[<<id, a>>] # "absent"
    BY <1>4 DEF AckRetry, TypeOK, Refs
  <2> QED
    BY <2>1 DEF Around
<1>5. ASSUME NEW refs \in SUBSET Refs, PopAndLock(s, refs) PROVE IdemInv'
  <2>1. \A id \in Webhooks, a \in Attempts : zset'[<<id, a>>] # "absent" => Around(id, a)
    BY <1>5 DEF PopAndLock, Around, Refs
  <2>2. \A id \in Webhooks, a \in Attempts, t \in Schedulers :
            <<id, a>> \in batch'[t] \/ sref'[t] = <<id, a>> => Around(id, a)
    BY <1>5 DEF PopAndLock, Around, TypeOK
  <2> QED
    BY <1>2, <1>5, <2>1, <2>2 DEF PopAndLock
<1>6. ASSUME NEW r \in Refs, FetchData(s, r) PROVE IdemInv'
  <2>1. \A id \in Webhooks, a \in Attempts, t \in Schedulers :
            <<id, a>> \in batch'[t] \/ sref'[t] = <<id, a>> => Around(id, a)
    BY <1>6 DEF FetchData, Around, TypeOK
  <2> QED
    BY <1>2, <1>6, <2>1 DEF FetchData, Around
<1>7. ASSUME NEW r \in Refs, DropRef(s, r) PROVE IdemInv'
  BY <1>2, <1>3, <1>4, <1>7 DEF DropRef
<1>8. CASE Republish(s)
  <2>1. sref[s] \in Refs /\ sref[s] = <<sref[s][1], sref[s][2]>>
    BY <1>8 DEF Republish, TypeOK, Refs
  <2>2. Around(sref[s][1], sref[s][2])
    BY <2>1 DEF Around
  <2>3. CASE NextRef(s, sref[s]) /\ UNCHANGED topicVars
    <3>1. \A id \in Webhooks, a \in Attempts : zset'[<<id, a>>] # "absent" => Around(id, a)
      BY <1>8 DEF Republish, Around
    <3> QED
      BY <1>2, <1>3, <2>3, <3>1
  <2>4. CASE PublishTo(sref[s][1], sref[s][2], "fast") /\ UNCHANGED <<batch, sref>>
    <3>1. \A m \in topic' : m \in topic \/ (m.id = sref[s][1] /\ m.att = sref[s][2])
      BY <2>4 DEF PublishTo
    <3> QED
      BY <1>2, <1>8, <2>2, <2>4, <3>1 DEF Republish, Around
  <2> QED
    BY <1>8, <2>3, <2>4 DEF Republish
<1>9. CASE AckPublished(s)
  <2>1. sref[s] \in Refs
    BY <1>9 DEF AckPublished, TypeOK
  <2> QED
    BY <1>2, <1>3, <1>4, <1>9, <2>1 DEF AckPublished
<1>10. CASE SchedulerCrash(s)
  BY <1>2, <1>10 DEF SchedulerCrash, Around, TypeOK, NoRef
<1> QED
  BY <1>5, <1>6, <1>7, <1>8, <1>9, <1>10 DEF SchedulerStep

LEMMA IdemStep ==
    ASSUME KeyReliable, TypeOK, IdemInv, [Next]_vars PROVE IdemInv'
<1> USE DEF workerVars, schedulerVars, historyVars, topicVars, redisVars
<1>1. \A id \in Webhooks : outcome[id] # "none" => id \in accepted
  BY DEF IdemInv, KnownInv
<1>2. ASSUME NEW id \in Webhooks, Enqueue(id) PROVE IdemInv'
  <2>1. id \notin accepted /\ accepted' = accepted \cup {id}
        /\ UNCHANGED <<processed, zset, pc, msg, next, batch, sref, posts, outcome>>
    BY <1>2 DEF Enqueue
  <2>2. \A m \in topic' : m \in topic \/ (m.id = id /\ m.att = 0)
    BY <1>2 DEF Enqueue, PublishTo
  <2>3. \A i \in Webhooks, a \in Attempts : Around(i, a)' => Around(i, a) \/ (i = id /\ a = 0)
    BY <2>1, <2>2 DEF Around
  <2>4. outcome[id] = "none" /\ \A a \in Attempts : ~Around(id, a)
    BY <2>1 DEF IdemInv, KnownInv
  <2>5. \A i \in Webhooks, a \in Attempts : Finished(i, a)' <=> Finished(i, a)
    BY <2>1 DEF Finished, Sends
  <2>6. SendInv'
    BY <2>1 DEF IdemInv, SendInv, RefOf
  <2>7. \A b \in Attempts : ~(b < 0)
    BY ConstantsAssumption DEF Attempts
  <2>8. OrderInv'
    BY <2>3, <2>5, <2>7 DEF IdemInv, OrderInv
  <2>9. DeliveredInv'
    BY <2>1, <2>3, <2>4, <2>5 DEF IdemInv, DeliveredInv
  <2>10. KnownInv'
    BY <2>1, <2>3 DEF IdemInv, KnownInv
  <2> QED
    BY <2>6, <2>8, <2>9, <2>10 DEF IdemInv
<1>3. ASSUME NEW w \in Workers, NEW m \in topic, Receive(w, m) PROVE IdemInv'
  <2>1. \A v \in Workers : IF v = w THEN pc'[v] = "check" /\ msg'[v] = m
                           ELSE pc'[v] = pc[v] /\ msg'[v] = msg[v]
    BY <1>3 DEF Receive, Goto, TypeOK
  <2>2. \A id \in Webhooks, a \in Attempts : Around(id, a)' => Around(id, a)
    BY <1>3, <2>1 DEF Receive, Around
  <2> QED
    BY <1>1, <1>3, <2>1, <2>2, Calm DEF Receive, Sending
<1>4. ASSUME NEW r \in Refs, LockExpires(r) PROVE IdemInv'
  <2>1. \A id \in Webhooks, a \in Attempts : zset'[<<id, a>>] # "absent" => zset[<<id, a>>] # "absent"
    BY <1>4 DEF LockExpires, TypeOK, Refs
  <2>2. \A id \in Webhooks, a \in Attempts : Around(id, a)' => Around(id, a)
    BY <1>4, <2>1 DEF LockExpires, Around
  <2> QED
    BY <1>1, <1>4, <2>2, Calm DEF LockExpires
<1>5. ASSUME NEW r \in Refs, ProcessedExpires(r) PROVE IdemInv'
  BY <1>5 DEF ProcessedExpires, KeyReliable
<1>6. CASE UNCHANGED vars
  <2>1. \A id \in Webhooks, a \in Attempts : Around(id, a)' => Around(id, a)
    BY <1>6 DEF vars, Around
  <2> QED
    BY <1>1, <1>6, <2>1, Calm DEF vars
<1> QED
  BY <1>2, <1>3, <1>4, <1>5, <1>6, HandlerIdem, SchedulerIdem DEF Next

\* No attempt of a webhook is sent twice, whatever crashes, redelivers, fails or
\* is published again, as long as the idempotency key works.
THEOREM SentOnce == KeyReliable => (Spec => []AttemptSentOnce)
<1> SUFFICES ASSUME KeyReliable PROVE Spec => []AttemptSentOnce
  OBVIOUS
<1>1. TypeOK /\ IdemInv /\ [Next]_vars => IdemInv'
  BY IdemStep
<1>2. IdemInv => AttemptSentOnce
  BY DEF IdemInv, SendInv, AttemptSentOnce
<1> QED
  BY <1>1, <1>2, IdemInit, TypeInit, TypeStep, PTL DEF Spec

\* After a 2xx the webhook is neither sent again nor dead-lettered, under the
\* same condition.
THEOREM SilentAfterDelivery == KeyReliable => (Spec => NothingAfterDelivery)
<1> SUFFICES ASSUME KeyReliable PROVE Spec => NothingAfterDelivery
  OBVIOUS
<1> USE DEF workerVars, schedulerVars, historyVars, topicVars, redisVars
<1> DEFINE Silent == \A id \in Webhooks : outcome[id] = "delivered" =>
                        /\ outcome'[id] = "delivered"
                        /\ \A a \in Attempts : posts'[<<id, a>>] = posts[<<id, a>>]
<1>1. ASSUME TypeOK, IdemInv, [Next]_vars PROVE Silent
  <2>1. ASSUME NEW w \in Workers, Deliver(w) PROVE Silent
    <3>1. /\ Sends(w, msg[w].id, msg[w].att) /\ msg[w].id \in Webhooks /\ msg[w].att \in Attempts
          /\ Around(msg[w].id, msg[w].att)
      BY <1>1, <2>1, MsgType DEF Deliver, Sends, Sending
    <3>2. outcome[msg[w].id] # "delivered"
      BY <1>1, <3>1 DEF IdemInv, DeliveredInv, Finished
    <3>3. \A id \in Webhooks : id # msg[w].id => outcome'[id] = outcome[id]
      BY <1>1, <2>1 DEF Deliver, TypeOK
    <3>4. \A id \in Webhooks, a \in Attempts :
              id # msg[w].id => posts'[<<id, a>>] = posts[<<id, a>>]
      BY <1>1, <2>1 DEF Deliver, CountPost, RefOf, TypeOK, Refs
    <3> QED
      BY <3>2, <3>3, <3>4
  <2>2. ASSUME NEW w \in Workers, Exhaust(w) \/ SendToDLQ(w) PROVE Silent
    BY <1>1, <2>2 DEF Exhaust, SendToDLQ, TypeOK
  <2>3. CASE UNCHANGED <<outcome, posts>>
    BY <2>3
  <2>4. (\E w \in Workers : Deliver(w) \/ Exhaust(w) \/ SendToDLQ(w)) \/ UNCHANGED <<outcome, posts>>
    BY <1>1 DEF Next, vars, Enqueue, Receive, HandlerStep, WorkerCrash, CheckProcessed, CheckCircuit,
                PassGates, ScriptFails, EnsureRetryData, ScheduleRetry, CleanupRetryData, ReturnNil,
                ReturnError, SchedulerStep, SchedulerCrash, PopAndLock, FetchData, DropRef,
                Republish, AckPublished, LockExpires, ProcessedExpires
  <2> QED
    BY <2>1, <2>2, <2>3, <2>4
<1>2. TypeOK /\ IdemInv /\ [Next]_vars => IdemInv'
  BY IdemStep
<1>3. TypeOK /\ IdemInv /\ [Next]_vars => [Silent]_vars
  BY <1>1
<1> QED
  BY <1>2, <1>3, IdemInit, TypeInit, TypeStep, PTL DEF Spec, NothingAfterDelivery
------------------------------------------------------------------------------
(* No retry data is left behind.                                           *)

\* The faults that can leave retry data of a settled webhook behind: a handler that
\* does not get to the deletion, that fails in it or, in sendToDLQ, does not try it,
\* and one that was denied by the circuit and stores the data of an attempt that
\* another one sends meanwhile.
LitteringFaults == {"crash", "circuit", "cleanup", "script"}
NoLitteringFault == Faults \cap LitteringFaults = {}

\* Labels between the HTTP call and the end of what the handler makes of it.
Concluding == {"ensure", "schedule", "exhaust", "cleanup"}
Concludes(w, id, a) == pc[w] \in Concluding /\ msg[w].id = id /\ msg[w].att = a

Once(id) == \A a \in Attempts : posts[<<id, a>>] <= 1
Sent(id, a) == posts[<<id, a>>] >= 1

\* Attempt a of the webhook is out: in a topic, in the ZSET, in the hands of a
\* scheduler or a worker.
Out(id, a) ==
    \/ \E m \in topic : m.id = id /\ m.att = a
    \/ zset[<<id, a>>] # "absent"
    \/ \E s \in Schedulers : <<id, a>> \in batch[s] \/ sref[s] = <<id, a>>
    \/ \E w \in Workers : pc[w] # "idle" /\ msg[w].id = id /\ msg[w].att = a

\* A handler has found that no attempt is to follow.
Closes(id) == \E w \in Workers : pc[w] \in {"exhaust", "cleanup"} /\ msg[w].id = id

\* What a handler knows after the HTTP call, and nothing is about of a webhook that
\* the API has not accepted.
ConcludeInv ==
    /\ \A w \in Workers : pc[w] \in Concluding => Sent(msg[w].id, msg[w].att)
    /\ \A w \in Workers : pc[w] \in {"ensure", "schedule"} => next[w] = msg[w].att + 1
    /\ \A w \in Workers : pc[w] # "dlq"
    /\ \A id \in Webhooks : (\E a \in Attempts : Out(id, a)) \/ outcome[id] # "none" => id \in accepted

\* As long as no attempt was sent twice one handler concludes it, before the next
\* attempt is out; and with a webhook that is closed or settled nothing is out that
\* was not sent, nobody stores its data, and somebody is to delete it if it is there.
Ordered(id) ==
    /\ \A v, w \in Workers, a \in Attempts : Concludes(v, id, a) /\ Concludes(w, id, a) => v = w
    /\ \A a, b \in Attempts : b < a /\ Out(id, a) => Sent(id, b) /\ \A w \in Workers : ~Concludes(w, id, b)
    /\ outcome[id] # "none" \/ Closes(id) =>
          /\ \A a \in Attempts : Out(id, a) => Sent(id, a)
          /\ \A w \in Workers : pc[w] \in {"ensure", "schedule"} => msg[w].id # id
          /\ id \in data => Closes(id)

OrphanInv == ConcludeInv /\ \A id \in Webhooks : Once(id) => Ordered(id)

LEMMA OrphanInit == Init => OrphanInv
<1> SUFFICES ASSUME Init PROVE OrphanInv
  OBVIOUS
<1>1. \A id \in Webhooks, a \in Attempts : ~Out(id, a)
  BY DEF Init, Out, Refs, NoRef
<1>2. \A id \in Webhooks : outcome[id] = "none" /\ ~Closes(id)
  BY DEF Init, Closes
<1>3. \A w \in Workers : pc[w] = "idle"
  BY DEF Init
<1> QED
  BY <1>1, <1>2, <1>3 DEF OrphanInv, ConcludeInv, Ordered, Concluding, Concludes

\* A step that brings nothing of the webhook out, concludes and closes nothing of it,
\* and keeps its data from being left behind.
LEMMA OrderedSame ==
    ASSUME NEW id, Ordered(id),
           \A a \in Attempts : Out(id, a)' => Out(id, a),
           \A v \in Workers, a \in Attempts : Concludes(v, id, a)' => Concludes(v, id, a),
           \A a \in Attempts : Sent(id, a) => Sent(id, a)',
           outcome'[id] # "none" \/ Closes(id)' => outcome[id] # "none" \/ Closes(id),
           \A v \in Workers : pc'[v] \in {"ensure", "schedule"} /\ msg'[v].id = id =>
                                 pc[v] \in {"ensure", "schedule"} /\ msg[v].id = id,
           id \in data' /\ (outcome[id] # "none" \/ Closes(id)) => id \in data /\ (Closes(id) => Closes(id)')
    PROVE  Ordered(id)'
<1>1. \A v, w \in Workers, a \in Attempts : Concludes(v, id, a)' /\ Concludes(w, id, a)' => v = w
  BY DEF Ordered
<1>2. \A a, b \in Attempts : b < a /\ Out(id, a)' => Sent(id, b)' /\ \A w \in Workers : ~Concludes(w, id, b)'
  BY DEF Ordered
<1>3. ASSUME outcome'[id] # "none" \/ Closes(id)'
      PROVE  /\ \A a \in Attempts : Out(id, a)' => Sent(id, a)'
             /\ \A w \in Workers : pc'[w] \in {"ensure", "schedule"} => msg'[w].id # id
             /\ id \in data' => Closes(id)'
  BY <1>3 DEF Ordered
<1> QED
  BY <1>1, <1>2, <1>3 DEF Ordered

\* The same for all webhooks at once.
LEMMA CalmOrphan ==
    ASSUME TypeOK, TypeOK', OrphanInv, UNCHANGED <<posts, accepted>>,
           \A id \in Webhooks, a \in Attempts : Out(id, a)' => Out(id, a),
           \A v \in Workers : pc'[v] \in Concluding =>
              /\ pc[v] \in Concluding /\ msg'[v] = msg[v] /\ next'[v] = next[v]
              /\ pc'[v] \in {"ensure", "schedule"} <=> pc[v] \in {"ensure", "schedule"},
           \A v \in Workers : pc'[v] # "dlq",
           \A id \in Webhooks : outcome'[id] # "none" => outcome[id] # "none" \/ Closes(id),
           \A id \in Webhooks : Once(id) /\ id \in data' /\ (outcome[id] # "none" \/ Closes(id)) =>
                                   id \in data /\ (Closes(id) => Closes(id)')
    PROVE  OrphanInv'
<1>1. \A id : Once(id)' <=> Once(id)
  BY DEF Once
<1>2. \A id, a : Sent(id, a)' <=> Sent(id, a)
  BY DEF Sent
<1>3. \A id \in Webhooks : Closes(id)' => Closes(id)
  BY DEF Closes, Concluding
<1>4. ASSUME NEW id \in Webhooks, Once(id) PROVE Ordered(id)'
  <2>1. Ordered(id)
    BY <1>4 DEF OrphanInv
  <2>2. \A v \in Workers, a \in Attempts : Concludes(v, id, a)' => Concludes(v, id, a)
    BY DEF Concludes
  <2>3. \A v \in Workers : pc'[v] \in {"ensure", "schedule"} /\ msg'[v].id = id =>
                                 pc[v] \in {"ensure", "schedule"} /\ msg[v].id = id
    BY DEF Concluding
  <2> QED
    BY <1>2, <1>3, <1>4, <2>1, <2>2, <2>3, OrderedSame
<1>5. ConcludeInv'
  <2>1. \A w \in Workers : pc'[w] \in Concluding => Sent(msg[w].id, msg[w].att)'
    <3>1. \A w \in Workers : pc'[w] \in Concluding => posts[<<msg[w].id, msg[w].att>>] >= 1
      BY DEF OrphanInv, ConcludeInv, Sent
    <3> QED
      BY <3>1 DEF Sent
  <2>2. \A w \in Workers : pc'[w] \in {"ensure", "schedule"} => next'[w] = msg'[w].att + 1
    BY DEF OrphanInv, ConcludeInv, Concluding
  <2>3. ASSUME NEW id \in Webhooks, Closes(id) PROVE id \in accepted
    <3>1. PICK w \in Workers : pc[w] \in {"exhaust", "cleanup"} /\ msg[w].id = id
      BY <2>3 DEF Closes
    <3>2. msg[w].att \in Attempts
      BY <3>1, MessageFields DEF TypeOK
    <3>3. Out(id, msg[w].att)
      BY <3>1 DEF Out
    <3> QED
      BY <3>2, <3>3 DEF OrphanInv, ConcludeInv
  <2>4. ASSUME NEW id \in Webhooks, (\E a \in Attempts : Out(id, a)') \/ outcome'[id] # "none" PROVE id \in accepted'
    BY <2>3, <2>4 DEF OrphanInv, ConcludeInv
  <2> QED
    BY <2>1, <2>2, <2>4 DEF ConcludeInv
<1> QED
  BY <1>1, <1>4, <1>5 DEF OrphanInv

\* The HTTP call: whoever makes the only one of an attempt finds nobody concluding
\* another attempt of the webhook, and nothing later out.
LEMMA DeliverOrphan ==
    ASSUME TypeOK, OrphanInv, NEW w \in Workers, Deliver(w)
    PROVE  OrphanInv'
<1> USE DEF workerVars, schedulerVars, historyVars, topicVars, redisVars
<1>0. PICK i \in Webhooks, n \in Attempts : i = msg[w].id /\ n = msg[w].att
  BY MessageFields DEF Deliver, TypeOK
<1>1. PICK label \in {"cleanup", "ensure", "exhaust"} :
         /\ \A v \in Workers : pc'[v] = IF v = w THEN label ELSE pc[v]
         /\ label = "ensure" => next'[w] = n + 1 /\ UNCHANGED outcome
         /\ \A v \in Workers : v # w => next'[v] = next[v]
         /\ \A id \in Webhooks : id # i => outcome'[id] = outcome[id]
         /\ UNCHANGED <<topic, zset, batch, sref, msg, data, accepted>>
  <2>1. \E label \in {"cleanup", "ensure", "exhaust"} :
           /\ Goto(w, label)
           /\ label = "ensure" => next' = [next EXCEPT ![w] = msg[w].att + 1] /\ UNCHANGED outcome
           /\ label # "ensure" => UNCHANGED next
    BY DEF Deliver
  <2>2. PICK label \in {"cleanup", "ensure", "exhaust"} :
           /\ Goto(w, label)
           /\ label = "ensure" => next' = [next EXCEPT ![w] = msg[w].att + 1] /\ UNCHANGED outcome
           /\ label # "ensure" => UNCHANGED next
    BY <2>1
  <2>3. \A v \in Workers : pc'[v] = IF v = w THEN label ELSE pc[v]
    BY <2>2 DEF Goto, TypeOK
  <2>4. /\ label = "ensure" => next'[w] = n + 1 /\ UNCHANGED outcome
        /\ \A v \in Workers : v # w => next'[v] = next[v]
    BY <1>0, <2>2 DEF TypeOK
  <2>5. \A id \in Webhooks : id # i => outcome'[id] = outcome[id]
    BY <1>0 DEF Deliver, TypeOK
  <2>6. UNCHANGED <<topic, zset, batch, sref, msg, data, accepted>>
    BY DEF Deliver
  <2> QED
    BY <2>3, <2>4, <2>5, <2>6
<1>2. pc[w] = "deliver" /\ Attempts \subseteq Int
  BY ConstantsAssumption DEF Deliver, Attempts
<1>3. /\ \A id \in Webhooks, a \in Attempts : posts[<<id, a>>] \in Int
      /\ \A id \in Webhooks, a \in Attempts : <<id, a>> # <<i, n>> => posts'[<<id, a>>] = posts[<<id, a>>]
      /\ posts'[<<i, n>>] >= 1 /\ (posts'[<<i, n>>] <= 1 => posts[<<i, n>>] = 0)
  <2>1. posts' = [posts EXCEPT ![<<i, n>>] = IF @ < 2 THEN @ + 1 ELSE 2] /\ <<i, n>> \in Refs
    BY <1>0 DEF Deliver, CountPost, RefOf, Refs
  <2>2. \A id \in Webhooks, a \in Attempts : <<id, a>> \in Refs
    BY DEF Refs
  <2>3. posts \in [Refs -> 0 .. 2]
    BY DEF TypeOK
  <2> QED
    BY <2>1, <2>2, <2>3
<1>4. \A id \in Webhooks, a \in Attempts : Sent(id, a) => Sent(id, a)'
  BY <1>3 DEF Sent
<1>5. Sent(i, n)'
  BY <1>3 DEF Sent
<1>6. \A id \in Webhooks, a \in Attempts : Out(id, a)' <=> Out(id, a)
  BY <1>1, <1>2 DEF Out
<1>7. Out(i, n)
  BY <1>0, <1>2 DEF Out
<1>8. \A v \in Workers : pc'[v] \in Concluding => pc[v] \in Concluding \/ v = w
  BY <1>1
<1>9. ASSUME NEW id \in Webhooks, id # i, Once(id)' PROVE Ordered(id)'
  <2>1. Once(id)
    BY <1>3, <1>9 DEF Once
  <2>2. Closes(id)' <=> Closes(id)
    BY <1>0, <1>1, <1>2, <1>9 DEF Closes
  <2>3. \A v \in Workers, a \in Attempts : Concludes(v, id, a)' => Concludes(v, id, a)
    BY <1>0, <1>1, <1>9 DEF Concludes
  <2>4. \A v \in Workers : pc'[v] \in {"ensure", "schedule"} /\ msg'[v].id = id =>
                                 pc[v] \in {"ensure", "schedule"} /\ msg[v].id = id
    BY <1>0, <1>1, <1>9
  <2> QED
    BY <1>1, <1>4, <1>6, <1>9, <2>1, <2>2, <2>3, <2>4, OrderedSame DEF OrphanInv
<1>10. ASSUME Once(i)' PROVE Ordered(i)'
  <2>1. Once(i) /\ ~Sent(i, n)
    BY <1>3, <1>10 DEF Once, Sent
  <2>2. Ordered(i)
    BY <2>1 DEF OrphanInv
  <2>3. \A a \in Attempts : Out(i, a) => ~(n < a)
    BY <2>1, <2>2 DEF Ordered
  <2>4. \A v \in Workers, a \in Attempts : ~Concludes(v, i, a)
    <3> SUFFICES ASSUME NEW v \in Workers, NEW a \in Attempts, Concludes(v, i, a) PROVE FALSE
      OBVIOUS
    <3>1. Out(i, a) /\ Sent(i, a)
      BY DEF Concludes, Concluding, Out, OrphanInv, ConcludeInv
    <3>2. a < n \/ a = n
      BY <1>2, <2>3, <3>1
    <3>3. ~(a < n)
      BY <1>7, <2>2 DEF Ordered
    <3> QED
      BY <2>1, <3>1, <3>2, <3>3
  <2>5. outcome[i] = "none" /\ ~Closes(i)
    BY <1>7, <2>1, <2>2 DEF Ordered
  <2>6. \A v \in Workers, a \in Attempts : Concludes(v, i, a)' => v = w /\ a = n
    BY <1>0, <1>1, <2>4 DEF Concludes
  <2>7. \A a, b \in Attempts : b < a /\ Out(i, a)' => Sent(i, b)' /\ \A v \in Workers : ~Concludes(v, i, b)'
    <3> SUFFICES ASSUME NEW a \in Attempts, NEW b \in Attempts, b < a, Out(i, a)
                 PROVE  Sent(i, b)' /\ \A v \in Workers : ~Concludes(v, i, b)'
      BY <1>6
    <3>1. b # n
      BY <2>3
    <3>2. Sent(i, b)'
      BY <1>4, <2>2 DEF Ordered
    <3> QED
      BY <2>6, <3>1, <3>2
  <2>8. \A a \in Attempts : Out(i, a)' => Sent(i, a)'
    <3> SUFFICES ASSUME NEW a \in Attempts, Out(i, a) PROVE Sent(i, a)'
      BY <1>6
    <3>1. CASE a = n
      BY <1>5, <3>1
    <3>2. CASE a # n
      <4>1. a < n
        BY <1>2, <2>3, <3>2
      <4> QED
        BY <1>4, <1>7, <2>2, <4>1 DEF Ordered
    <3> QED
      BY <3>1, <3>2
  <2>9. CASE label = "ensure"
    <3>1. outcome'[i] = "none"
      BY <1>1, <2>5, <2>9
    <3>2. ~Closes(i)'
      BY <1>1, <2>5, <2>9 DEF Closes
    <3> QED
      BY <2>6, <2>7, <3>1, <3>2 DEF Ordered
  <2>10. CASE label # "ensure"
    <3>1. Closes(i)'
      BY <1>0, <1>1, <2>10 DEF Closes
    <3>2. ASSUME NEW v \in Workers, pc'[v] \in {"ensure", "schedule"}, msg'[v].id = i PROVE FALSE
      <4>1. v # w /\ pc[v] \in {"ensure", "schedule"} /\ msg[v].id = i
        BY <1>1, <2>10, <3>2
      <4>2. msg[v].att \in Attempts
        BY <4>1, MessageFields DEF TypeOK
      <4>3. Concludes(v, i, msg[v].att)
        BY <4>1 DEF Concludes, Concluding
      <4> QED
        BY <2>4, <4>2, <4>3
    <3> QED
      BY <2>6, <2>7, <2>8, <3>1, <3>2 DEF Ordered
  <2> QED
    BY <2>9, <2>10
<1>11. ConcludeInv'
  <2>1. ASSUME NEW v \in Workers, pc'[v] \in Concluding PROVE Sent(msg[v].id, msg[v].att)'
    <3>1. CASE v = w
      BY <1>0, <1>1, <1>5, <3>1 DEF Sent
    <3>2. CASE v # w
      <4>1. pc[v] \in Concluding
        BY <1>8, <2>1, <3>2
      <4>2. PICK id \in Webhooks, a \in Attempts : id = msg[v].id /\ a = msg[v].att
        BY <4>1, MessageFields DEF TypeOK, Concluding
      <4>3. Sent(id, a)
        BY <4>1, <4>2 DEF OrphanInv, ConcludeInv
      <4>4. Sent(id, a)'
        BY <1>4, <4>3
      <4> QED
        BY <1>1, <4>2, <4>4 DEF Sent
    <3> QED
      BY <3>1, <3>2
  <2>2. \A v \in Workers : pc'[v] \in {"ensure", "schedule"} => next'[v] = msg'[v].att + 1
    BY <1>0, <1>1 DEF OrphanInv, ConcludeInv
  <2>3. \A v \in Workers : pc'[v] # "dlq"
    BY <1>1 DEF OrphanInv, ConcludeInv
  <2>4. i \in accepted
    BY <1>7 DEF OrphanInv, ConcludeInv
  <2>5. ASSUME NEW id \in Webhooks, (\E a \in Attempts : Out(id, a)') \/ outcome'[id] # "none" PROVE id \in accepted'
    BY <1>1, <1>6, <2>4, <2>5 DEF OrphanInv, ConcludeInv
  <2> QED
    BY <2>1, <2>2, <2>3, <2>5 DEF ConcludeInv
<1> QED
  BY <1>9, <1>10, <1>11 DEF OrphanInv

\* ZADD of the next attempt: its handler was the only one to conclude the attempt that
\* was sent, and the webhook is not closed.
LEMMA ScheduleOrphan ==
    ASSUME TypeOK, TypeOK', OrphanInv, NEW w \in Workers, ScheduleRetry(w)
    PROVE  OrphanInv'
<1> USE DEF workerVars, schedulerVars, historyVars, topicVars, redisVars
<1>0. PICK i \in Webhooks, n \in Attempts : i = msg[w].id /\ n = msg[w].att
  BY MessageFields DEF ScheduleRetry, TypeOK
<1>1. /\ pc[w] = "schedule" /\ next[w] = n + 1 /\ n + 1 \in Attempts
      /\ UNCHANGED <<topic, data, msg, next, batch, sref, accepted, posts, outcome>>
  BY <1>0 DEF ScheduleRetry, OrphanInv, ConcludeInv, TypeOK
<1>2. Attempts \subseteq Int
  BY ConstantsAssumption DEF Attempts
<1>3. CASE "redis" \in Faults /\ Goto(w, "nack") /\ UNCHANGED zset
  <2>1. \A v \in Workers : pc'[v] = IF v = w THEN "nack" ELSE pc[v]
    BY <1>3 DEF Goto, TypeOK
  <2>2. \A id \in Webhooks, a \in Attempts : Out(id, a)' => Out(id, a)
    BY <1>1, <1>3, <2>1 DEF Out
  <2>3. \A v \in Workers : pc'[v] \in Concluding => pc[v] \in Concluding /\ pc'[v] = pc[v]
    BY <2>1 DEF Concluding
  <2>4. \A id \in Webhooks : Closes(id) => Closes(id)'
    BY <1>1, <2>1 DEF Closes
  <2>5. \A v \in Workers : pc'[v] # "dlq"
    BY <2>1 DEF OrphanInv, ConcludeInv
  <2> QED
    BY <1>1, <2>2, <2>3, <2>4, <2>5, CalmOrphan
<1>4. CASE zset' = [zset EXCEPT ![<<msg[w].id, next[w]>>] = "waiting"] /\ Goto(w, "ack")
  <2>1. \A v \in Workers : pc'[v] = IF v = w THEN "ack" ELSE pc[v]
    BY <1>4 DEF Goto, TypeOK
  <2>2. \A id \in Webhooks, a \in Attempts : zset'[<<id, a>>] # "absent" =>
           zset[<<id, a>>] # "absent" \/ (id = i /\ a = n + 1)
    <3>1. \A id \in Webhooks, a \in Attempts : <<id, a>> \in Refs
      BY DEF Refs
    <3>2. zset \in [Refs -> {"absent", "waiting", "locked"}]
      BY DEF TypeOK
    <3> QED
      BY <1>0, <1>1, <1>4, <3>1, <3>2
  <2>3. \A id \in Webhooks, a \in Attempts : Out(id, a)' => Out(id, a) \/ (id = i /\ a = n + 1)
    BY <1>1, <2>1, <2>2 DEF Out
  <2>4. Out(i, n)
    BY <1>0, <1>1 DEF Out
  <2>5. \A id \in Webhooks, a \in Attempts, v \in Workers : Concludes(v, id, a)' => v # w /\ Concludes(v, id, a)
    BY <1>1, <2>1 DEF Concludes, Concluding
  <2>6. \A id \in Webhooks : Closes(id)' <=> Closes(id)
    BY <1>1, <2>1 DEF Closes
  <2>7. \A id : Once(id)' <=> Once(id)
    BY <1>1 DEF Once
  <2>8. \A id, a : Sent(id, a)' <=> Sent(id, a)
    BY <1>1 DEF Sent
  <2>9. \A v \in Workers : pc'[v] \in {"ensure", "schedule"} => pc[v] \in {"ensure", "schedule"}
    BY <2>1
  <2>10. ASSUME NEW id \in Webhooks, id # i, Once(id) PROVE Ordered(id)'
    <3>1. \A a \in Attempts : Out(id, a)' => Out(id, a)
      BY <2>3, <2>10
    <3> QED
      BY <1>1, <2>5, <2>6, <2>8, <2>9, <2>10, <3>1, OrderedSame DEF OrphanInv
  <2>11. ASSUME Once(i) PROVE Ordered(i)'
    <3>1. Ordered(i)
      BY <2>11 DEF OrphanInv
    <3>2. outcome[i] = "none" /\ ~Closes(i)
      BY <1>0, <1>1, <3>1 DEF Ordered
    <3>3. Sent(i, n) /\ Concludes(w, i, n)
      BY <1>0, <1>1 DEF OrphanInv, ConcludeInv, Concluding, Concludes
    <3>4. \A v \in Workers : ~Concludes(v, i, n)'
      BY <2>5, <3>1, <3>3 DEF Ordered
    <3>5. ASSUME NEW a \in Attempts, NEW b \in Attempts, b < a, Out(i, a)'
          PROVE  Sent(i, b)' /\ \A v \in Workers : ~Concludes(v, i, b)'
      <4>1. CASE Out(i, a)
        BY <2>5, <2>8, <3>1, <3>5, <4>1 DEF Ordered
      <4>2. CASE ~Out(i, a) /\ b = n
        BY <2>8, <3>3, <3>4, <4>2
      <4>3. CASE ~Out(i, a) /\ b # n
        <5>1. b < n
          BY <1>2, <2>3, <3>5, <4>3
        <5> QED
          BY <2>4, <2>5, <2>8, <3>1, <5>1 DEF Ordered
      <4> QED
        BY <4>1, <4>2, <4>3
    <3>6. outcome'[i] = "none" /\ ~Closes(i)'
      BY <1>1, <2>6, <3>2
    <3>7. \A v, u \in Workers, a \in Attempts : Concludes(v, i, a)' /\ Concludes(u, i, a)' => v = u
      BY <2>5, <3>1 DEF Ordered
    <3> QED
      BY <3>5, <3>6, <3>7 DEF Ordered
  <2>12. ConcludeInv'
    <3>1. ASSUME NEW v \in Workers, pc'[v] \in Concluding PROVE Sent(msg[v].id, msg[v].att)'
      <4>1. pc[v] \in Concluding
        BY <2>1, <3>1 DEF Concluding
      <4>2. posts[<<msg[v].id, msg[v].att>>] >= 1
        BY <4>1 DEF OrphanInv, ConcludeInv, Sent
      <4> QED
        BY <1>1, <4>2 DEF Sent
    <3>2. \A v \in Workers : pc'[v] \in {"ensure", "schedule"} => next'[v] = msg'[v].att + 1
      BY <1>1, <2>9 DEF OrphanInv, ConcludeInv
    <3>3. \A v \in Workers : pc'[v] # "dlq"
      BY <2>1 DEF OrphanInv, ConcludeInv
    <3>4. i \in accepted
      BY <2>4 DEF OrphanInv, ConcludeInv
    <3>5. ASSUME NEW id \in Webhooks, (\E a \in Attempts : Out(id, a)') \/ outcome'[id] # "none" PROVE id \in accepted'
      BY <1>1, <2>3, <3>4, <3>5 DEF OrphanInv, ConcludeInv
    <3> QED
      BY <3>1, <3>2, <3>3, <3>5 DEF ConcludeInv
  <2> QED
    BY <2>7, <2>10, <2>11, <2>12 DEF OrphanInv
<1> QED
  BY <1>3, <1>4 DEF ScheduleRetry

\* A webhook is enqueued once: nothing of it was about.
LEMMA EnqueueOrphan ==
    ASSUME TypeOK, OrphanInv, NEW j \in Webhooks, Enqueue(j)
    PROVE  OrphanInv'
<1> USE DEF workerVars, schedulerVars, historyVars, topicVars, redisVars
<1>1. /\ j \notin accepted /\ accepted' = accepted \cup {j}
      /\ UNCHANGED <<pc, msg, next, data, zset, batch, sref, posts, outcome>>
  BY DEF Enqueue
<1>2. PICK m : m = [off |-> nextOff, id |-> j, att |-> 0, lane |-> "fast"]
  OBVIOUS
<1>3. m.id = j /\ m.att = 0 /\ topic' = topic \cup {m}
  BY <1>2 DEF Enqueue, PublishTo
<1>4. \A id \in Webhooks, a \in Attempts : Out(id, a)' => Out(id, a) \/ (id = j /\ a = 0)
  BY <1>1, <1>3 DEF Out
<1>5. \A id, a : \A v \in Workers : Concludes(v, id, a)' <=> Concludes(v, id, a)
  BY <1>1 DEF Concludes
<1>6. \A id : Closes(id)' <=> Closes(id)
  BY <1>1 DEF Closes
<1>7. \A id : Once(id)' <=> Once(id)
  BY <1>1 DEF Once
<1>8. \A id, a : Sent(id, a)' <=> Sent(id, a)
  BY <1>1 DEF Sent
<1>9. ASSUME NEW id \in Webhooks, id # j, Once(id) PROVE Ordered(id)'
  <2>1. \A a \in Attempts : Out(id, a)' => Out(id, a)
    BY <1>4, <1>9
  <2> QED
    BY <1>1, <1>5, <1>6, <1>8, <1>9, <2>1, OrderedSame DEF OrphanInv
<1>10. ASSUME Once(j) PROVE Ordered(j)'
  <2>1. outcome[j] = "none" /\ \A a \in Attempts : ~Out(j, a)
    BY <1>1 DEF OrphanInv, ConcludeInv
  <2>2. \A v \in Workers, a \in Attempts : ~Concludes(v, j, a)
    BY <2>1 DEF Concludes, Concluding, Out
  <2>3. ~Closes(j)
    <3> SUFFICES ASSUME NEW v \in Workers, pc[v] \in {"exhaust", "cleanup"}, msg[v].id = j PROVE FALSE
      BY DEF Closes
    <3>1. msg[v].att \in Attempts
      BY MessageFields DEF TypeOK
    <3> QED
      BY <2>2, <3>1 DEF Concludes, Concluding
  <2>4. \A a, b \in Attempts : ~(b < a /\ Out(j, a)')
    <3>1. \A b \in Attempts : ~(b < 0)
      BY ConstantsAssumption DEF Attempts
    <3> QED
      BY <1>4, <2>1, <3>1
  <2>5. outcome'[j] = "none" /\ ~Closes(j)'
    BY <1>1, <1>6, <2>1, <2>3
  <2>6. \A v \in Workers, a \in Attempts : ~Concludes(v, j, a)'
    BY <1>5, <2>2
  <2> QED
    BY <2>4, <2>5, <2>6 DEF Ordered
<1>11. ConcludeInv'
  <2>1. \A v \in Workers : pc'[v] \in Concluding => Sent(msg[v].id, msg[v].att)'
    BY <1>1 DEF OrphanInv, ConcludeInv, Sent
  <2>2. \A id \in Webhooks : (\E a \in Attempts : Out(id, a)') \/ outcome'[id] # "none" => id \in accepted'
    BY <1>1, <1>4 DEF OrphanInv, ConcludeInv
  <2> QED
    BY <1>1, <2>1, <2>2 DEF OrphanInv, ConcludeInv
<1> QED
  BY <1>7, <1>9, <1>10, <1>11 DEF OrphanInv

\* The other steps of a handler.
LEMMA HandlerOrphan ==
    ASSUME NoLitteringFault, TypeOK, TypeOK', OrphanInv, NEW w \in Workers,
           HandlerStep(w) \/ WorkerCrash(w)
    PROVE  OrphanInv'
<1> USE DEF workerVars, schedulerVars, historyVars, topicVars, redisVars
<1>1. /\ "crash" \notin Faults /\ "circuit" \notin Faults
      /\ "cleanup" \notin Faults /\ "script" \notin Faults
  BY DEF NoLitteringFault, LitteringFaults
<1>2. pc[w] # "dlq"
  BY DEF OrphanInv, ConcludeInv
<1>3. CASE Deliver(w)
  BY <1>3, DeliverOrphan
<1>4. CASE ScheduleRetry(w)
  BY <1>4, ScheduleOrphan
\* A step that keeps the message, moves to another label and neither sends nor schedules.
<1>5. ASSUME NEW label \in WorkerPC, label # "dlq", label # "idle", Goto(w, label), pc[w] # "idle",
             label \in Concluding =>
                /\ pc[w] \in Concluding
                /\ label \in {"ensure", "schedule"} <=> pc[w] \in {"ensure", "schedule"},
             UNCHANGED <<msg, next, batch, sref, zset, accepted, posts>>,
             \A m \in topic' : m \in topic \/ (m.id = msg[w].id /\ m.att = msg[w].att),
             \A id \in Webhooks : outcome'[id] # "none" => outcome[id] # "none" \/ Closes(id),
             \A id \in Webhooks : Once(id) /\ id \in data' /\ (outcome[id] # "none" \/ Closes(id)) =>
                /\ id \in data
                /\ pc[w] \in {"exhaust", "cleanup"} /\ msg[w].id = id => label \in {"exhaust", "cleanup"}
      PROVE  OrphanInv'
  <2>1. \A v \in Workers : pc'[v] = IF v = w THEN label ELSE pc[v]
    BY <1>5 DEF Goto, TypeOK
  <2>2. ASSUME NEW id \in Webhooks, NEW a \in Attempts, Out(id, a)' PROVE Out(id, a)
    <3>1. CASE \E m \in topic' : m.id = id /\ m.att = a
      <4>1. PICK m \in topic' : m.id = id /\ m.att = a
        BY <3>1
      <4>2. m \in topic \/ (m.id = msg[w].id /\ m.att = msg[w].att)
        BY <1>5
      <4> QED
        BY <1>5, <4>1, <4>2 DEF Out
    <3>2. CASE ~\E m \in topic' : m.id = id /\ m.att = a
      BY <1>5, <2>1, <2>2, <3>2 DEF Out
    <3> QED
      BY <3>1, <3>2
  <2>3. \A v \in Workers : pc'[v] \in Concluding =>
              /\ pc[v] \in Concluding
              /\ pc'[v] \in {"ensure", "schedule"} <=> pc[v] \in {"ensure", "schedule"}
    BY <1>5, <2>1
  <2>4. \A v \in Workers : pc'[v] # "dlq"
    BY <1>5, <2>1 DEF OrphanInv, ConcludeInv
  <2>5. ASSUME NEW id \in Webhooks, Once(id), id \in data', Closes(id) PROVE Closes(id)'
    <3>1. PICK v \in Workers : pc[v] \in {"exhaust", "cleanup"} /\ msg[v].id = id
      BY <2>5 DEF Closes
    <3>2. pc'[v] \in {"exhaust", "cleanup"} /\ msg'[v].id = id
      BY <1>5, <2>1, <2>5, <3>1
    <3> QED
      BY <3>2 DEF Closes
  <2> QED
    BY <1>5, <2>2, <2>3, <2>4, <2>5, CalmOrphan
<1>6. CASE CheckProcessed(w)
  <2>1. PICK label \in {"circuit", "ack"} : Goto(w, label)
    BY <1>6 DEF CheckProcessed
  <2>2. /\ pc[w] = "check"
        /\ UNCHANGED <<topic, data, msg, next, batch, sref, zset, accepted, posts, outcome>>
    BY <1>6 DEF CheckProcessed
  <2> QED
    BY <1>5, <2>1, <2>2 DEF WorkerPC, Concluding
<1>7. CASE CheckCircuit(w)
  <2>1. /\ pc[w] = "circuit" /\ Goto(w, "gate")
        /\ UNCHANGED <<topic, data, msg, next, batch, sref, zset, accepted, posts, outcome>>
    BY <1>1, <1>7 DEF CheckCircuit
  <2> QED
    BY <1>5, <2>1 DEF WorkerPC, Concluding
<1>8. CASE PassGates(w)
  <2>1. PICK label \in {"deliver", "ack", "nack"} : Goto(w, label)
    BY <1>8 DEF PassGates
  <2>2. /\ pc[w] = "gate"
        /\ UNCHANGED <<data, msg, next, batch, sref, zset, accepted, posts, outcome>>
    BY <1>8 DEF PassGates
  <2>3. \A m \in topic' : m \in topic \/ (m.id = msg[w].id /\ m.att = msg[w].att)
    BY <1>8 DEF PassGates, PublishTo
  <2> QED
    BY <1>5, <2>1, <2>2, <2>3 DEF WorkerPC, Concluding
<1>9. CASE EnsureRetryData(w)
  <2>1. PICK label \in {"schedule", "nack"} : Goto(w, label)
    BY <1>9 DEF EnsureRetryData
  <2>2. /\ pc[w] = "ensure" /\ data' \subseteq data \cup {msg[w].id}
        /\ UNCHANGED <<topic, msg, next, batch, sref, zset, accepted, posts, outcome>>
    BY <1>9 DEF EnsureRetryData
  <2>3. \A id \in Webhooks : Once(id) /\ (outcome[id] # "none" \/ Closes(id)) => id # msg[w].id
    BY <2>2 DEF OrphanInv, Ordered
  <2> QED
    BY <1>5, <2>1, <2>2, <2>3 DEF WorkerPC, Concluding
<1>10. CASE Exhaust(w)
  <2>1. /\ pc[w] = "exhaust" /\ Goto(w, "cleanup")
        /\ UNCHANGED <<topic, data, msg, next, batch, sref, zset, accepted, posts>>
    BY <1>10 DEF Exhaust
  <2>2. \A id \in Webhooks : outcome'[id] # "none" => outcome[id] # "none" \/ id = msg[w].id
    BY <1>10 DEF Exhaust, TypeOK
  <2>3. \A id \in Webhooks : id = msg[w].id => Closes(id)
    BY <2>1 DEF Closes
  <2> QED
    BY <1>5, <2>1, <2>2, <2>3 DEF WorkerPC, Concluding
<1>11. CASE CleanupRetryData(w)
  <2>1. /\ pc[w] = "cleanup" /\ Goto(w, "ack") /\ data' = data \ {msg[w].id}
        /\ UNCHANGED <<topic, msg, next, batch, sref, zset, accepted, posts, outcome>>
    BY <1>1, <1>11 DEF CleanupRetryData
  <2> QED
    BY <1>5, <2>1 DEF WorkerPC, Concluding
<1>12. ASSUME pc[w] \in {"ack", "nack"}, EndHandler(w), topic' \subseteq topic,
              UNCHANGED <<data, batch, sref, zset, accepted, posts, outcome>>
       PROVE  OrphanInv'
  <2>1. \A v \in Workers : IF v = w THEN pc'[v] = "idle"
                           ELSE pc'[v] = pc[v] /\ msg'[v] = msg[v] /\ next'[v] = next[v]
    BY <1>12 DEF EndHandler, Goto, TypeOK
  <2>2. \A id \in Webhooks, a \in Attempts : Out(id, a)' => Out(id, a)
    BY <1>12, <2>1 DEF Out
  <2>3. \A v \in Workers : pc'[v] \in Concluding =>
              /\ pc[v] \in Concluding /\ msg'[v] = msg[v] /\ next'[v] = next[v]
              /\ pc'[v] \in {"ensure", "schedule"} <=> pc[v] \in {"ensure", "schedule"}
    BY <2>1 DEF Concluding
  <2>4. \A v \in Workers : pc'[v] # "dlq"
    BY <2>1 DEF OrphanInv, ConcludeInv
  <2>5. \A id \in Webhooks : Closes(id) => Closes(id)'
    BY <1>12, <2>1 DEF Closes
  <2> QED
    BY <1>12, <2>2, <2>3, <2>4, <2>5, CalmOrphan
<1>13. CASE ReturnNil(w) \/ ReturnError(w)
  BY <1>12, <1>13 DEF ReturnNil, ReturnError
<1>14. ~ScriptFails(w) /\ ~SendToDLQ(w) /\ ~WorkerCrash(w)
  BY <1>1, <1>2 DEF ScriptFails, SendToDLQ, WorkerCrash
<1> QED
  BY <1>3, <1>4, <1>6, <1>7, <1>8, <1>9, <1>10, <1>11, <1>13, <1>14 DEF HandlerStep

LEMMA SchedulerOrphan ==
    ASSUME TypeOK, TypeOK', OrphanInv, NEW s \in Schedulers, SchedulerStep(s) \/ SchedulerCrash(s)
    PROVE  OrphanInv'
<1> USE DEF workerVars, schedulerVars, historyVars, topicVars, redisVars
<1>0. \A id, a : NoRef # <<id, a>>
  BY DEF NoRef
<1>1. UNCHANGED <<data, pc, msg, next, accepted, posts, outcome>>
  BY DEF SchedulerStep, SchedulerCrash, PopAndLock, FetchData, DropRef, Republish, AckPublished
<1>2. ASSUME \A m \in topic' : m \in topic \/ Out(m.id, m.att),
             \A id \in Webhooks, a \in Attempts : zset'[<<id, a>>] # "absent" => Out(id, a),
             \A id \in Webhooks, a \in Attempts :
                 (\E t \in Schedulers : <<id, a>> \in batch'[t] \/ sref'[t] = <<id, a>>)
                     => Out(id, a)
      PROVE  OrphanInv'
  <2>1. ASSUME NEW id \in Webhooks, NEW a \in Attempts, Out(id, a)' PROVE Out(id, a)
    <3>1. CASE \E m \in topic' : m.id = id /\ m.att = a
      <4>1. PICK m \in topic' : m.id = id /\ m.att = a
        BY <3>1
      <4>2. m \in topic => Out(id, a)
        BY <4>1 DEF Out
      <4> QED
        BY <1>2, <4>1, <4>2
    <3>2. CASE zset'[<<id, a>>] # "absent"
      BY <1>2, <3>2
    <3>3. CASE \E t \in Schedulers : <<id, a>> \in batch'[t] \/ sref'[t] = <<id, a>>
      BY <1>2, <3>3
    <3> QED
      BY <1>1, <2>1, <3>1, <3>2, <3>3 DEF Out
  <2>2. \A id \in Webhooks : Closes(id) => Closes(id)'
    BY <1>1 DEF Closes
  <2>3. \A v \in Workers : pc[v] # "dlq"
    BY DEF OrphanInv, ConcludeInv
  <2> QED
    BY <1>1, <2>1, <2>2, <2>3, CalmOrphan
<1>3. ASSUME NEW r, NextRef(s, r)
      PROVE  \A id \in Webhooks, a \in Attempts :
                (\E t \in Schedulers : <<id, a>> \in batch'[t] \/ sref'[t] = <<id, a>>)
                    => Out(id, a)
  <2>1. \A t \in Schedulers : batch'[t] \subseteq batch[t] /\ (sref'[t] = NoRef \/ sref'[t] = sref[t])
    BY <1>3 DEF NextRef, TypeOK
  <2> QED
    BY <2>1, <1>0 DEF Out
<1>4. ASSUME NEW r \in Refs, AckRetry(r)
      PROVE  \A id \in Webhooks, a \in Attempts :
                zset'[<<id, a>>] # "absent" => Out(id, a)
  <2>1. \A id \in Webhooks, a \in Attempts :
            zset'[<<id, a>>] # "absent" => zset[<<id, a>>] # "absent"
    BY <1>4 DEF AckRetry, TypeOK, Refs
  <2> QED
    BY <2>1 DEF Out
<1>5. ASSUME NEW refs \in SUBSET Refs, PopAndLock(s, refs) PROVE OrphanInv'
  <2>1. \A id \in Webhooks, a \in Attempts : zset'[<<id, a>>] # "absent" => Out(id, a)
    BY <1>5 DEF PopAndLock, Out, Refs
  <2>2. \A id \in Webhooks, a \in Attempts, t \in Schedulers :
            <<id, a>> \in batch'[t] \/ sref'[t] = <<id, a>> => Out(id, a)
    BY <1>5 DEF PopAndLock, Out, TypeOK
  <2> QED
    BY <1>2, <1>5, <2>1, <2>2 DEF PopAndLock
<1>6. ASSUME NEW r \in Refs, FetchData(s, r) PROVE OrphanInv'
  <2>1. \A id \in Webhooks, a \in Attempts, t \in Schedulers :
            <<id, a>> \in batch'[t] \/ sref'[t] = <<id, a>> => Out(id, a)
    BY <1>6 DEF FetchData, Out, TypeOK
  <2> QED
    BY <1>2, <1>6, <2>1 DEF FetchData, Out
<1>7. ASSUME NEW r \in Refs, DropRef(s, r) PROVE OrphanInv'
  BY <1>2, <1>3, <1>4, <1>7 DEF DropRef
<1>8. CASE Republish(s)
  <2>1. sref[s] \in Refs /\ sref[s] = <<sref[s][1], sref[s][2]>>
    BY <1>8 DEF Republish, TypeOK, Refs
  <2>2. Out(sref[s][1], sref[s][2])
    BY <2>1 DEF Out
  <2>3. CASE NextRef(s, sref[s]) /\ UNCHANGED topicVars
    <3>1. \A id \in Webhooks, a \in Attempts : zset'[<<id, a>>] # "absent" => Out(id, a)
      BY <1>8 DEF Republish, Out
    <3> QED
      BY <1>2, <1>3, <2>3, <3>1
  <2>4. CASE PublishTo(sref[s][1], sref[s][2], "fast") /\ UNCHANGED <<batch, sref>>
    <3>1. \A m \in topic' : m \in topic \/ (m.id = sref[s][1] /\ m.att = sref[s][2])
      BY <2>4 DEF PublishTo
    <3> QED
      BY <1>2, <1>8, <2>2, <2>4, <3>1 DEF Republish, Out
  <2> QED
    BY <1>8, <2>3, <2>4 DEF Republish
<1>9. CASE AckPublished(s)
  <2>1. sref[s] \in Refs
    BY <1>9 DEF AckPublished, TypeOK
  <2> QED
    BY <1>2, <1>3, <1>4, <1>9, <2>1 DEF AckPublished
<1>10. CASE SchedulerCrash(s)
  <2>1. \A t \in Schedulers : batch'[t] \subseteq batch[t] /\ (sref'[t] = NoRef \/ sref'[t] = sref[t])
    BY <1>10 DEF SchedulerCrash, TypeOK
  <2>2. \A id \in Webhooks, a \in Attempts :
            (\E t \in Schedulers : <<id, a>> \in batch'[t] \/ sref'[t] = <<id, a>>) => Out(id, a)
    BY <2>1, <1>0 DEF Out
  <2>3. UNCHANGED <<topic, zset>>
    BY <1>10 DEF SchedulerCrash
  <2>4. \A id \in Webhooks, a \in Attempts : zset'[<<id, a>>] # "absent" => Out(id, a)
    BY <2>3 DEF Out
  <2> QED
    BY <1>2, <2>2, <2>3, <2>4
<1> QED
  BY <1>5, <1>6, <1>7, <1>8, <1>9, <1>10 DEF SchedulerStep

LEMMA OrphanStep ==
    ASSUME NoLitteringFault, TypeOK, TypeOK', OrphanInv, [Next]_vars PROVE OrphanInv'
<1> USE DEF workerVars, schedulerVars, historyVars, topicVars, redisVars
<1>1. ASSUME UNCHANGED <<data, pc, msg, next, accepted, posts, outcome>>,
             \A id \in Webhooks, a \in Attempts : Out(id, a)' => Out(id, a)
      PROVE  OrphanInv'
  <2>1. \A id \in Webhooks : Closes(id) => Closes(id)'
    BY <1>1 DEF Closes
  <2>2. \A v \in Workers : pc[v] # "dlq"
    BY DEF OrphanInv, ConcludeInv
  <2> QED
    BY <1>1, <2>1, <2>2, CalmOrphan
<1>2. ASSUME NEW w \in Workers, NEW m \in topic, Receive(w, m) PROVE OrphanInv'
  <2>1. \A v \in Workers : IF v = w THEN pc'[v] = "check" /\ msg'[v] = m
                           ELSE pc'[v] = pc[v] /\ msg'[v] = msg[v]
    BY <1>2 DEF Receive, Goto, TypeOK
  <2>2. pc[w] = "idle" /\ UNCHANGED <<topic, data, zset, next, batch, sref, accepted, posts, outcome>>
    BY <1>2 DEF Receive
  <2>3. \A id \in Webhooks, a \in Attempts : Out(id, a)' => Out(id, a)
    BY <2>1, <2>2 DEF Out
  <2>4. \A v \in Workers : pc'[v] \in Concluding =>
              /\ pc[v] \in Concluding /\ msg'[v] = msg[v] /\ next'[v] = next[v]
              /\ pc'[v] \in {"ensure", "schedule"} <=> pc[v] \in {"ensure", "schedule"}
    BY <2>1, <2>2 DEF Concluding
  <2>5. \A v \in Workers : pc'[v] # "dlq"
    BY <2>1 DEF OrphanInv, ConcludeInv
  <2>6. \A id \in Webhooks : Closes(id) => Closes(id)'
    BY <2>1, <2>2 DEF Closes
  <2>7. /\ \A id \in Webhooks : outcome'[id] # "none" => outcome[id] # "none" \/ Closes(id)
        /\ \A id \in Webhooks : Once(id) /\ id \in data' /\ (outcome[id] # "none" \/ Closes(id)) =>
                                   id \in data /\ (Closes(id) => Closes(id)')
    BY <2>2, <2>6
  <2> QED
    BY <2>2, <2>3, <2>4, <2>5, <2>7, CalmOrphan
<1>3. ASSUME NEW r \in Refs, LockExpires(r) PROVE OrphanInv'
  <2>1. \A id \in Webhooks, a \in Attempts : zset'[<<id, a>>] # "absent" => zset[<<id, a>>] # "absent"
    BY <1>3, SMTT(30) DEF LockExpires, TypeOK, Refs
  <2>2. \A id \in Webhooks, a \in Attempts : Out(id, a)' => Out(id, a)
    BY <1>3, <2>1 DEF LockExpires, Out
  <2> QED
    BY <1>1, <1>3, <2>2 DEF LockExpires
<1>4. ASSUME NEW r \in Refs, ProcessedExpires(r) PROVE OrphanInv'
  <2>1. \A id \in Webhooks, a \in Attempts : Out(id, a)' => Out(id, a)
    BY <1>4 DEF ProcessedExpires, Out
  <2> QED
    BY <1>1, <1>4, <2>1 DEF ProcessedExpires
<1>5. CASE UNCHANGED vars
  <2>1. \A id \in Webhooks, a \in Attempts : Out(id, a)' => Out(id, a)
    BY <1>5 DEF vars, Out
  <2> QED
    BY <1>1, <1>5, <2>1 DEF vars
<1> QED
  BY <1>2, <1>3, <1>4, <1>5, EnqueueOrphan, HandlerOrphan, SchedulerOrphan DEF Next

\* A webhook that is settled and has left every queue leaves no retry data in Redis,
\* whatever Redis, Kafka, a scheduler or the idempotency key does: only a handler that
\* dies, an open circuit, a script or a failed deletion can leave it behind.
THEOREM DataCleaned == NoLitteringFault => (Spec => []NoOrphanData)
<1> SUFFICES ASSUME NoLitteringFault PROVE Spec => []NoOrphanData
  OBVIOUS
<1>1. TypeOK /\ OrphanInv => NoOrphanData
  <2> SUFFICES ASSUME TypeOK, OrphanInv, NEW id \in accepted,
                      outcome[id] # "none", \A a \in Attempts : posts[<<id, a>>] <= 1,
                      \A w \in Workers : pc[w] # "idle" => msg[w].id # id
               PROVE  id \notin data
    BY DEF NoOrphanData
  <2>1. id \in Webhooks /\ Ordered(id)
    BY DEF TypeOK, OrphanInv, Once
  <2>2. ~Closes(id)
    BY DEF Closes
  <2> QED
    BY <2>1, <2>2 DEF Ordered
<1>2. TypeOK /\ TypeOK' /\ OrphanInv /\ [Next]_vars => OrphanInv'
  BY OrphanStep
<1> QED
  BY <1>1, <1>2, OrphanInit, TypeInit, TypeStep, PTL DEF Spec
------------------------------------------------------------------------------
(* Attempts are bounded.                                                   *)

\* Whatever is in a topic, a handler, the ZSET or a scheduler's hands is an attempt
\* up to MaxAttempts, and so is what a handler is about to schedule.
Within(a) == a <= MaxAttempts
BoundInv ==
    /\ \A m \in topic : Within(m.att)
    /\ \A w \in Workers : pc[w] # "idle" => Within(msg[w].att)
    /\ \A w \in Workers : pc[w] \in {"ensure", "schedule"} => Within(next[w])
    /\ \A r \in Refs : zset[r] # "absent" => Within(r[2])
    /\ \A s \in Schedulers : \A r \in batch[s] : Within(r[2])
    /\ \A s \in Schedulers : sref[s] \in Refs => Within(sref[s][2])

LEMMA BoundInit == Init => BoundInv
BY DEF Init, BoundInv, Refs, NoRef

\* A message for an attempt within the bound.
LEMMA PublishBounded ==
    ASSUME BoundInv, NEW id, NEW a, Within(a), NEW lane, PublishTo(id, a, lane)
    PROVE  \A m \in topic' : Within(m.att)
<1>1. PICK n : n = [off |-> nextOff, id |-> id, att |-> a, lane |-> lane]
  OBVIOUS
<1>2. n.att = a /\ topic' = topic \cup {n}
  BY <1>1 DEF PublishTo
<1> QED
  BY <1>2 DEF BoundInv

LEMMA HandlerBounded ==
    ASSUME "script" \notin Faults, TypeOK, BoundInv, NEW w \in Workers, HandlerStep(w) \/ WorkerCrash(w)
    PROVE  BoundInv'
<1> USE DEF workerVars, schedulerVars, historyVars, topicVars, redisVars
<1>1. UNCHANGED <<batch, sref>>
  BY DEF HandlerStep, WorkerCrash, CheckProcessed, CheckCircuit, PassGates, Deliver, ScriptFails,
         EnsureRetryData, ScheduleRetry, Exhaust, CleanupRetryData, SendToDLQ, ReturnNil, ReturnError
<1>2. ASSUME NEW label, Goto(w, label), pc[w] # "idle", UNCHANGED msg,
             \A m \in topic' : Within(m.att), \A r \in Refs : zset'[r] # "absent" => Within(r[2]),
             \A v \in Workers : v # w => next'[v] = next[v],
             label \in {"ensure", "schedule"} => Within(next'[w])
      PROVE  BoundInv'
  <2>1. \A v \in Workers : pc'[v] = IF v = w THEN label ELSE pc[v]
    BY <1>2 DEF Goto, TypeOK
  <2>2. \A v \in Workers : pc'[v] # "idle" => Within(msg'[v].att)
    BY <1>2, <2>1 DEF BoundInv
  <2>3. \A v \in Workers : pc'[v] \in {"ensure", "schedule"} => Within(next'[v])
    BY <1>2, <2>1 DEF BoundInv
  <2> QED
    BY <1>1, <1>2, <2>2, <2>3 DEF BoundInv
<1>3. ASSUME pc[w] # "idle" PROVE Within(msg[w].att)
  BY <1>3 DEF BoundInv
<1>4. CASE CheckProcessed(w) \/ Exhaust(w) \/ CleanupRetryData(w) \/ SendToDLQ(w)
  <2>1. PICK label \in {"circuit", "ack", "nack", "cleanup"} : Goto(w, label)
    BY <1>4 DEF CheckProcessed, Exhaust, CleanupRetryData, SendToDLQ
  <2>2. pc[w] # "idle" /\ UNCHANGED <<topic, zset, msg, next>>
    BY <1>4 DEF CheckProcessed, Exhaust, CleanupRetryData, SendToDLQ
  <2> QED
    BY <1>2, <2>1, <2>2 DEF BoundInv
<1>5. CASE CheckCircuit(w)
  <2>1. pc[w] = "circuit" /\ UNCHANGED <<topic, zset, msg>>
    BY <1>5 DEF CheckCircuit
  <2>2. CASE Goto(w, "gate") /\ UNCHANGED next
    BY <1>2, <2>1, <2>2 DEF BoundInv
  <2>3. CASE Goto(w, "ensure") /\ next' = [next EXCEPT ![w] = msg[w].att]
    <3>1. next'[w] = msg[w].att /\ \A v \in Workers : v # w => next'[v] = next[v]
      BY <2>3 DEF TypeOK
    <3> QED
      BY <1>2, <1>3, <2>1, <2>3, <3>1 DEF BoundInv
  <2> QED
    BY <1>5, <2>2, <2>3 DEF CheckCircuit
<1>6. CASE PassGates(w)
  <2>1. PICK label \in {"deliver", "ack", "nack"} : Goto(w, label)
    BY <1>6 DEF PassGates
  <2>2. pc[w] # "idle" /\ UNCHANGED <<zset, msg, next>>
    BY <1>6 DEF PassGates
  <2>3. UNCHANGED topic \/ PublishTo(msg[w].id, msg[w].att, "slow")
    BY <1>6 DEF PassGates
  <2>4. \A m \in topic' : Within(m.att)
    BY <1>3, <2>2, <2>3, PublishBounded DEF BoundInv
  <2> QED
    BY <1>2, <2>1, <2>2, <2>4 DEF BoundInv
<1>7. CASE Deliver(w)
  <2>1. pc[w] = "deliver" /\ UNCHANGED <<topic, zset, msg>>
    BY <1>7 DEF Deliver
  <2>2. ASSUME NEW label \in {"cleanup", "exhaust"}, Goto(w, label), UNCHANGED next PROVE BoundInv'
    BY <1>2, <2>1, <2>2 DEF BoundInv
  <2>3. CASE MayRetry(w) /\ next' = [next EXCEPT ![w] = msg[w].att + 1] /\ Goto(w, "ensure")
    <3>1. next'[w] = msg[w].att + 1 /\ \A v \in Workers : v # w => next'[v] = next[v]
      BY <2>3 DEF TypeOK
    <3>2. msg[w].att \in Int /\ MaxAttempts \in Int
      BY <2>1, MessageFields, ConstantsAssumption DEF TypeOK, Attempts
    <3>3. Within(next'[w])
      BY <2>3, <3>1, <3>2 DEF MayRetry, Within
    <3> QED
      BY <1>2, <2>1, <2>3, <3>1, <3>3 DEF BoundInv
  <2> QED
    BY <1>7, <2>2, <2>3 DEF Deliver
<1>8. CASE EnsureRetryData(w)
  <2>1. PICK label \in {"schedule", "nack"} : Goto(w, label)
    BY <1>8 DEF EnsureRetryData
  <2>2. pc[w] = "ensure" /\ UNCHANGED <<topic, zset, msg, next>>
    BY <1>8 DEF EnsureRetryData
  <2> QED
    BY <1>2, <2>1, <2>2 DEF BoundInv
<1>9. CASE ScheduleRetry(w)
  <2>1. PICK label \in {"ack", "nack"} : Goto(w, label)
    BY <1>9 DEF ScheduleRetry
  <2>2. pc[w] = "schedule" /\ UNCHANGED <<topic, msg, next>>
    BY <1>9 DEF ScheduleRetry
  <2>3. PICK i, n : i = msg[w].id /\ n = next[w]
    OBVIOUS
  <2>4. <<i, n>>[2] = n /\ Within(n)
    BY <2>2, <2>3 DEF BoundInv
  <2>5. \A r \in Refs : zset'[r] # "absent" => zset[r] # "absent" \/ r = <<i, n>>
    BY <1>9, <2>3 DEF ScheduleRetry, TypeOK
  <2>6. \A r \in Refs : zset'[r] # "absent" => Within(r[2])
    BY <2>4, <2>5 DEF BoundInv
  <2> QED
    BY <1>2, <2>1, <2>2, <2>6 DEF BoundInv
<1>10. CASE ReturnNil(w) \/ ReturnError(w) \/ WorkerCrash(w)
  <2>1. EndHandler(w) /\ topic' \subseteq topic /\ UNCHANGED zset
    BY <1>10 DEF ReturnNil, ReturnError, WorkerCrash
  <2>2. \A v \in Workers : IF v = w THEN pc'[v] = "idle"
                           ELSE pc'[v] = pc[v] /\ msg'[v] = msg[v] /\ next'[v] = next[v]
    BY <2>1 DEF EndHandler, Goto, TypeOK
  <2> QED
    BY <1>1, <2>1, <2>2 DEF BoundInv
<1>11. ~ScriptFails(w)
  BY DEF ScriptFails
<1> QED
  BY <1>4, <1>5, <1>6, <1>7, <1>8, <1>9, <1>10, <1>11 DEF HandlerStep

LEMMA SchedulerBounded ==
    ASSUME TypeOK, BoundInv, NEW s \in Schedulers, SchedulerStep(s) \/ SchedulerCrash(s)
    PROVE  BoundInv'
<1> USE DEF workerVars, schedulerVars, historyVars, topicVars, redisVars
<1>0. NoRef \notin Refs
  BY DEF NoRef, Refs
<1>1. UNCHANGED <<pc, msg, next>>
  BY DEF SchedulerStep, SchedulerCrash, PopAndLock, FetchData, DropRef, Republish, AckPublished
<1>2. ASSUME \A m \in topic' : Within(m.att),
             \A r \in Refs : zset'[r] # "absent" => zset[r] # "absent",
             \A t \in Schedulers : \A r \in batch'[t] : r \in batch[t] \/ (r \in Refs /\ zset[r] # "absent"),
             \A t \in Schedulers : sref'[t] \in Refs => sref'[t] = sref[t] \/ sref'[t] \in batch[t]
      PROVE  BoundInv'
  <2>1. \A t \in Schedulers : \A r \in batch'[t] : Within(r[2])
    BY <1>2 DEF BoundInv
  <2>2. ASSUME NEW t \in Schedulers, sref'[t] \in Refs PROVE Within(sref'[t][2])
    BY <1>2, <2>2 DEF BoundInv
  <2> QED
    BY <1>1, <1>2, <2>1, <2>2 DEF BoundInv
<1>3. ASSUME NEW r, NextRef(s, r)
      PROVE  /\ \A t \in Schedulers : batch'[t] \subseteq batch[t]
             /\ \A t \in Schedulers : sref'[t] \in Refs => sref'[t] = sref[t]
  BY <1>0, <1>3 DEF NextRef, TypeOK
<1>4. ASSUME NEW r \in Refs, AckRetry(r)
      PROVE  \A q \in Refs : zset'[q] # "absent" => zset[q] # "absent"
  BY <1>4 DEF AckRetry, TypeOK
<1>5. \A m \in topic : Within(m.att)
  BY DEF BoundInv
<1>6. ASSUME NEW refs \in SUBSET Refs, PopAndLock(s, refs) PROVE BoundInv'
  <2>1. \A t \in Schedulers : \A r \in batch'[t] : r \in batch[t] \/ (r \in Refs /\ zset[r] # "absent")
    BY <1>6 DEF PopAndLock, TypeOK
  <2>2. \A r \in Refs : zset'[r] # "absent" => zset[r] # "absent"
    BY <1>6 DEF PopAndLock
  <2>3. UNCHANGED <<topic, sref>>
    BY <1>6 DEF PopAndLock
  <2> QED
    BY <1>2, <1>5, <2>1, <2>2, <2>3
<1>7. ASSUME NEW r \in Refs, FetchData(s, r) PROVE BoundInv'
  <2>1. \A t \in Schedulers : sref'[t] \in Refs => sref'[t] = sref[t] \/ sref'[t] \in batch[t]
    BY <1>7 DEF FetchData, TypeOK
  <2>2. UNCHANGED <<topic, zset, batch>>
    BY <1>7 DEF FetchData
  <2> QED
    BY <1>2, <1>5, <2>1, <2>2
<1>8. ASSUME NEW r \in Refs, DropRef(s, r) PROVE BoundInv'
  <2>1. AckRetry(r) /\ NextRef(s, r) /\ UNCHANGED topic
    BY <1>8 DEF DropRef
  <2> QED
    BY <1>2, <1>3, <1>4, <1>5, <2>1
<1>9. CASE Republish(s)
  <2>1. sref[s] \in Refs /\ Within(sref[s][2]) /\ UNCHANGED zset
    BY <1>9 DEF Republish, TypeOK, BoundInv
  <2>2. CASE NextRef(s, sref[s]) /\ UNCHANGED topicVars
    BY <1>2, <1>3, <1>5, <2>1, <2>2
  <2>3. CASE PublishTo(sref[s][1], sref[s][2], "fast") /\ UNCHANGED <<batch, sref>>
    <3>1. \A m \in topic' : Within(m.att)
      BY <2>1, <2>3, PublishBounded
    <3> QED
      BY <1>2, <2>1, <2>3, <3>1
  <2> QED
    BY <1>9, <2>2, <2>3 DEF Republish
<1>10. CASE AckPublished(s)
  <2>1. sref[s] \in Refs
    BY <1>10 DEF AckPublished, TypeOK
  <2>2. AckRetry(sref[s]) /\ NextRef(s, sref[s]) /\ UNCHANGED topic
    BY <1>10 DEF AckPublished
  <2> QED
    BY <1>2, <1>3, <1>4, <1>5, <2>1, <2>2
<1>11. CASE SchedulerCrash(s)
  <2>1. /\ \A t \in Schedulers : batch'[t] \subseteq batch[t]
        /\ \A t \in Schedulers : sref'[t] \in Refs => sref'[t] = sref[t]
    BY <1>0, <1>11 DEF SchedulerCrash, TypeOK
  <2>2. UNCHANGED <<topic, zset>>
    BY <1>11 DEF SchedulerCrash
  <2> QED
    BY <1>2, <1>5, <2>1, <2>2
<1> QED
  BY <1>6, <1>7, <1>8, <1>9, <1>10, <1>11 DEF SchedulerStep

\* Unless a script fails, no message asks for an attempt above MaxAttempts: neither
\* an open circuit nor a diversion nor a retry that comes back twice adds one.
THEOREM AttemptsLimited == "script" \notin Faults => (Spec => []AttemptsBounded)
<1> USE DEF workerVars, schedulerVars, historyVars, topicVars, redisVars
<1> SUFFICES ASSUME "script" \notin Faults PROVE Spec => []AttemptsBounded
  OBVIOUS
<1>1. BoundInv => AttemptsBounded
  BY DEF BoundInv, AttemptsBounded, Within
<1>2. TypeOK /\ BoundInv /\ [Next]_vars => BoundInv'
  <2> SUFFICES ASSUME TypeOK, BoundInv, [Next]_vars PROVE BoundInv'
    OBVIOUS
  <2>1. ASSUME NEW id \in Webhooks, Enqueue(id) PROVE BoundInv'
    <3>1. Within(0) /\ PublishTo(id, 0, "fast") /\ UNCHANGED <<zset, pc, msg, next, batch, sref>>
      BY <2>1, ConstantsAssumption DEF Enqueue, Within
    <3>2. \A m \in topic' : Within(m.att)
      BY <3>1, PublishBounded
    <3> QED
      BY <3>1, <3>2 DEF BoundInv
  <2>2. ASSUME NEW w \in Workers, NEW m \in topic, Receive(w, m) PROVE BoundInv'
    <3>1. \A v \in Workers : IF v = w THEN pc'[v] = "check" /\ msg'[v] = m
                             ELSE pc'[v] = pc[v] /\ msg'[v] = msg[v]
      BY <2>2 DEF Receive, Goto, TypeOK
    <3>2. UNCHANGED <<topic, zset, next, batch, sref>>
      BY <2>2 DEF Receive
    <3> QED
      BY <3>1, <3>2 DEF BoundInv
  <2>3. ASSUME NEW r \in Refs, LockExpires(r) PROVE BoundInv'
    <3>1. \A q \in Refs : zset'[q] # "absent" => zset[q] # "absent"
      BY <2>3 DEF LockExpires, TypeOK
    <3>2. UNCHANGED <<topic, pc, msg, next, batch, sref>>
      BY <2>3 DEF LockExpires
    <3> QED
      BY <3>1, <3>2 DEF BoundInv
  <2>4. ASSUME NEW r \in Refs, ProcessedExpires(r) PROVE BoundInv'
    BY <2>4 DEF ProcessedExpires, BoundInv
  <2>5. CASE UNCHANGED vars
    BY <2>5 DEF vars, BoundInv
  <2> QED
    BY <2>1, <2>2, <2>3, <2>4, <2>5, HandlerBounded, SchedulerBounded DEF Next
<1> QED
  BY <1>1, <1>2, BoundInit, TypeInit, TypeStep, PTL DEF Spec
==============================================================================
