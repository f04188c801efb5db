---------------------------- MODULE RecoveryProofs ----------------------------
(***************************************************************************)
(* Proofs about Recovery, for every number of webhooks, workers,           *)
(* partitions and attempts: types; a replay beside running workers never   *)
(* replaces the final status of a webhook; a rebuild loses no webhook;     *)
(* every retry has its snapshot, and a rebuild revives nothing; no status  *)
(* is left behind.  Each names the faults under which it holds.            *)
(***************************************************************************)
EXTENDS Recovery, Functions, FiniteSetTheorems, SequenceTheorems, TLAPS

\* What a handler knows that TypeOK does not say: a retry is only prepared while
\* attempts are left, and a webhook is only settled with an outcome.
HandlerInv ==
    \A w \in Workers :
        /\ pc[w] \in {"ensure", "schedule", "failed"} => cur[w][2] < MaxAttempts
        /\ pc[w] = "settle" => outcome[cur[w][1]] # "none"

TypeInv == TypeOK /\ HandlerInv

\* TypeOK by the groups of variables the actions change.
LogT     == log \in [Partitions -> Seq(Record \cup {Gone})] /\ publishing \subseteq Record
StatusT  == status \in [Webhooks -> [state : States, ts : Stamps]]
RetryT   == zset \subseteq Refs /\ data \subseteq Webhooks /\ processed \subseteq Refs /\ canary \in BOOLEAN
QueueT   == inbox \subseteq Refs /\ initial \subseteq Webhooks
WorkerT  == /\ pc \in [Workers -> WorkerPC]
            /\ cur \in [Workers -> Refs \cup {<<>>}]
            /\ \A w \in Workers : pc[w] # "idle" => cur[w] \in Refs
RunT     == /\ stopped \in BOOLEAN
            /\ rpc \in ReconcilerPC
            /\ failed \in BOOLEAN
            /\ todo \in Seq(Partitions)
            /\ rpc \in {"consume", "restoreData", "restoreZset"} => todo # <<>>
            /\ pos \in Nat /\ hwm \in Nat
            /\ msg \in Record \cup {Gone}
            /\ rpc \in {"restoreData", "restoreZset"} => msg # Gone
            /\ runs \in 0 .. RunBound
HistoryT == /\ accepted \subseteq Webhooks
            /\ tried \in [Webhooks -> {-1} \cup Attempts]
            /\ outcome \in [Webhooks -> {"none", "delivered", "exhausted"}]
            /\ doubled \subseteq Webhooks
ClockT   == clock \in Stamps

LEMMA TypeGroups ==
    TypeOK <=> LogT /\ StatusT /\ RetryT /\ QueueT /\ WorkerT /\ RunT /\ HistoryT /\ ClockT
BY DEF TypeOK, LogT, StatusT, RetryT, QueueT, WorkerT, RunT, HistoryT, ClockT

LEMMA TypeFromGroups ==
    ASSUME LogT', StatusT', RetryT', QueueT', WorkerT', RunT', HistoryT', ClockT', HandlerInv'
    PROVE  TypeInv'
BY DEF TypeInv, TypeOK, LogT, StatusT, RetryT, QueueT, WorkerT, RunT, HistoryT, ClockT

LEMMA SomeOrderType == SomeOrder \in Seq(Partitions)
<1> DEFINE n == Cardinality(Partitions)
           P(s) == Partitions = {s[i] : i \in DOMAIN s}
<1>1. n \in Nat /\ ExistsBijection(1 .. n, Partitions)
  BY FS_CardinalityType, ConstantsAssumption
<1>2. PICK s \in [1 .. n -> Partitions] : \A p \in Partitions : \E i \in 1 .. n : s[i] = p
  BY <1>1 DEF ExistsBijection, Bijection, Surjection
<1>3. P(s)
  BY <1>2
<1>4. SomeOrder \in [1 .. n -> Partitions]
  BY <1>2, <1>3 DEF SomeOrder
<1> QED
  BY <1>1, <1>4

\* A worker that handles a message.
LEMMA Handled ==
    ASSUME TypeOK, NEW w \in Workers, pc[w] # "idle"
    PROVE  Id(w) \in Webhooks /\ Att(w) \in Attempts /\ cur[w] = <<Id(w), Att(w)>> /\ cur[w] \in Refs
BY DEF TypeOK, Refs, Id, Att

LEMMA RefFields == \A r \in Refs : r[1] \in Webhooks /\ r[2] \in Attempts /\ r = <<r[1], r[2]>>
BY DEF Refs

LEMMA RecordFields ==
    \A q \in Record : q.id \in Webhooks /\ q.kind \in {"snapshot", "tombstone"}
                      /\ q.att \in Attempts /\ q.ts \in Stamps /\ q # Gone
BY DEF Record, Gone

\* Every write of a status leaves it well-typed.
LEMMA SetStatusType ==
    ASSUME StatusT, NEW id \in Webhooks, NEW state \in States, NEW ts \in Stamps, SetStatus(id, state, ts)
    PROVE  StatusT'
BY DEF StatusT, SetStatus

LEMMA TickType == ASSUME ClockT, Tick PROVE ClockT' /\ Now \in Stamps
BY ConstantsAssumption DEF ClockT, Tick, Now, Stamps

\* A worker goes to another label with its message, or is done with it.
LEMMA GotoType ==
    ASSUME WorkerT, NEW w \in Workers, pc[w] # "idle", NEW l \in WorkerPC, Goto(w, l), UNCHANGED cur
    PROVE  WorkerT'
BY DEF WorkerT, Goto

LEMMA FinishType == ASSUME WorkerT, NEW w \in Workers, Finish(w) PROVE WorkerT'
BY DEF WorkerT, Finish, Goto, WorkerPC

------------------------------------------------------------------------------
(* Types.                                                                  *)

\* The steps of a handler.
LEMMA HandlerType ==
    ASSUME TypeInv, NEW w \in Workers, HandlerStep(w)
    PROVE  TypeInv'
<1> USE DEF topicVars, redisVars, queueVars, runVars, historyVars
<1>0. LogT /\ StatusT /\ RetryT /\ QueueT /\ WorkerT /\ RunT /\ HistoryT /\ ClockT /\ HandlerInv
  BY TypeGroups DEF TypeInv
<1>1. pc[w] # "idle"
  BY DEF HandlerStep, CheckProcessed, ScheduleForCircuit, StartDelivery, Deliver, EnsureRetryData, ScheduleRetry,
         UpdateFailed, UpdateSettled, CleanupRetryData, Nack
<1>2. Id(w) \in Webhooks /\ Att(w) \in Attempts /\ cur[w] = <<Id(w), Att(w)>> /\ cur[w] \in Refs
  BY <1>1, Handled DEF TypeInv
<1>3. RunT'
  BY <1>0 DEF HandlerStep, CheckProcessed, ScheduleForCircuit, StartDelivery, Deliver, EnsureRetryData, ScheduleRetry,
         UpdateFailed, UpdateSettled, CleanupRetryData, Nack, RunT
<1>4. WorkerT'
  <2>1. \/ Finish(w)
        \/ UNCHANGED cur /\ \E l \in WorkerPC : Goto(w, l)
    BY DEF HandlerStep, CheckProcessed, ScheduleForCircuit, StartDelivery, Deliver, EnsureRetryData, ScheduleRetry,
         UpdateFailed, UpdateSettled, CleanupRetryData, Nack, WorkerPC
  <2> QED
    BY <1>0, <1>1, <2>1, GotoType, FinishType
<1>5. \A v \in Workers : v # w => pc'[v] = pc[v] /\ cur'[v] = cur[v]
  BY <1>0 DEF HandlerStep, CheckProcessed, ScheduleForCircuit, StartDelivery, Deliver, EnsureRetryData, ScheduleRetry,
         UpdateFailed, UpdateSettled, CleanupRetryData, Nack, Finish, Goto, WorkerT
<1>6. pc'[w] = "idle" \/ cur'[w] = cur[w]
  BY <1>0 DEF HandlerStep, CheckProcessed, ScheduleForCircuit, StartDelivery, Deliver, EnsureRetryData, ScheduleRetry,
         UpdateFailed, UpdateSettled, CleanupRetryData, Nack, Finish, Goto, WorkerT
<1>7. CASE CheckProcessed(w) \/ ScheduleForCircuit(w)
  <2>1. LogT' /\ StatusT' /\ QueueT' /\ HistoryT' /\ ClockT'
    BY <1>0, <1>7 DEF CheckProcessed, ScheduleForCircuit, LogT, StatusT, QueueT, HistoryT, ClockT
  <2>2. RetryT'
    BY <1>0, <1>2, <1>7 DEF CheckProcessed, ScheduleForCircuit, RetryT
  <2>3. HandlerInv'
    BY <1>0, <1>5, <1>7 DEF CheckProcessed, ScheduleForCircuit, HandlerInv, Finish, Goto, WorkerT
  <2> QED
    BY <1>3, <1>4, <2>1, <2>2, <2>3, TypeFromGroups
<1>8. CASE StartDelivery(w)
  <2>1. LogT' /\ RetryT' /\ QueueT' /\ HistoryT'
    BY <1>0, <1>8 DEF StartDelivery, LogT, RetryT, QueueT, HistoryT
  <2>2. StatusT' /\ ClockT'
    BY <1>0, <1>2, <1>8, TickType, SetStatusType DEF StartDelivery, States
  <2>3. HandlerInv'
    BY <1>0, <1>5, <1>8 DEF StartDelivery, HandlerInv, Goto, WorkerT
  <2> QED
    BY <1>3, <1>4, <2>1, <2>2, <2>3, TypeFromGroups
<1>9. CASE Deliver(w)
  <2>1. LogT' /\ StatusT' /\ RetryT' /\ QueueT' /\ ClockT'
    BY <1>0, <1>9 DEF Deliver, LogT, StatusT, RetryT, QueueT, ClockT
  <2>2. HistoryT'
    BY <1>0, <1>2, <1>9 DEF Deliver, HistoryT
  <2>3. HandlerInv'
    <3>1. UNCHANGED cur /\ \A i \in Webhooks : outcome[i] # "none" => outcome'[i] # "none"
      BY <1>0, <1>2, <1>9 DEF Deliver, HistoryT
    <3>2. \/ pc'[w] = "settle" /\ outcome'[Id(w)] # "none"
          \/ pc'[w] = "ensure" /\ Att(w) < MaxAttempts
      BY <1>0, <1>2, <1>9 DEF Deliver, Goto, WorkerT, HistoryT
    <3>3. \A v \in Workers : pc[v] # "idle" => cur[v][1] \in Webhooks
      BY <1>0, RefFields DEF WorkerT
    <3> QED
      BY <1>0, <1>5, <3>1, <3>2, <3>3 DEF HandlerInv, Id, Att
  <2> QED
    BY <1>3, <1>4, <2>1, <2>2, <2>3, TypeFromGroups
<1>10. CASE EnsureRetryData(w) \/ CleanupRetryData(w) \/ Nack(w)
  <2>1. LogT' /\ StatusT' /\ HistoryT' /\ ClockT'
    BY <1>0, <1>10 DEF EnsureRetryData, CleanupRetryData, Nack, LogT, StatusT, HistoryT, ClockT
  <2>2. RetryT' /\ QueueT'
    BY <1>0, <1>2, <1>10 DEF EnsureRetryData, CleanupRetryData, Nack, RetryT, QueueT
  <2>3. HandlerInv'
    BY <1>0, <1>5, <1>10 DEF EnsureRetryData, CleanupRetryData, Nack, HandlerInv, Finish, Goto, WorkerT
  <2> QED
    BY <1>3, <1>4, <2>1, <2>2, <2>3, TypeFromGroups
<1>11. CASE ScheduleRetry(w)
  <2>1. LogT' /\ StatusT' /\ QueueT' /\ HistoryT' /\ ClockT'
    BY <1>0, <1>11 DEF ScheduleRetry, LogT, StatusT, QueueT, HistoryT, ClockT
  <2>2. <<Id(w), Att(w) + 1>> \in Refs
    <3>1. Att(w) < MaxAttempts
      BY <1>0, <1>11 DEF ScheduleRetry, HandlerInv, Att
    <3> QED
      BY <1>2, <3>1, ConstantsAssumption DEF Refs, Attempts
  <2>3. RetryT'
    BY <1>0, <1>11, <2>2 DEF ScheduleRetry, RetryT
  <2>4. HandlerInv'
    BY <1>0, <1>5, <1>11 DEF ScheduleRetry, HandlerInv, Goto, WorkerT
  <2> QED
    BY <1>3, <1>4, <2>1, <2>3, <2>4, TypeFromGroups
<1>12. CASE UpdateFailed(w)
  <2>1. RetryT' /\ QueueT' /\ HistoryT'
    BY <1>0, <1>12 DEF UpdateFailed, RetryT, QueueT, HistoryT
  <2>2. StatusT' /\ ClockT' /\ Now \in Stamps
    BY <1>0, <1>2, <1>12, TickType, SetStatusType DEF UpdateFailed, States
  <2>3. Att(w) + 1 \in Attempts
    <3>1. Att(w) < MaxAttempts
      BY <1>0, <1>12 DEF UpdateFailed, HandlerInv, Att
    <3> QED
      BY <1>2, <3>1, ConstantsAssumption DEF Attempts
  <2>4. LogT'
    BY <1>0, <1>2, <1>12, <2>2, <2>3 DEF UpdateFailed, Spawn, LogT, Record
  <2>5. HandlerInv'
    BY <1>0, <1>5, <1>12 DEF UpdateFailed, HandlerInv, Finish, Goto, WorkerT
  <2> QED
    BY <1>3, <1>4, <2>1, <2>2, <2>4, <2>5, TypeFromGroups
<1>13. CASE UpdateSettled(w)
  <2>1. RetryT' /\ QueueT' /\ HistoryT'
    BY <1>0, <1>13 DEF UpdateSettled, RetryT, QueueT, HistoryT
  <2>2. outcome[Id(w)] \in States
    BY <1>0, <1>2, <1>13 DEF UpdateSettled, HandlerInv, HistoryT, States, Id
  <2>3. StatusT' /\ ClockT' /\ Now \in Stamps
    BY <1>0, <1>2, <1>13, <2>2, TickType, SetStatusType DEF UpdateSettled
  <2>4. LogT'
    BY <1>0, <1>2, <1>13, <2>3, ConstantsAssumption DEF UpdateSettled, Spawn, LogT, Record, Attempts
  <2>5. HandlerInv'
    BY <1>0, <1>5, <1>13 DEF UpdateSettled, HandlerInv, Goto, WorkerT
  <2> QED
    BY <1>3, <1>4, <2>1, <2>3, <2>4, <2>5, TypeFromGroups
<1> QED
  BY <1>7, <1>8, <1>9, <1>10, <1>11, <1>12, <1>13 DEF HandlerStep

\* The message at the reconciler's position.
LEMMA MessageType ==
    ASSUME TypeOK, rpc = "consume", pos \in DOMAIN log[Head(todo)]
    PROVE  /\ Head(todo) \in Partitions /\ Message \in Record \cup {Gone}
           /\ Message # Gone => Message \in Record
<1>1. todo \in Seq(Partitions) /\ todo # <<>>
  BY DEF TypeOK
<1>2. Head(todo) \in Partitions
  BY <1>1, HeadTailProperties
<1>3. log[Head(todo)] \in Seq(Record \cup {Gone})
  BY <1>2 DEF TypeOK
<1>4. pos \in 1 .. Len(log[Head(todo)])
  BY <1>3
<1> QED
  BY <1>2, <1>3, <1>4, ElementOfSeq DEF Message

\* The loop of consumePartition goes on, or the partition is done.
LEMMA LoopType ==
    ASSUME RunT, rpc \in {"consume", "restoreData", "restoreZset"}, Continue \/ NextPartition,
           UNCHANGED <<stopped, failed, runs>>
    PROVE  RunT'
<1>1. Tail(todo) \in Seq(Partitions)
  BY HeadTailProperties DEF RunT
<1> QED
  BY <1>1 DEF RunT, Continue, NextPartition, ReconcilerPC

\* The steps of the reconciler.
LEMMA ReconcilerType ==
    ASSUME TypeInv, Run \/ ReconcilerStep \/ Die
    PROVE  TypeInv'
<1> USE DEF topicVars, redisVars, queueVars, workerVars, historyVars, unchangedOutside
<1>0. LogT /\ StatusT /\ RetryT /\ QueueT /\ WorkerT /\ RunT /\ HistoryT /\ ClockT /\ HandlerInv /\ TypeOK
  BY TypeGroups DEF TypeInv
<1>1. LogT' /\ QueueT' /\ WorkerT' /\ HistoryT' /\ ClockT' /\ HandlerInv' /\ stopped' = stopped
  <2>1. UNCHANGED unchangedOutside
    BY DEF Run, ReconcilerStep, Die, Flush, Flushed, ConsumePartition, SkipMessage, RestoreStatus, RestoreData,
           RestoreZset, Complete
  <2>2. doubled' = doubled \/ (rpc = "restoreZset" /\ doubled' = doubled \cup {msg.id})
    BY DEF Run, ReconcilerStep, Die, Flush, Flushed, ConsumePartition, SkipMessage, RestoreStatus, RestoreData,
           RestoreZset, Complete
  <2>3. rpc = "restoreZset" => msg.id \in Webhooks
    BY <1>0, RecordFields DEF RunT
  <2>4. LogT' /\ QueueT' /\ HistoryT' /\ ClockT'
    BY <1>0, <2>1, <2>2, <2>3 DEF LogT, QueueT, HistoryT, ClockT
  <2>5. WorkerT' /\ HandlerInv'
    BY <1>0, <2>1 DEF WorkerT, HandlerInv
  <2> QED
    BY <2>1, <2>4, <2>5
<1>2. SUFFICES StatusT' /\ RetryT' /\ RunT'
  BY <1>1, TypeFromGroups
<1>3. CASE Run
  <2>1. StatusT' /\ RetryT'
    BY <1>0, <1>3 DEF Run, StatusT, RetryT
  <2>2. todo' \in Seq(Partitions) /\ rpc' = "status" /\ failed' \in BOOLEAN /\ UNCHANGED <<pos, hwm, msg>>
    BY <1>3, SomeOrderType DEF Run
  <2>3. runs' \in 0 .. RunBound
    BY <1>0, <1>3, ConstantsAssumption DEF Run, RunT
  <2> QED
    BY <1>0, <1>1, <2>1, <2>2, <2>3 DEF RunT, ReconcilerPC
<1>4. CASE Flush
  <2>1. RetryT' /\ failed' \in BOOLEAN
    BY <1>0, <1>4 DEF Flush, Remove, RetryT, RunT
  <2>2. Absent \in [state : States, ts : Stamps]
    BY ConstantsAssumption DEF Absent, States, Stamps
  <2>3. StatusT'
    BY <1>0, <1>4, <2>2 DEF Flush, StatusT
  <2> QED
    BY <1>0, <1>1, <1>4, <2>1, <2>3 DEF Flush, RunT, ReconcilerPC
<1>11. CASE Flushed
  <2>1. StatusT' /\ RetryT'
    BY <1>0, <1>11 DEF Flushed, StatusT, RetryT
  <2>2. <<>> \in Seq(Partitions)
    OBVIOUS
  <2> QED
    BY <1>0, <1>1, <1>11, <2>1, <2>2 DEF Flushed, RunT, ReconcilerPC
<1>5. CASE ConsumePartition
  <2>1. StatusT' /\ RetryT'
    BY <1>0, <1>5 DEF ConsumePartition, StatusT, RetryT
  <2>2. todo \in Seq(Partitions) /\ todo # <<>>
    BY <1>0, <1>5 DEF ConsumePartition, RunT
  <2>3. Head(todo) \in Partitions /\ Tail(todo) \in Seq(Partitions)
    BY <2>2, HeadTailProperties
  <2>4. Len(log[Head(todo)]) \in Nat
    BY <1>0, <2>3 DEF LogT
  <2> QED
    BY <1>0, <1>1, <1>5, <2>1, <2>2, <2>3, <2>4 DEF ConsumePartition, NextPartition, RunT, ReconcilerPC
<1>6. CASE SkipMessage
  BY <1>0, <1>1, <1>6, LoopType DEF SkipMessage, StatusT, RetryT
<1>7. CASE RestoreStatus
  <2>1. RetryT'
    BY <1>0, <1>7 DEF RestoreStatus, RetryT
  <2>2. Message \in Record
    BY <1>0, <1>7, MessageType DEF RestoreStatus
  <2>3. Message.id \in Webhooks /\ Message.ts \in Stamps /\ Message # Gone
    BY <2>2, RecordFields
  <2>4. CASE SetStatus(Message.id, "failed", Message.ts) /\ rpc' = "restoreData" /\ msg' = Message
             /\ UNCHANGED <<todo, pos, hwm>>
    <3>1. StatusT'
      BY <1>0, <2>3, <2>4, SetStatusType DEF States
    <3>2. RunT'
      BY <1>0, <1>1, <1>7, <2>2, <2>3, <2>4 DEF RestoreStatus, RunT, ReconcilerPC
    <3> QED
      BY <2>1, <3>1, <3>2
  <2>5. CASE Continue /\ UNCHANGED status
    BY <1>0, <1>1, <1>7, <2>1, <2>5, LoopType DEF RestoreStatus, StatusT
  <2> QED
    BY <1>7, <2>4, <2>5 DEF RestoreStatus
<1>8. CASE RestoreData
  <2>1. msg.id \in Webhooks
    BY <1>0, <1>8, RecordFields DEF RestoreData, RunT
  <2>2. StatusT' /\ RetryT'
    BY <1>0, <1>8, <2>1 DEF RestoreData, StatusT, RetryT
  <2>3. CASE rpc' = "restoreZset" /\ UNCHANGED <<todo, pos, hwm, msg>>
    BY <1>0, <1>1, <1>8, <2>2, <2>3 DEF RestoreData, RunT, ReconcilerPC
  <2>4. CASE Continue
    BY <1>0, <1>1, <1>8, <2>2, <2>4, LoopType DEF RestoreData
  <2> QED
    BY <1>8, <2>3, <2>4 DEF RestoreData
<1>9. CASE RestoreZset
  <2>1. <<msg.id, msg.att>> \in Refs
    BY <1>0, <1>9, RecordFields DEF RestoreZset, RunT, Refs
  <2>2. StatusT' /\ RetryT'
    BY <1>0, <1>9, <2>1 DEF RestoreZset, StatusT, RetryT
  <2>3. Continue \/ NextPartition
    BY <1>9 DEF RestoreZset, EndOfBody
  <2> QED
    BY <1>0, <1>1, <1>9, <2>2, <2>3, LoopType DEF RestoreZset
<1>10. CASE Complete \/ Die
  <2>1. StatusT' /\ RetryT'
    BY <1>0, <1>10 DEF Complete, Die, StatusT, RetryT
  <2> QED
    BY <1>0, <1>1, <1>10, <2>1, EmptySeq DEF Complete, Die, RunT, ReconcilerPC
<1> QED
  BY <1>3, <1>4, <1>5, <1>6, <1>7, <1>8, <1>9, <1>10, <1>11 DEF ReconcilerStep

\* Records reach the topic and compaction takes them away again.
LEMMA LogType ==
    ASSUME TypeInv, (\E r \in publishing : PublishState(r))
                    \/ (\E p \in Partitions : \E o \in DOMAIN log[p] : Compact(p, o))
    PROVE  LogT'
<1>0. LogT /\ ClockT
  BY TypeGroups DEF TypeInv
<1>1. ASSUME NEW r \in publishing, PublishState(r) PROVE LogT'
  <2>1. r \in Record /\ PartitionOf[r.id] \in Partitions /\ r.ts \in Stamps
    BY <1>0, ConstantsAssumption, RecordFields DEF LogT
  <2>2. publishing' \subseteq Record
    BY <1>0, <1>1 DEF PublishState, LogT
  <2>3. CASE UNCHANGED log
    BY <1>0, <2>2, <2>3 DEF LogT
  <2>4. CASE ~UNCHANGED log
    <3>1. PICK ts \in r.ts .. (IF "reorder" \in Faults THEN clock ELSE r.ts) :
             log' = [log EXCEPT ![PartitionOf[r.id]] = Append(@, [r EXCEPT !.ts = ts])]
      BY <1>1, <2>4 DEF PublishState
    <3>2. ts \in Stamps
      BY <1>0, <2>1, <3>1, ConstantsAssumption DEF Stamps, ClockT
    <3>3. [r EXCEPT !.ts = ts] \in Record
      BY <2>1, <3>2 DEF Record
    <3>4. Append(log[PartitionOf[r.id]], [r EXCEPT !.ts = ts]) \in Seq(Record \cup {Gone})
      BY <1>0, <2>1, <3>3, AppendProperties DEF LogT
    <3> QED
      BY <1>0, <2>2, <3>1, <3>4 DEF LogT
  <2> QED
    BY <2>3, <2>4
<1>2. ASSUME NEW p \in Partitions, NEW o \in DOMAIN log[p], Compact(p, o) PROVE LogT'
  <2>1. log[p] \in Seq(Record \cup {Gone})
    BY <1>0 DEF LogT
  <2>2. o \in 1 .. Len(log[p])
    BY <2>1
  <2>3. [log[p] EXCEPT ![o] = Gone] \in Seq(Record \cup {Gone})
    BY <2>1, <2>2, ExceptSeq
  <2>4. log' = [log EXCEPT ![p] = [log[p] EXCEPT ![o] = Gone]] /\ publishing' = publishing
    BY <1>2 DEF Compact
  <2> QED
    BY <1>0, <2>3, <2>4 DEF LogT
<1> QED
  BY <1>1, <1>2

\* Every other step.
LEMMA OtherType ==
    ASSUME TypeInv,
           \/ \E id \in Webhooks : Enqueue(id) \/ InitialStatus(id)
           \/ \E r \in zset : Reschedule(r)
           \/ \E w \in Workers : \E r \in inbox : Receive(w, r)
           \/ \E r \in publishing : PublishState(r)
           \/ \E p \in Partitions : \E o \in DOMAIN log[p] : Compact(p, o)
           \/ Stop \/ LoseRedis \/ Start \/ UNCHANGED vars
    PROVE  TypeInv'
<1> USE DEF topicVars, redisVars, queueVars, workerVars, runVars, historyVars
<1>0. LogT /\ StatusT /\ RetryT /\ QueueT /\ WorkerT /\ RunT /\ HistoryT /\ ClockT /\ HandlerInv
  BY TypeGroups DEF TypeInv
<1>1. ASSUME NEW id \in Webhooks, Enqueue(id) PROVE TypeInv'
  <2>1. LogT' /\ StatusT' /\ RetryT' /\ WorkerT' /\ RunT' /\ ClockT' /\ HandlerInv'
    BY <1>0, <1>1 DEF Enqueue, LogT, StatusT, RetryT, WorkerT, RunT, ClockT, HandlerInv
  <2>2. QueueT' /\ HistoryT'
    BY <1>0, <1>1, ConstantsAssumption DEF Enqueue, QueueT, HistoryT, Refs, Attempts
  <2> QED
    BY <2>1, <2>2, TypeFromGroups
<1>2. ASSUME NEW id \in Webhooks, InitialStatus(id) PROVE TypeInv'
  <2>1. LogT' /\ RetryT' /\ QueueT' /\ WorkerT' /\ RunT' /\ HistoryT' /\ HandlerInv'
    BY <1>0, <1>2 DEF InitialStatus, LogT, RetryT, QueueT, WorkerT, RunT, HistoryT, HandlerInv
  <2>2. StatusT' /\ ClockT'
    BY <1>0, <1>2, TickType, SetStatusType DEF InitialStatus, States
  <2> QED
    BY <2>1, <2>2, TypeFromGroups
<1>3. ASSUME NEW r \in zset, Reschedule(r) PROVE TypeInv'
  <2>1. LogT' /\ StatusT' /\ WorkerT' /\ RunT' /\ HistoryT' /\ ClockT' /\ HandlerInv'
    BY <1>0, <1>3 DEF Reschedule, LogT, StatusT, WorkerT, RunT, HistoryT, ClockT, HandlerInv
  <2>2. RetryT' /\ QueueT'
    BY <1>0, <1>3 DEF Reschedule, RetryT, QueueT
  <2> QED
    BY <2>1, <2>2, TypeFromGroups
<1>4. ASSUME NEW w \in Workers, NEW r \in inbox, Receive(w, r) PROVE TypeInv'
  <2>1. LogT' /\ StatusT' /\ RetryT' /\ QueueT' /\ RunT' /\ HistoryT' /\ ClockT'
    <3>1. r[1] \in Webhooks
      BY <1>0, RefFields DEF QueueT
    <3> QED
      BY <1>0, <1>4, <3>1 DEF Receive, LogT, StatusT, RetryT, QueueT, RunT, HistoryT, ClockT
  <2>2. WorkerT'
    BY <1>0, <1>4 DEF Receive, Goto, WorkerT, WorkerPC, QueueT
  <2>3. HandlerInv'
    BY <1>0, <1>4 DEF Receive, Goto, WorkerT, HandlerInv
  <2> QED
    BY <2>1, <2>2, <2>3, TypeFromGroups
<1>5. CASE (\E r \in publishing : PublishState(r))
           \/ (\E p \in Partitions : \E o \in DOMAIN log[p] : Compact(p, o))
  <2>1. StatusT' /\ RetryT' /\ QueueT' /\ WorkerT' /\ RunT' /\ HistoryT' /\ ClockT' /\ HandlerInv'
    BY <1>0, <1>5 DEF PublishState, Compact, StatusT, RetryT, QueueT, WorkerT, RunT, HistoryT, ClockT,
                      HandlerInv
  <2> QED
    BY <1>5, <2>1, LogType, TypeFromGroups
<1>6. CASE Stop \/ LoseRedis \/ Start \/ UNCHANGED vars
  <2>1. LogT' /\ QueueT' /\ WorkerT' /\ HistoryT' /\ ClockT' /\ HandlerInv'
    <3>1. UNCHANGED <<topicVars, queueVars, workerVars, historyVars, clock>>
      BY <1>6 DEF Stop, LoseRedis, Start, vars
    <3>2. LogT' /\ QueueT' /\ HistoryT' /\ ClockT'
      BY <1>0, <3>1 DEF LogT, QueueT, HistoryT, ClockT
    <3>3. WorkerT' /\ HandlerInv'
      BY <1>0, <3>1 DEF WorkerT, HandlerInv
    <3> QED
      BY <3>2, <3>3
  <2>2. StatusT' /\ RetryT'
    <3>1. CASE LoseRedis
      <4>1. Absent \in [state : States, ts : Stamps]
        BY ConstantsAssumption DEF Absent, States, Stamps
      <4> QED
        BY <3>1, <4>1 DEF LoseRedis, StatusT, RetryT
    <3>2. CASE UNCHANGED redisVars
      BY <1>0, <3>2 DEF StatusT, RetryT
    <3> QED
      BY <1>6, <3>1, <3>2 DEF Stop, Start, vars
  <2>3. RunT'
    <3>1. stopped' \in BOOLEAN
      BY <1>0, <1>6 DEF Stop, LoseRedis, Start, vars, RunT
    <3>2. UNCHANGED <<rpc, failed, todo, pos, hwm, msg, runs>>
      BY <1>6 DEF Stop, LoseRedis, Start, vars
    <3> QED
      BY <1>0, <3>1, <3>2 DEF RunT
  <2> QED
    BY <2>1, <2>2, <2>3, TypeFromGroups
<1> QED
  BY <1>1, <1>2, <1>3, <1>4, <1>5, <1>6

LEMMA TypeStep == TypeInv /\ [Next]_vars => TypeInv'
<1> SUFFICES ASSUME TypeInv, [Next]_vars PROVE TypeInv'
  OBVIOUS
<1> QED
  BY HandlerType, ReconcilerType, OtherType DEF Next

LEMMA TypeInit == Init => TypeInv
<1> SUFFICES ASSUME Init PROVE TypeInv
  OBVIOUS
<1>1. LogT /\ StatusT /\ RetryT /\ QueueT
  BY ConstantsAssumption DEF Init, LogT, StatusT, RetryT, QueueT, Absent, States, Stamps
<1>2. WorkerT /\ HandlerInv
  BY DEF Init, WorkerT, WorkerPC, HandlerInv
<1>3. RunT
  <2>1. todo \in Seq(Partitions) /\ runs \in 0 .. RunBound
    BY ConstantsAssumption, EmptySeq DEF Init
  <2>2. rpc = "off" /\ pos \in Nat /\ hwm \in Nat /\ msg \in Record \cup {Gone} /\ stopped \in BOOLEAN
      /\ failed \in BOOLEAN
    BY DEF Init
  <2> QED
    BY <2>1, <2>2 DEF RunT, ReconcilerPC
<1>4. HistoryT /\ ClockT
  BY ConstantsAssumption DEF Init, HistoryT, ClockT, Stamps
<1> QED
  BY <1>1, <1>2, <1>3, <1>4, TypeGroups DEF TypeInv

\* The state of the topic, Redis, the workers and the reconciler stays well-typed,
\* under every fault: only attempts below the limit are scheduled, a message is
\* only read while a partition is open, and only outcomes become final states.
THEOREM TypeCorrect == Spec => []TypeOK
<1>1. TypeInv => TypeOK
  BY DEF TypeInv
<1> QED
  BY <1>1, TypeInit, TypeStep, PTL DEF Spec

------------------------------------------------------------------------------
(* A replay keeps what is newer.                                           *)

Final == {"delivered", "exhausted"}

\* No timestamp is ahead of the clock, and no snapshot of a webhook, written or
\* about to be, is newer than a final status Redis has of it.
Good(q) ==
    /\ q.ts <= clock
    /\ q.kind = "snapshot" /\ status[q.id].state \in Final => q.ts <= status[q.id].ts

StampInv ==
    /\ \A i \in Webhooks : status[i].ts <= clock
    /\ \A q \in publishing : Good(q)
    /\ \A p \in Partitions : \A o \in DOMAIN log[p] : log[p][o] # Gone => Good(log[p][o])

\* What a step may do to a status: nothing, write one that is not final, or write
\* one with the time of the step.
Stamped ==
    /\ clock <= clock' /\ clock' \in Int
    /\ \A i \in Webhooks :
          /\ status'[i].ts <= clock'
          /\ \/ status'[i] = status[i]
             \/ status'[i].state \notin Final
             \/ status'[i].ts = clock'

LEMMA StampTypes ==
    ASSUME TypeOK
    PROVE  /\ clock \in Int
           /\ \A i \in Webhooks : status[i].ts \in Int /\ status[i].ts >= 0
           /\ \A q \in Record : q.ts \in Int /\ q.id \in Webhooks
           /\ \A p \in Partitions : \A o \in DOMAIN log[p] : log[p][o] # Gone => log[p][o] \in Record
<1>1. clock \in Int /\ \A i \in Webhooks : status[i].ts \in Int /\ status[i].ts >= 0
  BY ConstantsAssumption DEF TypeOK, Stamps
<1>2. \A q \in Record : q.ts \in Int /\ q.id \in Webhooks
  BY RecordFields, ConstantsAssumption DEF Stamps
<1>3. ASSUME NEW p \in Partitions, NEW o \in DOMAIN log[p], log[p][o] # Gone PROVE log[p][o] \in Record
  <2>1. log[p] \in Seq(Record \cup {Gone})
    BY DEF TypeOK
  <2>2. o \in 1 .. Len(log[p])
    BY <2>1
  <2> QED
    BY <1>3, <2>1, <2>2, ElementOfSeq
<1> QED
  BY <1>1, <1>2, <1>3

\* SetStatus with a timestamp the clock has reached.
LEMMA SetStatusStamped ==
    ASSUME TypeOK, StampInv, NEW id \in Webhooks, NEW state \in States, NEW ts \in Int,
           SetStatus(id, state, ts), clock <= clock', clock' \in Int, ts <= clock',
           state \notin Final \/ ts = clock'
    PROVE  Stamped
<1>1. \A i \in Webhooks : status[i].ts \in Int /\ status[i].ts <= clock /\ clock \in Int
  BY StampTypes DEF StampInv
<1>2. ASSUME NEW i \in Webhooks PROVE status'[i] = status[i] \/ (i = id /\ status'[i] = [state |-> state, ts |-> ts])
  BY DEF SetStatus, TypeOK
<1>3. [state |-> state, ts |-> ts].state = state /\ [state |-> state, ts |-> ts].ts = ts
  OBVIOUS
<1> QED
  BY <1>1, <1>2, <1>3 DEF Stamped

\* Records stay good, and so do new ones that are.
LEMMA StampKept ==
    ASSUME TypeOK, StampInv, Stamped,
           \A q \in publishing' : q \in publishing \/ Good(q)',
           \A p \in Partitions : \A o \in DOMAIN log'[p] :
               \/ log'[p][o] = Gone
               \/ log'[p][o] \in publishing
               \/ o \in DOMAIN log[p] /\ log'[p][o] = log[p][o]
    PROVE  StampInv'
<1>1. ASSUME NEW q \in Record, Good(q) PROVE Good(q)'
  <2>1. q.ts \in Int /\ q.id \in Webhooks /\ clock \in Int
    BY StampTypes
  <2> QED
    BY <1>1, <2>1, StampTypes DEF Good, Stamped
<1>2. publishing \subseteq Record
  BY DEF TypeOK
<1>3. \A q \in publishing' : Good(q)'
  BY <1>1, <1>2 DEF StampInv
<1>4. ASSUME NEW p \in Partitions, NEW o \in DOMAIN log'[p], log'[p][o] # Gone PROVE Good(log[p][o])'
  <2>1. PICK q \in Record : q = log'[p][o] /\ Good(q)
    BY <1>2, <1>4, StampTypes DEF StampInv
  <2>2. Good(q)'
    BY <1>1, <2>1
  <2> QED
    BY <2>1, <2>2 DEF Good
<1>5. \A i \in Webhooks : status'[i].ts <= clock'
  BY DEF Stamped
<1> QED
  BY <1>3, <1>4, <1>5 DEF StampInv

\* A step that leaves topic and goroutines alone.
LEMMA StampSame ==
    ASSUME TypeOK, StampInv, Stamped, UNCHANGED topicVars
    PROVE  StampInv'
BY StampKept DEF topicVars

\* A step that leaves the clock alone, and loses statuses at most.
Forgets == \A i \in Webhooks : status'[i] = status[i] \/ status'[i] = Absent

LEMMA QuietStamped ==
    ASSUME TypeOK, StampInv, UNCHANGED clock, UNCHANGED status \/ Forgets
    PROVE  Stamped
<1>1. clock \in Int /\ \A i \in Webhooks : status[i].ts <= clock
  BY StampTypes DEF StampInv
<1>2. clock >= 0
  BY ConstantsAssumption DEF TypeOK, Stamps
<1>3. CASE UNCHANGED status
  BY <1>1, <1>3 DEF Stamped
<1>4. CASE Forgets
  <2>1. Absent.ts = 0 /\ Absent.state \notin Final
    BY DEF Absent, Final
  <2> QED
    BY <1>1, <1>2, <1>4, <2>1 DEF Stamped, Forgets
<1> QED
  BY <1>3, <1>4

\* A handler's step.
LEMMA HandlerStamps ==
    ASSUME TypeInv, StampInv, NEW w \in Workers, HandlerStep(w)
    PROVE  StampInv'
<1> USE DEF topicVars, redisVars
<1>0. TypeOK /\ HandlerInv /\ clock \in Int
  BY StampTypes DEF TypeInv
<1>1. pc[w] # "idle"
  BY DEF HandlerStep, CheckProcessed, ScheduleForCircuit, StartDelivery, Deliver, EnsureRetryData, ScheduleRetry,
         UpdateFailed, UpdateSettled, CleanupRetryData, Nack
<1>2. Id(w) \in Webhooks
  BY <1>0, <1>1, Handled
<1>3. CASE CheckProcessed(w) \/ ScheduleForCircuit(w) \/ Deliver(w) \/ EnsureRetryData(w) \/ ScheduleRetry(w) \/ CleanupRetryData(w) \/ Nack(w)
  <2>1. UNCHANGED <<status, clock, log, publishing>>
    BY <1>3 DEF CheckProcessed, ScheduleForCircuit, Deliver, EnsureRetryData, ScheduleRetry, CleanupRetryData, Nack
  <2> QED
    BY <1>0, <2>1, QuietStamped, StampSame
<1>4. ASSUME Tick PROVE Now \in Int /\ clock' = Now /\ clock < Now
  BY <1>0, <1>4 DEF Tick, Now
<1>5. CASE StartDelivery(w)
  <2>1. Stamped
    BY <1>0, <1>2, <1>4, <1>5, SetStatusStamped DEF StartDelivery, Final, States
  <2> QED
    BY <1>0, <1>5, <2>1, StampSame DEF StartDelivery
<1>6. CASE UpdateFailed(w)
  <2>0. Tick /\ SetStatus(Id(w), "failed", Now) /\ Spawn(Id(w), "snapshot", Att(w) + 1) /\ log' = log
    BY <1>6 DEF UpdateFailed
  <2>1. Stamped
    BY <1>0, <1>2, <1>4, <2>0, SetStatusStamped DEF Final, States
  <2>2. status'[Id(w)].state = "failed"
    <3>1. Now > status[Id(w)].ts
      BY <1>0, <1>2, <1>4, <2>0, StampTypes DEF StampInv
    <3> QED
      BY <1>0, <1>2, <2>0, <3>1 DEF SetStatus, TypeOK
  <2>a. PICK n : n = [id |-> Id(w), kind |-> "snapshot", att |-> Att(w) + 1, ts |-> Now]
    OBVIOUS
  <2>3. publishing' = publishing \cup {n} /\ n.id = Id(w) /\ n.ts = Now
    BY <2>0, <2>a DEF Spawn
  <2>4. Good(n)'
    BY <1>4, <2>0, <2>2, <2>3 DEF Good, Final
  <2> QED
    BY <1>0, <2>0, <2>1, <2>3, <2>4, StampKept
<1>7. CASE UpdateSettled(w)
  <2>0. Tick /\ SetStatus(Id(w), outcome[Id(w)], Now) /\ Spawn(Id(w), "tombstone", 0) /\ log' = log
    BY <1>7 DEF UpdateSettled
  <2>1. outcome[Id(w)] \in States
    BY <1>0, <1>2, <1>7 DEF UpdateSettled, HandlerInv, TypeOK, States, Id
  <2>2. Stamped
    BY <1>0, <1>2, <1>4, <2>0, <2>1, SetStatusStamped
  <2>a. PICK n : n = [id |-> Id(w), kind |-> "tombstone", att |-> 0, ts |-> Now]
    OBVIOUS
  <2>3. publishing' = publishing \cup {n} /\ n.kind = "tombstone" /\ n.ts = Now
    BY <2>0, <2>a DEF Spawn
  <2>4. Good(n)'
    BY <1>4, <2>0, <2>3 DEF Good
  <2> QED
    BY <1>0, <2>0, <2>2, <2>3, <2>4, StampKept
<1> QED
  BY <1>3, <1>5, <1>6, <1>7 DEF HandlerStep

\* The steps of the reconciler.
LEMMA ReconcilerStamps ==
    ASSUME TypeInv, StampInv, Run \/ ReconcilerStep \/ Die
    PROVE  StampInv'
<1> USE DEF topicVars, redisVars, unchangedOutside
<1>0. TypeOK /\ clock \in Int
  BY StampTypes DEF TypeInv
<1>1. UNCHANGED <<clock, log, publishing>>
  BY DEF Run, ReconcilerStep, Die, Flush, Flushed, ConsumePartition, SkipMessage, RestoreStatus, RestoreData,
         RestoreZset, Complete
<1>2. CASE UNCHANGED status \/ Forgets
  BY <1>0, <1>1, <1>2, QuietStamped, StampSame
<1>3. CASE RestoreStatus /\ ~UNCHANGED status
  <2>1. SetStatus(Message.id, "failed", Message.ts)
    BY <1>3 DEF RestoreStatus
  <2>2. Head(todo) \in Partitions /\ Message \in Record /\ pos \in DOMAIN log[Head(todo)] /\ Message # Gone
    BY <1>0, <1>3, MessageType DEF RestoreStatus
  <2>3. Message.ts \in Int /\ Message.id \in Webhooks
    BY <1>0, <2>2, StampTypes
  <2>4. Message.ts <= clock
    BY <2>2 DEF StampInv, Good, Message
  <2>5. Stamped
    BY <1>0, <1>1, <2>1, <2>3, <2>4, SetStatusStamped DEF Final, States
  <2> QED
    BY <1>0, <1>1, <2>5, StampSame
<1>4. CASE Flush
  BY <1>2, <1>4 DEF Flush, Forgets
<1> QED
  BY <1>2, <1>3, <1>4 DEF Run, ReconcilerStep, Die, Flushed, ConsumePartition, SkipMessage, RestoreData,
         RestoreZset, Complete

\* Records reach the topic with the timestamp they were started with.
LEMMA LogStamps ==
    ASSUME "reorder" \notin Faults, TypeInv, StampInv,
           (\E r \in publishing : PublishState(r))
              \/ (\E p \in Partitions : \E o \in DOMAIN log[p] : Compact(p, o))
    PROVE  StampInv'
<1> USE DEF redisVars
<1>0. TypeOK /\ publishing \subseteq Record
  BY DEF TypeInv, TypeOK
<1>1. Stamped
  BY <1>0, QuietStamped DEF PublishState, Compact
<1>2. ASSUME NEW r \in publishing, PublishState(r) PROVE StampInv'
  <2>1. publishing' \subseteq publishing
    BY <1>2 DEF PublishState
  <2>2. CASE UNCHANGED log
    BY <1>0, <1>1, <2>1, <2>2, StampKept
  <2>3. CASE ~UNCHANGED log
    <3>1. r \in Record /\ PartitionOf[r.id] \in Partitions /\ r.ts \in Int
      BY <1>0, StampTypes, ConstantsAssumption
    <3>2. PICK ts \in r.ts .. r.ts :
              log' = [log EXCEPT ![PartitionOf[r.id]] = Append(@, [r EXCEPT !.ts = ts])]
      BY <1>2, <2>3 DEF PublishState
    <3>3. [r EXCEPT !.ts = ts] = r
      BY <3>1, <3>2 DEF Record
    <3>4. PICK k \in Partitions : k = PartitionOf[r.id] /\ log' = [log EXCEPT ![k] = Append(@, r)]
      BY <3>1, <3>2, <3>3
    <3>5. log[k] \in Seq(Record \cup {Gone})
      BY <1>0 DEF TypeOK
    <3>6. \A o \in DOMAIN Append(log[k], r) :
              Append(log[k], r)[o] = r \/ (o \in DOMAIN log[k] /\ Append(log[k], r)[o] = log[k][o])
      BY <3>1, <3>5
    <3>7. ASSUME NEW p \in Partitions, NEW o \in DOMAIN log'[p]
          PROVE  log'[p][o] = r \/ (o \in DOMAIN log[p] /\ log'[p][o] = log[p][o])
      <4>1. CASE p = k
        BY <1>0, <3>4, <3>6, <3>7, <4>1 DEF TypeOK
      <4>2. CASE p # k
        BY <1>0, <3>4, <3>7, <4>2 DEF TypeOK
      <4> QED
        BY <4>1, <4>2
    <3> QED
      BY <1>0, <1>1, <2>1, <3>7, StampKept
  <2> QED
    BY <2>2, <2>3
<1>3. ASSUME NEW k \in Partitions, NEW n \in DOMAIN log[k], Compact(k, n) PROVE StampInv'
  <2>1. log' = [log EXCEPT ![k] = [log[k] EXCEPT ![n] = Gone]] /\ publishing' = publishing
    BY <1>3 DEF Compact
  <2>2. log[k] \in Seq(Record \cup {Gone})
    BY <1>0 DEF TypeOK
  <2>3. ASSUME NEW p \in Partitions, NEW o \in DOMAIN log'[p]
        PROVE  log'[p][o] = Gone \/ (o \in DOMAIN log[p] /\ log'[p][o] = log[p][o])
    <3>1. CASE p = k
      <4>1. log'[p] = [log[k] EXCEPT ![n] = Gone]
        BY <1>0, <2>1, <3>1 DEF TypeOK
      <4> QED
        BY <2>3, <3>1, <4>1
    <3>2. CASE p # k
      BY <1>0, <2>1, <2>3, <3>2 DEF TypeOK
    <3> QED
      BY <3>1, <3>2
  <2> QED
    BY <1>0, <1>1, <2>1, <2>3, StampKept
<1> QED
  BY <1>2, <1>3

LEMMA StampStep ==
    ASSUME "reorder" \notin Faults, TypeInv, StampInv, [Next]_vars
    PROVE  StampInv'
<1> USE DEF topicVars, redisVars
<1>0. TypeOK /\ clock \in Int
  BY StampTypes DEF TypeInv
<1>1. ASSUME NEW id \in Webhooks, InitialStatus(id) PROVE StampInv'
  <2>1. Tick /\ SetStatus(id, "pending", Now) /\ UNCHANGED <<log, publishing>>
    BY <1>1 DEF InitialStatus
  <2>2. Now \in Int /\ clock' = Now /\ clock < Now
    BY <1>0, <2>1 DEF Tick, Now
  <2>3. Stamped
    BY <1>0, <2>1, <2>2, SetStatusStamped DEF Final, States
  <2> QED
    BY <1>0, <2>1, <2>3, StampSame
<1>2. CASE \/ \E id \in Webhooks : Enqueue(id)
           \/ \E r \in zset : Reschedule(r)
           \/ \E w \in Workers : \E r \in inbox : Receive(w, r)
           \/ Stop \/ LoseRedis \/ Start \/ UNCHANGED vars
  <2>1. UNCHANGED <<clock, log, publishing>>
    BY <1>2 DEF Enqueue, Reschedule, Receive, Stop, LoseRedis, Start, vars
  <2>2. UNCHANGED status \/ Forgets
    BY <1>2 DEF Enqueue, Reschedule, Receive, Stop, LoseRedis, Start, vars, Forgets
  <2> QED
    BY <1>0, <2>1, <2>2, QuietStamped, StampSame
<1> QED
  BY <1>1, <1>2, HandlerStamps, ReconcilerStamps, LogStamps DEF Next

\* Beside running workers, and under every fault but records that overtake each
\* other, a replay of old snapshots never replaces the final status of a webhook
\* that was settled after the flush, whatever is lost, late, repeated or broken off.
THEOREM NewerKept == "reorder" \notin Faults => (Spec => ReplayKeepsNewer)
<1> SUFFICES ASSUME "reorder" \notin Faults PROVE Spec => ReplayKeepsNewer
  OBVIOUS
<1>1. Init => StampInv
  BY DEF Init, StampInv, Absent
<1>2. TypeInv /\ StampInv /\ [Next]_vars => StampInv'
  BY StampStep
<1>3. TypeInv /\ StampInv /\ [Next]_vars =>
         [\A id \in Webhooks :
             rpc = "consume" /\ rpc' = "restoreData" /\ status[id].state \in {"delivered", "exhausted"}
                => status'[id] = status[id]]_vars
  <2> SUFFICES ASSUME TypeInv, StampInv, Next, rpc = "consume", rpc' = "restoreData",
                      NEW id \in Webhooks, status[id].state \in {"delivered", "exhausted"}
               PROVE  status'[id] = status[id]
    BY DEF vars, runVars
  <2>1. SetStatus(Message.id, "failed", Message.ts) /\ RestoreStatus
    <3>1. RestoreStatus
      BY DEF Next, HandlerStep, Enqueue, InitialStatus, Reschedule, Receive, CheckProcessed, ScheduleForCircuit, StartDelivery,
             Deliver, EnsureRetryData, ScheduleRetry, UpdateFailed, UpdateSettled, CleanupRetryData, Nack,
             PublishState, Compact, Stop, LoseRedis, Start, Run, ReconcilerStep, Die, Flush,
             Flushed, ConsumePartition, NextPartition, SkipMessage, Continue, RestoreData, RestoreZset, Complete, runVars
    <3> QED
      BY <3>1 DEF RestoreStatus, Continue
  <2>2. Head(todo) \in Partitions /\ Message \in Record /\ pos \in DOMAIN log[Head(todo)] /\ Message # Gone
        /\ Message.kind = "snapshot"
    BY <2>1, MessageType DEF RestoreStatus, TypeInv
  <2>3. Message.ts \in Int /\ Message.id \in Webhooks /\ status[Message.id].ts \in Int
    BY <2>2, StampTypes DEF TypeInv
  <2>4. status[Message.id].state \in Final => Message.ts <= status[Message.id].ts
    BY <2>2 DEF StampInv, Good, Message
  <2>5. CASE id = Message.id
    BY <2>1, <2>3, <2>4, <2>5 DEF SetStatus, Final
  <2>6. CASE id # Message.id
    BY <2>1, <2>3, <2>6 DEF SetStatus, TypeInv, TypeOK
  <2> QED
    BY <2>5, <2>6
<1> QED
  BY <1>1, <1>2, <1>3, TypeInit, TypeStep, PTL DEF Spec, ReplayKeepsNewer
------------------------------------------------------------------------------
(* Nothing is lost.                                                        *)

\* The faults under which a rebuild still finds every webhook.  Each of the others
\* loses one: by a record that is not written, a retry of which only Redis knows, an
\* idempotency key that outlives the flush, or a canary over keys that are gone.
Tolerated == {"die", "flush", "reorder", "lag", "lateapi"}

\* The faults under which every retry that is scheduled has its record written, with
\* the workers standing still while Redis is lost and rebuilt.
Recorded == Tolerated \cup {"scan", "partition", "restore"}

Open == {id \in accepted : outcome[id] = "none"}

\* The rebuild runs between the operator's Stop and Start, when no handler and no
\* goroutine is under way; no message is nacked, and a handler that cleans up has
\* settled its webhook.
PhaseInv ==
    /\ rpc # "off" => ~canary
    /\ ~canary => stopped
    /\ stopped => publishing = {} /\ \A w \in Workers : pc[w] = "idle"
    /\ \A w \in Workers : pc[w] # "nack"
    /\ \A w \in Workers : pc[w] = "cleanup" => outcome[cur[w][1]] # "none"

\* Nothing is known of a webhook before the API accepts it, only a settled one has
\* a tombstone, and a record is in the partition of its webhook.
Vouched(q) == q.id \in accepted /\ (q.kind = "tombstone" => outcome[q.id] # "none")

KnownInv ==
    /\ \A r \in inbox \cup zset \cup processed : r[1] \in accepted
    /\ \A w \in Workers : pc[w] # "idle" => cur[w][1] \in accepted
    /\ \A q \in publishing : Vouched(q)
    /\ \A p \in Partitions : \A o \in DOMAIN log[p] :
          log[p][o] # Gone => Vouched(log[p][o]) /\ PartitionOf[log[p][o].id] = p
    /\ msg # Gone => msg.id \in accepted

\* A record of the webhook is in the topic at offset n or later.
Logged(id, n) ==
    \E o \in DOMAIN log[PartitionOf[id]] :
        o >= n /\ log[PartitionOf[id]][o] # Gone /\ log[PartitionOf[id]][o].id = id

Documented(id) == Logged(id, 1) \/ \E q \in publishing : q.id = id
Queued(id)     == \E r \in inbox : r[1] = id
Held(id)       == \E w \in Workers : pc[w] # "idle" /\ cur[w][1] = id
Begun(id)      == \E w \in Workers :
                     pc[w] \in {"start", "deliver", "ensure", "schedule", "failed"} /\ cur[w][1] = id

\* Kafka knows every open webhook: it waits in howk.pending, a handler has it, or
\* it has a record in howk.state.  Once an attempt was begun the first is not
\* enough, for a second message of that attempt is dropped.
KafkaKnows(id) ==
    /\ Queued(id) \/ Held(id) \/ Documented(id)
    /\ (\E r \in processed : r[1] = id) => Begun(id) \/ Documented(id)

KafkaInv == \A id \in Open : KafkaKnows(id)

\* An attempt later than all, or than all others, that were begun since the
\* idempotency keys were last lost.
Fresh(r)  == \A q \in processed : q[1] = r[1] => q[2] < r[2]
Newest(r) == \A q \in processed : q[1] = r[1] => q[2] <= r[2]

\* The webhook has a message, a retry or a handler that is not going to be dropped
\* as a duplicate.
Carries(w, id) ==
    /\ cur[w][1] = id
    /\ \/ pc[w] = "check" /\ Fresh(cur[w])
       \/ pc[w] \in {"start", "deliver", "ensure"} /\ Newest(cur[w])
       \/ pc[w] = "schedule" /\ Newest(cur[w]) /\ id \in data

Alive(id) ==
    \/ \E r \in inbox : r[1] = id /\ Fresh(r)
    \/ id \in data /\ \E r \in zset : r[1] = id /\ Fresh(r)
    \/ \E w \in Workers : Carries(w, id)

AliveInv == canary => \A id \in Open : Alive(id)

\* The reconciler is to read every partition, and past the flush it has restored an
\* open webhook or has yet to read a record of it, unless the webhook waits in
\* howk.pending anyway.
Restored(id) == id \in data /\ \E r \in zset : r[1] = id

Later(id) == \E i \in DOMAIN todo : i > 1 /\ todo[i] = PartitionOf[id]

ToRead(id) ==
    \/ rpc = "partition" /\ \E i \in DOMAIN todo : todo[i] = PartitionOf[id]
    \/ rpc # "partition" /\ Later(id)
    \/ rpc = "consume" /\ PartitionOf[id] = Head(todo) /\ Logged(id, pos)
    \/ rpc \in {"restoreData", "restoreZset"} /\
          (msg.id = id \/ (PartitionOf[id] = Head(todo) /\ Logged(id, pos + 1)))

Flushing  == {"status", "queue", "data", "processed", "flushed"}
Replaying == {"partition", "consume", "restoreData", "restoreZset"}

RebuildInv ==
    /\ rpc \in Flushing => \A p \in Partitions : \E i \in DOMAIN todo : todo[i] = p
    /\ rpc = "flushed" /\ ~failed => processed = {}
    /\ rpc \in Replaying =>
        /\ processed = {}
        /\ rpc # "partition" => hwm = Len(log[Head(todo)])
        /\ rpc = "restoreZset" => msg.id \in data
        /\ \A id \in Open : Queued(id) \/ Restored(id) \/ ToRead(id)

LossInv == PhaseInv /\ KnownInv /\ KafkaInv /\ AliveInv /\ RebuildInv

\* Time only adds: a webhook stays accepted and settled, and only Enqueue opens one.
LEMMA HistoryKept ==
    ASSUME TypeInv, [Next]_vars
    PROVE  /\ accepted \subseteq accepted'
           /\ \A i \in Webhooks : outcome[i] # "none" => outcome'[i] # "none"
           /\ \A id \in Open' : id \in Open \/ (id \in Webhooks /\ Enqueue(id))
<1> USE DEF topicVars, redisVars, queueVars, workerVars, runVars, historyVars, unchangedOutside
<1>0. outcome \in [Webhooks -> {"none", "delivered", "exhausted"}] /\ accepted \subseteq Webhooks
  BY DEF TypeInv, TypeOK
<1>1. CASE UNCHANGED <<accepted, outcome>>
  BY <1>1 DEF Open
<1>2. ASSUME NEW id \in Webhooks, Enqueue(id) PROVE accepted' = accepted \cup {id} /\ UNCHANGED outcome
  BY <1>2 DEF Enqueue
<1>3. ASSUME NEW w \in Workers, Deliver(w)
      PROVE  UNCHANGED accepted /\ \A i \in Webhooks : outcome[i] # "none" => outcome'[i] # "none"
  BY <1>0, <1>3 DEF Deliver
<1>4. ASSUME NEW w \in Workers, HandlerStep(w)
      PROVE  Deliver(w) \/ UNCHANGED <<accepted, outcome>>
  BY <1>4 DEF HandlerStep, CheckProcessed, ScheduleForCircuit, StartDelivery, EnsureRetryData, ScheduleRetry,
              UpdateFailed, UpdateSettled, CleanupRetryData, Nack
<1>5. CASE Run \/ ReconcilerStep \/ Die \/ Stop \/ LoseRedis \/ Start
  <2>1. UNCHANGED <<accepted, outcome>>
    BY <1>5 DEF Run, ReconcilerStep, Die, Flush, Flushed, ConsumePartition, SkipMessage, RestoreStatus, RestoreData,
                RestoreZset, Complete, Stop, LoseRedis, Start
  <2> QED
    BY <1>1, <2>1
<1>6. CASE \/ \E id \in Webhooks : InitialStatus(id)
           \/ \E r \in zset : Reschedule(r)
           \/ \E w \in Workers : \E r \in inbox : Receive(w, r)
           \/ \E r \in publishing : PublishState(r)
           \/ \E p \in Partitions : \E o \in DOMAIN log[p] : Compact(p, o)
           \/ UNCHANGED vars
  <2>1. UNCHANGED <<accepted, outcome>>
    BY <1>6 DEF InitialStatus, Reschedule, Receive, PublishState, Compact, vars
  <2> QED
    BY <1>1, <2>1
<1>7. ASSUME NEW id \in Webhooks, Enqueue(id)
      PROVE  /\ accepted \subseteq accepted'
             /\ \A i \in Webhooks : outcome[i] # "none" => outcome'[i] # "none"
             /\ \A i \in Open' : i \in Open \/ (i \in Webhooks /\ Enqueue(i))
  BY <1>2, <1>7 DEF Open
<1>8. ASSUME NEW w \in Workers, HandlerStep(w)
      PROVE  /\ accepted \subseteq accepted'
             /\ \A i \in Webhooks : outcome[i] # "none" => outcome'[i] # "none"
             /\ \A i \in Open' : i \in Open
  <2>1. UNCHANGED accepted /\ \A i \in Webhooks : outcome[i] # "none" => outcome'[i] # "none"
    BY <1>3, <1>4, <1>8
  <2>2. \A i \in Open' : i \in Webhooks /\ i \in accepted /\ outcome'[i] = "none"
    BY <1>0, <2>1 DEF Open
  <2> QED
    BY <2>1, <2>2 DEF Open
<1> QED
  BY <1>5, <1>6, <1>7, <1>8 DEF Next

\* Between Stop and Start no handler moves, no message is taken and no record is
\* written.
LEMMA Quiet ==
    ASSUME PhaseInv, stopped
    PROVE  /\ \A w \in Workers : ~HandlerStep(w) /\ \A r \in inbox : ~Receive(w, r)
           /\ \A r \in publishing : ~PublishState(r)
           /\ \A r \in zset : ~Reschedule(r)
           /\ \A w \in Workers : pc[w] = "idle"
BY DEF PhaseInv, HandlerStep, CheckProcessed, ScheduleForCircuit, StartDelivery, Deliver, EnsureRetryData, ScheduleRetry,
       UpdateFailed, UpdateSettled, CleanupRetryData, Nack, Receive, Reschedule

LEMMA PhaseStep ==
    ASSUME Faults \subseteq Recorded, TypeInv, PhaseInv, [Next]_vars
    PROVE  PhaseInv'
<1> USE DEF topicVars, redisVars, queueVars, workerVars, runVars, historyVars, unchangedOutside
<1>0. /\ "concurrent" \notin Faults /\ "schedule" \notin Faults /\ "canary" \notin Faults
      /\ WorkerT /\ RunT /\ canary \in BOOLEAN /\ HandlerInv
  BY TypeGroups DEF Recorded, Tolerated, TypeInv, RetryT
<1>1. \A w \in Workers : pc[w] # "idle" => cur[w][1] \in Webhooks
  BY <1>0, RefFields DEF WorkerT
<1>2. ASSUME UNCHANGED <<pc, cur, outcome>>
      PROVE  /\ \A w \in Workers : pc'[w] # "nack"
             /\ \A w \in Workers : pc'[w] = "cleanup" => outcome'[cur'[w][1]] # "none"
  BY <1>2 DEF PhaseInv
<1>3. ASSUME NEW w \in Workers, HandlerStep(w) PROVE PhaseInv'
  <2>1. ~stopped /\ canary /\ rpc = "off"
    BY <1>0, <1>3, Quiet DEF PhaseInv
  <2>2. UNCHANGED <<stopped, canary, rpc>>
    BY <1>3 DEF HandlerStep, CheckProcessed, ScheduleForCircuit, StartDelivery, Deliver, EnsureRetryData, ScheduleRetry,
                UpdateFailed, UpdateSettled, CleanupRetryData, Nack
  <2>3. \A v \in Workers : v # w => pc'[v] = pc[v] /\ cur'[v] = cur[v]
    BY <1>0, <1>3 DEF HandlerStep, CheckProcessed, ScheduleForCircuit, StartDelivery, Deliver, EnsureRetryData, ScheduleRetry,
             UpdateFailed, UpdateSettled, CleanupRetryData, Nack, Finish, Goto, WorkerT
  <2>4. pc'[w] # "nack" /\ (pc'[w] = "cleanup" => pc[w] = "settle" /\ UNCHANGED <<cur, outcome>>)
    BY <1>0, <1>3 DEF HandlerStep, CheckProcessed, ScheduleForCircuit, StartDelivery, Deliver, EnsureRetryData, ScheduleRetry,
             UpdateFailed, UpdateSettled, CleanupRetryData, Nack, Finish, Goto, WorkerT
  <2>5. \A i \in Webhooks : outcome[i] # "none" => outcome'[i] # "none"
    BY <1>3, HistoryKept DEF Next
  <2>6. \A v \in Workers : pc'[v] = "cleanup" => outcome'[cur'[v][1]] # "none"
    BY <1>0, <1>1, <2>3, <2>4, <2>5 DEF PhaseInv, HandlerInv
  <2> QED
    BY <2>1, <2>2, <2>3, <2>4, <2>6 DEF PhaseInv
<1>4. ASSUME NEW w \in Workers, NEW r \in inbox, Receive(w, r) PROVE PhaseInv'
  <2>1. ~stopped /\ canary /\ rpc = "off" /\ UNCHANGED <<stopped, canary, rpc, outcome>>
    BY <1>0, <1>4 DEF PhaseInv, Receive
  <2>2. pc'[w] = "check" /\ \A v \in Workers : v # w => pc'[v] = pc[v] /\ cur'[v] = cur[v]
    BY <1>0, <1>4 DEF Receive, Goto, WorkerT
  <2> QED
    BY <2>1, <2>2 DEF PhaseInv
<1>5. ASSUME NEW r \in publishing, PublishState(r) PROVE PhaseInv'
  <2>1. ~stopped /\ canary /\ rpc = "off" /\ UNCHANGED <<stopped, canary, rpc, outcome, pc, cur>>
    BY <1>0, <1>5 DEF PhaseInv, PublishState
  <2> QED
    BY <1>2, <2>1 DEF PhaseInv
<1>6. CASE \/ \E id \in Webhooks : Enqueue(id) \/ InitialStatus(id)
           \/ \E r \in zset : Reschedule(r)
           \/ \E p \in Partitions : \E o \in DOMAIN log[p] : Compact(p, o)
           \/ UNCHANGED vars
  <2>1. UNCHANGED <<stopped, canary, rpc, outcome, pc, cur, publishing>>
    BY <1>6 DEF Enqueue, InitialStatus, Reschedule, Compact, vars
  <2> QED
    BY <2>1 DEF PhaseInv
<1>7. CASE Stop \/ LoseRedis \/ Start
  BY <1>0, <1>2, <1>7 DEF Stop, LoseRedis, Start, PhaseInv
<1>8. CASE Run \/ ReconcilerStep \/ Die
  <2>1. UNCHANGED <<stopped, publishing, pc, cur, outcome>> /\ stopped
    BY <1>0, <1>8 DEF Run, ReconcilerStep, Die, Flush, Flushed, ConsumePartition, SkipMessage, RestoreStatus, RestoreData,
                RestoreZset, Complete, PhaseInv
  <2>2. rpc' # "off" => ~canary'
    BY <1>0, <1>8 DEF Run, ReconcilerStep, Die, Flush, Flushed, ConsumePartition, SkipMessage, RestoreStatus, RestoreData,
                RestoreZset, Complete, PhaseInv
  <2> QED
    BY <1>2, <2>1, <2>2 DEF PhaseInv
<1> QED
  BY <1>3, <1>4, <1>5, <1>6, <1>7, <1>8 DEF Next
\* A published record is appended to the partition of its webhook.
LEMMA Published ==
    ASSUME TypeInv, Faults \subseteq Recorded, NEW r \in publishing, PublishState(r)
    PROVE  \E q \in Record :
             /\ q.id = r.id /\ q.kind = r.kind /\ q.att = r.att
             /\ log' = [log EXCEPT ![PartitionOf[r.id]] = Append(@, q)]
<1>1. "publish" \notin Faults
  BY DEF Recorded, Tolerated
<1>2. PICK ts \in r.ts .. (IF "reorder" \in Faults THEN clock ELSE r.ts) :
         log' = [log EXCEPT ![PartitionOf[r.id]] = Append(@, [r EXCEPT !.ts = ts])]
  BY <1>1 DEF PublishState
<1>3. r \in Record /\ r.ts \in Stamps /\ clock \in Stamps
  BY RecordFields DEF TypeInv, TypeOK
<1>4. ts \in Stamps
  BY <1>2, <1>3, ConstantsAssumption DEF Stamps
<1>5. PICK q : q = [r EXCEPT !.ts = ts]
  OBVIOUS
<1>6. q \in Record /\ q.id = r.id /\ q.kind = r.kind /\ q.att = r.att
  BY <1>3, <1>4, <1>5 DEF Record
<1> QED
  BY <1>2, <1>5, <1>6

\* A record that is appended is in the log.
LEMMA AppendedLast ==
    ASSUME LogT, NEW p \in Partitions, NEW q \in Record, log' = [log EXCEPT ![p] = Append(@, q)]
    PROVE  \E o \in DOMAIN log'[p] : o >= 1 /\ log'[p][o] = q
<1>1. PICK s \in Seq(Record \cup {Gone}) : s = log[p]
  BY DEF LogT
<1>2. /\ Append(s, q) \in Seq(Record \cup {Gone})
      /\ Len(Append(s, q)) = Len(s) + 1 /\ Append(s, q)[Len(s) + 1] = q
  BY AppendProperties
<1>3. DOMAIN Append(s, q) = 1 .. Len(s) + 1 /\ Len(s) \in Nat
  BY <1>2, LenProperties
<1>4. log'[p] = Append(s, q)
  BY <1>1 DEF LogT
<1> QED
  BY <1>2, <1>3, <1>4

\* What an append changes.
LEMMA Appended ==
    ASSUME LogT, NEW p \in Partitions, NEW q \in Record, log' = [log EXCEPT ![p] = Append(@, q)]
    PROVE  /\ \A x \in Partitions : \A o \in DOMAIN log[x] : o \in DOMAIN log'[x] /\ log'[x][o] = log[x][o]
           /\ \A x \in Partitions : \A o \in DOMAIN log'[x] :
                 (o \in DOMAIN log[x] /\ log'[x][o] = log[x][o]) \/ (x = p /\ log'[x][o] = q)
           /\ \E o \in DOMAIN log'[p] : o >= 1 /\ log'[p][o] = q
<1>1. log \in [Partitions -> Seq(Record \cup {Gone})]
  BY DEF LogT
<1>2. PICK s \in Seq(Record \cup {Gone}) : s = log[p]
  BY <1>1
<1>3. /\ Append(s, q) \in Seq(Record \cup {Gone})
      /\ Len(Append(s, q)) = Len(s) + 1 /\ Append(s, q)[Len(s) + 1] = q
      /\ \A i \in 1 .. Len(s) : Append(s, q)[i] = s[i]
  BY AppendProperties
<1>4. DOMAIN s = 1 .. Len(s) /\ DOMAIN Append(s, q) = 1 .. Len(s) + 1 /\ Len(s) \in Nat
  BY <1>3, LenProperties
<1>5. log'[p] = Append(s, q) /\ \A x \in Partitions : x # p => log'[x] = log[x]
  BY <1>1, <1>2
<1>6. \A o \in DOMAIN log[p] : o \in DOMAIN log'[p] /\ log'[p][o] = log[p][o]
  BY <1>2, <1>3, <1>4, <1>5
<1>7. \A o \in DOMAIN log'[p] : (o \in DOMAIN log[p] /\ log'[p][o] = log[p][o]) \/ log'[p][o] = q
  BY <1>2, <1>3, <1>4, <1>5
<1>8. \E o \in DOMAIN log'[p] : o >= 1 /\ log'[p][o] = q
  BY AppendedLast
<1> QED
  BY <1>5, <1>6, <1>7, <1>8

\* What compaction changes.
LEMMA Compacted ==
    ASSUME LogT, NEW p \in Partitions, NEW o \in DOMAIN log[p], Compact(p, o)
    PROVE  /\ o \in 1 .. Len(log[p]) /\ log'[p][o] = Gone
           /\ \A x \in Partitions : /\ Len(log'[x]) = Len(log[x]) /\ DOMAIN log'[x] = DOMAIN log[x]
                                    /\ DOMAIN log[x] = 1 .. Len(log[x])
           /\ \A x \in Partitions : \A n \in DOMAIN log[x] : (x = p /\ n = o) \/ log'[x][n] = log[x][n]
<1>1. log \in [Partitions -> Seq(Record \cup {Gone})]
  BY DEF LogT
<1>2. PICK s \in Seq(Record \cup {Gone}) : s = log[p]
  BY <1>1
<1>3. DOMAIN s = 1 .. Len(s) /\ Len(s) \in Nat
  BY LenProperties
<1>4. PICK t : t = [s EXCEPT ![o] = Gone]
  OBVIOUS
<1>5. t \in Seq(Record \cup {Gone}) /\ Len(t) = Len(s) /\ DOMAIN t = DOMAIN s
  <2>1. o \in 1 .. Len(s)
    BY <1>2, <1>3
  <2> QED
    BY <1>3, <1>4, <2>1, ExceptSeq
<1>6. t[o] = Gone /\ \A n \in DOMAIN s : n # o => t[n] = s[n]
  BY <1>2, <1>4
<1>7. log' = [log EXCEPT ![p] = t]
  BY <1>2, <1>4 DEF Compact
<1>8. log'[p] = t /\ \A x \in Partitions : x # p => log'[x] = log[x]
  BY <1>1, <1>7
<1>9. \A x \in Partitions : DOMAIN log[x] = 1 .. Len(log[x])
  BY <1>1, LenProperties
<1> QED
  BY <1>2, <1>3, <1>5, <1>6, <1>8, <1>9

LEMMA VouchedKept ==
    ASSUME TypeInv, [Next]_vars, NEW q \in Record, Vouched(q)
    PROVE  Vouched(q)'
<1>1. q.id \in Webhooks
  BY RecordFields
<1> QED
  BY <1>1, HistoryKept DEF Vouched

\* KnownInv after a step that adds no record to the topic.
LEMMA KnownFrom ==
    ASSUME TypeInv, KnownInv, [Next]_vars,
           \A r \in inbox' \cup zset' \cup processed' : r[1] \in accepted',
           \A w \in Workers : pc'[w] # "idle" => cur'[w][1] \in accepted',
           \A q \in publishing' : q \in publishing \/ Vouched(q)',
           \A p \in Partitions : \A o \in DOMAIN log'[p] :
              log'[p][o] # Gone => o \in DOMAIN log[p] /\ log'[p][o] = log[p][o],
           msg' # Gone => msg'.id \in accepted'
    PROVE  KnownInv'
<1>1. \A q \in publishing' : Vouched(q)'
  <2>1. publishing \subseteq Record
    BY DEF TypeInv, TypeOK
  <2> QED
    BY <2>1, VouchedKept DEF KnownInv
<1>2. ASSUME NEW p \in Partitions, NEW o \in DOMAIN log'[p], log'[p][o] # Gone
      PROVE  Vouched(log[p][o])' /\ PartitionOf[log'[p][o].id] = p
  <2>1. PICK q : q = log[p][o]
    OBVIOUS
  <2>2. q = log'[p][o] /\ q # Gone /\ o \in DOMAIN log[p]
    BY <1>2, <2>1
  <2>3. q \in Record
    BY <2>1, <2>2, StampTypes DEF TypeInv
  <2>4. Vouched(q) /\ PartitionOf[q.id] = p
    BY <2>1, <2>2 DEF KnownInv
  <2>5. Vouched(q)'
    BY <2>3, <2>4, VouchedKept
  <2> QED
    BY <2>2, <2>4, <2>5 DEF Vouched
<1> QED
  BY <1>1, <1>2 DEF KnownInv

LEMMA KnownStep ==
    ASSUME Faults \subseteq Recorded, TypeInv, PhaseInv, KnownInv, [Next]_vars
    PROVE  KnownInv'
<1> USE DEF topicVars, redisVars, queueVars, workerVars, runVars, historyVars, unchangedOutside
<1>0. /\ "schedule" \notin Faults /\ "circuit" \notin Faults
      /\ LogT /\ QueueT /\ RetryT /\ WorkerT /\ RunT /\ HistoryT /\ HandlerInv /\ TypeOK
  BY TypeGroups DEF Recorded, Tolerated, TypeInv
<1>1. accepted \subseteq accepted'
  BY HistoryKept
<1>2. /\ \A r \in inbox \cup zset \cup processed : r[1] \in accepted'
      /\ \A w \in Workers : pc[w] # "idle" => cur[w][1] \in accepted'
      /\ msg # Gone => msg.id \in accepted'
  BY <1>1 DEF KnownInv
<1>3. ASSUME NEW id \in Webhooks, Enqueue(id) PROVE KnownInv'
  <2>1. /\ inbox' = inbox \cup {<<id, 0>>} /\ id \in accepted'
        /\ UNCHANGED <<zset, processed, pc, cur, publishing, log, msg>>
    BY <1>3 DEF Enqueue
  <2>2. <<id, 0>>[1] = id
    OBVIOUS
  <2> QED
    BY <1>2, <2>1, <2>2, KnownFrom
<1>4. CASE \/ \E id \in Webhooks : InitialStatus(id)
           \/ \E r \in zset : Reschedule(r)
           \/ Stop \/ LoseRedis \/ Start \/ UNCHANGED vars
  <2>1. /\ inbox' \cup zset' \cup processed' \subseteq inbox \cup zset \cup processed
        /\ UNCHANGED <<pc, cur, publishing, log, msg>>
    BY <1>4 DEF InitialStatus, Reschedule, Stop, LoseRedis, Start, vars
  <2> QED
    BY <1>2, <2>1, KnownFrom
<1>5. ASSUME NEW w \in Workers, NEW r \in inbox, Receive(w, r) PROVE KnownInv'
  <2>1. /\ inbox' \subseteq inbox /\ cur'[w] = r
        /\ \A v \in Workers : v # w => pc'[v] = pc[v] /\ cur'[v] = cur[v]
        /\ UNCHANGED <<zset, processed, publishing, log, msg>>
    BY <1>0, <1>5 DEF Receive, Goto, WorkerT
  <2> QED
    BY <1>2, <2>1, KnownFrom
<1>6. ASSUME NEW w \in Workers, HandlerStep(w) PROVE KnownInv'
  <2>1. pc[w] # "idle"
    BY <1>6 DEF HandlerStep, CheckProcessed, ScheduleForCircuit, StartDelivery, Deliver, EnsureRetryData, ScheduleRetry,
         UpdateFailed, UpdateSettled, CleanupRetryData, Nack
  <2>2. Id(w) \in Webhooks /\ Id(w) \in accepted' /\ cur[w][1] = Id(w)
    BY <1>0, <1>2, <2>1, Handled DEF Id
  <2>3. /\ \A v \in Workers : v # w => pc'[v] = pc[v] /\ cur'[v] = cur[v]
        /\ pc'[w] = "idle" \/ cur'[w] = cur[w]
        /\ UNCHANGED <<log, msg>>
    BY <1>0, <1>6 DEF HandlerStep, CheckProcessed, ScheduleForCircuit, StartDelivery, Deliver, EnsureRetryData, ScheduleRetry,
         UpdateFailed, UpdateSettled, CleanupRetryData, Nack, Finish, Goto, WorkerT
  <2>4. \A r \in inbox' \cup zset' \cup processed' :
           r \in inbox \cup zset \cup processed \/ r = cur[w] \/ r = <<Id(w), Att(w) + 1>>
    BY <1>0, <1>6 DEF HandlerStep, CheckProcessed, ScheduleForCircuit, StartDelivery, Deliver, EnsureRetryData, ScheduleRetry,
         UpdateFailed, UpdateSettled, CleanupRetryData, Nack
  <2>5. <<Id(w), Att(w) + 1>>[1] = Id(w)
    OBVIOUS
  <2>6. \A q \in publishing' : q \in publishing \/ Vouched(q)'
    <3>1. CASE UpdateFailed(w)
      <4>1. PICK n : n = [id |-> Id(w), kind |-> "snapshot", att |-> Att(w) + 1, ts |-> Now]
        OBVIOUS
      <4>2. n.id = Id(w) /\ n.kind = "snapshot"
        BY <4>1
      <4>3. publishing' = publishing \cup {n}
        BY <3>1, <4>1 DEF UpdateFailed, Spawn
      <4> QED
        BY <2>2, <4>2, <4>3 DEF Vouched
    <3>2. CASE UpdateSettled(w)
      <4>1. PICK n : n = [id |-> Id(w), kind |-> "tombstone", att |-> 0, ts |-> Now]
        OBVIOUS
      <4>2. n.id = Id(w)
        BY <4>1
      <4>3. publishing' = publishing \cup {n} /\ UNCHANGED outcome
        BY <3>2, <4>1 DEF UpdateSettled, Spawn
      <4>4. outcome[Id(w)] # "none"
        BY <1>0, <3>2 DEF UpdateSettled, HandlerInv, Id
      <4> QED
        BY <2>2, <4>2, <4>3, <4>4 DEF Vouched
    <3>3. CASE ~UpdateFailed(w) /\ ~UpdateSettled(w)
      BY <1>6, <3>3 DEF HandlerStep, CheckProcessed, ScheduleForCircuit, StartDelivery, Deliver, EnsureRetryData, ScheduleRetry,
                        CleanupRetryData, Nack
    <3> QED
      BY <3>1, <3>2, <3>3
  <2> QED
    BY <1>2, <2>1, <2>2, <2>3, <2>4, <2>5, <2>6, KnownFrom
<1>7. ASSUME NEW r \in publishing, PublishState(r) PROVE KnownInv'
  <2>1. PICK q \in Record : /\ q.id = r.id /\ q.kind = r.kind /\ q.att = r.att
                            /\ log' = [log EXCEPT ![PartitionOf[r.id]] = Append(@, q)]
    BY <1>7, Published
  <2>2. PartitionOf[r.id] \in Partitions
    BY <2>1, RecordFields, ConstantsAssumption
  <2>3. \A x \in Partitions : \A o \in DOMAIN log'[x] :
           (o \in DOMAIN log[x] /\ log'[x][o] = log[x][o]) \/ (x = PartitionOf[r.id] /\ log'[x][o] = q)
    BY <1>0, <2>1, <2>2, Appended
  <2>4. Vouched(q)
    BY <2>1 DEF KnownInv, Vouched
  <2>5. ASSUME NEW p \in Partitions, NEW o \in DOMAIN log'[p], log'[p][o] # Gone
        PROVE  Vouched(log[p][o])' /\ PartitionOf[log'[p][o].id] = p
    <3>1. PICK s \in Record : s = log'[p][o] /\ Vouched(s) /\ PartitionOf[s.id] = p
      BY <2>1, <2>3, <2>4, <2>5, <1>0, StampTypes DEF KnownInv
    <3>2. Vouched(s)'
      BY <3>1, VouchedKept
    <3> QED
      BY <3>1, <3>2 DEF Vouched
  <2>6. publishing' \subseteq publishing /\ UNCHANGED <<inbox, zset, processed, pc, cur, msg>>
    BY <1>7 DEF PublishState
  <2>7. \A s \in publishing' : Vouched(s)'
    <3>1. publishing \subseteq Record
      BY <1>0 DEF LogT
    <3> QED
      BY <2>6, <3>1, VouchedKept DEF KnownInv
  <2> QED
    BY <1>2, <2>5, <2>6, <2>7 DEF KnownInv
<1>8. ASSUME NEW p \in Partitions, NEW o \in DOMAIN log[p], Compact(p, o) PROVE KnownInv'
  <2>1. UNCHANGED <<inbox, zset, processed, pc, cur, msg, publishing>>
    BY <1>8 DEF Compact
  <2>2. \A x \in Partitions : \A n \in DOMAIN log'[x] :
              log'[x][n] # Gone => n \in DOMAIN log[x] /\ log'[x][n] = log[x][n]
    BY <1>0, <1>8, Compacted
  <2> QED
    BY <1>2, <2>1, <2>2, KnownFrom
<1>9. CASE Run \/ ReconcilerStep \/ Die
  <2>1. UNCHANGED <<inbox, pc, cur, publishing, log>> /\ processed' \subseteq processed
    BY <1>9 DEF Run, ReconcilerStep, Die, Flush, Flushed, ConsumePartition, SkipMessage, RestoreStatus, RestoreData,
                RestoreZset, Complete
  <2>2. \A r \in zset' : r \in zset \/ (rpc = "restoreZset" /\ r = <<msg.id, msg.att>>)
    BY <1>9 DEF Run, ReconcilerStep, Die, Flush, Flushed, ConsumePartition, SkipMessage, RestoreStatus, RestoreData,
                RestoreZset, Complete
  <2>3. rpc = "restoreZset" => msg # Gone
    BY <1>0 DEF RunT
  <2>4. <<msg.id, msg.att>>[1] = msg.id
    OBVIOUS
  <2>5. msg' = Gone \/ msg' = msg \/ RestoreStatus
    BY <1>9 DEF Run, ReconcilerStep, Die, Flush, Flushed, ConsumePartition, SkipMessage, RestoreData,
                RestoreZset, Complete, NextPartition, Continue, EndOfBody
  <2>6. ASSUME RestoreStatus, msg' # Gone PROVE msg'.id \in accepted
    <3>1. Message \in Record /\ Head(todo) \in Partitions /\ Message # Gone
      BY <1>0, <2>6, MessageType DEF RestoreStatus
    <3>2. msg' = Message
      BY <2>6 DEF RestoreStatus, Continue
    <3>3. Vouched(Message)
      BY <3>1, <2>6 DEF KnownInv, Message, RestoreStatus
    <3> QED
      BY <3>2, <3>3 DEF Vouched
  <2> QED
    BY <1>1, <1>2, <2>1, <2>2, <2>3, <2>4, <2>5, <2>6, KnownFrom
<1> QED
  BY <1>3, <1>4, <1>5, <1>6, <1>7, <1>8, <1>9 DEF Next
\* Compaction never takes the last record of an open webhook.
LEMMA LoggedKept ==
    ASSUME Faults \subseteq Recorded, TypeInv, KnownInv, [Next]_vars, NEW id \in Open, NEW n \in Nat,
           Logged(id, n)
    PROVE  Logged(id, n)'
<1> USE DEF topicVars, redisVars, queueVars, workerVars, runVars, historyVars, unchangedOutside
<1>0. LogT /\ id \in Webhooks /\ PartitionOf[id] \in Partitions
  BY TypeGroups, ConstantsAssumption DEF TypeInv, HistoryT, Open
<1>1. PICK p \in Partitions : p = PartitionOf[id]
  BY <1>0
<1>2. PICK o \in DOMAIN log[p] : o >= n /\ log[p][o] # Gone /\ log[p][o].id = id
  BY <1>1 DEF Logged
<1>3. ASSUME NEW m \in DOMAIN log'[p], m >= n, log'[p][m] # Gone, log'[p][m].id = id PROVE Logged(id, n)'
  BY <1>1, <1>3 DEF Logged
<1>4. CASE UNCHANGED log
  BY <1>2, <1>3, <1>4
<1>5. ASSUME NEW r \in publishing, PublishState(r) PROVE Logged(id, n)'
  <2>1. PICK q \in Record : log' = [log EXCEPT ![PartitionOf[r.id]] = Append(@, q)]
    BY <1>5, Published
  <2>2. PartitionOf[r.id] \in Partitions
    BY <1>0, RecordFields, ConstantsAssumption DEF LogT
  <2>3. o \in DOMAIN log'[p] /\ log'[p][o] = log[p][o]
    BY <1>0, <1>2, <2>1, <2>2, Appended
  <2> QED
    BY <1>2, <1>3, <2>3
<1>6. ASSUME NEW x \in Partitions, NEW m \in DOMAIN log[x], Compact(x, m) PROVE Logged(id, n)'
  <2>1. /\ DOMAIN log'[p] = DOMAIN log[p] /\ DOMAIN log[p] = 1 .. Len(log[p])
        /\ \A k \in DOMAIN log[p] : (x = p /\ k = m) \/ log'[p][k] = log[p][k]
    BY <1>0, <1>6, Compacted
  <2>2. CASE x = p /\ m = o
    <3>1. log[p][o] \in Record
      BY <1>2, StampTypes DEF TypeInv
    <3>2. ~SpentTombstone(p, o)
      <4>1. Vouched(log[p][o])
        BY <1>2 DEF KnownInv
      <4> QED
        BY <1>2, <4>1 DEF Vouched, Open, SpentTombstone
    <3>3. Superseded(p, o)
      BY <1>6, <2>2, <3>2 DEF Compact
    <3>4. PICK k \in o + 1 .. Len(log[p]) : log[p][k] # Gone /\ log[p][k].id = id
      BY <1>2, <3>3 DEF Superseded
    <3>5. Len(log[p]) \in Nat /\ o \in Nat
      BY <1>0, <2>1 DEF LogT
    <3>6. k \in DOMAIN log[p] /\ k # m /\ k >= n
      BY <1>2, <2>1, <2>2, <3>4, <3>5
    <3> QED
      BY <1>3, <2>1, <3>4, <3>6
  <2>3. CASE ~(x = p /\ m = o)
    BY <1>2, <1>3, <2>1, <2>3
  <2> QED
    BY <2>2, <2>3
<1>7. ASSUME NEW w \in Workers, HandlerStep(w) PROVE UNCHANGED log
  BY <1>7 DEF HandlerStep, CheckProcessed, ScheduleForCircuit, StartDelivery, Deliver, EnsureRetryData, ScheduleRetry,
         UpdateFailed, UpdateSettled, CleanupRetryData, Nack
<1>8. CASE Run \/ ReconcilerStep \/ Die \/ Stop \/ LoseRedis \/ Start \/ UNCHANGED vars
  <2>1. UNCHANGED log
    BY <1>8 DEF Run, ReconcilerStep, Die, Flush, Flushed, ConsumePartition, SkipMessage, RestoreStatus, RestoreData,
                RestoreZset, Complete, Stop, LoseRedis, Start, vars
  <2> QED
    BY <1>4, <2>1
<1>9. CASE \/ \E i \in Webhooks : Enqueue(i) \/ InitialStatus(i)
           \/ \E r \in zset : Reschedule(r)
           \/ \E w \in Workers : \E r \in inbox : Receive(w, r)
  <2>1. UNCHANGED log
    BY <1>9 DEF Enqueue, InitialStatus, Reschedule, Receive
  <2> QED
    BY <1>4, <2>1
<1> QED
  BY <1>4, <1>5, <1>6, <1>7, <1>8, <1>9 DEF Next

\* Steps that take nothing away from goroutines.
LEMMA PublishingKept ==
    ASSUME [Next]_vars
    PROVE  publishing \subseteq publishing' \/ \E r \in publishing : PublishState(r)
<1> USE DEF topicVars, redisVars, queueVars, workerVars, runVars, historyVars, unchangedOutside
<1>1. ASSUME NEW w \in Workers, HandlerStep(w) PROVE publishing \subseteq publishing'
  BY <1>1 DEF HandlerStep, CheckProcessed, ScheduleForCircuit, StartDelivery, Deliver, EnsureRetryData, ScheduleRetry,
         UpdateFailed, UpdateSettled, CleanupRetryData, Nack, Spawn
<1>2. CASE Run \/ ReconcilerStep \/ Die \/ Stop \/ LoseRedis \/ Start \/ UNCHANGED vars
  BY <1>2 DEF Run, ReconcilerStep, Die, Flush, Flushed, ConsumePartition, SkipMessage, RestoreStatus, RestoreData,
              RestoreZset, Complete, Stop, LoseRedis, Start, vars
<1>3. CASE \/ \E i \in Webhooks : Enqueue(i) \/ InitialStatus(i)
           \/ \E r \in zset : Reschedule(r)
           \/ \E w \in Workers : \E r \in inbox : Receive(w, r)
           \/ \E p \in Partitions : \E o \in DOMAIN log[p] : Compact(p, o)
  BY <1>3 DEF Enqueue, InitialStatus, Reschedule, Receive, Compact
<1> QED
  BY <1>1, <1>2, <1>3 DEF Next

LEMMA DocumentedKept ==
    ASSUME Faults \subseteq Recorded, TypeInv, KnownInv, [Next]_vars, NEW id \in Open, Documented(id)
    PROVE  Documented(id)'
<1>1. CASE Logged(id, 1)
  BY <1>1, LoggedKept DEF Documented
<1>2. ASSUME NEW q \in publishing, q.id = id, publishing \subseteq publishing' PROVE Documented(id)'
  BY <1>2 DEF Documented
<1>3. ASSUME NEW q \in publishing, q.id = id, NEW r \in publishing, PublishState(r) PROVE Documented(id)'
  <2>1. CASE r = q
    <3>1. PICK n \in Record : n.id = id /\ log' = [log EXCEPT ![PartitionOf[id]] = Append(@, n)]
      BY <1>3, <2>1, Published
    <3>2. PartitionOf[id] \in Partitions /\ LogT
      BY <3>1, RecordFields, ConstantsAssumption, TypeGroups DEF TypeInv
    <3>3. PICK p \in Partitions : p = PartitionOf[id]
      BY <3>2
    <3>4. PICK o \in DOMAIN log'[p] : o >= 1 /\ log'[p][o] = n
      <4>1. log' = [log EXCEPT ![p] = Append(@, n)]
        BY <3>1, <3>3
      <4>2. LogT
        BY <3>2
      <4>3. \E o \in DOMAIN log'[p] : o >= 1 /\ log'[p][o] = n
        BY <4>1, <4>2, AppendedLast
      <4> QED
        BY <4>3
    <3>5. n # Gone
      BY RecordFields
    <3> QED
      BY <3>1, <3>3, <3>4, <3>5 DEF Documented, Logged
  <2>2. CASE r # q
    <3>1. q \in publishing'
      BY <1>3, <2>2 DEF PublishState
    <3> QED
      BY <1>3, <3>1 DEF Documented
  <2> QED
    BY <2>1, <2>2
<1> QED
  BY <1>1, <1>2, <1>3, PublishingKept DEF Documented

LEMMA KafkaStep ==
    ASSUME Faults \subseteq Recorded, TypeInv, PhaseInv, KnownInv, KafkaInv, [Next]_vars
    PROVE  KafkaInv'
<1> USE DEF topicVars, redisVars, queueVars, workerVars, runVars, historyVars, unchangedOutside
<1>0. /\ "schedule" \notin Faults /\ "circuit" \notin Faults
      /\ WorkerT /\ HistoryT /\ HandlerInv /\ TypeOK
  BY TypeGroups DEF Recorded, Tolerated, TypeInv
<1>1. ASSUME NEW id \in Open', id \notin Open PROVE KafkaKnows(id)'
  <2>1. id \in Webhooks /\ Enqueue(id)
    BY <1>1, HistoryKept
  <2>2. inbox' = inbox \cup {<<id, 0>>} /\ UNCHANGED processed /\ id \notin accepted
    BY <2>1 DEF Enqueue
  <2>3. Queued(id)'
    <3>1. <<id, 0>> \in inbox' /\ <<id, 0>>[1] = id
      BY <2>2
    <3> QED
      BY <3>1 DEF Queued
  <2>4. \A r \in processed' : r[1] # id
    BY <2>2 DEF KnownInv
  <2> QED
    BY <2>3, <2>4 DEF KafkaKnows
<1>2. ASSUME NEW id \in Open, Documented(id) PROVE KafkaKnows(id)'
  BY <1>2, DocumentedKept DEF KafkaKnows
<1>3. ASSUME NEW id \in Open, ~Documented(id), inbox \subseteq inbox', UNCHANGED <<pc, cur>>,
             processed' \subseteq processed
      PROVE  KafkaKnows(id)'
  <2>1. KafkaKnows(id)
    BY DEF KafkaInv
  <2>2. (Queued(id) \/ Held(id)) /\ ((\E r \in processed : r[1] = id) => Begun(id))
    BY <1>3, <2>1 DEF KafkaKnows
  <2>3. (Queued(id) => Queued(id)') /\ (Held(id) => Held(id)') /\ (Begun(id) => Begun(id)')
    BY <1>3 DEF Queued, Held, Begun
  <2> QED
    BY <1>3, <2>2, <2>3 DEF KafkaKnows
<1>4. CASE \/ \E id \in Webhooks : Enqueue(id) \/ InitialStatus(id)
           \/ \E r \in zset : Reschedule(r)
           \/ \E r \in publishing : PublishState(r)
           \/ \E p \in Partitions : \E o \in DOMAIN log[p] : Compact(p, o)
           \/ Stop \/ LoseRedis \/ Start \/ UNCHANGED vars
  <2>1. inbox \subseteq inbox' /\ UNCHANGED <<pc, cur>> /\ processed' \subseteq processed
    BY <1>4 DEF Enqueue, InitialStatus, Reschedule, PublishState, Compact, Stop, LoseRedis, Start, vars
  <2> QED
    BY <1>1, <1>2, <1>3, <2>1 DEF KafkaInv
<1>5. CASE Run \/ ReconcilerStep \/ Die
  <2>1. inbox \subseteq inbox' /\ UNCHANGED <<pc, cur>> /\ processed' \subseteq processed
    BY <1>5 DEF Run, ReconcilerStep, Die, Flush, Flushed, ConsumePartition, SkipMessage, RestoreStatus, RestoreData,
                RestoreZset, Complete
  <2> QED
    BY <1>1, <1>2, <1>3, <2>1 DEF KafkaInv
<1>6. ASSUME NEW w \in Workers, NEW r \in inbox, Receive(w, r), NEW id \in Open, ~Documented(id)
      PROVE  KafkaKnows(id)'
  <2>1. KafkaKnows(id)
    BY DEF KafkaInv
  <2>2. (Queued(id) \/ Held(id)) /\ ((\E q \in processed : q[1] = id) => Begun(id))
    BY <1>6, <2>1 DEF KafkaKnows
  <2>3. /\ pc[w] = "idle" /\ pc'[w] = "check" /\ cur'[w] = r
        /\ \A v \in Workers : v # w => pc'[v] = pc[v] /\ cur'[v] = cur[v]
        /\ inbox' = inbox \ {r} /\ UNCHANGED processed
    BY <1>0, <1>6 DEF Receive, Goto, WorkerT
  <2>4. Queued(id) => Queued(id)' \/ Held(id)'
    BY <2>3 DEF Queued, Held
  <2>5. (Held(id) => Held(id)') /\ (Begun(id) => Begun(id)')
    BY <2>3 DEF Held, Begun
  <2> QED
    BY <2>2, <2>3, <2>4, <2>5 DEF KafkaKnows
<1>7. ASSUME NEW w \in Workers, HandlerStep(w), NEW id \in Open, id \in Open', ~Documented(id)
      PROVE  KafkaKnows(id)'
  <2>0. pc[w] # "idle"
    BY <1>7 DEF HandlerStep, CheckProcessed, ScheduleForCircuit, StartDelivery, Deliver, EnsureRetryData, ScheduleRetry,
         UpdateFailed, UpdateSettled, CleanupRetryData, Nack
  <2>1. KafkaKnows(id)
    BY DEF KafkaInv
  <2>2. (Queued(id) \/ Held(id)) /\ ((\E q \in processed : q[1] = id) => Begun(id))
    BY <1>7, <2>1 DEF KafkaKnows
  <2>3. /\ \A v \in Workers : v # w => pc'[v] = pc[v] /\ cur'[v] = cur[v]
        /\ processed' \subseteq processed \cup {cur[w]}
    BY <1>0, <1>7 DEF HandlerStep, CheckProcessed, ScheduleForCircuit, StartDelivery, Deliver, EnsureRetryData, ScheduleRetry,
             UpdateFailed, UpdateSettled, CleanupRetryData, Nack, Finish, Goto, WorkerT
  <2>4. inbox \subseteq inbox'
    BY <1>7 DEF HandlerStep, CheckProcessed, ScheduleForCircuit, StartDelivery, Deliver, EnsureRetryData, ScheduleRetry,
             UpdateFailed, UpdateSettled, CleanupRetryData, Nack
  <2>5. CASE cur[w][1] # id
    <3>1. (Queued(id) => Queued(id)') /\ (Held(id) => Held(id)') /\ (Begun(id) => Begun(id)')
      BY <2>3, <2>4, <2>5 DEF Queued, Held, Begun
    <3>2. (\E q \in processed' : q[1] = id) => \E q \in processed : q[1] = id
      BY <2>3, <2>5
    <3> QED
      BY <2>2, <3>1, <3>2 DEF KafkaKnows
  <2>6. CASE cur[w][1] = id
    <3>1. CASE pc'[w] \in {"start", "deliver", "ensure", "schedule", "failed"} /\ cur'[w] = cur[w]
      <4>1. Begun(id)' /\ Held(id)'
        BY <2>6, <3>1 DEF Begun, Held
      <4> QED
        BY <4>1 DEF KafkaKnows
    <3>2. CASE pc[w] = "check" /\ cur[w] \in processed
      <4>1. PICK v \in Workers : /\ pc[v] \in {"start", "deliver", "ensure", "schedule", "failed"}
                                 /\ cur[v][1] = id
        BY <2>2, <2>6, <3>2 DEF Begun
      <4>2. v # w
        BY <3>2, <4>1
      <4>3. Begun(id)' /\ Held(id)'
        BY <2>3, <4>1, <4>2 DEF Begun, Held
      <4> QED
        BY <4>3 DEF KafkaKnows
    <3>3. CASE UpdateFailed(w)
      <4>1. PICK n : n = [id |-> Id(w), kind |-> "snapshot", att |-> Att(w) + 1, ts |-> Now]
        OBVIOUS
      <4>2. n.id = id
        BY <2>6, <4>1 DEF Id
      <4>3. n \in publishing'
        BY <3>3, <4>1 DEF UpdateFailed, Spawn
      <4> QED
        BY <4>2, <4>3 DEF KafkaKnows, Documented
    <3>4. outcome[id] = "none" /\ outcome'[id] = "none"
      BY <1>7 DEF Open
    <3>5. pc[w] \notin {"settle", "cleanup", "nack"}
      BY <1>0, <2>6, <3>4 DEF HandlerInv, PhaseInv
    <3>6. CASE Deliver(w)
      <4>1. pc'[w] = "ensure" \/ (pc'[w] = "settle" /\ outcome'[id] # "none")
        BY <1>0, <2>6, <3>6 DEF Deliver, Goto, WorkerT, HistoryT, Id, Open
      <4> QED
        BY <3>1, <3>4, <3>6, <4>1 DEF Deliver
    <3>7. CASE CheckProcessed(w) \/ StartDelivery(w) \/ EnsureRetryData(w) \/ ScheduleRetry(w)
      BY <1>0, <3>1, <3>2, <3>7 DEF CheckProcessed, StartDelivery, EnsureRetryData, ScheduleRetry, Goto, WorkerT
    <3> QED
      BY <1>0, <1>7, <3>3, <3>5, <3>6, <3>7 DEF HandlerStep, ScheduleForCircuit, UpdateSettled, CleanupRetryData, Nack
  <2> QED
    BY <2>5, <2>6
<1> QED
  <2>1. \A id \in Open' : id \in Open \/ KafkaKnows(id)'
    BY <1>1
  <2>2. CASE \E w \in Workers : HandlerStep(w) \/ \E r \in inbox : Receive(w, r)
    BY <1>2, <1>6, <1>7, <2>1, <2>2 DEF KafkaInv
  <2> QED
    BY <1>4, <1>5, <2>2 DEF Next
\* A handler's step leaves a webhook alive that does not depend on this handler.
LEMMA AliveBeside ==
    ASSUME NEW id, NEW w \in Workers, Alive(id),
           \A v \in Workers : v # w => pc'[v] = pc[v] /\ cur'[v] = cur[v],
           inbox \subseteq inbox', zset \subseteq zset', id \in data => id \in data',
           \A q \in processed' : q[1] = id => q \in processed
    PROVE  Alive(id)' \/ Carries(w, id)
<1>1. ASSUME NEW r \in inbox, r[1] = id, Fresh(r) PROVE Alive(id)'
  BY <1>1 DEF Alive, Fresh
<1>2. ASSUME id \in data, NEW r \in zset, r[1] = id, Fresh(r) PROVE Alive(id)'
  BY <1>2 DEF Alive, Fresh
<1>3. ASSUME NEW v \in Workers, v # w, Carries(v, id) PROVE Alive(id)'
  <2>1. Carries(v, id)'
    BY <1>3 DEF Carries, Fresh, Newest
  <2> QED
    BY <2>1 DEF Alive
<1> QED
  BY <1>1, <1>2, <1>3 DEF Alive

\* An attempt that is begun becomes the newest, or leaves the newest one in place.
LEMMA Overtaken ==
    ASSUME NEW c \in Refs, NEW r \in Refs, c[1] = r[1], processed' = processed \cup {c}, processed \subseteq Refs
    PROVE  /\ Fresh(r) => Fresh(r)' \/ Newest(c)'
           /\ Newest(r) => Newest(r)' \/ Newest(c)'
<1>1. \A q \in Refs : q[2] \in Int
  BY RefFields, ConstantsAssumption DEF Attempts
<1>2. CASE c[2] < r[2]
  BY <1>1, <1>2 DEF Fresh, Newest
<1>3. CASE c[2] >= r[2]
  <2>1. Fresh(r) => Newest(c)'
    BY <1>1, <1>3 DEF Fresh, Newest
  <2>2. Newest(r) => Newest(c)'
    BY <1>1, <1>3 DEF Newest
  <2> QED
    BY <2>1, <2>2
<1> QED
  BY <1>1, <1>2, <1>3

\* A handler begins the attempt it has received.
LEMMA AliveBegins ==
    ASSUME TypeOK, NEW id, NEW w \in Workers, Alive(id), cur[w][1] = id, cur[w] \in Refs, pc'[w] = "start",
           pc[w] = "check", UNCHANGED <<cur, inbox, zset, data>>, processed' = processed \cup {cur[w]},
           \A v \in Workers : v # w => pc'[v] = pc[v]
    PROVE  Alive(id)'
<1>0. inbox \subseteq Refs /\ zset \subseteq Refs /\ processed \subseteq Refs
  BY DEF TypeOK
<1>1. SUFFICES ASSUME ~Newest(cur[w])' PROVE Alive(id)'
  BY DEF Alive, Carries
<1>2. PICK c \in Refs : c = cur[w] /\ c[1] = id
  OBVIOUS
<1>3. ~Newest(c)'
  BY <1>1, <1>2 DEF Newest
<1>4. ASSUME NEW r \in Refs, r[1] = id PROVE (Fresh(r) => Fresh(r)') /\ (Newest(r) => Newest(r)')
  BY <1>0, <1>2, <1>3, <1>4, Overtaken
<1>5. ASSUME NEW r \in inbox, r[1] = id, Fresh(r) PROVE Alive(id)'
  BY <1>0, <1>4, <1>5 DEF Alive
<1>6. ASSUME id \in data, NEW r \in zset, r[1] = id, Fresh(r) PROVE Alive(id)'
  BY <1>0, <1>4, <1>6 DEF Alive
<1>7. ASSUME NEW v \in Workers, Carries(v, id) PROVE Alive(id)'
  <2>1. PICK r : r = cur[v]
    OBVIOUS
  <2>2. r \in Refs /\ r[1] = id
    BY <1>7, <2>1 DEF Carries, TypeOK
  <2>3. CASE v = w
    <3>1. Fresh(r) /\ r = c
      BY <1>2, <1>7, <2>1, <2>3 DEF Carries
    <3>2. Newest(c)'
      <4>1. \A q \in Refs : q[2] \in Int
        BY RefFields, ConstantsAssumption DEF Attempts
      <4> QED
        BY <1>0, <1>2, <3>1, <4>1 DEF Fresh, Newest
    <3> QED
      BY <1>3, <3>2
  <2>4. CASE v # w
    <3>1. (Fresh(r) => Fresh(r)') /\ (Newest(r) => Newest(r)')
      BY <1>4, <2>2
    <3>2. (Fresh(cur[v]) => Fresh(cur[v])') /\ (Newest(cur[v]) => Newest(cur[v])')
      BY <2>1, <3>1 DEF Fresh, Newest
    <3>3. Carries(v, id)'
      BY <1>7, <2>4, <3>2 DEF Carries
    <3> QED
      BY <3>3 DEF Alive
  <2> QED
    BY <2>3, <2>4
<1> QED
  BY <1>5, <1>6, <1>7 DEF Alive

LEMMA AliveHandler ==
    ASSUME Faults \subseteq Recorded, TypeInv, PhaseInv, NEW w \in Workers, HandlerStep(w),
           NEW id \in Open, id \in Open', Alive(id)
    PROVE  Alive(id)'
<1> USE DEF topicVars, redisVars, queueVars, workerVars, runVars, historyVars
<1>0. /\ "schedule" \notin Faults /\ "circuit" \notin Faults
      /\ WorkerT /\ HistoryT /\ RetryT /\ HandlerInv /\ TypeOK
  BY TypeGroups DEF Recorded, Tolerated, TypeInv
<1>1. pc[w] # "idle"
  BY DEF HandlerStep, CheckProcessed, ScheduleForCircuit, StartDelivery, Deliver, EnsureRetryData, ScheduleRetry,
         UpdateFailed, UpdateSettled, CleanupRetryData, Nack
<1>2. Id(w) \in Webhooks /\ Att(w) \in Attempts /\ cur[w] = <<Id(w), Att(w)>> /\ cur[w] \in Refs
  BY <1>0, <1>1, Handled
<1>3. /\ \A v \in Workers : v # w => pc'[v] = pc[v] /\ cur'[v] = cur[v]
      /\ inbox \subseteq inbox' /\ zset \subseteq zset'
      /\ processed' \subseteq processed \cup {cur[w]}
      /\ data \ {Id(w)} \subseteq data'
  <2>1. \A v \in Workers : v # w => pc'[v] = pc[v] /\ cur'[v] = cur[v]
    BY <1>0 DEF HandlerStep, CheckProcessed, ScheduleForCircuit, StartDelivery, Deliver, EnsureRetryData, ScheduleRetry,
             UpdateFailed, UpdateSettled, CleanupRetryData, Nack, Finish, Goto, WorkerT
  <2>2. /\ inbox \subseteq inbox' /\ zset \subseteq zset'
        /\ processed' \subseteq processed \cup {cur[w]}
        /\ data \ {Id(w)} \subseteq data'
    BY DEF HandlerStep, CheckProcessed, ScheduleForCircuit, StartDelivery, Deliver, EnsureRetryData, ScheduleRetry,
             UpdateFailed, UpdateSettled, CleanupRetryData, Nack
  <2> QED
    BY <2>1, <2>2
<1>4. CASE cur[w][1] # id
  <2>1. id \in data => id \in data'
    BY <1>3, <1>4 DEF Id
  <2>2. \A q \in processed' : q[1] = id => q \in processed
    BY <1>3, <1>4
  <2> QED
    BY <1>3, <1>4, <2>1, <2>2, AliveBeside DEF Carries
<1>5. CASE cur[w][1] = id
  <2>1. outcome[id] = "none" /\ outcome'[id] = "none"
    BY DEF Open
  <2>2. pc[w] \notin {"settle", "cleanup", "nack"}
    BY <1>0, <1>5, <2>1 DEF HandlerInv, PhaseInv
  <2>3. CASE CheckProcessed(w)
    <3>1. CASE cur[w] \in processed
      <4>1. UNCHANGED <<processed, zset, data>> /\ pc[w] = "check"
        BY <2>3, <3>1 DEF CheckProcessed
      <4>2. cur[w][2] \in Int
        BY <1>2, ConstantsAssumption DEF Attempts, Att
      <4>3. ~Carries(w, id)
        BY <3>1, <4>1, <4>2 DEF Carries, Fresh
      <4> QED
        BY <1>3, <4>1, <4>3, AliveBeside
    <3>2. CASE cur[w] \notin processed
      <4>1. /\ processed' = processed \cup {cur[w]} /\ pc'[w] = "start" /\ pc[w] = "check"
            /\ UNCHANGED <<cur, inbox, zset, data>>
        BY <1>0, <2>3, <3>2 DEF CheckProcessed, Goto, WorkerT
      <4> QED
        BY <1>0, <1>2, <1>3, <1>5, <4>1, AliveBegins
    <3> QED
      BY <3>1, <3>2
  <2>4. CASE UpdateFailed(w)
    <3>1. UNCHANGED <<processed, zset, data, inbox>> /\ pc[w] = "failed"
      BY <2>4 DEF UpdateFailed
    <3> QED
      BY <1>3, <3>1, AliveBeside DEF Carries
  <2>5. CASE StartDelivery(w) \/ Deliver(w) \/ EnsureRetryData(w)
    <3>1. UNCHANGED <<processed, zset, inbox, cur>> /\ data \subseteq data'
      BY <2>5 DEF StartDelivery, Deliver, EnsureRetryData
    <3>2. \/ pc[w] = "start" /\ pc'[w] = "deliver"
          \/ pc[w] = "deliver" /\ pc'[w] = "ensure"
          \/ pc[w] = "ensure" /\ pc'[w] = "schedule" /\ id \in data'
      <4>1. CASE StartDelivery(w) \/ EnsureRetryData(w)
        BY <1>0, <1>5, <4>1 DEF StartDelivery, EnsureRetryData, Goto, WorkerT, Id
      <4>2. CASE Deliver(w)
        <5>1. pc[w] = "deliver" /\ (pc'[w] = "ensure" \/ (pc'[w] = "settle" /\ outcome'[id] # "none"))
          BY <1>0, <1>5, <2>1, <4>2 DEF Deliver, Goto, WorkerT, HistoryT, Id, Open
        <5> QED
          BY <2>1, <5>1
      <4> QED
        BY <2>5, <4>1, <4>2
    <3>3. Carries(w, id) => Carries(w, id)'
      BY <1>5, <3>1, <3>2 DEF Carries, Newest
    <3>4. Alive(id)' \/ Carries(w, id)
      BY <1>3, <3>1, AliveBeside
    <3> QED
      BY <3>3, <3>4 DEF Alive
  <2>6. CASE ScheduleRetry(w)
    <3>1. UNCHANGED <<processed, data, inbox>> /\ zset' = zset \cup {<<Id(w), Att(w) + 1>>} /\ pc[w] = "schedule"
      BY <1>0, <2>6 DEF ScheduleRetry
    <3>2. Alive(id)' \/ Carries(w, id)
      BY <1>3, <3>1, AliveBeside
    <3>3. ASSUME Carries(w, id) PROVE Alive(id)'
      <4>1. Newest(cur[w]) /\ id \in data
        BY <3>1, <3>3 DEF Carries
      <4>2. PICK r : r = <<Id(w), Att(w) + 1>>
        OBVIOUS
      <4>3. r[1] = id /\ r[2] = cur[w][2] + 1
        BY <1>5, <4>2 DEF Id, Att
      <4>4. \A q \in processed : q[2] \in Int
        BY <1>0, RefFields, ConstantsAssumption DEF RetryT, Attempts
      <4>5. cur[w][2] \in Int
        BY <1>2, ConstantsAssumption DEF Attempts, Att
      <4>6. Fresh(r)'
        BY <1>5, <3>1, <4>1, <4>3, <4>4, <4>5 DEF Fresh, Newest
      <4>7. r \in zset' /\ id \in data'
        BY <3>1, <4>1, <4>2
      <4> QED
        BY <4>3, <4>6, <4>7 DEF Alive
    <3> QED
      BY <3>2, <3>3
  <2> QED
    BY <1>0, <2>2, <2>3, <2>4, <2>5, <2>6 DEF HandlerStep, ScheduleForCircuit, UpdateSettled, CleanupRetryData, Nack
<1> QED
  BY <1>4, <1>5

LEMMA AliveStep ==
    ASSUME Faults \subseteq Recorded, TypeInv, PhaseInv, KnownInv, AliveInv, RebuildInv, [Next]_vars
    PROVE  AliveInv'
<1> USE DEF topicVars, redisVars, queueVars, workerVars, runVars, historyVars, unchangedOutside
<1>0. WorkerT /\ RetryT /\ RunT /\ "concurrent" \notin Faults /\ "canary" \notin Faults
  BY TypeGroups DEF TypeInv, Recorded, Tolerated
<1>1. ASSUME NEW id \in Open', id \notin Open PROVE Alive(id)'
  <2>1. id \in Webhooks /\ Enqueue(id)
    BY <1>1, HistoryKept
  <2>2. inbox' = inbox \cup {<<id, 0>>} /\ UNCHANGED processed /\ id \notin accepted
    BY <2>1 DEF Enqueue
  <2>3. \A r \in processed' : r[1] # id
    BY <2>2 DEF KnownInv
  <2>4. PICK r : r = <<id, 0>>
    OBVIOUS
  <2>5. r[1] = id /\ r \in inbox'
    BY <2>2, <2>4
  <2>6. Fresh(r)'
    BY <2>3, <2>5 DEF Fresh
  <2> QED
    BY <2>5, <2>6 DEF Alive
<1>2. ASSUME NEW id, Alive(id), UNCHANGED <<pc, cur, zset, data, processed>>, inbox \subseteq inbox'
      PROVE  Alive(id)'
  <2>1. \A w \in Workers : Carries(w, id) => Carries(w, id)'
    BY <1>2 DEF Carries, Fresh, Newest
  <2> QED
    BY <1>2, <2>1 DEF Alive, Fresh
<1>3. CASE \/ \E id \in Webhooks : Enqueue(id) \/ InitialStatus(id)
           \/ \E r \in publishing : PublishState(r)
           \/ \E p \in Partitions : \E o \in DOMAIN log[p] : Compact(p, o)
           \/ Stop \/ Start \/ UNCHANGED vars
  <2>1. UNCHANGED <<pc, cur, zset, data, processed, canary>> /\ inbox \subseteq inbox'
    BY <1>3 DEF Enqueue, InitialStatus, PublishState, Compact, Stop, Start, vars
  <2> QED
    BY <1>1, <1>2, <2>1 DEF AliveInv
<1>4. ASSUME NEW r \in zset, Reschedule(r), NEW id, Alive(id) PROVE Alive(id)'
  <2>1. /\ UNCHANGED <<pc, cur, data, processed>> /\ inbox \subseteq inbox' /\ zset' = zset \ {r}
        /\ r[1] \in data => r \in inbox'
    BY <1>4 DEF Reschedule
  <2>2. \A w \in Workers : Carries(w, id) => Carries(w, id)'
    BY <2>1 DEF Carries, Fresh, Newest
  <2>3. ASSUME id \in data, NEW q \in zset, q[1] = id, Fresh(q) PROVE Alive(id)'
    <3>1. Fresh(q)' /\ (q \in zset' \/ q \in inbox') /\ id \in data'
      BY <2>1, <2>3 DEF Fresh
    <3> QED
      BY <2>3, <3>1 DEF Alive
  <2>4. ASSUME NEW q \in inbox, q[1] = id, Fresh(q) PROVE Alive(id)'
    BY <2>1, <2>4 DEF Alive, Fresh
  <2> QED
    BY <1>4, <2>2, <2>3, <2>4 DEF Alive
<1>5. ASSUME NEW w \in Workers, NEW r \in inbox, Receive(w, r), NEW id, Alive(id) PROVE Alive(id)'
  <2>1. /\ pc[w] = "idle" /\ pc'[w] = "check" /\ cur'[w] = r
        /\ \A v \in Workers : v # w => pc'[v] = pc[v] /\ cur'[v] = cur[v]
        /\ inbox' = inbox \ {r} /\ UNCHANGED <<processed, zset, data>>
    BY <1>0, <1>5 DEF Receive, Goto, WorkerT
  <2>2. ASSUME NEW v \in Workers, Carries(v, id) PROVE Alive(id)'
    <3>1. v # w
      BY <2>1, <2>2 DEF Carries
    <3>2. Carries(v, id)'
      BY <2>1, <2>2, <3>1 DEF Carries, Fresh, Newest
    <3> QED
      BY <3>2 DEF Alive
  <2>3. ASSUME NEW q \in inbox, q[1] = id, Fresh(q) PROVE Alive(id)'
    <3>1. Fresh(q)'
      BY <2>1, <2>3 DEF Fresh
    <3>2. CASE q = r
      <4>1. Carries(w, id)'
        BY <2>1, <2>3, <3>2 DEF Carries, Fresh
      <4> QED
        BY <4>1 DEF Alive
    <3>3. CASE q # r
      BY <2>1, <2>3, <3>1, <3>3 DEF Alive
    <3> QED
      BY <3>2, <3>3
  <2>4. ASSUME id \in data, NEW q \in zset, q[1] = id, Fresh(q) PROVE Alive(id)'
    BY <2>1, <2>4 DEF Alive, Fresh
  <2> QED
    BY <1>5, <2>2, <2>3, <2>4 DEF Alive
<1>6. CASE LoseRedis \/ Run \/ (ReconcilerStep /\ ~Complete) \/ Die
  <2>1. ~canary'
    BY <1>0, <1>6 DEF LoseRedis, Run, ReconcilerStep, Die, Flush, Flushed, ConsumePartition, SkipMessage, RestoreStatus, RestoreData,
                RestoreZset, PhaseInv
  <2> QED
    BY <2>1 DEF AliveInv
<1>7. CASE Complete
  <2>1. /\ rpc = "partition" /\ todo = <<>> /\ processed = {}
        /\ UNCHANGED <<inbox, zset, data, processed, accepted, outcome>>
    BY <1>7 DEF Complete, RebuildInv, Replaying
  <2>2. \A r : Fresh(r)'
    BY <2>1 DEF Fresh
  <2>3. ASSUME NEW id \in Open PROVE Queued(id) \/ Restored(id)
    <3>1. ~ToRead(id)
      BY <2>1 DEF ToRead
    <3>2. Queued(id) \/ Restored(id) \/ ToRead(id)
      BY <2>1 DEF RebuildInv, Replaying
    <3> QED
      BY <3>1, <3>2
  <2>4. ASSUME NEW id \in Open PROVE Alive(id)'
    BY <2>1, <2>2, <2>3 DEF Queued, Restored, Alive
  <2> QED
    BY <1>1, <2>4 DEF AliveInv
<1>8. CASE \E r \in zset : Reschedule(r)
  BY <1>1, <1>4, <1>8 DEF AliveInv, Reschedule
<1>9. CASE \E w \in Workers : \E r \in inbox : Receive(w, r)
  <2>1. UNCHANGED canary
    BY <1>9 DEF Receive
  <2>2. \A id : Alive(id) => Alive(id)'
    BY <1>5, <1>9
  <2> QED
    BY <1>1, <2>1, <2>2 DEF AliveInv
<1>10. CASE \E w \in Workers : HandlerStep(w)
  <2>1. UNCHANGED canary
    BY <1>10 DEF HandlerStep, CheckProcessed, ScheduleForCircuit, StartDelivery, Deliver, EnsureRetryData, ScheduleRetry,
             UpdateFailed, UpdateSettled, CleanupRetryData, Nack
  <2> QED
    BY <1>1, <1>10, <2>1, AliveHandler DEF AliveInv
<1> QED
  BY <1>3, <1>6, <1>7, <1>8, <1>9, <1>10 DEF Next
\* The order in which the reconciler takes the partitions names each of them.
LEMMA SomeOrderCovers == \A p \in Partitions : \E i \in DOMAIN SomeOrder : SomeOrder[i] = p
<1> DEFINE n == Cardinality(Partitions)
           P(s) == Partitions = {s[i] : i \in DOMAIN s}
<1>1. n \in Nat /\ ExistsBijection(1 .. n, Partitions)
  BY FS_CardinalityType, ConstantsAssumption
<1>2. PICK s \in [1 .. n -> Partitions] : \A p \in Partitions : \E i \in 1 .. n : s[i] = p
  BY <1>1 DEF ExistsBijection, Bijection, Surjection
<1>3. P(s)
  BY <1>2
<1>4. P(SomeOrder)
  BY <1>2, <1>3 DEF SomeOrder
<1> QED
  BY <1>4

\* What is left when the first partition is done.
LEMMA LaterTail ==
    ASSUME NEW s \in Seq(Partitions), s # <<>>, NEW i \in DOMAIN s, i > 1
    PROVE  i - 1 \in DOMAIN Tail(s) /\ Tail(s)[i - 1] = s[i]
<1>1. Len(s) \in Nat /\ DOMAIN s = 1 .. Len(s) /\ Len(s) # 0
  BY LenProperties, EmptySeq
<1>2. Tail(s) \in Seq(Partitions) /\ Len(Tail(s)) = Len(s) - 1 /\ \A j \in 1 .. Len(Tail(s)) : Tail(s)[j] = s[j + 1]
  BY HeadTailProperties
<1>3. DOMAIN Tail(s) = 1 .. Len(s) - 1
  BY <1>2, LenProperties
<1>4. i - 1 \in 1 .. Len(s) - 1 /\ (i - 1) + 1 = i
  BY <1>1
<1> QED
  BY <1>2, <1>3, <1>4

\* While Redis is being rebuilt an open webhook waits in howk.pending or has a
\* record in the topic.
LEMMA FoundInKafka ==
    ASSUME PhaseInv, KafkaInv, rpc # "off", NEW id \in Open
    PROVE  Queued(id) \/ Logged(id, 1)
<1>1. stopped /\ publishing = {} /\ \A w \in Workers : pc[w] = "idle"
  BY DEF PhaseInv
<1>2. Queued(id) \/ Held(id) \/ Documented(id)
  BY DEF KafkaInv, KafkaKnows
<1> QED
  BY <1>1, <1>2 DEF Held, Documented
\* Logged is about the topic alone: it keeps its value while the topic keeps its.
LEMMA LoggedSame ==
    ASSUME NEW id, NEW n, UNCHANGED log, Logged(id, n)
    PROVE  Logged(id, n)'
BY DEF Logged

\* A step beside the reconciler's.
LEMMA RebuildBeside ==
    ASSUME TypeInv, RebuildInv, UNCHANGED <<rpc, failed, todo, pos, hwm, msg, zset, data, processed>>,
           inbox \subseteq inbox', \A p \in Partitions : Len(log'[p]) = Len(log[p]),
           \A id \in Open' : Queued(id)' \/ (id \in Open /\ \A n \in Nat : Logged(id, n) => Logged(id, n)')
    PROVE  RebuildInv'
<1>0. RunT
  BY TypeGroups DEF TypeInv
<1>1. ASSUME NEW id \in Open, id \in Open', rpc \in Replaying, \A n \in Nat : Logged(id, n) => Logged(id, n)'
      PROVE  (Queued(id) \/ Restored(id) \/ ToRead(id))'
  <2>1. Queued(id) \/ Restored(id) \/ ToRead(id)
    BY <1>1 DEF RebuildInv
  <2>2. (Queued(id) => Queued(id)') /\ (Restored(id) => Restored(id)')
    BY DEF Queued, Restored
  <2>3. PICK n \in Nat : n = pos
    BY <1>0 DEF RunT
  <2>4. n + 1 \in Nat
    OBVIOUS
  <2>5. (Logged(id, n) => Logged(id, n)') /\ (Logged(id, n + 1) => Logged(id, n + 1)')
    BY <1>1, <2>4
  <2>6. (Logged(id, pos) => Logged(id, pos)') /\ (Logged(id, pos + 1) => Logged(id, pos + 1)')
    BY <2>3, <2>5 DEF Logged
  <2>7. ToRead(id) => ToRead(id)'
    BY <2>6 DEF ToRead, Later
  <2> QED
    BY <2>1, <2>2, <2>7
<1>2. rpc' \in Flushing => \A p \in Partitions : \E i \in DOMAIN todo' : todo'[i] = p
  BY DEF RebuildInv
<1>3. rpc' \in Replaying /\ rpc' # "partition" => hwm' = Len(log'[Head(todo')])
  <2>1. ASSUME rpc \in Replaying, rpc # "partition" PROVE Head(todo) \in Partitions
    BY <1>0, <2>1, HeadTailProperties DEF RunT, Replaying
  <2> QED
    BY <2>1 DEF RebuildInv
<1> QED
  BY <1>1, <1>2, <1>3 DEF RebuildInv

\* The reconciler's own steps.
LEMMA RebuildReconciles ==
    ASSUME Faults \subseteq Tolerated, TypeInv, PhaseInv, KnownInv, KafkaInv, RebuildInv,
           Run \/ ReconcilerStep \/ Die
    PROVE  RebuildInv'
<1> USE DEF topicVars, redisVars, queueVars, workerVars, runVars, historyVars, unchangedOutside
<1>0. /\ "restore" \notin Faults /\ "partition" \notin Faults /\ "scan" \notin Faults
      /\ RunT /\ LogT /\ TypeOK /\ pos \in Nat /\ todo \in Seq(Partitions)
  BY TypeGroups DEF TypeInv, Tolerated, RunT
<1>1. UNCHANGED <<log, inbox, Open>>
  BY DEF Run, ReconcilerStep, Die, Flush, Flushed, ConsumePartition, SkipMessage, RestoreStatus, RestoreData,
         RestoreZset, Complete, Open
<1>2. \A id : Queued(id) => Queued(id)'
  BY <1>1 DEF Queued
<1>3. \A p \in Partitions : log[p] \in Seq(Record \cup {Gone}) /\ DOMAIN log[p] = 1 .. Len(log[p]) /\ Len(log[p]) \in Nat
  BY <1>0, LenProperties DEF LogT
<1>4. CASE Run
  BY <1>4, SomeOrderCovers DEF Run, RebuildInv, Flushing, Replaying
<1>5. CASE Flush
  <2>1. \A p \in Partitions : \E i \in DOMAIN todo : todo[i] = p
    BY <1>5 DEF Flush, RebuildInv, Flushing
  <2>2. rpc' = "flushed" /\ ~failed' => processed' = {}
    BY <1>0, <1>5 DEF Flush, Remove
  <2>3. rpc' \in Flushing \ {"status"} /\ UNCHANGED todo
    BY <1>5 DEF Flush, Flushing
  <2> QED
    BY <2>1, <2>2, <2>3 DEF RebuildInv, Flushing, Replaying
<1>13. CASE Flushed
  <2>1. \A p \in Partitions : \E i \in DOMAIN todo : todo[i] = p
    BY <1>13 DEF Flushed, RebuildInv, Flushing
  <2>2. CASE rpc' = "partition"
    <3>1. processed' = {} /\ UNCHANGED todo
      BY <1>13, <2>2 DEF Flushed, RebuildInv
    <3>2. \A id \in Open' : PartitionOf[id] \in Partitions
      BY <1>0, <1>1, ConstantsAssumption DEF Open, TypeOK
    <3>3. \A id \in Open' : ToRead(id)'
      BY <2>1, <2>2, <3>1, <3>2 DEF ToRead
    <3> QED
      BY <2>2, <3>1, <3>3 DEF RebuildInv, Flushing, Replaying
  <2>3. CASE rpc' # "partition"
    BY <1>13, <2>3 DEF Flushed, RebuildInv, Flushing, Replaying
  <2> QED
    BY <2>2, <2>3
<1>6. CASE ConsumePartition
  <2>1. rpc = "partition" /\ todo # <<>> /\ UNCHANGED <<processed, zset, data>> /\ processed = {}
    BY <1>6 DEF ConsumePartition, RebuildInv, Replaying
  <2>2. PICK p \in Partitions : p = Head(todo) /\ p = todo[1]
    BY <1>0, <2>1, HeadTailProperties
  <2>3. \A id \in Open : Restored(id) => Restored(id)'
    BY <2>1 DEF Restored
  <2>4. ASSUME NEW id \in Open, ~Queued(id), ~Restored(id)
        PROVE  \/ PartitionOf[id] = p /\ Logged(id, 1)
               \/ Later(id)
    <3>1. Queued(id) \/ Restored(id) \/ ToRead(id)
      BY <2>1 DEF RebuildInv, Replaying
    <3>2. PICK i \in DOMAIN todo : todo[i] = PartitionOf[id]
      BY <2>1, <2>4, <3>1 DEF ToRead
    <3>3. i \in Nat /\ i >= 1
      BY <1>0, LenProperties
    <3>4. Logged(id, 1)
      BY <2>1, <2>4, FoundInKafka
    <3> QED
      BY <2>2, <3>2, <3>3, <3>4 DEF Later
  <2>5. CASE log[p] # <<>>
    <3>1. rpc' = "consume" /\ pos' = 1 /\ hwm' = Len(log[p]) /\ UNCHANGED todo
      BY <1>0, <1>6, <2>2, <2>5 DEF ConsumePartition
    <3>2. ASSUME NEW id \in Open PROVE (Queued(id) \/ Restored(id) \/ ToRead(id))'
      <4>1. CASE PartitionOf[id] = p /\ Logged(id, 1)
        <5>1. Logged(id, 1)'
          BY <1>1, <4>1, LoggedSame
        <5>2. Logged(id, pos)'
          BY <3>1, <5>1 DEF Logged
        <5> QED
          BY <2>2, <3>1, <4>1, <5>2 DEF ToRead
      <4>2. CASE Later(id)
        BY <3>1, <4>2 DEF ToRead, Later
      <4> QED
        BY <1>2, <2>3, <2>4, <4>1, <4>2
    <3>3. Len(log'[Head(todo')]) = hwm'
      BY <1>1, <2>2, <3>1
    <3> QED
      BY <1>1, <2>1, <3>1, <3>2, <3>3 DEF RebuildInv, Flushing
  <2>6. CASE log[p] = <<>>
    <3>1. rpc' = "partition" /\ todo' = Tail(todo)
      BY <1>0, <1>6, <2>2, <2>6 DEF ConsumePartition, NextPartition
    <3>2. ASSUME NEW id \in Open PROVE (Queued(id) \/ Restored(id) \/ ToRead(id))'
      <4>1. ~(PartitionOf[id] = p /\ Logged(id, 1))
        BY <2>6 DEF Logged
      <4>2. CASE Later(id)
        <5>1. PICK i \in DOMAIN todo : i > 1 /\ todo[i] = PartitionOf[id]
          BY <4>2 DEF Later
        <5>2. i - 1 \in DOMAIN todo' /\ todo'[i - 1] = PartitionOf[id]
          BY <1>0, <2>1, <3>1, <5>1, LaterTail
        <5> QED
          BY <3>1, <5>2 DEF ToRead
      <4> QED
        BY <1>2, <2>3, <2>4, <4>1, <4>2
    <3> QED
      BY <1>1, <2>1, <3>1, <3>2 DEF RebuildInv, Flushing
  <2> QED
    BY <2>5, <2>6
<1>7. CASE SkipMessage
  <2>1. /\ rpc = "consume" /\ rpc' = "consume" /\ pos' = pos + 1 /\ UNCHANGED <<todo, hwm, processed, zset, data>>
        /\ todo # <<>> /\ (Message = Gone \/ Message.kind = "tombstone") /\ pos \in DOMAIN log[Head(todo)]
    BY <1>0, <1>7 DEF SkipMessage, Continue, RunT
  <2>2. PICK p \in Partitions : p = Head(todo)
    BY <1>0, <2>1, HeadTailProperties
  <2>3. ASSUME NEW id \in Open PROVE (Queued(id) \/ Restored(id) \/ ToRead(id))'
    <3>1. Queued(id) \/ Restored(id) \/ ToRead(id)
      BY <2>1 DEF RebuildInv, Replaying
    <3>2. Restored(id) => Restored(id)'
      BY <2>1 DEF Restored
    <3>3. Later(id) => ToRead(id)'
      BY <2>1 DEF ToRead, Later
    <3>4. ASSUME PartitionOf[id] = p, Logged(id, pos) PROVE ToRead(id)'
      <4>1. PICK o \in DOMAIN log[p] : o >= pos /\ log[p][o] # Gone /\ log[p][o].id = id
        BY <3>4 DEF Logged
      <4>2. o # pos
        <5>1. ASSUME o = pos PROVE FALSE
          <6>1. log[p][o].kind = "tombstone"
            BY <2>1, <2>2, <4>1, <5>1 DEF Message
          <6>2. Vouched(log[p][o])
            BY <4>1 DEF KnownInv
          <6> QED
            BY <4>1, <6>1, <6>2 DEF Vouched, Open
        <5> QED
          BY <5>1
      <4>3. o \in Nat
        BY <1>3
      <4>4. o >= pos'
        BY <1>0, <2>1, <4>1, <4>2, <4>3
      <4>5. Logged(id, pos)'
        BY <1>1, <3>4, <4>1, <4>4 DEF Logged
      <4> QED
        BY <2>1, <2>2, <3>4, <4>5 DEF ToRead
    <3>5. ToRead(id) => Later(id) \/ (PartitionOf[id] = p /\ Logged(id, pos))
      BY <2>1, <2>2 DEF ToRead
    <3> QED
      BY <1>2, <3>1, <3>2, <3>3, <3>4, <3>5
  <2> QED
    BY <1>1, <2>1, <2>3 DEF RebuildInv, Flushing, Replaying
<1>8. CASE RestoreStatus
  <2>1. /\ rpc = "consume" /\ rpc' = "restoreData" /\ msg' = Message /\ UNCHANGED <<todo, pos, hwm, processed, zset, data>>
        /\ todo # <<>>
    BY <1>0, <1>8 DEF RestoreStatus, RunT
  <2>2. PICK p \in Partitions : p = Head(todo)
    BY <1>0, <2>1, HeadTailProperties
  <2>3. ASSUME NEW id \in Open PROVE (Queued(id) \/ Restored(id) \/ ToRead(id))'
    <3>1. Queued(id) \/ Restored(id) \/ ToRead(id)
      BY <2>1 DEF RebuildInv, Replaying
    <3>2. Restored(id) => Restored(id)'
      BY <2>1 DEF Restored
    <3>3. Later(id) => ToRead(id)'
      BY <2>1 DEF ToRead, Later
    <3>4. ASSUME PartitionOf[id] = p, Logged(id, pos) PROVE ToRead(id)'
      <4>1. PICK o \in DOMAIN log[p] : o >= pos /\ log[p][o] # Gone /\ log[p][o].id = id
        BY <3>4 DEF Logged
      <4>2. CASE o = pos
        <5>1. msg'.id = id
          BY <2>1, <2>2, <4>1, <4>2 DEF Message
        <5> QED
          BY <2>1, <5>1 DEF ToRead
      <4>3. CASE o # pos
        <5>1. o \in Nat
          BY <1>3
        <5>2. o >= pos' + 1
          BY <1>0, <2>1, <4>1, <4>3, <5>1
        <5>3. Logged(id, pos + 1)'
          BY <1>1, <3>4, <4>1, <5>2 DEF Logged
        <5> QED
          BY <2>1, <2>2, <3>4, <5>3 DEF ToRead
      <4> QED
        BY <4>2, <4>3
    <3>5. ToRead(id) => Later(id) \/ (PartitionOf[id] = p /\ Logged(id, pos))
      BY <2>1, <2>2 DEF ToRead
    <3> QED
      BY <1>2, <3>1, <3>2, <3>3, <3>4, <3>5
  <2> QED
    BY <1>1, <2>1, <2>3 DEF RebuildInv, Flushing, Replaying
<1>9. CASE RestoreData
  <2>1. /\ rpc = "restoreData" /\ rpc' = "restoreZset" /\ data' = data \cup {msg.id}
        /\ UNCHANGED <<todo, pos, hwm, msg, processed, zset>>
    BY <1>0, <1>9 DEF RestoreData
  <2>2. ASSUME NEW id \in Open PROVE (Queued(id) \/ Restored(id) \/ ToRead(id))'
    <3>1. Queued(id) \/ Restored(id) \/ ToRead(id)
      BY <2>1 DEF RebuildInv, Replaying
    <3>2. Restored(id) => Restored(id)'
      BY <2>1 DEF Restored
    <3>3. Logged(id, pos + 1) => Logged(id, pos + 1)'
      BY <1>1, <2>1 DEF Logged
    <3>4. ToRead(id) => ToRead(id)'
      BY <2>1, <3>3 DEF ToRead, Later
    <3> QED
      BY <1>2, <3>1, <3>2, <3>4
  <2> QED
    BY <1>1, <2>1, <2>2 DEF RebuildInv, Flushing, Replaying
<1>10. CASE RestoreZset
  <2>1. /\ rpc = "restoreZset" /\ zset' = zset \cup {<<msg.id, msg.att>>} /\ EndOfBody
        /\ UNCHANGED <<data, processed>> /\ todo # <<>> /\ processed = {} /\ msg.id \in data
        /\ hwm = Len(log[Head(todo)])
    BY <1>0, <1>10 DEF RestoreZset, RunT, RebuildInv, Replaying
  <2>2. PICK p \in Partitions : p = Head(todo)
    BY <1>0, <2>1, HeadTailProperties
  <2>3. ASSUME NEW id \in Open
        PROVE  (Queued(id) \/ Restored(id))' \/ Later(id) \/ (PartitionOf[id] = p /\ Logged(id, pos + 1))
    <3>1. Queued(id) \/ Restored(id) \/ ToRead(id)
      BY <2>1 DEF RebuildInv, Replaying
    <3>2. Restored(id) => Restored(id)'
      BY <2>1 DEF Restored
    <3>3. msg.id = id => Restored(id)'
      <4>1. <<msg.id, msg.att>> \in zset' /\ <<msg.id, msg.att>>[1] = msg.id
        BY <2>1
      <4> QED
        BY <2>1, <4>1 DEF Restored
    <3>4. ToRead(id) => msg.id = id \/ Later(id) \/ (PartitionOf[id] = p /\ Logged(id, pos + 1))
      BY <2>1, <2>2 DEF ToRead
    <3> QED
      BY <1>2, <3>1, <3>2, <3>3, <3>4
  <2>4. CASE pos < hwm /\ Continue
    <3>1. rpc' = "consume" /\ pos' = pos + 1 /\ UNCHANGED <<todo, hwm>>
      BY <2>4 DEF Continue
    <3>2. ASSUME NEW id \in Open PROVE (Queued(id) \/ Restored(id) \/ ToRead(id))'
      <4>1. Later(id) => ToRead(id)'
        BY <3>1 DEF ToRead, Later
      <4>2. Logged(id, pos + 1) => Logged(id, pos)'
        BY <1>1, <3>1 DEF Logged
      <4>3. PartitionOf[id] = p /\ Logged(id, pos + 1) => ToRead(id)'
        BY <2>2, <3>1, <4>2 DEF ToRead
      <4> QED
        BY <2>3, <4>1, <4>3
    <3> QED
      BY <1>1, <2>1, <3>1, <3>2 DEF RebuildInv, Flushing
  <2>5. CASE pos >= hwm /\ NextPartition
    <3>1. rpc' = "partition" /\ todo' = Tail(todo)
      BY <2>5 DEF NextPartition
    <3>2. ASSUME NEW id \in Open PROVE (Queued(id) \/ Restored(id) \/ ToRead(id))'
      <4>1. ~(PartitionOf[id] = p /\ Logged(id, pos + 1))
        <5>1. ASSUME NEW o \in DOMAIN log[p] PROVE ~(o >= pos + 1)
          <6>1. o \in Nat /\ o <= Len(log[p]) /\ Len(log[p]) \in Nat
            BY <1>3
          <6> QED
            BY <1>0, <2>1, <2>2, <2>5, <6>1
        <5> QED
          BY <5>1 DEF Logged
      <4>2. CASE Later(id)
        <5>1. PICK i \in DOMAIN todo : i > 1 /\ todo[i] = PartitionOf[id]
          BY <4>2 DEF Later
        <5>2. i - 1 \in DOMAIN todo' /\ todo'[i - 1] = PartitionOf[id]
          BY <1>0, <2>1, <3>1, <5>1, LaterTail
        <5> QED
          BY <3>1, <5>2 DEF ToRead
      <4> QED
        BY <2>3, <4>1, <4>2
    <3> QED
      BY <1>1, <2>1, <3>1, <3>2 DEF RebuildInv, Flushing
  <2> QED
    BY <2>1, <2>4, <2>5 DEF EndOfBody
<1>11. CASE Complete \/ Die
  BY <1>11 DEF Complete, Die, RebuildInv, Flushing, Replaying
<1> QED
  BY <1>4, <1>5, <1>6, <1>7, <1>8, <1>9, <1>10, <1>11, <1>13 DEF ReconcilerStep

LEMMA RebuildStep ==
    ASSUME Faults \subseteq Tolerated, TypeInv, PhaseInv, KnownInv, KafkaInv, RebuildInv, [Next]_vars
    PROVE  RebuildInv'
<1> USE DEF topicVars, redisVars, queueVars, workerVars, runVars, historyVars, unchangedOutside
<1>0. LogT /\ RunT /\ canary \in BOOLEAN /\ Faults \subseteq Recorded
  BY TypeGroups DEF TypeInv, RetryT, Recorded
<1>1. CASE Run \/ ReconcilerStep \/ Die
  BY <1>1, RebuildReconciles
<1>2. CASE rpc = "off" /\ rpc' = "off"
  BY <1>2 DEF RebuildInv, Flushing, Replaying
<1>3. CASE \/ \E w \in Workers : HandlerStep(w) \/ \E r \in inbox : Receive(w, r)
           \/ \E r \in publishing : PublishState(r)
           \/ \E r \in zset : Reschedule(r)
           \/ Stop \/ LoseRedis \/ Start
  <2>1. ~stopped \/ canary
    BY <1>0, <1>3, Quiet DEF Stop, LoseRedis, Start
  <2>2. rpc = "off"
    BY <1>0, <2>1 DEF PhaseInv
  <2>3. UNCHANGED rpc
    BY <1>3 DEF HandlerStep, CheckProcessed, ScheduleForCircuit, StartDelivery, Deliver, EnsureRetryData, ScheduleRetry,
             UpdateFailed, UpdateSettled, CleanupRetryData, Nack, Receive, PublishState, Reschedule,
             Stop, LoseRedis, Start
  <2> QED
    BY <1>2, <2>2, <2>3
<1>4. CASE (\E id \in Webhooks : Enqueue(id) \/ InitialStatus(id)) \/ UNCHANGED vars
  <2>1. UNCHANGED <<rpc, failed, todo, pos, hwm, msg, zset, data, processed, log>> /\ inbox \subseteq inbox'
    BY <1>4 DEF Enqueue, InitialStatus, vars
  <2>2. ASSUME NEW id \in Open', id \notin Open PROVE Queued(id)'
    <3>1. Enqueue(id)
      BY <2>2, HistoryKept
    <3>2. <<id, 0>> \in inbox' /\ <<id, 0>>[1] = id
      BY <3>1 DEF Enqueue
    <3> QED
      BY <3>2 DEF Queued
  <2>3. \A id \in Open : \A n \in Nat : Logged(id, n) => Logged(id, n)'
    BY <2>1, LoggedSame
  <2> QED
    BY <2>1, <2>2, <2>3, RebuildBeside
<1>5. ASSUME NEW p \in Partitions, NEW o \in DOMAIN log[p], Compact(p, o) PROVE RebuildInv'
  <2>1. UNCHANGED <<rpc, failed, todo, pos, hwm, msg, zset, data, processed, inbox, accepted, outcome>>
    BY <1>5 DEF Compact
  <2>2. \A x \in Partitions : Len(log'[x]) = Len(log[x])
    BY <1>0, <1>5, Compacted
  <2>3. \A id \in Open : \A n \in Nat : Logged(id, n) => Logged(id, n)'
    BY <1>0, LoggedKept
  <2>4. Open' = Open
    BY <2>1 DEF Open
  <2> QED
    BY <2>1, <2>2, <2>3, <2>4, RebuildBeside
<1> QED
  BY <1>1, <1>3, <1>4, <1>5 DEF Next

LEMMA LossInit == Init => LossInv
<1> SUFFICES ASSUME Init PROVE LossInv
  OBVIOUS
<1>1. Open = {} /\ rpc = "off"
  BY DEF Init, Open
<1>2. PhaseInv
  BY DEF Init, PhaseInv
<1>3. KnownInv
  BY DEF Init, KnownInv
<1>4. KafkaInv /\ AliveInv /\ RebuildInv
  BY <1>1 DEF KafkaInv, AliveInv, RebuildInv, Flushing, Replaying
<1> QED
  BY <1>2, <1>3, <1>4 DEF LossInv

LEMMA LossStep == Faults \subseteq Tolerated /\ TypeInv /\ LossInv /\ [Next]_vars => LossInv'
<1> SUFFICES ASSUME Faults \subseteq Tolerated, TypeInv, LossInv, [Next]_vars PROVE LossInv'
  OBVIOUS
<1>1. PhaseInv /\ KnownInv /\ KafkaInv /\ AliveInv /\ RebuildInv /\ Faults \subseteq Recorded
  BY DEF LossInv, Recorded
<1>2. PhaseInv'
  BY <1>1, PhaseStep
<1>3. KnownInv'
  BY <1>1, KnownStep
<1>4. KafkaInv'
  BY <1>1, KafkaStep
<1>5. AliveInv'
  BY <1>1, AliveStep
<1>6. RebuildInv'
  BY <1>1, RebuildStep
<1> QED
  BY <1>2, <1>3, <1>4, <1>5, <1>6 DEF LossInv

\* The operator's promise of recovery: whenever the canary says that Redis is
\* initialized, before a loss or after any number of complete, cancelled and
\* repeated rebuilds, every webhook that the API accepted is settled or on its way.
\* It needs that state records are written, that every partition is read and every
\* snapshot restored, that no retry is scheduled without a snapshot, and that the
\* workers stand still; it needs neither the order of the records, nor a compacted
\* topic, nor that the API is quick.
THEOREM NoWebhookLost == Faults \subseteq Tolerated => (Spec => []NothingLost)
<1> SUFFICES ASSUME Faults \subseteq Tolerated PROVE Spec => []NothingLost
  OBVIOUS
<1>1. TypeInv /\ LossInv => NothingLost
  <2> SUFFICES ASSUME TypeInv, LossInv, canary, NEW id \in accepted, outcome[id] = "none" PROVE OnItsWay(id)
    BY DEF NothingLost
  <2>1. Alive(id)
    BY DEF LossInv, AliveInv, Open
  <2>2. inbox \subseteq Refs /\ zset \subseteq Refs
    BY DEF TypeInv, TypeOK
  <2>3. \A r \in Refs : r[1] = id => \E a \in Attempts : r = <<id, a>>
    BY RefFields
  <2>4. CASE \E r \in inbox : r[1] = id
    BY <2>2, <2>3, <2>4 DEF OnItsWay
  <2>5. CASE id \in data /\ \E r \in zset : r[1] = id
    BY <2>2, <2>3, <2>5 DEF OnItsWay
  <2>6. CASE \E w \in Workers : Carries(w, id)
    BY <2>6 DEF OnItsWay, Carries, Id
  <2> QED
    BY <2>1, <2>4, <2>5, <2>6 DEF Alive
<1>2. TypeInv /\ LossInv /\ [Next]_vars => (TypeInv /\ LossInv)'
  BY TypeStep, LossStep
<1>3. Init => TypeInv /\ LossInv
  BY TypeInit, LossInit
<1> QED
  BY <1>1, <1>2, <1>3, PTL DEF Spec
------------------------------------------------------------------------------
(* A webhook lives once.                                                   *)

\* The faults under which a webhook that is not doubled lives once: it is in one
\* place at a time, and the last record of it says where it stands.
Orderly == {"die", "flush", "scan", "partition", "restore", "lateapi"}

Holds(w, id) == pc[w] # "idle" /\ cur[w][1] = id

\* The last record of a webhook: the youngest that a goroutine has to write or,
\* when there is none, the one that compaction keeps.
Latest(id, q) ==
    \/ /\ q \in publishing /\ q.id = id
       /\ \A x \in publishing : x.id = id => x.ts <= q.ts
    \/ /\ \A x \in publishing : x.id # id
       /\ \E o \in DOMAIN log[PartitionOf[id]] :
             /\ log[PartitionOf[id]][o] = q /\ q # Gone /\ q.id = id
             /\ ~Superseded(PartitionOf[id], o)

\* It has at most one message or retry and at most one handler, and both only
\* between the handler's ScheduleRetry and its updateStatus.
OneLife(id) ==
    /\ \A r, q \in inbox \cup zset : r[1] = id /\ q[1] = id => r = q
    /\ \A r \in inbox : r[1] = id => r \notin zset
    /\ \A v, w \in Workers : Holds(v, id) /\ Holds(w, id) => v = w
    /\ \A w \in Workers : Holds(w, id) =>
          \A r \in inbox \cup zset : r[1] = id => pc[w] = "failed" /\ r[2] = cur[w][2] + 1

\* What waits has not been tried.
Untried(id) ==
    /\ \A r \in inbox \cup zset : r[1] = id => outcome[id] = "none" /\ tried[id] < r[2]
    /\ \A w \in Workers : Holds(w, id) =>
          /\ pc[w] \in {"check", "start", "deliver"} => outcome[id] = "none" /\ tried[id] < cur[w][2]
          /\ pc[w] \in {"ensure", "schedule", "failed"} => outcome[id] = "none" /\ tried[id] = cur[w][2]

\* The last record is a snapshot only of an attempt that is still to be made, and a
\* retry in Redis has one, unless a handler is about to write the next record.
SnapshotGood(id) ==
    \A q \in Record : Latest(id, q) /\ q.kind = "snapshot" =>
        \/ outcome[id] = "none" /\ tried[id] < q.att
        \/ \E w \in Workers : Holds(w, id) /\ pc[w] \in {"ensure", "schedule", "failed", "settle"}

RetrySnapshot(id) ==
    \A r \in zset : r[1] = id =>
        \/ \E q \in Record : Latest(id, q) /\ q.kind = "snapshot" /\ q.att = r[2]
        \/ \E w \in Workers : Holds(w, id) /\ pc[w] = "failed"

Lives(id) == OneLife(id) /\ Untried(id) /\ SnapshotGood(id) /\ RetrySnapshot(id)

\* While the reconciler runs the topic holds one record of a webhook, and what is
\* being restored is a last record.
ReplayInv ==
    /\ rpc # "off" => \A p \in Partitions : \A o \in DOMAIN log[p] : log[p][o] # Gone => ~Superseded(p, o)
    /\ rpc \in {"restoreData", "restoreZset"} => msg.kind = "snapshot" /\ Latest(msg.id, msg)

LifeInv ==
    /\ \A id \in Webhooks \ accepted : tried[id] = -1 /\ outcome[id] = "none"
    /\ \A q, x \in publishing : q.ts = x.ts => q = x
    /\ \A id \in Webhooks \ doubled : Lives(id)
    /\ ReplayInv

\* Nothing happens to the topic.
LEMMA LatestQuiet ==
    ASSUME UNCHANGED topicVars, NEW id, NEW q
    PROVE  Latest(id, q)' <=> Latest(id, q)
BY DEF topicVars, Latest, Superseded

\* A handler starts the goroutine of a record that is younger than the others.
LEMMA LatestSpawned ==
    ASSUME UNCHANGED log, NEW n \in Record, publishing' = publishing \cup {n}, publishing \subseteq Record,
           \A x \in publishing : x.ts < n.ts, NEW id, NEW q
    PROVE  /\ id # n.id => (Latest(id, q)' <=> Latest(id, q))
           /\ id = n.id => (Latest(id, q)' <=> q = n)
<1>1. n.ts \in Int /\ \A x \in publishing : x.ts \in Int
  BY RecordFields, ConstantsAssumption DEF Stamps
<1>2. CASE id # n.id
  BY <1>2 DEF Latest, Superseded
<1>3. CASE id = n.id
  <2>1. n \in publishing' /\ \A x \in publishing' : x.ts <= n.ts
    BY <1>1
  <2>2. ASSUME Latest(id, q)' PROVE q = n
    <3>1. q \in publishing' /\ n.ts <= q.ts
      BY <1>3, <2>1, <2>2 DEF Latest
    <3> QED
      BY <1>1, <3>1
  <2>3. Latest(id, n)'
    BY <1>3, <2>1 DEF Latest
  <2> QED
    BY <1>3, <2>2, <2>3
<1> QED
  BY <1>2, <1>3

\* The goroutine writes it.
LEMMA LatestPublished ==
    ASSUME TypeInv, Faults \subseteq Orderly, \A x, y \in publishing : x.ts = y.ts => x = y,
           NEW r \in publishing, PublishState(r), NEW id \in Webhooks, NEW q
    PROVE  Latest(id, q)' <=> Latest(id, q)
<1>0. "publish" \notin Faults /\ "reorder" \notin Faults
  BY DEF Orderly
<1>1. LogT /\ r \in Record /\ publishing \subseteq Record /\ PartitionOf[id] \in Partitions
  BY TypeGroups, ConstantsAssumption DEF TypeInv, LogT
<1>2. r.id \in Webhooks /\ r # Gone /\ \A x \in publishing : x.ts \in Int
  BY <1>1, RecordFields, ConstantsAssumption DEF Stamps
<1>3. PICK p \in Partitions : p = PartitionOf[id]
  BY <1>1
<1>4. PICK m \in Partitions : m = PartitionOf[r.id]
  BY <1>2, ConstantsAssumption
<1>5. log' = [log EXCEPT ![m] = Append(@, r)]
  <2>1. PICK ts \in r.ts .. r.ts : log' = [log EXCEPT ![PartitionOf[r.id]] = Append(@, [r EXCEPT !.ts = ts])]
    BY <1>0 DEF PublishState
  <2>2. ts = r.ts
    BY <1>2, <2>1
  <2>3. [r EXCEPT !.ts = r.ts] = r
    BY <1>1 DEF Record
  <2> QED
    BY <1>4, <2>1, <2>2, <2>3
<1>6. publishing' = publishing \ {r} /\ \A x \in publishing : x.id = r.id => x.ts >= r.ts
  BY <1>0 DEF PublishState
<1>7. log \in [Partitions -> Seq(Record \cup {Gone})]
  BY <1>1 DEF LogT
<1>8. CASE r.id # id
  <2>1. \A x \in publishing' : x \in publishing
    BY <1>6
  <2>2. \A x \in publishing : x.id = id => x \in publishing'
    BY <1>6, <1>8
  <2>3. ASSUME NEW o PROVE /\ o \in DOMAIN log'[p] /\ log'[p][o] # Gone /\ log'[p][o].id = id
                              <=> o \in DOMAIN log[p] /\ log[p][o] # Gone /\ log[p][o].id = id
                           /\ o \in DOMAIN log[p] => log'[p][o] = log[p][o]
    <3>1. \A k \in DOMAIN log[p] : k \in DOMAIN log'[p] /\ log'[p][k] = log[p][k]
      BY <1>1, <1>5, Appended
    <3>2. \A k \in DOMAIN log'[p] : (k \in DOMAIN log[p] /\ log'[p][k] = log[p][k]) \/ log'[p][k] = r
      BY <1>1, <1>5, Appended
    <3> QED
      BY <1>8, <3>1, <3>2
  <2>4. /\ DOMAIN log[p] = 1 .. Len(log[p]) /\ Len(log[p]) \in Nat
        /\ DOMAIN log'[p] = 1 .. Len(log'[p]) /\ Len(log'[p]) \in Nat
    <3>1. LogT'
      BY LogType
    <3> QED
      BY <1>7, <3>1, LenProperties DEF LogT
  <2>5. ASSUME NEW o \in DOMAIN log[p], log[p][o] # Gone, log[p][o].id = id
        PROVE  Superseded(p, o)' <=> Superseded(p, o)
    <3>1. o \in Nat /\ o >= 1
      BY <2>4
    <3>2. Superseded(p, o) <=> \E n \in DOMAIN log[p] : n > o /\ log[p][n] # Gone /\ log[p][n].id = id
      BY <2>4, <2>5, <3>1 DEF Superseded
    <3>3. Superseded(p, o)' <=> \E n \in DOMAIN log'[p] : n > o /\ log'[p][n] # Gone /\ log'[p][n].id = id
      <4>1. log'[p][o].id = id
        BY <2>3, <2>5
      <4>2. Superseded(p, o)' <=> \E n \in o + 1 .. Len(log'[p]) : log'[p][n] # Gone /\ log'[p][n].id = log'[p][o].id
        BY DEF Superseded
      <4>3. \A n : n \in o + 1 .. Len(log'[p]) <=> n \in DOMAIN log'[p] /\ n > o
        BY <2>4, <3>1
      <4> QED
        BY <4>1, <4>2, <4>3
    <3> QED
      BY <2>3, <3>2, <3>3
  <2>6. Latest(id, q) <=> \/ /\ q \in publishing /\ q.id = id
                             /\ \A x \in publishing : x.id = id => x.ts <= q.ts
                          \/ /\ \A x \in publishing : x.id # id
                             /\ \E o \in DOMAIN log[p] : /\ log[p][o] = q /\ q # Gone /\ q.id = id
                                                         /\ ~Superseded(p, o)
    BY <1>3 DEF Latest
  <2>7. Latest(id, q)' <=> \/ /\ q \in publishing' /\ q.id = id
                              /\ \A x \in publishing' : x.id = id => x.ts <= q.ts
                           \/ /\ \A x \in publishing' : x.id # id
                              /\ \E o \in DOMAIN log'[p] : /\ log'[p][o] = q /\ q # Gone /\ q.id = id
                                                           /\ ~Superseded(p, o)'
    BY <1>3 DEF Latest
  <2>8. ASSUME NEW o
        PROVE  (o \in DOMAIN log'[p] /\ log'[p][o] = q /\ q # Gone /\ q.id = id /\ ~Superseded(p, o)')
               <=> (o \in DOMAIN log[p] /\ log[p][o] = q /\ q # Gone /\ q.id = id /\ ~Superseded(p, o))
    BY <2>3, <2>5
  <2> QED
    BY <2>1, <2>2, <2>6, <2>7, <2>8
<1>9. CASE r.id = id
  <2>0. p = m
    BY <1>3, <1>4, <1>9
  <2>1. PICK s \in Seq(Record \cup {Gone}) : s = log[p]
    BY <1>7
  <2>2. /\ Append(s, r) \in Seq(Record \cup {Gone})
        /\ Len(Append(s, r)) = Len(s) + 1 /\ Append(s, r)[Len(s) + 1] = r
        /\ \A i \in 1 .. Len(s) : Append(s, r)[i] = s[i]
    BY <1>1, AppendProperties
  <2>3. log'[p] = Append(s, r)
    BY <1>5, <1>7, <2>0, <2>1
  <2>4. Len(s) \in Nat /\ Len(log'[p]) = Len(s) + 1 /\ DOMAIN log'[p] = 1 .. Len(s) + 1 /\ log'[p][Len(s) + 1] = r
    BY <2>2, <2>3, LenProperties
  <2>5. ASSUME NEW o \in DOMAIN log'[p], log'[p][o].id = id PROVE ~Superseded(p, o)' <=> o = Len(s) + 1
    <3>1. Superseded(p, o)' <=> \E n \in o + 1 .. Len(s) + 1 : log'[p][n] # Gone /\ log'[p][n].id = id
      <4>1. Superseded(p, o)' <=> \E n \in o + 1 .. Len(log'[p]) : log'[p][n] # Gone /\ log'[p][n].id = log'[p][o].id
        BY DEF Superseded
      <4> QED
        BY <2>4, <2>5, <4>1
    <3>2. CASE o = Len(s) + 1
      BY <2>4, <3>1, <3>2
    <3>3. CASE o # Len(s) + 1
      <4>1. Len(s) + 1 \in o + 1 .. Len(s) + 1
        BY <2>4, <3>3
      <4> QED
        BY <1>2, <1>9, <2>4, <3>1, <3>3, <4>1
    <3> QED
      BY <3>2, <3>3
  <2>6. Latest(id, q)' <=> \/ /\ q \in publishing' /\ q.id = id
                              /\ \A x \in publishing' : x.id = id => x.ts <= q.ts
                           \/ (\A x \in publishing' : x.id # id) /\ q = r
    <3>1. Latest(id, q)' <=> \/ /\ q \in publishing' /\ q.id = id
                                /\ \A x \in publishing' : x.id = id => x.ts <= q.ts
                             \/ /\ \A x \in publishing' : x.id # id
                                /\ \E o \in DOMAIN log'[p] : /\ log'[p][o] = q /\ q # Gone /\ q.id = id
                                                             /\ ~Superseded(p, o)'
      BY <1>3 DEF Latest
    <3>2. (\E o \in DOMAIN log'[p] : log'[p][o] = q /\ q # Gone /\ q.id = id /\ ~Superseded(p, o)') <=> q = r
      <4>1. Len(s) + 1 \in DOMAIN log'[p]
        BY <2>4
      <4>2. q = r => /\ log'[p][Len(s) + 1] = q /\ q # Gone /\ q.id = id
                     /\ ~Superseded(p, Len(s) + 1)'
        BY <1>2, <1>9, <2>4, <2>5, <4>1
      <4> QED
        BY <2>4, <2>5, <4>1, <4>2
    <3> QED
      BY <3>1, <3>2
  <2>7. Latest(id, q) <=> q \in publishing /\ q.id = id /\ \A x \in publishing : x.id = id => x.ts <= q.ts
    BY <1>9 DEF Latest
  <2>8. ASSUME Latest(id, q) PROVE Latest(id, q)'
    <3>1. CASE q # r
      BY <1>6, <2>6, <2>7, <2>8, <3>1
    <3>2. CASE q = r
      <4>1. \A x \in publishing : x.id = id => x = r
        BY <1>2, <1>6, <1>9, <2>7, <2>8, <3>2
      <4> QED
        BY <1>6, <2>6, <3>2, <4>1
    <3> QED
      BY <3>1, <3>2
  <2>9. ASSUME Latest(id, q)' PROVE Latest(id, q)
    <3>1. CASE q \in publishing' /\ q.id = id /\ \A x \in publishing' : x.id = id => x.ts <= q.ts
      BY <1>2, <1>6, <1>9, <2>7, <3>1
    <3>2. CASE (\A x \in publishing' : x.id # id) /\ q = r
      BY <1>2, <1>6, <1>9, <2>7, <3>2
    <3> QED
      BY <2>6, <2>9, <3>1, <3>2
  <2> QED
    BY <2>8, <2>9
<1> QED
  BY <1>8, <1>9
\* Compaction removes no last record but a tombstone, and makes no other one last.
LEMMA LatestCompacted ==
    ASSUME TypeInv, NEW y \in Partitions, NEW c \in DOMAIN log[y], Compact(y, c), NEW id \in Webhooks, NEW q
    PROVE  /\ Latest(id, q)' => Latest(id, q)
           /\ Latest(id, q) /\ q.kind = "snapshot" => Latest(id, q)'
<1>0. LogT /\ PartitionOf[id] \in Partitions /\ UNCHANGED publishing
  BY TypeGroups, ConstantsAssumption DEF TypeInv, Compact
<1>1. PICK p \in Partitions : p = PartitionOf[id]
  BY <1>0
<1>2. /\ DOMAIN log'[p] = DOMAIN log[p] /\ DOMAIN log[p] = 1 .. Len(log[p]) /\ Len(log'[p]) = Len(log[p])
      /\ \A n \in DOMAIN log[p] : (y = p /\ n = c) \/ log'[p][n] = log[p][n]
      /\ y = p => log'[p][c] = Gone
      /\ Len(log[p]) \in Nat
  <2>1. Len(log[p]) \in Nat
    BY <1>0, LenProperties DEF LogT
  <2> QED
    BY <1>0, <2>1, Compacted
<1>3. ASSUME NEW o \in DOMAIN log[p], log'[p][o] # Gone
      PROVE  /\ log'[p][o] = log[p][o]
             /\ Superseded(p, o)' <=> Superseded(p, o)
  <2>1. log'[p][o] = log[p][o] /\ o \in Nat
    BY <1>2, <1>3
  <2>2. Superseded(p, o) <=> \E n \in DOMAIN log[p] : n > o /\ log[p][n] # Gone /\ log[p][n].id = log[p][o].id
    BY <1>2, <2>1 DEF Superseded
  <2>3. Superseded(p, o)' <=> \E n \in DOMAIN log[p] : n > o /\ log'[p][n] # Gone /\ log'[p][n].id = log[p][o].id
    <3>1. Superseded(p, o)' <=> \E n \in o + 1 .. Len(log'[p]) : log'[p][n] # Gone /\ log'[p][n].id = log'[p][o].id
      BY DEF Superseded
    <3>2. \A n : n \in o + 1 .. Len(log'[p]) <=> n \in DOMAIN log[p] /\ n > o
      BY <1>2, <2>1
    <3> QED
      BY <2>1, <3>1, <3>2
  <2>4. ASSUME NEW n \in DOMAIN log[p], n > o, log[p][n] # Gone, log[p][n].id = log[p][o].id
        PROVE  Superseded(p, o)'
    <3>1. CASE log'[p][n] = log[p][n]
      BY <2>3, <2>4, <3>1
    <3>2. CASE y = p /\ n = c
      <4>1. n \in Nat
        BY <1>2
      <4>2. log[p][o] # Gone
        BY <1>3, <2>1
      <4>3. ~SpentTombstone(p, n)
        <5>1. o \in 1 .. n - 1
          BY <1>2, <2>1, <2>4, <4>1
        <5> QED
          BY <2>4, <4>2, <5>1 DEF SpentTombstone
      <4>4. Superseded(p, n)
        BY <3>2, <4>3 DEF Compact
      <4>5. PICK k \in n + 1 .. Len(log[p]) : log[p][k] # Gone /\ log[p][k].id = log[p][n].id
        BY <4>4 DEF Superseded
      <4>6. k \in DOMAIN log[p] /\ k > o /\ k # n
        BY <1>2, <2>1, <2>4, <4>1, <4>5
      <4>7. log'[p][k] = log[p][k]
        BY <1>2, <3>2, <4>6
      <4> QED
        BY <2>3, <2>4, <4>5, <4>6, <4>7
    <3> QED
      BY <1>2, <3>1, <3>2
  <2>5. Superseded(p, o)' => Superseded(p, o)
    BY <1>2, <2>2, <2>3
  <2> QED
    BY <2>1, <2>2, <2>4, <2>5
<1>4. Latest(id, q) <=> \/ /\ q \in publishing /\ q.id = id
                           /\ \A x \in publishing : x.id = id => x.ts <= q.ts
                        \/ /\ \A x \in publishing : x.id # id
                           /\ \E o \in DOMAIN log[p] : /\ log[p][o] = q /\ q # Gone /\ q.id = id
                                                       /\ ~Superseded(p, o)
  BY <1>1 DEF Latest
<1>5. Latest(id, q)' <=> \/ /\ q \in publishing /\ q.id = id
                            /\ \A x \in publishing : x.id = id => x.ts <= q.ts
                         \/ /\ \A x \in publishing : x.id # id
                            /\ \E o \in DOMAIN log[p] : /\ log'[p][o] = q /\ q # Gone /\ q.id = id
                                                        /\ ~Superseded(p, o)'
  BY <1>0, <1>1, <1>2 DEF Latest
<1>6. ASSUME NEW o \in DOMAIN log[p], log[p][o] = q, q # Gone, ~Superseded(p, o), q.kind = "snapshot"
      PROVE  log'[p][o] = q
  <2>1. ~(y = p /\ c = o)
    BY <1>6 DEF Compact, SpentTombstone
  <2> QED
    BY <1>2, <1>6, <2>1
<1> QED
  BY <1>3, <1>4, <1>5, <1>6

\* There is one last record.
LEMMA LatestUnique ==
    ASSUME TypeInv, \A x, y \in publishing : x.ts = y.ts => x = y, NEW id \in Webhooks, NEW q, NEW r,
           Latest(id, q), Latest(id, r)
    PROVE  q = r
<1>0. LogT /\ PartitionOf[id] \in Partitions
  BY TypeGroups, ConstantsAssumption DEF TypeInv
<1>1. PICK p \in Partitions : p = PartitionOf[id]
  BY <1>0
<1>2. \A x \in publishing : x.ts \in Int
  BY <1>0, RecordFields, ConstantsAssumption DEF LogT, Stamps
<1>3. CASE q \in publishing /\ q.id = id
  BY <1>2, <1>3 DEF Latest
<1>4. CASE ~(q \in publishing /\ q.id = id)
  <2>1. PICK o \in DOMAIN log[p] : log[p][o] = q /\ q # Gone /\ q.id = id /\ ~Superseded(p, o)
    BY <1>1, <1>4 DEF Latest
  <2>2. \A x \in publishing : x.id # id
    BY <1>4 DEF Latest
  <2>3. PICK k \in DOMAIN log[p] : log[p][k] = r /\ r # Gone /\ r.id = id /\ ~Superseded(p, k)
    BY <1>1, <2>2 DEF Latest
  <2>4. DOMAIN log[p] = 1 .. Len(log[p]) /\ Len(log[p]) \in Nat
    BY <1>0, LenProperties DEF LogT
  <2>5. ~(o < k)
    <3>1. ASSUME o < k PROVE k \in o + 1 .. Len(log[p])
      BY <2>4, <3>1
    <3> QED
      BY <2>1, <2>3, <3>1 DEF Superseded
  <2>6. ~(k < o)
    <3>1. ASSUME k < o PROVE o \in k + 1 .. Len(log[p])
      BY <2>4, <3>1
    <3> QED
      BY <2>1, <2>3, <3>1 DEF Superseded
  <2>7. o = k
    BY <2>4, <2>5, <2>6
  <2> QED
    BY <2>1, <2>3, <2>7
<1> QED
  BY <1>3, <1>4

\* A step that does not touch a webhook, or only takes its retry away.
LEMMA LivesSame ==
    ASSUME NEW id, Lives(id),
           \A r \in inbox' : r[1] = id => r \in inbox,
           \A r \in zset' : r[1] = id => r \in zset,
           \A w \in Workers : Holds(w, id)' => Holds(w, id),
           \A w \in Workers : Holds(w, id) => pc'[w] = pc[w] /\ cur'[w] = cur[w],
           outcome'[id] = outcome[id], tried'[id] = tried[id],
           \A q \in Record : q.kind = "snapshot" => (Latest(id, q)' <=> Latest(id, q))
    PROVE  Lives(id)'
<1>0. \A w \in Workers : Holds(w, id) => Holds(w, id)'
  BY DEF Holds
<1>1. OneLife(id)'
  <2>1. \A r \in inbox' \cup zset' : r[1] = id => r \in inbox \cup zset
    OBVIOUS
  <2>2. OneLife(id)
    BY DEF Lives
  <2>3. \A r, q \in inbox' \cup zset' : r[1] = id /\ q[1] = id => r = q
    BY <2>1, <2>2 DEF OneLife
  <2>4. \A r \in inbox' : r[1] = id => r \notin zset'
    BY <2>2 DEF OneLife
  <2>5. \A v, w \in Workers : Holds(v, id)' /\ Holds(w, id)' => v = w
    BY <2>2 DEF OneLife
  <2>6. ASSUME NEW w \in Workers, Holds(w, id)', NEW r \in inbox' \cup zset', r[1] = id
        PROVE  pc'[w] = "failed" /\ r[2] = cur'[w][2] + 1
    BY <2>1, <2>2, <2>6 DEF OneLife
  <2> QED
    BY <2>3, <2>4, <2>5, <2>6 DEF OneLife
<1>2. Untried(id)'
  <2>1. \A r \in inbox' \cup zset' : r[1] = id => r \in inbox \cup zset
    OBVIOUS
  <2>2. Untried(id)
    BY DEF Lives
  <2>3. \A r \in inbox' \cup zset' : r[1] = id => outcome'[id] = "none" /\ tried'[id] < r[2]
    BY <2>1, <2>2 DEF Untried
  <2>4. ASSUME NEW w \in Workers, Holds(w, id)'
        PROVE  /\ pc'[w] \in {"check", "start", "deliver"} => outcome'[id] = "none" /\ tried'[id] < cur'[w][2]
               /\ pc'[w] \in {"ensure", "schedule", "failed"} => outcome'[id] = "none" /\ tried'[id] = cur'[w][2]
    BY <2>2, <2>4 DEF Untried
  <2> QED
    BY <2>3, <2>4 DEF Untried
<1>3. SnapshotGood(id)'
  <2>1. SnapshotGood(id)
    BY DEF Lives
  <2>2. ASSUME NEW q \in Record, Latest(id, q)', q.kind = "snapshot"
        PROVE  \/ outcome'[id] = "none" /\ tried'[id] < q.att
               \/ \E w \in Workers : Holds(w, id)' /\ pc'[w] \in {"ensure", "schedule", "failed", "settle"}
    BY <1>0, <2>1, <2>2 DEF SnapshotGood
  <2> QED
    BY <2>2 DEF SnapshotGood
<1>4. RetrySnapshot(id)'
  <2>1. RetrySnapshot(id)
    BY DEF Lives
  <2>2. ASSUME NEW r \in zset', r[1] = id
        PROVE  \/ \E q \in Record : Latest(id, q)' /\ q.kind = "snapshot" /\ q.att = r[2]
               \/ \E w \in Workers : Holds(w, id)' /\ pc'[w] = "failed"
    BY <1>0, <2>1, <2>2 DEF RetrySnapshot
  <2> QED
    BY <2>2 DEF RetrySnapshot
<1> QED
  BY <1>1, <1>2, <1>3, <1>4 DEF Lives
\* A webhook without a message and with one handler at most.
LEMMA LivesAlone ==
    ASSUME NEW id, NEW w \in Workers, \A r \in inbox' \cup zset' : r[1] # id,
           \A v \in Workers : Holds(v, id)' => v = w,
           Holds(w, id)' =>
              /\ pc'[w] \in {"check", "start", "deliver"} => outcome'[id] = "none" /\ tried'[id] < cur'[w][2]
              /\ pc'[w] \in {"ensure", "schedule", "failed"} => outcome'[id] = "none" /\ tried'[id] = cur'[w][2],
           SnapshotGood(id)'
    PROVE  Lives(id)'
<1>1. OneLife(id)'
  BY DEF OneLife
<1>2. Untried(id)'
  BY DEF Untried
<1>3. RetrySnapshot(id)'
  BY DEF RetrySnapshot
<1> QED
  BY <1>1, <1>2, <1>3 DEF Lives

LEMMA HandlerLives ==
    ASSUME Faults \subseteq Orderly, TypeInv, StampInv, PhaseInv, LifeInv, NEW w \in Workers, HandlerStep(w),
           NEW id \in Webhooks, id \notin doubled
    PROVE  Lives(id)'
<1> USE DEF topicVars, redisVars, queueVars, workerVars, runVars, historyVars
<1>0. /\ "schedule" \notin Faults /\ "circuit" \notin Faults
      /\ WorkerT /\ HistoryT /\ LogT /\ ClockT /\ HandlerInv /\ TypeOK /\ Lives(id)
  BY TypeGroups DEF Orderly, TypeInv, LifeInv
<1>1. pc[w] # "idle" /\ pc[w] # "nack"
  BY DEF HandlerStep, CheckProcessed, ScheduleForCircuit, StartDelivery, Deliver, EnsureRetryData, ScheduleRetry,
         UpdateFailed, UpdateSettled, CleanupRetryData, Nack, PhaseInv
<1>2. Id(w) \in Webhooks /\ Att(w) \in Attempts /\ Id(w) = cur[w][1] /\ Att(w) = cur[w][2]
  BY <1>0, <1>1, Handled DEF Id, Att
<1>3. /\ \A v \in Workers : v # w => pc'[v] = pc[v] /\ cur'[v] = cur[v]
      /\ pc'[w] = "idle" \/ cur'[w] = cur[w]
  BY <1>0 DEF HandlerStep, CheckProcessed, ScheduleForCircuit, StartDelivery, Deliver, EnsureRetryData, ScheduleRetry,
             UpdateFailed, UpdateSettled, CleanupRetryData, Nack, Finish, Goto, WorkerT
<1>4. \A v \in Workers : Holds(v, id)' => Holds(v, id)
  BY <1>1, <1>3 DEF Holds
<1>5. Att(w) \in Int /\ Att(w) < Att(w) + 1 /\ tried[id] \in Int
  BY <1>0, <1>2, ConstantsAssumption DEF Attempts, HistoryT
<1>6. ASSUME UpdateFailed(w) \/ UpdateSettled(w)
      PROVE  \E n \in Record :
               /\ n.id = Id(w) /\ publishing' = publishing \cup {n} /\ \A x \in publishing : x.ts < n.ts
               /\ UpdateFailed(w) => n.kind = "snapshot" /\ n.att = Att(w) + 1
               /\ UpdateSettled(w) => n.kind = "tombstone"
  <2>1. Now \in Stamps /\ Now = clock + 1 /\ clock \in Int
    BY <1>0, <1>6, TickType, StampTypes DEF UpdateFailed, UpdateSettled, Now
  <2>2. \A x \in publishing : x.ts < Now
    <3>1. \A x \in publishing : x.ts <= clock /\ x.ts \in Int
      BY <1>0, StampTypes DEF StampInv, Good, LogT
    <3> QED
      BY <2>1, <3>1
  <2>3. CASE UpdateFailed(w)
    <3>1. PICK n : n = [id |-> Id(w), kind |-> "snapshot", att |-> Att(w) + 1, ts |-> Now]
      OBVIOUS
    <3>2. Att(w) + 1 \in Attempts
      <4>1. Att(w) < MaxAttempts
        BY <1>0, <1>2, <2>3 DEF UpdateFailed, HandlerInv
      <4> QED
        BY <1>2, <4>1, ConstantsAssumption DEF Attempts
    <3>3. n \in Record /\ n.id = Id(w) /\ n.kind = "snapshot" /\ n.att = Att(w) + 1 /\ n.ts = Now
      BY <1>2, <2>1, <3>1, <3>2 DEF Record
    <3>4. publishing' = publishing \cup {n} /\ ~UpdateSettled(w)
      BY <2>3, <3>1 DEF UpdateFailed, UpdateSettled, Spawn
    <3> QED
      BY <2>2, <3>3, <3>4
  <2>4. CASE UpdateSettled(w)
    <3>1. PICK n : n = [id |-> Id(w), kind |-> "tombstone", att |-> 0, ts |-> Now]
      OBVIOUS
    <3>2. 0 \in Attempts
      BY ConstantsAssumption DEF Attempts
    <3>3. n \in Record /\ n.id = Id(w) /\ n.kind = "tombstone" /\ n.ts = Now
      BY <1>2, <2>1, <3>1, <3>2 DEF Record
    <3>4. publishing' = publishing \cup {n} /\ ~UpdateFailed(w)
      BY <2>4, <3>1 DEF UpdateFailed, UpdateSettled, Spawn
    <3> QED
      BY <2>2, <3>3, <3>4
  <2> QED
    BY <1>6, <2>3, <2>4
<1>7. UNCHANGED log
  BY DEF HandlerStep, CheckProcessed, ScheduleForCircuit, StartDelivery, Deliver, EnsureRetryData, ScheduleRetry,
         UpdateFailed, UpdateSettled, CleanupRetryData, Nack
<1>8. ~UpdateFailed(w) /\ ~UpdateSettled(w) => UNCHANGED topicVars
  BY DEF HandlerStep, CheckProcessed, ScheduleForCircuit, StartDelivery, Deliver, EnsureRetryData, ScheduleRetry,
         UpdateFailed, UpdateSettled, CleanupRetryData, Nack
<1>9. publishing \subseteq Record
  BY <1>0 DEF LogT
<1>10. CASE Id(w) # id
  <2>1. /\ \A r \in inbox' : r[1] = id => r \in inbox
        /\ \A r \in zset' : r[1] = id => r \in zset
    <3>1. inbox' = inbox
      BY <1>1 DEF HandlerStep, CheckProcessed, ScheduleForCircuit, StartDelivery, Deliver, EnsureRetryData, ScheduleRetry,
           UpdateFailed, UpdateSettled, CleanupRetryData, Nack
    <3>2. \A r \in zset' : r \in zset \/ r = <<Id(w), Att(w) + 1>>
      BY <1>0 DEF HandlerStep, CheckProcessed, ScheduleForCircuit, StartDelivery, Deliver, EnsureRetryData, ScheduleRetry,
           UpdateFailed, UpdateSettled, CleanupRetryData, Nack
    <3>3. <<Id(w), Att(w) + 1>>[1] = Id(w)
      OBVIOUS
    <3> QED
      BY <1>10, <3>1, <3>2, <3>3
  <2>2. \A v \in Workers : Holds(v, id) => pc'[v] = pc[v] /\ cur'[v] = cur[v]
    BY <1>2, <1>3, <1>10 DEF Holds
  <2>3. outcome'[id] = outcome[id] /\ tried'[id] = tried[id]
    BY <1>0, <1>10 DEF HandlerStep, CheckProcessed, ScheduleForCircuit, StartDelivery, Deliver, EnsureRetryData, ScheduleRetry,
           UpdateFailed, UpdateSettled, CleanupRetryData, Nack, HistoryT
  <2>4. ASSUME NEW q \in Record PROVE Latest(id, q)' <=> Latest(id, q)
    <3>1. CASE UpdateFailed(w) \/ UpdateSettled(w)
      BY <1>6, <1>7, <1>9, <1>10, <3>1, LatestSpawned
    <3>2. CASE ~(UpdateFailed(w) \/ UpdateSettled(w))
      BY <1>8, <3>2, LatestQuiet
    <3> QED
      BY <3>1, <3>2
  <2> QED
    BY <1>0, <1>4, <2>1, <2>2, <2>3, <2>4, LivesSame
<1>11. CASE Id(w) = id
  <2>1. OneLife(id) /\ Untried(id) /\ SnapshotGood(id) /\ RetrySnapshot(id) /\ Holds(w, id)
    BY <1>0, <1>1, <1>2, <1>11 DEF Lives, Holds
  <2>2. \A v \in Workers : Holds(v, id) => v = w
    BY <2>1 DEF OneLife
  <2>3. \A v \in Workers : Holds(v, id)' => v = w
    BY <1>4, <2>2
  <2>4. pc[w] # "failed" => \A r \in inbox \cup zset : r[1] # id
    BY <2>1 DEF OneLife
  <2>5. ASSUME UNCHANGED topicVars, outcome'[id] = outcome[id], tried'[id] = tried[id],
               pc[w] \notin {"ensure", "schedule", "failed", "settle"}
        PROVE  SnapshotGood(id)'
    <3>1. ASSUME NEW q \in Record, Latest(id, q)', q.kind = "snapshot"
          PROVE  outcome'[id] = "none" /\ tried'[id] < q.att
      <4>1. Latest(id, q)
        BY <2>5, <3>1, LatestQuiet
      <4> QED
        BY <2>1, <2>2, <2>5, <3>1, <4>1 DEF SnapshotGood
    <3> QED
      BY <3>1 DEF SnapshotGood
  <2>6. ASSUME pc'[w] \in {"ensure", "schedule", "failed", "settle"} PROVE SnapshotGood(id)'
    <3>1. Holds(w, id)'
      BY <1>2, <1>3, <1>11, <2>6 DEF Holds
    <3> QED
      BY <2>6, <3>1 DEF SnapshotGood
  <2>7. CASE CheckProcessed(w) \/ StartDelivery(w)
    <3>1. UNCHANGED <<inbox, zset, log, publishing, outcome, tried>> /\ pc[w] \in {"check", "start"}
      BY <1>0, <2>7 DEF CheckProcessed, StartDelivery
    <3>2. pc'[w] \in {"idle", "start", "deliver"}
      BY <1>0, <2>7 DEF CheckProcessed, StartDelivery, Finish, Goto, WorkerT
    <3>3. outcome[id] = "none" /\ tried[id] < cur[w][2]
      BY <2>1, <3>1 DEF Untried
    <3>4. SnapshotGood(id)'
      BY <2>5, <3>1
    <3>5. Holds(w, id)' =>
              /\ pc'[w] \in {"check", "start", "deliver"} => outcome'[id] = "none" /\ tried'[id] < cur'[w][2]
              /\ pc'[w] \in {"ensure", "schedule", "failed"} => outcome'[id] = "none" /\ tried'[id] = cur'[w][2]
      BY <1>3, <3>1, <3>2, <3>3 DEF Holds
    <3> QED
      BY <2>3, <2>4, <3>1, <3>4, <3>5, LivesAlone
  <2>8. CASE Deliver(w)
    <3>1. UNCHANGED <<inbox, zset, cur>> /\ pc[w] = "deliver"
      BY <2>8 DEF Deliver
    <3>2. tried[id] < cur[w][2] /\ outcome[id] = "none"
      BY <2>1, <3>1 DEF Untried
    <3>3. tried'[id] = cur[w][2]
      BY <1>0, <1>2, <1>5, <1>11, <2>8, <3>2 DEF Deliver, HistoryT
    <3>4. pc'[w] = "settle" \/ (pc'[w] = "ensure" /\ outcome'[id] = outcome[id])
      BY <1>0, <2>8 DEF Deliver, Goto, WorkerT
    <3>5. SnapshotGood(id)'
      BY <2>6, <3>4
    <3> QED
      BY <2>3, <2>4, <3>1, <3>2, <3>3, <3>4, <3>5, LivesAlone
  <2>9. CASE EnsureRetryData(w)
    <3>1. UNCHANGED <<inbox, zset, cur, outcome, tried>> /\ pc[w] = "ensure" /\ pc'[w] = "schedule"
      BY <1>0, <2>9 DEF EnsureRetryData, Goto, WorkerT
    <3>2. tried[id] = cur[w][2] /\ outcome[id] = "none"
      BY <2>1, <3>1 DEF Untried
    <3>3. SnapshotGood(id)'
      BY <2>6, <3>1
    <3> QED
      BY <2>3, <2>4, <3>1, <3>2, <3>3, LivesAlone
  <2>10. CASE ScheduleRetry(w)
    <3>1. /\ UNCHANGED <<inbox, cur, outcome, tried>> /\ pc[w] = "schedule" /\ pc'[w] = "failed"
          /\ zset' = zset \cup {<<Id(w), Att(w) + 1>>}
      BY <1>0, <2>10 DEF ScheduleRetry, Goto, WorkerT
    <3>2. tried[id] = cur[w][2] /\ outcome[id] = "none"
      BY <2>1, <3>1 DEF Untried
    <3>3. PICK n : n = <<Id(w), Att(w) + 1>>
      OBVIOUS
    <3>4. n[1] = id /\ n[2] = cur[w][2] + 1
      BY <1>2, <1>11, <3>3
    <3>5. \A r \in inbox' \cup zset' : r[1] = id => r = n
      BY <2>4, <3>1, <3>3
    <3>6. \A r \in inbox' : r[1] # id
      BY <2>4, <3>1
    <3>7. OneLife(id)'
      BY <2>3, <3>1, <3>4, <3>5, <3>6 DEF OneLife
    <3>8. Holds(w, id)'
      BY <1>2, <1>11, <3>1 DEF Holds
    <3>9. Untried(id)'
      <4>1. tried'[id] < n[2]
        BY <1>2, <1>5, <3>1, <3>2, <3>4
      <4> QED
        BY <2>3, <3>1, <3>2, <3>5, <4>1 DEF Untried
    <3>10. SnapshotGood(id)'
      BY <2>6, <3>1
    <3>11. RetrySnapshot(id)'
      BY <3>1, <3>8 DEF RetrySnapshot
    <3> QED
      BY <3>7, <3>9, <3>10, <3>11 DEF Lives
  <2>11. CASE UpdateFailed(w)
    <3>1. UNCHANGED <<inbox, zset, outcome, tried>> /\ pc[w] = "failed" /\ pc'[w] = "idle"
      BY <1>0, <2>11 DEF UpdateFailed, Finish, Goto, WorkerT
    <3>2. tried[id] = cur[w][2] /\ outcome[id] = "none"
      BY <2>1, <3>1 DEF Untried
    <3>3. PICK n \in Record : /\ n.id = id /\ publishing' = publishing \cup {n} /\ \A x \in publishing : x.ts < n.ts
                              /\ n.kind = "snapshot" /\ n.att = Att(w) + 1
      BY <1>6, <1>11, <2>11
    <3>4. \A q : Latest(id, q)' <=> q = n
      BY <1>7, <1>9, <3>3, LatestSpawned
    <3>5. \A r \in inbox \cup zset : r[1] = id => r[2] = Att(w) + 1
      BY <1>2, <2>1 DEF OneLife
    <3>6. \A v \in Workers : ~Holds(v, id)'
      BY <2>3, <3>1 DEF Holds
    <3>7. OneLife(id)'
      BY <2>1, <3>1, <3>6 DEF OneLife
    <3>8. Untried(id)'
      BY <2>1, <3>1, <3>6 DEF Untried
    <3>9. SnapshotGood(id)'
      <4>1. outcome'[id] = "none" /\ tried'[id] < n.att
        BY <1>2, <1>5, <3>1, <3>2, <3>3
      <4> QED
        BY <3>4, <4>1 DEF SnapshotGood
    <3>10. RetrySnapshot(id)'
      <4>1. Latest(id, n)'
        BY <3>4
      <4> QED
        BY <3>1, <3>3, <3>5, <4>1 DEF RetrySnapshot
    <3> QED
      BY <3>7, <3>8, <3>9, <3>10 DEF Lives
  <2>12. CASE UpdateSettled(w)
    <3>1. UNCHANGED <<inbox, zset, outcome, tried>> /\ pc[w] = "settle" /\ pc'[w] = "cleanup"
      BY <1>0, <2>12 DEF UpdateSettled, Goto, WorkerT
    <3>2. PICK n \in Record : /\ n.id = id /\ publishing' = publishing \cup {n} /\ \A x \in publishing : x.ts < n.ts
                              /\ n.kind = "tombstone"
      BY <1>6, <1>11, <2>12
    <3>3. \A q : Latest(id, q)' <=> q = n
      BY <1>7, <1>9, <3>2, LatestSpawned
    <3>4. SnapshotGood(id)'
      BY <3>2, <3>3 DEF SnapshotGood
    <3> QED
      BY <2>3, <2>4, <3>1, <3>4, LivesAlone
  <2>13. CASE CleanupRetryData(w)
    <3>1. UNCHANGED <<inbox, zset, log, publishing, outcome, tried>> /\ pc[w] = "cleanup" /\ pc'[w] = "idle"
      BY <1>0, <2>13 DEF CleanupRetryData, Finish, Goto, WorkerT
    <3>2. SnapshotGood(id)'
      BY <2>5, <3>1
    <3> QED
      BY <2>3, <2>4, <3>1, <3>2, LivesAlone
  <2> QED
    BY <1>0, <1>1, <2>7, <2>8, <2>9, <2>10, <2>11, <2>12, <2>13 DEF HandlerStep, ScheduleForCircuit, Nack
<1> QED
  BY <1>10, <1>11
\* A worker takes a message.
LEMMA ReceiveLives ==
    ASSUME TypeInv, LifeInv, NEW w \in Workers, NEW r \in inbox, Receive(w, r), NEW id \in Webhooks, id \notin doubled'
    PROVE  Lives(id)'
<1> USE DEF topicVars, redisVars, queueVars, workerVars, runVars, historyVars
<1>0. /\ pc[w] = "idle" /\ pc'[w] = "check" /\ cur'[w] = r
      /\ \A v \in Workers : v # w => pc'[v] = pc[v] /\ cur'[v] = cur[v]
      /\ inbox' = inbox \ {r} /\ UNCHANGED <<zset, log, publishing, outcome, tried>>
  BY TypeGroups DEF Receive, Goto, WorkerT, TypeInv
<1>1. id \notin doubled /\ (r[1] = id => \A v \in Workers : ~Holds(v, id))
  BY DEF Receive, Holds, Id
<1>2. Lives(id)
  BY <1>1 DEF LifeInv
<1>3. \A q : Latest(id, q)' <=> Latest(id, q)
  BY <1>0, LatestQuiet
<1>4. CASE r[1] # id
  <2>1. \A v \in Workers : Holds(v, id)' => Holds(v, id)
    BY <1>0, <1>4 DEF Holds
  <2>2. \A v \in Workers : Holds(v, id) => pc'[v] = pc[v] /\ cur'[v] = cur[v]
    BY <1>0 DEF Holds
  <2> QED
    BY <1>0, <1>2, <1>3, <2>1, <2>2, LivesSame
<1>5. CASE r[1] = id
  <2>1. OneLife(id) /\ Untried(id) /\ SnapshotGood(id)
    BY <1>2 DEF Lives
  <2>2. \A q \in inbox' \cup zset' : q[1] # id
    BY <1>0, <1>5, <2>1 DEF OneLife
  <2>3. outcome[id] = "none" /\ tried[id] < r[2]
    BY <1>5, <2>1 DEF Untried
  <2>4. \A v \in Workers : Holds(v, id)' => v = w
    BY <1>0, <1>1, <1>5 DEF Holds
  <2>5. SnapshotGood(id)'
    <3>1. ASSUME NEW q \in Record, Latest(id, q)', q.kind = "snapshot"
          PROVE  outcome'[id] = "none" /\ tried'[id] < q.att
      BY <1>0, <1>1, <1>3, <1>5, <2>1, <3>1 DEF SnapshotGood
    <3> QED
      BY <3>1 DEF SnapshotGood
  <2> QED
    BY <1>0, <2>2, <2>3, <2>4, <2>5, LivesAlone
<1> QED
  BY <1>4, <1>5

\* The API accepts a webhook of which nothing is known.
LEMMA EnqueueLives ==
    ASSUME TypeInv, KnownInv, LifeInv, NEW j \in Webhooks, Enqueue(j), NEW id \in Webhooks, id \notin doubled
    PROVE  Lives(id)'
<1> USE DEF topicVars, redisVars, queueVars, workerVars, runVars, historyVars
<1>0. /\ inbox' = inbox \cup {<<j, 0>>} /\ j \notin accepted
      /\ UNCHANGED <<zset, log, publishing, outcome, tried, pc, cur>>
  BY DEF Enqueue
<1>1. Lives(id)
  BY DEF LifeInv
<1>2. \A q : Latest(id, q)' <=> Latest(id, q)
  BY <1>0, LatestQuiet
<1>3. \A v \in Workers : Holds(v, id)' <=> Holds(v, id)
  BY <1>0 DEF Holds
<1>4. CASE id # j
  <2>1. <<j, 0>>[1] = j
    OBVIOUS
  <2> QED
    BY <1>0, <1>1, <1>2, <1>3, <1>4, <2>1, LivesSame
<1>5. CASE id = j
  <2>1. \A r \in inbox \cup zset : r[1] # id
    BY <1>0, <1>5 DEF KnownInv
  <2>2. \A v \in Workers : ~Holds(v, id)'
    BY <1>0, <1>5 DEF KnownInv, Holds
  <2>3. tried[id] = -1 /\ outcome[id] = "none"
    BY <1>0, <1>5 DEF LifeInv
  <2>4. \A q : ~Latest(id, q)
    <3>1. PartitionOf[id] \in Partitions
      BY ConstantsAssumption
    <3>2. \A q \in publishing : q.id # id
      BY <1>0, <1>5 DEF KnownInv, Vouched
    <3>3. \A o \in DOMAIN log[PartitionOf[id]] :
             log[PartitionOf[id]][o] # Gone => log[PartitionOf[id]][o].id # id
      BY <1>0, <1>5, <3>1 DEF KnownInv, Vouched
    <3> QED
      BY <3>2, <3>3 DEF Latest
  <2>5. PICK n : n = <<j, 0>>
    OBVIOUS
  <2>6. n[1] = id /\ n[2] = 0 /\ -1 < n[2]
    BY <1>5, <2>5
  <2>7. \A r \in inbox' \cup zset' : r[1] = id => r = n
    BY <1>0, <2>1, <2>5
  <2>8. OneLife(id)'
    BY <1>0, <2>1, <2>2, <2>7 DEF OneLife
  <2>9. Untried(id)'
    BY <1>0, <2>2, <2>3, <2>6, <2>7 DEF Untried
  <2>10. SnapshotGood(id)'
    BY <1>2, <2>4 DEF SnapshotGood
  <2>11. RetrySnapshot(id)'
    BY <1>0, <2>1 DEF RetrySnapshot
  <2> QED
    BY <2>8, <2>9, <2>10, <2>11 DEF Lives
<1> QED
  BY <1>4, <1>5

\* The scheduler moves a retry to howk.pending, or drops it.
LEMMA RescheduleLives ==
    ASSUME LifeInv, NEW r \in zset, Reschedule(r), NEW id \in Webhooks, id \notin doubled
    PROVE  Lives(id)'
<1> USE DEF topicVars, redisVars, queueVars, workerVars, runVars, historyVars
<1>0. /\ zset' = zset \ {r} /\ (inbox' = inbox \cup {r} \/ inbox' = inbox)
      /\ UNCHANGED <<log, publishing, outcome, tried, pc, cur>>
  BY DEF Reschedule
<1>1. Lives(id) /\ OneLife(id) /\ Untried(id) /\ SnapshotGood(id) /\ RetrySnapshot(id)
  BY DEF LifeInv, Lives
<1>2. \A q : Latest(id, q)' <=> Latest(id, q)
  BY <1>0, LatestQuiet
<1>3. \A v \in Workers : Holds(v, id)' <=> Holds(v, id)
  BY <1>0 DEF Holds
<1>4. inbox' \cup zset' \subseteq inbox \cup zset
  BY <1>0
<1>5. OneLife(id)'
  <2>1. \A q, s \in inbox' \cup zset' : q[1] = id /\ s[1] = id => q = s
    BY <1>1, <1>4 DEF OneLife
  <2>2. \A q \in inbox' : q[1] = id => q \notin zset'
    BY <1>0, <1>1 DEF OneLife
  <2>3. \A v, w \in Workers : Holds(v, id)' /\ Holds(w, id)' => v = w
    BY <1>1, <1>3 DEF OneLife
  <2>4. ASSUME NEW w \in Workers, Holds(w, id)', NEW q \in inbox' \cup zset', q[1] = id
        PROVE  pc'[w] = "failed" /\ q[2] = cur'[w][2] + 1
    BY <1>0, <1>1, <1>3, <1>4, <2>4 DEF OneLife
  <2> QED
    BY <2>1, <2>2, <2>3, <2>4 DEF OneLife
<1>6. Untried(id)'
  BY <1>0, <1>1, <1>3, <1>4 DEF Untried
<1>7. SnapshotGood(id)'
  BY <1>0, <1>1, <1>2, <1>3 DEF SnapshotGood
<1>8. RetrySnapshot(id)'
  BY <1>0, <1>1, <1>2, <1>3 DEF RetrySnapshot
<1> QED
  BY <1>5, <1>6, <1>7, <1>8 DEF Lives

\* The reconciler restores a retry.
LEMMA RestoreLives ==
    ASSUME TypeInv, PhaseInv, LifeInv, RestoreZset, NEW id \in Webhooks, id \notin doubled'
    PROVE  Lives(id)'
<1> USE DEF topicVars, redisVars, queueVars, workerVars, runVars, historyVars, unchangedOutside
<1>0. rpc = "restoreZset" /\ UNCHANGED <<log, publishing, inbox, outcome, tried, pc, cur>>
  BY DEF RestoreZset
<1>1. id \notin doubled /\ Lives(id) /\ OneLife(id) /\ Untried(id) /\ SnapshotGood(id) /\ RetrySnapshot(id)
  <2>1. id \notin doubled
    BY DEF RestoreZset
  <2> QED
    BY <2>1 DEF LifeInv, Lives
<1>2. \A q : Latest(id, q)' <=> Latest(id, q)
  BY <1>0, LatestQuiet
<1>3. \A v \in Workers : ~Holds(v, id) /\ ~Holds(v, id)'
  <2>1. \A v \in Workers : pc[v] = "idle"
    BY <1>0 DEF PhaseInv
  <2> QED
    BY <1>0, <2>1 DEF Holds
<1>4. msg \in Record /\ msg.kind = "snapshot" /\ Latest(msg.id, msg)
  <2>1. msg \in Record
    BY <1>0, TypeGroups DEF TypeInv, RunT
  <2> QED
    BY <1>0, <2>1 DEF LifeInv, ReplayInv
<1>5. CASE UNCHANGED zset \/ msg.id # id
  <2>1. \A r \in zset' : r[1] = id => r \in zset
    <3>1. <<msg.id, msg.att>>[1] = msg.id
      OBVIOUS
    <3> QED
      BY <1>5, <3>1 DEF RestoreZset
  <2> QED
    BY <1>0, <1>1, <1>2, <1>3, <2>1, LivesSame
<1>6. CASE zset' # zset /\ msg.id = id
  <2>1. zset' = zset \cup {<<id, msg.att>>} /\ \A a \in Attempts : <<id, a>> \notin inbox
    BY <1>6 DEF RestoreZset
  <2>2. \A r \in inbox : r[1] # id
    <3>1. \A r \in inbox : r[2] \in Attempts /\ r = <<r[1], r[2]>>
      BY RefFields DEF TypeInv, TypeOK
    <3> QED
      BY <2>1, <3>1
  <2>3. outcome[id] = "none" /\ tried[id] < msg.att
    BY <1>1, <1>3, <1>4, <1>6 DEF SnapshotGood
  <2>4. PICK n : n = <<id, msg.att>>
    OBVIOUS
  <2>5. n[1] = id /\ n[2] = msg.att
    BY <2>4
  <2>6. ASSUME NEW r \in zset, r[1] = id PROVE r = n
    <3>1. PICK q \in Record : Latest(id, q) /\ q.kind = "snapshot" /\ q.att = r[2]
      BY <1>1, <1>3, <2>6 DEF RetrySnapshot
    <3>2. q = msg
      BY <1>4, <1>6, <3>1, LatestUnique DEF LifeInv
    <3>3. r = <<r[1], r[2]>>
      BY RefFields DEF TypeInv, TypeOK
    <3> QED
      BY <2>4, <2>6, <3>1, <3>2, <3>3
  <2>7. \A r \in inbox' \cup zset' : r[1] = id => r = n
    BY <1>0, <2>1, <2>2, <2>4, <2>6
  <2>8. OneLife(id)'
    BY <1>0, <1>3, <2>2, <2>7 DEF OneLife
  <2>9. Untried(id)'
    BY <1>0, <1>3, <2>3, <2>5, <2>7 DEF Untried
  <2>10. SnapshotGood(id)'
    BY <1>0, <1>1, <1>2, <1>3 DEF SnapshotGood
  <2>11. RetrySnapshot(id)'
    <3>1. PICK x \in Record : x = msg /\ Latest(id, x)
      BY <1>4, <1>6
    <3>2. Latest(id, x)'
      BY <1>2, <3>1
    <3>3. \A r \in zset' : r[1] = id => x.att = r[2] /\ x.kind = "snapshot"
      BY <1>4, <2>5, <2>7, <3>1
    <3> QED
      BY <3>2, <3>3 DEF RetrySnapshot
  <2> QED
    BY <2>8, <2>9, <2>10, <2>11 DEF Lives
<1> QED
  BY <1>5, <1>6

\* A step of the operator, the API or the reconciler that adds no retry.
LEMMA QuietLives ==
    ASSUME LifeInv, UNCHANGED <<log, publishing, inbox, pc, cur, outcome, tried>>, zset' \subseteq zset,
           NEW id \in Webhooks, id \notin doubled
    PROVE  Lives(id)'
<1>1. Lives(id)
  BY DEF LifeInv
<1>2. \A q : Latest(id, q)' <=> Latest(id, q)
  BY LatestQuiet DEF topicVars
<1>3. \A v \in Workers : Holds(v, id)' <=> Holds(v, id)
  BY DEF Holds
<1> QED
  BY <1>1, <1>2, <1>3, LivesSame

\* The topic is written or compacted.
LEMMA TopicLives ==
    ASSUME LifeInv, UNCHANGED <<zset, inbox, pc, cur, outcome, tried>>,
           NEW id \in Webhooks, id \notin doubled,
           \A q \in Record : q.kind = "snapshot" => (Latest(id, q)' <=> Latest(id, q))
    PROVE  Lives(id)'
<1>1. Lives(id)
  BY DEF LifeInv
<1>2. \A v \in Workers : Holds(v, id)' <=> Holds(v, id)
  BY DEF Holds
<1> QED
  BY <1>1, <1>2, LivesSame

LEMMA LivesStep ==
    ASSUME Faults \subseteq Orderly, TypeInv, StampInv, PhaseInv, KnownInv, LifeInv, [Next]_vars,
           NEW id \in Webhooks, id \notin doubled'
    PROVE  Lives(id)'
<1> USE DEF topicVars, redisVars, queueVars, workerVars, runVars, historyVars, unchangedOutside
<1>1. ASSUME NEW j \in Webhooks, Enqueue(j) PROVE Lives(id)'
  BY <1>1, EnqueueLives DEF Enqueue
<1>2. ASSUME NEW r \in zset, Reschedule(r) PROVE Lives(id)'
  BY <1>2, RescheduleLives DEF Reschedule
<1>3. ASSUME NEW w \in Workers, HandlerStep(w) PROVE Lives(id)'
  <2>1. id \notin doubled
    BY <1>3 DEF HandlerStep, CheckProcessed, ScheduleForCircuit, StartDelivery, Deliver, EnsureRetryData, ScheduleRetry,
                UpdateFailed, UpdateSettled, CleanupRetryData, Nack
  <2> QED
    BY <1>3, <2>1, HandlerLives
<1>4. ASSUME NEW w \in Workers, NEW r \in inbox, Receive(w, r) PROVE Lives(id)'
  BY <1>4, ReceiveLives
<1>5. ASSUME NEW r \in publishing, PublishState(r) PROVE Lives(id)'
  <2>1. id \notin doubled /\ UNCHANGED <<zset, inbox, pc, cur, outcome, tried>>
    BY <1>5 DEF PublishState
  <2>2. \A q : Latest(id, q)' <=> Latest(id, q)
    BY <1>5, LatestPublished DEF LifeInv
  <2> QED
    BY <2>1, <2>2, TopicLives
<1>6. ASSUME NEW p \in Partitions, NEW o \in DOMAIN log[p], Compact(p, o) PROVE Lives(id)'
  <2>1. id \notin doubled /\ UNCHANGED <<zset, inbox, pc, cur, outcome, tried>>
    BY <1>6 DEF Compact
  <2>2. \A q : q.kind = "snapshot" => (Latest(id, q)' <=> Latest(id, q))
    BY <1>6, LatestCompacted
  <2> QED
    BY <2>1, <2>2, TopicLives
<1>7. CASE RestoreZset
  BY <1>7, RestoreLives
<1>8. CASE \/ \E j \in Webhooks : InitialStatus(j)
           \/ Stop \/ LoseRedis \/ Start \/ Run \/ Die \/ UNCHANGED vars
           \/ Flush \/ Flushed \/ ConsumePartition \/ SkipMessage \/ RestoreStatus \/ RestoreData \/ Complete
  <2>1. /\ id \notin doubled /\ zset' \subseteq zset
        /\ UNCHANGED <<log, publishing, inbox, pc, cur, outcome, tried>>
    BY <1>8 DEF InitialStatus, Stop, LoseRedis, Start, Run, Die, vars, Flush, Flushed, ConsumePartition, SkipMessage,
                RestoreStatus, RestoreData, Complete
  <2> QED
    BY <2>1, QuietLives
<1> QED
  BY <1>1, <1>2, <1>3, <1>4, <1>5, <1>6, <1>7, <1>8 DEF Next, ReconcilerStep

\* What a message that is not superseded restores is the last record of its webhook.
LEMMA MessageLatest ==
    ASSUME TypeInv, PhaseInv, KnownInv, ReplayInv, rpc = "consume", pos \in DOMAIN log[Head(todo)], Message # Gone
    PROVE  Message \in Record /\ Latest(Message.id, Message)
<1>1. Head(todo) \in Partitions /\ Message \in Record
  BY MessageType DEF TypeInv
<1>2. PICK p \in Partitions : p = Head(todo)
  BY <1>1
<1>3. PICK q : q = Message
  OBVIOUS
<1>4. pos \in DOMAIN log[p] /\ log[p][pos] = q /\ q # Gone /\ ~Superseded(p, pos)
  BY <1>2, <1>3 DEF ReplayInv, Message
<1>5. PartitionOf[q.id] = p
  BY <1>4 DEF KnownInv
<1>6. publishing = {}
  BY DEF PhaseInv
<1>7. Latest(q.id, q)
  BY <1>4, <1>5, <1>6 DEF Latest
<1> QED
  BY <1>1, <1>3, <1>7

LEMMA ReplayStep ==
    ASSUME Faults \subseteq Orderly, TypeInv, PhaseInv, KnownInv, LifeInv, [Next]_vars
    PROVE  ReplayInv'
<1> USE DEF topicVars, redisVars, queueVars, workerVars, runVars, historyVars, unchangedOutside
<1>0. ReplayInv /\ "lag" \notin Faults /\ "concurrent" \notin Faults
  BY DEF LifeInv, Orderly
<1>1. CASE rpc = "off" /\ rpc' = "off"
  BY <1>1 DEF ReplayInv
<1>2. CASE UNCHANGED <<log, publishing, rpc, msg>>
  <2>1. ASSUME NEW p \in Partitions, NEW o PROVE Superseded(p, o)' <=> Superseded(p, o)
    BY <1>2 DEF Superseded
  <2>2. rpc \in {"restoreData", "restoreZset"} => (Latest(msg.id, msg)' <=> Latest(msg.id, msg))
    BY <1>2 DEF Latest, Superseded
  <2> QED
    BY <1>0, <1>2, <2>1, <2>2 DEF ReplayInv
<1>3. CASE Run
  BY <1>0, <1>3 DEF Run, ReplayInv, Superseded
<1>4. CASE RestoreStatus
  <2>1. UNCHANGED <<log, publishing>> /\ rpc = "consume" /\ pos \in DOMAIN log[Head(todo)] /\ Message # Gone
        /\ Message.kind = "snapshot"
    BY <1>4 DEF RestoreStatus
  <2>2. PICK q \in Record : q = Message /\ Latest(q.id, q)
    BY <1>0, <2>1, MessageLatest
  <2>3. Latest(q.id, q)'
    BY <2>1, <2>2, LatestQuiet
  <2>4. rpc' \in {"restoreData", "restoreZset"} => msg' = q
    BY <1>4, <2>2 DEF RestoreStatus, Continue
  <2>5. rpc' \in {"restoreData", "restoreZset"} => Latest(msg.id, msg)'
    BY <2>3, <2>4 DEF Latest, Superseded
  <2>6. \A p \in Partitions : \A o : Superseded(p, o)' <=> Superseded(p, o)
    BY <2>1 DEF Superseded
  <2> QED
    BY <1>0, <2>1, <2>2, <2>4, <2>5, <2>6 DEF ReplayInv
<1>5. CASE RestoreData
  <2>1. UNCHANGED <<log, publishing>> /\ rpc = "restoreData" /\ (rpc' = "consume" \/ UNCHANGED msg)
    BY <1>5 DEF RestoreData, Continue
  <2>2. \A p \in Partitions : \A o : Superseded(p, o)' <=> Superseded(p, o)
    BY <2>1 DEF Superseded
  <2>3. UNCHANGED msg => Latest(msg.id, msg)'
    BY <1>0, <2>1 DEF Latest, Superseded, ReplayInv
  <2> QED
    BY <1>0, <2>1, <2>2, <2>3 DEF ReplayInv
<1>6. CASE Flush \/ Flushed \/ ConsumePartition \/ SkipMessage \/ RestoreZset \/ Complete \/ Die
  <2>1. UNCHANGED <<log, publishing>> /\ rpc # "off" /\ rpc' \notin {"restoreData", "restoreZset"}
    BY <1>6 DEF Flush, Flushed, ConsumePartition, SkipMessage, RestoreZset, Complete, Die, Continue, NextPartition, EndOfBody
  <2>2. \A p \in Partitions : \A o : Superseded(p, o)' <=> Superseded(p, o)
    BY <2>1 DEF Superseded
  <2> QED
    BY <1>0, <2>1, <2>2 DEF ReplayInv
<1>7. ASSUME NEW y \in Partitions, NEW c \in DOMAIN log[y], Compact(y, c) PROVE ReplayInv'
  <2>1. UNCHANGED <<rpc, msg>> /\ LogT
    BY <1>7, TypeGroups DEF Compact, TypeInv
  <2>2. ASSUME rpc # "off", NEW p \in Partitions, NEW o \in DOMAIN log'[p], log'[p][o] # Gone
        PROVE  ~Superseded(p, o)'
    <3>1. /\ \A n \in DOMAIN log[p] : log'[p][n] # Gone => log'[p][n] = log[p][n]
          /\ DOMAIN log'[p] = DOMAIN log[p] /\ DOMAIN log[p] = 1 .. Len(log[p]) /\ Len(log'[p]) = Len(log[p])
          /\ Len(log[p]) \in Nat
      <4>1. Len(log[p]) \in Nat
        BY <2>1, LenProperties DEF LogT
      <4> QED
        BY <1>7, <2>1, <4>1, Compacted
    <3>2. ~Superseded(p, o) /\ log'[p][o] = log[p][o] /\ o \in Nat
      BY <1>0, <2>2, <3>1 DEF ReplayInv
    <3>3. ASSUME NEW n \in o + 1 .. Len(log'[p]), log'[p][n] # Gone, log'[p][n].id = log'[p][o].id PROVE FALSE
      <4>1. PICK N \in Nat : N = Len(log[p]) /\ DOMAIN log[p] = 1 .. N /\ Len(log'[p]) = N
        BY <3>1
      <4>2. n \in o + 1 .. N /\ o \in Nat
        BY <3>2, <3>3, <4>1
      <4>3. n \in DOMAIN log[p] /\ n \in o + 1 .. Len(log[p])
        BY ONLY <4>1, <4>2, N \in Nat
      <4> QED
        BY <3>1, <3>2, <3>3, <4>3 DEF Superseded
    <3> QED
      BY <3>3 DEF Superseded
  <2>3. ASSUME rpc \in {"restoreData", "restoreZset"} PROVE msg'.kind = "snapshot" /\ Latest(msg.id, msg)'
    <3>1. PICK q \in Record : q = msg /\ q.kind = "snapshot" /\ Latest(q.id, q)
      <4>1. msg \in Record
        BY <2>3, TypeGroups DEF TypeInv, RunT
      <4> QED
        BY <1>0, <2>3, <4>1 DEF ReplayInv
    <3>2. Latest(q.id, q)'
      <4>1. q.id \in Webhooks
        BY <3>1, RecordFields
      <4> QED
        BY <1>7, <3>1, <4>1, LatestCompacted
    <3> QED
      BY <2>1, <3>1, <3>2 DEF Latest, Superseded
  <2> QED
    BY <2>1, <2>2, <2>3 DEF ReplayInv
<1>8. CASE \/ \E j \in Webhooks : Enqueue(j) \/ InitialStatus(j)
           \/ Stop \/ LoseRedis \/ Start \/ UNCHANGED vars
  <2>1. UNCHANGED <<log, publishing, rpc, msg>>
    BY <1>8 DEF Enqueue, InitialStatus, Stop, LoseRedis, Start, vars
  <2> QED
    BY <1>2, <2>1
<1>9. CASE \/ \E r \in zset : Reschedule(r)
           \/ \E w \in Workers : HandlerStep(w) \/ \E r \in inbox : Receive(w, r)
           \/ \E r \in publishing : PublishState(r)
  <2>1. ~stopped /\ rpc = "off"
    BY <1>9, Quiet DEF PhaseInv
  <2>2. UNCHANGED rpc
    BY <1>9 DEF Reschedule, Receive, PublishState, HandlerStep, CheckProcessed, ScheduleForCircuit, StartDelivery, Deliver,
                EnsureRetryData, ScheduleRetry, UpdateFailed, UpdateSettled, CleanupRetryData, Nack
  <2> QED
    BY <1>1, <2>1, <2>2
<1> QED
  BY <1>3, <1>4, <1>5, <1>6, <1>7, <1>8, <1>9 DEF Next, ReconcilerStep

\* Two goroutines never have the same time.
LEMMA StampsDistinct ==
    ASSUME TypeInv, StampInv, LifeInv, [Next]_vars
    PROVE  \A q, x \in publishing' : q.ts = x.ts => q = x
<1> USE DEF topicVars, redisVars, queueVars, workerVars, runVars, historyVars, unchangedOutside
<1>0. \A q, x \in publishing : q.ts = x.ts => q = x
  BY DEF LifeInv
<1>1. CASE publishing' \subseteq publishing
  BY <1>0, <1>1
<1>2. ASSUME NEW w \in Workers, UpdateFailed(w) \/ UpdateSettled(w)
      PROVE  \A q, x \in publishing' : q.ts = x.ts => q = x
  <2>1. clock \in Int /\ \A x \in publishing : x.ts <= clock /\ x.ts \in Int
    <3>1. clock \in Int /\ publishing \subseteq Record
      BY StampTypes DEF TypeInv, TypeOK
    <3>2. \A x \in publishing : x.ts \in Int
      BY <3>1, StampTypes DEF TypeInv
    <3> QED
      BY <3>1, <3>2 DEF StampInv, Good
  <2>2. PICK n : publishing' = publishing \cup {n} /\ n.ts = Now
    <3>1. CASE UpdateFailed(w)
      <4>1. PICK n : n = [id |-> Id(w), kind |-> "snapshot", att |-> Att(w) + 1, ts |-> Now]
        OBVIOUS
      <4>2. n.ts = Now
        BY <4>1
      <4> QED
        BY <3>1, <4>1, <4>2 DEF UpdateFailed, Spawn
    <3>2. CASE UpdateSettled(w)
      <4>1. PICK n : n = [id |-> Id(w), kind |-> "tombstone", att |-> 0, ts |-> Now]
        OBVIOUS
      <4>2. n.ts = Now
        BY <4>1
      <4> QED
        BY <3>2, <4>1, <4>2 DEF UpdateSettled, Spawn
    <3> QED
      BY <1>2, <3>1, <3>2
  <2>3. \A x \in publishing : x.ts # n.ts
    BY <2>1, <2>2 DEF Now
  <2> QED
    BY <1>0, <2>2, <2>3
<1>3. CASE \E w \in Workers : HandlerStep(w) /\ ~UpdateFailed(w) /\ ~UpdateSettled(w)
  <2>1. UNCHANGED publishing
    BY <1>3 DEF HandlerStep, CheckProcessed, ScheduleForCircuit, StartDelivery, Deliver, EnsureRetryData, ScheduleRetry,
                CleanupRetryData, Nack
  <2> QED
    BY <1>1, <2>1
<1>4. CASE \/ \E id \in Webhooks : Enqueue(id) \/ InitialStatus(id)
           \/ \E r \in zset : Reschedule(r)
           \/ \E w \in Workers : \E r \in inbox : Receive(w, r)
           \/ \E r \in publishing : PublishState(r)
           \/ \E p \in Partitions : \E o \in DOMAIN log[p] : Compact(p, o)
           \/ Stop \/ LoseRedis \/ Start \/ Run \/ ReconcilerStep \/ Die \/ UNCHANGED vars
  <2>1. publishing' \subseteq publishing
    BY <1>4 DEF Enqueue, InitialStatus, Reschedule, Receive, PublishState, Compact, Stop, LoseRedis, Start, Run,
                ReconcilerStep, Flush, Flushed, ConsumePartition, SkipMessage, RestoreStatus, RestoreData, RestoreZset,
                Complete, Die, vars
  <2> QED
    BY <1>1, <2>1
<1> QED
  BY <1>2, <1>3, <1>4 DEF Next

\* Nothing is attempted for a webhook the API has not accepted.
LEMMA UnknownUntried ==
    ASSUME TypeInv, KnownInv, LifeInv, [Next]_vars, NEW id \in Webhooks \ accepted'
    PROVE  tried'[id] = -1 /\ outcome'[id] = "none"
<1> USE DEF topicVars, redisVars, queueVars, workerVars, runVars, historyVars, unchangedOutside
<1>0. id \notin accepted /\ tried[id] = -1 /\ outcome[id] = "none"
  <2>1. id \notin accepted
    BY HistoryKept
  <2> QED
    BY <2>1 DEF LifeInv
<1>1. CASE UNCHANGED <<tried, outcome>>
  BY <1>0, <1>1
<1>2. ASSUME NEW w \in Workers, Deliver(w) PROVE tried'[id] = -1 /\ outcome'[id] = "none"
  <2>1. cur[w][1] \in accepted /\ id # Id(w) /\ HistoryT
    BY <1>0, <1>2, TypeGroups DEF Deliver, KnownInv, Id, TypeInv
  <2> QED
    BY <1>0, <1>2, <2>1 DEF Deliver, HistoryT
<1>3. CASE \/ \E j \in Webhooks : Enqueue(j) \/ InitialStatus(j)
           \/ \E r \in zset : Reschedule(r)
           \/ \E w \in Workers : (HandlerStep(w) /\ ~Deliver(w)) \/ \E r \in inbox : Receive(w, r)
           \/ \E r \in publishing : PublishState(r)
           \/ \E p \in Partitions : \E o \in DOMAIN log[p] : Compact(p, o)
           \/ Stop \/ LoseRedis \/ Start \/ Run \/ ReconcilerStep \/ Die \/ UNCHANGED vars
  <2>1. UNCHANGED <<tried, outcome>>
    BY <1>3 DEF Enqueue, InitialStatus, Reschedule, Receive, PublishState, Compact, Stop, LoseRedis, Start, Run,
                HandlerStep, CheckProcessed, ScheduleForCircuit, StartDelivery, EnsureRetryData, ScheduleRetry, UpdateFailed,
                UpdateSettled, CleanupRetryData, Nack,
                ReconcilerStep, Flush, Flushed, ConsumePartition, SkipMessage, RestoreStatus, RestoreData, RestoreZset,
                Complete, Die, vars
  <2> QED
    BY <1>1, <2>1
<1> QED
  BY <1>2, <1>3 DEF Next

\* The invariants a webhook's single life rests on, as one.
OrderInv == TypeInv /\ StampInv /\ PhaseInv /\ KnownInv /\ LifeInv

LEMMA OrderInit == Init => OrderInv
<1> SUFFICES ASSUME Init PROVE OrderInv
  OBVIOUS
<1>1. TypeInv /\ PhaseInv /\ KnownInv
  BY TypeInit, LossInit DEF LossInv
<1>2. StampInv
  BY DEF Init, StampInv, Absent
<1>3. ASSUME NEW id \in Webhooks PROVE Lives(id)
  <2>1. /\ inbox = {} /\ zset = {} /\ publishing = {} /\ \A w \in Workers : ~Holds(w, id)
    BY DEF Init, Holds
  <2>2. log[PartitionOf[id]] = <<>>
    BY ConstantsAssumption DEF Init
  <2>3. \A q : ~Latest(id, q)
    BY <2>1, <2>2 DEF Latest
  <2> QED
    BY <2>1, <2>3 DEF Lives, OneLife, Untried, SnapshotGood, RetrySnapshot
<1>4. LifeInv
  BY <1>3 DEF Init, LifeInv, ReplayInv
<1> QED
  BY <1>1, <1>2, <1>4 DEF OrderInv

LEMMA OrderStep == Faults \subseteq Orderly /\ OrderInv /\ [Next]_vars => OrderInv'
<1> SUFFICES ASSUME Faults \subseteq Orderly, OrderInv, [Next]_vars PROVE OrderInv'
  OBVIOUS
<1>0. /\ TypeInv /\ StampInv /\ PhaseInv /\ KnownInv /\ LifeInv
      /\ Faults \subseteq Recorded /\ "reorder" \notin Faults
  BY DEF OrderInv, Orderly, Recorded, Tolerated
<1>1. TypeInv'
  BY <1>0, TypeStep
<1>2. StampInv'
  BY <1>0, StampStep
<1>3. PhaseInv'
  BY <1>0, PhaseStep
<1>4. KnownInv'
  BY <1>0, KnownStep
<1>5. LifeInv'
  <2>1. \A id \in Webhooks \ accepted' : tried'[id] = -1 /\ outcome'[id] = "none"
    BY <1>0, UnknownUntried
  <2>2. \A q, x \in publishing' : q.ts = x.ts => q = x
    BY <1>0, StampsDistinct
  <2>3. \A id \in Webhooks \ doubled' : Lives(id)'
    BY <1>0, LivesStep
  <2>4. ReplayInv'
    BY <1>0, ReplayStep
  <2> QED
    BY <2>1, <2>2, <2>3, <2>4 DEF LifeInv
<1> QED
  BY <1>1, <1>2, <1>3, <1>4, <1>5 DEF OrderInv

\* Redis is a cache: with the workers stopped, the topic alone tells of each waiting
\* retry which attempt is next, however often Redis was lost, the rebuild broken
\* off or a partition or a snapshot passed over in it, and however late the API
\* wrote the initial status.
THEOREM Rebuildable == Faults \subseteq Orderly => (Spec => []Reconstructible)
<1> SUFFICES ASSUME Faults \subseteq Orderly PROVE Spec => []Reconstructible
  OBVIOUS
<1>1. OrderInv => Reconstructible
  <2> SUFFICES ASSUME OrderInv, stopped, NEW r \in zset, r[1] \in data \ doubled
               PROVE  \E o \in DOMAIN log[PartitionOf[r[1]]] :
                         /\ log[PartitionOf[r[1]]][o] # Gone
                         /\ log[PartitionOf[r[1]]][o].id = r[1]
                         /\ log[PartitionOf[r[1]]][o].kind = "snapshot"
                         /\ log[PartitionOf[r[1]]][o].att = r[2]
                         /\ ~Superseded(PartitionOf[r[1]], o)
    BY DEF Reconstructible
  <2>1. r[1] \in Webhooks \ doubled
    BY DEF OrderInv, TypeInv, TypeOK
  <2>2. RetrySnapshot(r[1])
    BY <2>1 DEF OrderInv, LifeInv, Lives
  <2>3. publishing = {} /\ \A w \in Workers : pc[w] = "idle"
    BY DEF OrderInv, PhaseInv
  <2>4. PICK q \in Record : Latest(r[1], q) /\ q.kind = "snapshot" /\ q.att = r[2]
    BY <2>2, <2>3 DEF RetrySnapshot, Holds
  <2> QED
    BY <2>3, <2>4 DEF Latest
<1> QED
  BY <1>1, OrderInit, OrderStep, PTL DEF Spec

\* A rebuild revives nothing: what it leaves in the retry queue is of webhooks that
\* are not settled, and of attempts that were not made.
THEOREM NothingRevived == Faults \subseteq Orderly => (Spec => NothingReplayed)
<1> SUFFICES ASSUME Faults \subseteq Orderly PROVE Spec => NothingReplayed
  OBVIOUS
<1>1. OrderInv => \A r \in zset : r[1] \notin doubled => outcome[r[1]] = "none" /\ r[2] > tried[r[1]]
  <2> SUFFICES ASSUME OrderInv, NEW r \in zset, r[1] \notin doubled
               PROVE  outcome[r[1]] = "none" /\ r[2] > tried[r[1]]
    OBVIOUS
  <2>1. r[1] \in Webhooks /\ r[2] \in Int /\ tried[r[1]] \in Int
    <3>1. r[1] \in Webhooks /\ r[2] \in Attempts /\ tried \in [Webhooks -> {-1} \cup Attempts]
      BY RefFields DEF OrderInv, TypeInv, TypeOK
    <3> QED
      BY <3>1, ConstantsAssumption DEF Attempts
  <2>2. Untried(r[1])
    BY <2>1 DEF OrderInv, LifeInv, Lives
  <2> QED
    BY <2>1, <2>2 DEF Untried
<1>2. OrderInv /\ [Next]_vars =>
         [~canary /\ canary' => \A r \in zset : r[1] \notin doubled =>
             outcome[r[1]] = "none" /\ r[2] > tried[r[1]]]_vars
  BY <1>1
<1> QED
  BY <1>2, OrderInit, OrderStep, PTL DEF Spec, NothingReplayed
------------------------------------------------------------------------------
(* The status agrees.                                                      *)

\* The faults under which a status is not behind: the API must be done with it when
\* a worker takes the webhook.
Prompt == {"die", "flush", "partition", "restore"}

\* The reconciler has removed the retry queue, or is not at work.
InStep ==
    \/ canary
    \/ rpc \in {"data", "processed", "flushed"} /\ ~failed
    \/ rpc \in Replaying

StatusGood(id) ==
    /\ outcome[id] # "none" /\ (\A w \in Workers : Holds(w, id) => pc[w] # "settle") =>
          status[id].state \in {"absent", outcome[id]}
    /\ InStep /\ (\A w \in Workers : ~Holds(w, id)) /\ (\E r \in zset : r[1] = id) =>
          status[id].state = "failed"

\* A webhook whose initial status is to be written has only its message.
UnstartedInv ==
    \A id \in initial : /\ id \in accepted /\ outcome[id] = "none" /\ ~Documented(id)
                        /\ \A w \in Workers : ~Holds(w, id)
                        /\ \A r \in zset : r[1] # id

\* Past the flush a status is gone or restored, unless the API wrote it for a webhook
\* of which there is no record.
RewriteInv ==
    /\ rpc \in {"data", "processed", "flushed"} => failed \/ zset = {}
    /\ (rpc \in {"queue", "data", "processed", "flushed"} /\ ~failed) \/ rpc \in Replaying =>
          \A id \in Webhooks : status[id].ts = 0 \/ status[id].state = "failed" \/ ~Logged(id, 1)
    /\ rpc \in {"restoreData", "restoreZset"} => status[msg.id].state = "failed"

TimedInv ==
    /\ \A p \in Partitions : \A o \in DOMAIN log[p] : log[p][o] # Gone => log[p][o].ts >= 1
    /\ \A q \in publishing : q.ts >= 1

StatusInv ==
    /\ \A id \in accepted \ (initial \cup doubled) : StatusGood(id)
    /\ UnstartedInv
    /\ RewriteInv
    /\ TimedInv

\* A step that leaves a webhook's status alone and takes no handler from it.
LEMMA StatusSame ==
    ASSUME NEW id, StatusGood(id), status'[id] = status[id], outcome'[id] = outcome[id], InStep' => InStep,
           \A r \in zset' : r[1] = id => r \in zset,
           \A w \in Workers : Holds(w, id) => pc'[w] = pc[w] /\ cur'[w] = cur[w]
    PROVE  StatusGood(id)'
<1>1. \A w \in Workers : Holds(w, id) => Holds(w, id)' /\ pc'[w] = pc[w]
  BY DEF Holds
<1>2. ASSUME outcome'[id] # "none", \A w \in Workers : Holds(w, id)' => pc'[w] # "settle"
      PROVE  status'[id].state \in {"absent", outcome'[id]}
  BY <1>1, <1>2 DEF StatusGood
<1>3. ASSUME InStep', \A w \in Workers : ~Holds(w, id)', \E r \in zset' : r[1] = id
      PROVE  status'[id].state = "failed"
  BY <1>1, <1>3 DEF StatusGood
<1> QED
  BY <1>2, <1>3 DEF StatusGood

\* A worker writes a status under the time of its step.
LEMMA StatusWritten ==
    ASSUME TypeInv, StampInv, NEW id \in Webhooks, NEW state, Tick, SetStatus(id, state, Now)
    PROVE  /\ status'[id].state = state
           /\ \A i \in Webhooks : i # id => status'[i] = status[i]
<1>1. status[id].ts < Now
  <2>1. clock \in Int /\ status[id].ts \in Int /\ status[id].ts <= clock
    BY StampTypes DEF TypeInv, StampInv
  <2> QED
    BY <2>1 DEF Now
<1>2. status' = [status EXCEPT ![id] = [state |-> state, ts |-> Now]]
  BY <1>1 DEF SetStatus
<1> QED
  BY <1>2 DEF TypeInv, TypeOK

LEMMA HandlerStatus ==
    ASSUME Faults \subseteq Prompt, OrderInv, NEW w \in Workers, HandlerStep(w),
           NEW id \in Webhooks, id \notin doubled, StatusGood(id)
    PROVE  StatusGood(id)'
<1> USE DEF topicVars, redisVars, queueVars, workerVars, runVars, historyVars
<1>0. /\ "schedule" \notin Faults /\ "circuit" \notin Faults
      /\ WorkerT /\ HistoryT /\ TypeOK /\ TypeInv /\ StampInv
  BY TypeGroups DEF Prompt, TypeInv, OrderInv
<1>1. pc[w] # "idle" /\ ~Nack(w)
  BY DEF HandlerStep, CheckProcessed, ScheduleForCircuit, StartDelivery, Deliver, EnsureRetryData, ScheduleRetry,
         UpdateFailed, UpdateSettled, CleanupRetryData, Nack, PhaseInv, OrderInv
<1>2. Id(w) \in Webhooks /\ Id(w) = cur[w][1]
  BY <1>0, <1>1, Handled DEF Id
<1>3. \A v \in Workers : v # w => pc'[v] = pc[v] /\ cur'[v] = cur[v]
  BY <1>0 DEF HandlerStep, CheckProcessed, ScheduleForCircuit, StartDelivery, Deliver, EnsureRetryData, ScheduleRetry,
             UpdateFailed, UpdateSettled, CleanupRetryData, Nack, Finish, Goto, WorkerT
<1>4. UNCHANGED <<rpc, failed, canary>>
  BY DEF HandlerStep, CheckProcessed, ScheduleForCircuit, StartDelivery, Deliver, EnsureRetryData, ScheduleRetry,
             UpdateFailed, UpdateSettled, CleanupRetryData, Nack
<1>5. CASE Id(w) # id
  <2>1. \A r \in zset' : r[1] = id => r \in zset
    <3>1. <<Id(w), Att(w) + 1>>[1] = Id(w)
      OBVIOUS
    <3> QED
      BY <1>0, <1>5, <3>1 DEF HandlerStep, CheckProcessed, ScheduleForCircuit, StartDelivery, Deliver, EnsureRetryData, ScheduleRetry,
             UpdateFailed, UpdateSettled, CleanupRetryData, Nack
  <2>2. \A v \in Workers : Holds(v, id) => pc'[v] = pc[v] /\ cur'[v] = cur[v]
    BY <1>2, <1>3, <1>5 DEF Holds
  <2>3. outcome'[id] = outcome[id]
    BY <1>0, <1>5 DEF HandlerStep, CheckProcessed, ScheduleForCircuit, StartDelivery, Deliver, EnsureRetryData, ScheduleRetry,
           UpdateFailed, UpdateSettled, CleanupRetryData, Nack, HistoryT
  <2>4. status'[id] = status[id]
    <3>1. CASE StartDelivery(w) \/ UpdateFailed(w) \/ UpdateSettled(w)
      BY <1>0, <1>2, <1>5, <3>1, StatusWritten DEF StartDelivery, UpdateFailed, UpdateSettled
    <3>2. CASE ~(StartDelivery(w) \/ UpdateFailed(w) \/ UpdateSettled(w))
      BY <1>1, <3>2 DEF HandlerStep, CheckProcessed, ScheduleForCircuit, Deliver, EnsureRetryData, ScheduleRetry, CleanupRetryData
    <3> QED
      BY <3>1, <3>2
  <2>5. InStep' => InStep
    BY <1>4 DEF InStep
  <2> QED
    BY <2>1, <2>2, <2>3, <2>4, <2>5, StatusSame
<1>6. CASE Id(w) = id
  <2>1. OneLife(id) /\ Untried(id) /\ Holds(w, id)
    BY <1>1, <1>2, <1>6 DEF OrderInv, LifeInv, Lives, Holds
  <2>2. \A v \in Workers : Holds(v, id) => v = w
    BY <2>1 DEF OneLife
  <2>3. pc[w] # "failed" => \A r \in inbox \cup zset : r[1] # id
    BY <2>1 DEF OneLife
  <2>4. ASSUME outcome'[id] = "none", \A r \in zset' : r[1] # id PROVE StatusGood(id)'
    BY <2>4 DEF StatusGood
  <2>5. CASE CheckProcessed(w) \/ StartDelivery(w)
    <3>1. UNCHANGED <<zset, outcome>> /\ pc[w] \in {"check", "start"}
      BY <1>0, <2>5 DEF CheckProcessed, StartDelivery
    <3> QED
      BY <2>1, <2>3, <2>4, <3>1 DEF Untried
  <2>6. CASE Deliver(w)
    <3>1. UNCHANGED <<zset, cur>> /\ pc[w] = "deliver"
      BY <2>6 DEF Deliver
    <3>2. pc'[w] = "settle" \/ (pc'[w] = "ensure" /\ outcome'[id] = outcome[id])
      BY <1>0, <2>6 DEF Deliver, Goto, WorkerT
    <3>3. outcome[id] = "none" /\ \A r \in zset' : r[1] # id
      BY <2>1, <2>3, <3>1 DEF Untried
    <3>4. pc'[w] = "settle" => Holds(w, id)'
      BY <1>2, <1>6, <3>1 DEF Holds
    <3> QED
      BY <2>4, <3>2, <3>3, <3>4 DEF StatusGood
  <2>7. CASE EnsureRetryData(w)
    <3>1. UNCHANGED <<zset, outcome>> /\ pc[w] = "ensure"
      BY <2>7 DEF EnsureRetryData
    <3> QED
      BY <2>1, <2>3, <2>4, <3>1 DEF Untried
  <2>8. CASE ScheduleRetry(w)
    <3>1. UNCHANGED <<cur, outcome>> /\ pc[w] = "schedule" /\ pc'[w] = "failed"
      BY <1>0, <2>8 DEF ScheduleRetry, Goto, WorkerT
    <3>2. outcome'[id] = "none" /\ Holds(w, id)'
      BY <1>2, <1>6, <2>1, <3>1 DEF Untried, Holds
    <3> QED
      BY <3>2 DEF StatusGood
  <2>9. CASE UpdateFailed(w)
    <3>1. UNCHANGED outcome /\ pc[w] = "failed" /\ Tick /\ SetStatus(Id(w), "failed", Now)
      BY <2>9 DEF UpdateFailed
    <3>2. status'[id].state = "failed"
      BY <1>0, <1>2, <1>6, <3>1, StatusWritten
    <3>3. outcome'[id] = "none"
      BY <2>1, <3>1 DEF Untried
    <3> QED
      BY <3>2, <3>3 DEF StatusGood
  <2>10. CASE UpdateSettled(w)
    <3>1. UNCHANGED <<outcome, zset>> /\ pc[w] = "settle" /\ Tick /\ SetStatus(Id(w), outcome[Id(w)], Now)
      BY <2>10 DEF UpdateSettled
    <3>2. status'[id].state = outcome[id]
      BY <1>0, <1>2, <1>6, <3>1, StatusWritten
    <3> QED
      BY <2>3, <3>1, <3>2 DEF StatusGood
  <2>11. CASE CleanupRetryData(w)
    <3>1. UNCHANGED <<outcome, zset, status>> /\ pc[w] = "cleanup"
      BY <2>11 DEF CleanupRetryData
    <3>2. outcome[id] # "none" => status[id].state \in {"absent", outcome[id]}
      BY <2>2, <3>1 DEF StatusGood
    <3> QED
      BY <2>3, <3>1, <3>2 DEF StatusGood
  <2> QED
    BY <1>0, <1>1, <2>5, <2>6, <2>7, <2>8, <2>9, <2>10, <2>11 DEF HandlerStep, ScheduleForCircuit
<1> QED
  BY <1>5, <1>6

\* Where a record in the topic, and one that is to be written, comes from.
LEMMA LogFrom ==
    ASSUME "reorder" \notin Faults, TypeInv, [Next]_vars, NEW p \in Partitions, NEW o \in DOMAIN log'[p]
    PROVE  \/ log'[p][o] = Gone
           \/ o \in DOMAIN log[p] /\ log'[p][o] = log[p][o]
           \/ log'[p][o] \in publishing
<1> USE DEF topicVars, redisVars, queueVars, workerVars, runVars, historyVars, unchangedOutside
<1>0. LogT
  BY TypeGroups DEF TypeInv
<1>1. CASE UNCHANGED log
  BY <1>1
<1>2. ASSUME NEW r \in publishing, PublishState(r), ~UNCHANGED log
      PROVE  (o \in DOMAIN log[p] /\ log'[p][o] = log[p][o]) \/ log'[p][o] = r
  <2>1. r \in Record /\ r.ts \in Int /\ r.id \in Webhooks
    BY StampTypes DEF TypeInv, TypeOK
  <2>2. PICK ts \in r.ts .. r.ts : log' = [log EXCEPT ![PartitionOf[r.id]] = Append(@, [r EXCEPT !.ts = ts])]
    BY <1>2 DEF PublishState
  <2>3. [r EXCEPT !.ts = ts] = r
    BY <2>1, <2>2 DEF Record
  <2>4. PICK k \in Partitions : log' = [log EXCEPT ![k] = Append(@, r)]
    BY <2>1, <2>2, <2>3, ConstantsAssumption
  <2> QED
    BY <1>0, <2>1, <2>4, Appended
<1>3. ASSUME NEW k \in Partitions, NEW n \in DOMAIN log[k], Compact(k, n)
      PROVE  log'[p][o] = Gone \/ (o \in DOMAIN log[p] /\ log'[p][o] = log[p][o])
  BY <1>0, <1>3, Compacted
<1>4. ASSUME NEW w \in Workers, HandlerStep(w) PROVE UNCHANGED log
  BY <1>4 DEF HandlerStep, CheckProcessed, ScheduleForCircuit, StartDelivery, Deliver, EnsureRetryData, ScheduleRetry,
         UpdateFailed, UpdateSettled, CleanupRetryData, Nack
<1>5. CASE \/ Run \/ ReconcilerStep \/ Die \/ Stop \/ LoseRedis \/ Start \/ UNCHANGED vars
           \/ \E i \in Webhooks : Enqueue(i) \/ InitialStatus(i)
           \/ \E r \in zset : Reschedule(r)
           \/ \E w \in Workers : \E r \in inbox : Receive(w, r)
  <2>1. UNCHANGED log
    BY <1>5 DEF Run, ReconcilerStep, Die, Flush, Flushed, ConsumePartition, SkipMessage, RestoreStatus, RestoreData,
                RestoreZset, Complete, Stop, LoseRedis, Start, vars, Enqueue, InitialStatus, Reschedule, Receive
  <2> QED
    BY <1>1, <2>1
<1> QED
  BY <1>1, <1>2, <1>3, <1>4, <1>5 DEF Next

LEMMA PublishingFrom ==
    ASSUME [Next]_vars, NEW q \in publishing'
    PROVE  q \in publishing \/ \E w \in Workers : pc[w] # "idle" /\ q.id = cur[w][1] /\ q.ts = Now /\ Tick
<1> USE DEF topicVars, redisVars, queueVars, workerVars, runVars, historyVars, unchangedOutside
<1>1. ASSUME NEW w \in Workers, UpdateFailed(w) \/ UpdateSettled(w)
      PROVE  q \in publishing \/ (pc[w] # "idle" /\ q.id = cur[w][1] /\ q.ts = Now /\ Tick)
  <2>1. PICK kind, att : publishing' = publishing \cup {[id |-> Id(w), kind |-> kind, att |-> att, ts |-> Now]}
    BY <1>1 DEF UpdateFailed, UpdateSettled, Spawn
  <2>2. q \in publishing \/ (q.id = Id(w) /\ q.ts = Now)
    BY <2>1
  <2> QED
    BY <1>1, <2>2 DEF UpdateFailed, UpdateSettled, Id
<1>2. CASE \E w \in Workers : HandlerStep(w) /\ ~UpdateFailed(w) /\ ~UpdateSettled(w)
  BY <1>2 DEF HandlerStep, CheckProcessed, ScheduleForCircuit, StartDelivery, Deliver, EnsureRetryData, ScheduleRetry,
              CleanupRetryData, Nack
<1>3. CASE \/ \E id \in Webhooks : Enqueue(id) \/ InitialStatus(id)
           \/ \E r \in zset : Reschedule(r)
           \/ \E w \in Workers : \E r \in inbox : Receive(w, r)
           \/ \E r \in publishing : PublishState(r)
           \/ \E p \in Partitions : \E o \in DOMAIN log[p] : Compact(p, o)
           \/ Stop \/ LoseRedis \/ Start \/ Run \/ ReconcilerStep \/ Die \/ UNCHANGED vars
  BY <1>3 DEF Enqueue, InitialStatus, Reschedule, Receive, PublishState, Compact, Stop, LoseRedis, Start, Run,
              ReconcilerStep, Flush, Flushed, ConsumePartition, SkipMessage, RestoreStatus, RestoreData, RestoreZset,
              Complete, Die, vars
<1> QED
  BY <1>1, <1>2, <1>3 DEF Next

\* No handler, no first record.
LEMMA DocumentedFrom ==
    ASSUME "reorder" \notin Faults, TypeInv, [Next]_vars, NEW id \in Webhooks,
           \A w \in Workers : ~Holds(w, id), ~Documented(id)
    PROVE  ~Documented(id)'
<1>1. PICK p \in Partitions : p = PartitionOf[id]
  BY ConstantsAssumption
<1>2. ASSUME NEW q \in publishing', q.id = id PROVE FALSE
  <2>1. q \notin publishing
    BY <1>2 DEF Documented
  <2> QED
    BY <1>2, <2>1, PublishingFrom DEF Holds
<1>3. ASSUME NEW o \in DOMAIN log'[p], o >= 1, log'[p][o] # Gone, log'[p][o].id = id PROVE FALSE
  <2>1. CASE o \in DOMAIN log[p] /\ log'[p][o] = log[p][o]
    BY <1>1, <1>3, <2>1 DEF Documented, Logged
  <2>2. CASE log'[p][o] \in publishing
    BY <1>3, <2>2 DEF Documented
  <2> QED
    BY <1>3, <2>1, <2>2, LogFrom
<1> QED
  BY <1>1, <1>2, <1>3 DEF Documented, Logged

LEMMA LatestDocumented ==
    ASSUME TypeInv, NEW id \in Webhooks, NEW q, Latest(id, q)
    PROVE  Documented(id)
<1>1. PICK p \in Partitions : p = PartitionOf[id]
  BY ConstantsAssumption
<1>2. \A o \in DOMAIN log[p] : o >= 1
  BY DEF TypeInv, TypeOK
<1> QED
  BY <1>1, <1>2 DEF Latest, Documented, Logged

LEMMA TimedStep ==
    ASSUME "reorder" \notin Faults, TypeInv, TimedInv, [Next]_vars
    PROVE  TimedInv'
<1>1. \A q \in publishing' : q.ts >= 1
  <2>1. Now >= 1
    BY ConstantsAssumption DEF Now, TypeInv, TypeOK, Stamps
  <2> QED
    BY <2>1, PublishingFrom DEF TimedInv
<1>2. ASSUME NEW p \in Partitions, NEW o \in DOMAIN log'[p], log'[p][o] # Gone PROVE log'[p][o].ts >= 1
  BY <1>2, LogFrom DEF TimedInv
<1> QED
  BY <1>1, <1>2 DEF TimedInv

LEMMA UnstartedStep ==
    ASSUME Faults \subseteq Prompt, OrderInv, UnstartedInv, [Next]_vars
    PROVE  UnstartedInv'
<1> USE DEF topicVars, redisVars, queueVars, workerVars, runVars, historyVars, unchangedOutside
<1>0. /\ TypeInv /\ KnownInv /\ PhaseInv /\ LifeInv /\ "reorder" \notin Faults /\ "lateapi" \notin Faults
      /\ "circuit" \notin Faults /\ WorkerT /\ HistoryT /\ accepted \subseteq accepted' /\ initial \subseteq Webhooks
  BY TypeGroups, HistoryKept DEF OrderInv, Prompt, TypeInv, TypeOK
<1> SUFFICES ASSUME NEW id \in initial'
             PROVE  /\ id \in accepted' /\ outcome'[id] = "none" /\ ~Documented(id)'
                    /\ \A w \in Workers : ~Holds(w, id)'
                    /\ \A r \in zset' : r[1] # id
  BY DEF UnstartedInv
<1>1. ASSUME Enqueue(id), id \in Webhooks
      PROVE  /\ id \in accepted' /\ outcome'[id] = "none" /\ ~Documented(id)'
             /\ \A w \in Workers : ~Holds(w, id)'
             /\ \A r \in zset' : r[1] # id
  <2>1. id \notin accepted /\ id \in accepted' /\ UNCHANGED <<log, publishing, zset, pc, cur, outcome>>
    BY <1>1 DEF Enqueue
  <2>2. outcome[id] = "none" /\ (\A r \in zset : r[1] # id) /\ \A w \in Workers : ~Holds(w, id)
    BY <1>0, <1>1, <2>1 DEF LifeInv, KnownInv, Holds
  <2>3. ~Documented(id)
    <3>1. PICK p \in Partitions : p = PartitionOf[id]
      BY <1>1, ConstantsAssumption
    <3> QED
      BY <1>0, <2>1, <3>1 DEF Documented, Logged, KnownInv, Vouched
  <2>4. ~Documented(id)'
    BY <1>0, <1>1, <2>2, <2>3, DocumentedFrom
  <2> QED
    BY <2>1, <2>2, <2>4 DEF Holds
<1>2. ASSUME id \in initial
      PROVE  /\ id \in accepted' /\ outcome'[id] = "none" /\ ~Documented(id)'
             /\ \A w \in Workers : ~Holds(w, id)'
             /\ \A r \in zset' : r[1] # id
  <2>1. /\ id \in Webhooks /\ id \in accepted /\ outcome[id] = "none" /\ ~Documented(id)
        /\ \A w \in Workers : ~Holds(w, id)
        /\ \A r \in zset : r[1] # id
    BY <1>0, <1>2 DEF UnstartedInv
  <2>2. ~Documented(id)' /\ id \in accepted'
    BY <1>0, <2>1, DocumentedFrom
  <2>3. ASSUME NEW w \in Workers, HandlerStep(w)
        PROVE  /\ outcome'[id] = "none"
               /\ \A v \in Workers : ~Holds(v, id)'
               /\ \A r \in zset' : r[1] # id
    <3>1. pc[w] # "idle"
      BY <2>3 DEF HandlerStep, CheckProcessed, ScheduleForCircuit, StartDelivery, Deliver, EnsureRetryData, ScheduleRetry,
             UpdateFailed, UpdateSettled, CleanupRetryData, Nack
    <3>2. Id(w) # id /\ cur[w][1] # id
      BY <2>1, <3>1 DEF Holds, Id
    <3>3. /\ \A v \in Workers : v # w => pc'[v] = pc[v] /\ cur'[v] = cur[v]
          /\ pc'[w] = "idle" \/ cur'[w] = cur[w]
      BY <1>0, <2>3 DEF HandlerStep, CheckProcessed, ScheduleForCircuit, StartDelivery, Deliver, EnsureRetryData, ScheduleRetry,
             UpdateFailed, UpdateSettled, CleanupRetryData, Nack, Finish, Goto, WorkerT
    <3>4. \A v \in Workers : ~Holds(v, id)'
      BY <2>1, <3>2, <3>3 DEF Holds
    <3>5. outcome'[id] = outcome[id]
      BY <1>0, <2>1, <2>3, <3>2 DEF HandlerStep, CheckProcessed, ScheduleForCircuit, StartDelivery, Deliver, EnsureRetryData,
             ScheduleRetry, UpdateFailed, UpdateSettled, CleanupRetryData, Nack, HistoryT
    <3>6. zset' \subseteq zset \cup {<<Id(w), Att(w) + 1>>}
      BY <1>0, <2>3 DEF HandlerStep, CheckProcessed, ScheduleForCircuit, StartDelivery, Deliver, EnsureRetryData, ScheduleRetry,
             UpdateFailed, UpdateSettled, CleanupRetryData, Nack
    <3>7. <<Id(w), Att(w) + 1>>[1] = Id(w)
      OBVIOUS
    <3> QED
      BY <2>1, <3>2, <3>4, <3>5, <3>6, <3>7
  <2>4. ASSUME NEW w \in Workers, NEW r \in inbox, Receive(w, r)
        PROVE  /\ outcome'[id] = "none"
               /\ \A v \in Workers : ~Holds(v, id)'
               /\ \A q \in zset' : q[1] # id
    <3>1. r[1] # id /\ UNCHANGED <<zset, outcome>>
      BY <1>0, <1>2, <2>4 DEF Receive
    <3>2. cur'[w] = r /\ \A v \in Workers : v # w => pc'[v] = pc[v] /\ cur'[v] = cur[v]
      BY <1>0, <2>4 DEF Receive, Goto, WorkerT
    <3> QED
      BY <2>1, <3>1, <3>2 DEF Holds
  <2>5. CASE RestoreZset
    <3>1. rpc = "restoreZset" /\ UNCHANGED <<pc, cur, outcome>> /\ zset' \subseteq zset \cup {<<msg.id, msg.att>>}
      BY <2>5 DEF RestoreZset
    <3>2. PICK q \in Record : q = msg /\ Latest(q.id, q)
      <4>1. msg \in Record
        BY <1>0, <3>1, TypeGroups DEF TypeInv, RunT
      <4> QED
        BY <1>0, <3>1, <4>1 DEF LifeInv, ReplayInv
    <3>3. Documented(q.id)
      BY <1>0, <3>2, RecordFields, LatestDocumented
    <3>4. <<msg.id, msg.att>>[1] = msg.id
      OBVIOUS
    <3>5. msg.id # id
      BY <2>1, <3>2, <3>3
    <3> QED
      BY <2>1, <2>2, <3>1, <3>4, <3>5 DEF Holds
  <2>6. CASE \/ \E i \in Webhooks : Enqueue(i) \/ InitialStatus(i)
             \/ \E r \in zset : Reschedule(r)
             \/ \E r \in publishing : PublishState(r)
             \/ \E p \in Partitions : \E o \in DOMAIN log[p] : Compact(p, o)
             \/ Stop \/ LoseRedis \/ Start \/ Run \/ Die \/ UNCHANGED vars
             \/ Flush \/ Flushed \/ ConsumePartition \/ SkipMessage \/ RestoreStatus \/ RestoreData \/ Complete
    <3>1. zset' \subseteq zset /\ UNCHANGED <<pc, cur, outcome>>
      BY <2>6 DEF Enqueue, InitialStatus, Reschedule, PublishState, Compact, Stop, LoseRedis, Start, Run,
                Flush, Flushed, ConsumePartition, SkipMessage, RestoreStatus, RestoreData, Complete, Die, vars
    <3> QED
      BY <2>1, <2>2, <3>1 DEF Holds
  <2> QED
    BY <2>2, <2>3, <2>4, <2>5, <2>6 DEF Next, ReconcilerStep
<1>3. id \in initial \/ (Enqueue(id) /\ id \in Webhooks)
  <2>1. ASSUME NEW j \in Webhooks, Enqueue(j) PROVE id \in initial \/ (Enqueue(id) /\ id \in Webhooks)
    BY <2>1 DEF Enqueue
  <2>2. CASE \E w \in Workers : HandlerStep(w)
    BY <2>2 DEF HandlerStep, CheckProcessed, ScheduleForCircuit, StartDelivery, Deliver, EnsureRetryData, ScheduleRetry,
             UpdateFailed, UpdateSettled, CleanupRetryData, Nack
  <2>3. CASE \/ \E i \in Webhooks : InitialStatus(i)
             \/ \E r \in zset : Reschedule(r)
             \/ \E w \in Workers : \E r \in inbox : Receive(w, r)
             \/ \E r \in publishing : PublishState(r)
             \/ \E p \in Partitions : \E o \in DOMAIN log[p] : Compact(p, o)
             \/ Stop \/ LoseRedis \/ Start \/ Run \/ ReconcilerStep \/ Die \/ UNCHANGED vars
    BY <2>3 DEF InitialStatus, Reschedule, Receive, PublishState, Compact, Stop, LoseRedis, Start, Run,
              ReconcilerStep, Flush, Flushed, ConsumePartition, SkipMessage, RestoreStatus, RestoreData, RestoreZset,
              Complete, Die, vars
  <2> QED
    BY <2>1, <2>2, <2>3 DEF Next
<1> QED
  BY <1>1, <1>2, <1>3

\* restoreState writes its status: past the flush nothing newer is in the way.
LEMMA StatusRestored ==
    ASSUME OrderInv, TimedInv, RewriteInv, RestoreStatus
    PROVE  \E q \in Record :
             /\ q.id \in Webhooks /\ q.kind = "snapshot" /\ Latest(q.id, q)
             /\ \A i \in Webhooks : i # q.id => status'[i] = status[i]
             /\ \/ rpc' = "restoreData" /\ msg' = q /\ status'[q.id].state = "failed"
                \/ rpc' = "consume" /\ UNCHANGED status
<1>0. TypeInv /\ PhaseInv /\ KnownInv /\ ReplayInv /\ TypeOK
  BY DEF OrderInv, LifeInv, TypeInv
<1>1. rpc = "consume" /\ pos \in DOMAIN log[Head(todo)] /\ Message # Gone /\ Message.kind = "snapshot"
  BY DEF RestoreStatus
<1>2. PICK q \in Record : q = Message /\ Latest(q.id, q)
  BY <1>0, <1>1, MessageLatest
<1>3. q.id \in Webhooks /\ q.ts \in Int /\ status[q.id].ts \in Int
  BY <1>0, <1>2, StampTypes
<1>4. publishing = {}
  BY <1>0, <1>1 DEF PhaseInv
<1>5. Logged(q.id, 1)
  BY <1>0, <1>2, <1>3, <1>4, LatestDocumented DEF Documented
<1>6. status[q.id].ts = 0 \/ status[q.id].state = "failed"
  BY <1>1, <1>3, <1>5 DEF RewriteInv, Replaying
<1>7. q.ts >= 1
  <2>1. PICK p \in Partitions : p = PartitionOf[q.id]
    BY <1>3, ConstantsAssumption
  <2>2. PICK o \in DOMAIN log[p] : log[p][o] = q /\ q # Gone
    BY <1>2, <1>4, <2>1 DEF Latest
  <2> QED
    BY <2>2 DEF TimedInv
<1>8. CASE SetStatus(Message.id, "failed", Message.ts) /\ rpc' = "restoreData" /\ msg' = Message
  <2>1. SetStatus(q.id, "failed", q.ts)
    BY <1>2, <1>8
  <2>2. \A i \in Webhooks : i # q.id => status'[i] = status[i]
    BY <1>0, <1>3, <2>1 DEF SetStatus, TypeOK
  <2>3. status'[q.id].state = "failed"
    <3>1. CASE q.ts > status[q.id].ts
      BY <1>0, <1>3, <2>1, <3>1 DEF SetStatus, TypeOK
    <3>2. CASE ~(q.ts > status[q.id].ts)
      BY <1>3, <1>6, <1>7, <2>1, <3>2 DEF SetStatus
    <3> QED
      BY <3>1, <3>2
  <2> QED
    BY <1>1, <1>2, <1>3, <1>8, <2>2, <2>3
<1>9. CASE Continue /\ UNCHANGED status
  BY <1>1, <1>2, <1>3, <1>9 DEF Continue
<1> QED
  BY <1>8, <1>9 DEF RestoreStatus

LEMMA RewriteStep ==
    ASSUME Faults \subseteq Prompt, OrderInv, UnstartedInv, TimedInv, RewriteInv, [Next]_vars
    PROVE  RewriteInv'
<1> USE DEF topicVars, redisVars, queueVars, workerVars, runVars, historyVars, unchangedOutside
<1>0. /\ TypeInv /\ KnownInv /\ PhaseInv /\ LifeInv /\ ReplayInv /\ TypeOK
      /\ "reorder" \notin Faults /\ "scan" \notin Faults
  BY DEF OrderInv, Prompt, LifeInv, TypeInv
<1>1. CASE rpc' \in {"off", "status"}
  BY <1>1 DEF RewriteInv, Replaying
<1>2. ASSUME rpc # "off" PROVE \A id \in Webhooks : ~Logged(id, 1) => ~Logged(id, 1)'
  <2>1. publishing = {} /\ \A w \in Workers : pc[w] = "idle"
    BY <1>0, <1>2 DEF PhaseInv
  <2> SUFFICES ASSUME NEW id \in Webhooks, ~Logged(id, 1) PROVE ~Logged(id, 1)'
    OBVIOUS
  <2>2. ~Documented(id) /\ \A w \in Workers : ~Holds(w, id)
    BY <2>1 DEF Documented, Holds
  <2>3. ~Documented(id)'
    BY <1>0, <2>2, DocumentedFrom
  <2> QED
    BY <2>3 DEF Documented
<1>3. ASSUME rpc \in {"restoreData", "restoreZset"}
      PROVE  msg.id \in Webhooks /\ Documented(msg.id)
  <2>1. PICK q \in Record : q = msg /\ Latest(q.id, q)
    <3>1. msg \in Record
      BY <1>0, <1>3, TypeGroups DEF TypeInv, RunT
    <3> QED
      BY <1>0, <1>3, <3>1 DEF ReplayInv
  <2>2. Documented(q.id) /\ q.id \in Webhooks
    BY <1>0, <2>1, RecordFields, LatestDocumented
  <2> QED
    BY <2>1, <2>2
<1>4. CASE UNCHANGED <<zset, status, rpc, failed, msg>>
  BY <1>1, <1>2, <1>4 DEF RewriteInv, Replaying
<1>5. ASSUME NEW j \in Webhooks, InitialStatus(j) PROVE RewriteInv'
  <2>1. UNCHANGED <<zset, rpc, failed, msg, log>> /\ SetStatus(j, "pending", Now) /\ j \in initial
    BY <1>5 DEF InitialStatus
  <2>2. \A i \in Webhooks : i # j => status'[i] = status[i]
    BY <1>0, <2>1 DEF SetStatus, TypeOK
  <2>3. ~Documented(j) /\ ~Logged(j, 1)
    BY <2>1 DEF UnstartedInv, Documented
  <2>4. ~Logged(j, 1)'
    BY <2>1, <2>3 DEF Logged
  <2>5. rpc \in {"restoreData", "restoreZset"} => status'[msg.id] = status[msg.id]
    BY <1>3, <2>2, <2>3
  <2> QED
    BY <1>1, <1>2, <2>1, <2>2, <2>4, <2>5 DEF RewriteInv, Replaying
<1>6. CASE Flush
  <2>1. rpc # "off" /\ rpc' \in {"queue", "data", "processed", "flushed"}
    BY <1>6 DEF Flush
  <2>2. rpc' \in {"data", "processed", "flushed"} => failed' \/ zset' = {}
    BY <1>0, <1>6 DEF Flush, Remove, RewriteInv
  <2>3. ASSUME NEW id \in Webhooks, ~failed'
        PROVE  status'[id].ts = 0 \/ status'[id].state = "failed" \/ ~Logged(id, 1)'
    <3>1. CASE rpc = "status"
      <4>1. status'[id] = Absent
        BY <1>0, <1>6, <2>3, <3>1 DEF Flush, Remove
      <4> QED
        BY <4>1 DEF Absent
    <3>2. CASE rpc # "status"
      <4>1. ~failed /\ UNCHANGED status /\ rpc \in {"queue", "data", "processed"}
        BY <1>0, <1>6, <2>3, <3>2 DEF Flush, Remove
      <4> QED
        BY <1>2, <2>1, <2>3, <4>1 DEF RewriteInv
    <3> QED
      BY <3>1, <3>2
  <2> QED
    BY <2>1, <2>2, <2>3 DEF RewriteInv, Replaying
<1>13. CASE Flushed
  <2>1. rpc = "flushed" /\ UNCHANGED <<status, log>> /\ (rpc' = "off" \/ (~failed /\ rpc' = "partition"))
    BY <1>13 DEF Flushed
  <2> QED
    BY <1>1, <1>2, <2>1 DEF RewriteInv, Replaying
<1>7. CASE ConsumePartition \/ SkipMessage \/ RestoreZset \/ RestoreData
  <2>1. /\ rpc \in Replaying /\ rpc' \in Replaying /\ UNCHANGED status
        /\ rpc' \in {"restoreData", "restoreZset"} => rpc \in {"restoreData", "restoreZset"} /\ UNCHANGED msg
    BY <1>7 DEF ConsumePartition, SkipMessage, RestoreZset, RestoreData, Continue, NextPartition, EndOfBody,
                Replaying
  <2> QED
    BY <1>2, <2>1 DEF RewriteInv, Replaying
<1>8. CASE RestoreStatus
  <2>1. PICK q \in Record :
             /\ q.id \in Webhooks
             /\ \A i \in Webhooks : i # q.id => status'[i] = status[i]
             /\ \/ rpc' = "restoreData" /\ msg' = q /\ status'[q.id].state = "failed"
                \/ rpc' = "consume" /\ UNCHANGED status
    BY <1>8, StatusRestored
  <2>2. rpc = "consume"
    BY <1>8 DEF RestoreStatus
  <2> QED
    BY <1>2, <2>1, <2>2 DEF RewriteInv, Replaying
<1>9. CASE Complete \/ Die \/ Run
  BY <1>1, <1>9 DEF Complete, Die, Run
<1>10. CASE \/ \E j \in Webhooks : Enqueue(j)
            \/ \E p \in Partitions : \E o \in DOMAIN log[p] : Compact(p, o)
            \/ Stop \/ Start \/ UNCHANGED vars
  <2>1. UNCHANGED <<zset, status, rpc, failed, msg>>
    BY <1>10 DEF Enqueue, Compact, Stop, Start, vars
  <2> QED
    BY <1>4, <2>1
<1>11. CASE LoseRedis
  BY <1>1, <1>11 DEF LoseRedis
<1>12. CASE \/ \E r \in zset : Reschedule(r)
            \/ \E w \in Workers : HandlerStep(w) \/ \E r \in inbox : Receive(w, r)
            \/ \E r \in publishing : PublishState(r)
  <2>1. ~stopped /\ rpc = "off"
    BY <1>0, <1>12, Quiet DEF PhaseInv
  <2>2. UNCHANGED rpc
    BY <1>12 DEF Reschedule, Receive, PublishState, HandlerStep, CheckProcessed, ScheduleForCircuit, StartDelivery, Deliver,
                EnsureRetryData, ScheduleRetry, UpdateFailed, UpdateSettled, CleanupRetryData, Nack
  <2> QED
    BY <1>1, <2>1, <2>2
<1> QED
  BY <1>5, <1>6, <1>7, <1>8, <1>9, <1>10, <1>11, <1>12, <1>13 DEF Next, ReconcilerStep

LEMMA StatusGoodStep ==
    ASSUME Faults \subseteq Prompt, OrderInv, StatusInv, [Next]_vars,
           NEW id \in accepted' \ (initial' \cup doubled')
    PROVE  StatusGood(id)'
<1> USE DEF topicVars, redisVars, queueVars, workerVars, runVars, historyVars, unchangedOutside
<1>0. /\ TypeInv /\ KnownInv /\ PhaseInv /\ LifeInv /\ TypeOK
      /\ "concurrent" \notin Faults /\ "canary" \notin Faults
      /\ UnstartedInv /\ TimedInv /\ RewriteInv /\ id \in Webhooks
      /\ \A i \in accepted \ (initial \cup doubled) : StatusGood(i)
  <2>1. TypeInv'
    BY TypeStep DEF OrderInv
  <2> QED
    BY <2>1 DEF OrderInv, Prompt, StatusInv, TypeInv, TypeOK
<1>1. ASSUME NEW w \in Workers, HandlerStep(w) PROVE StatusGood(id)'
  <2>1. UNCHANGED <<accepted, initial, doubled>>
    BY <1>1 DEF HandlerStep, CheckProcessed, ScheduleForCircuit, StartDelivery, Deliver, EnsureRetryData, ScheduleRetry,
                UpdateFailed, UpdateSettled, CleanupRetryData, Nack
  <2> QED
    BY <1>0, <1>1, <2>1, HandlerStatus
<1>2. ASSUME NEW w \in Workers, NEW r \in inbox, Receive(w, r) PROVE StatusGood(id)'
  <2>1. id \in accepted \ (initial \cup doubled) /\ UNCHANGED <<status, outcome, zset, canary, rpc, failed>>
    BY <1>2 DEF Receive
  <2>2. \A v \in Workers : Holds(v, id) => pc'[v] = pc[v] /\ cur'[v] = cur[v]
    BY <1>0, <1>2, TypeGroups DEF Receive, Goto, WorkerT, Holds, TypeInv
  <2> QED
    BY <1>0, <2>1, <2>2, StatusSame DEF InStep
<1>3. ASSUME NEW j \in Webhooks, InitialStatus(j) PROVE StatusGood(id)'
  <2>1. /\ UNCHANGED <<outcome, zset, canary, rpc, failed, pc, cur, accepted, doubled>> /\ SetStatus(j, "pending", Now)
        /\ initial' = initial \ {j} /\ j \in initial
    BY <1>3 DEF InitialStatus
  <2>2. CASE id = j
    BY <1>0, <2>1, <2>2 DEF UnstartedInv, StatusGood
  <2>3. CASE id # j
    <3>1. status'[id] = status[id]
      BY <1>0, <2>1, <2>3 DEF SetStatus, TypeOK
    <3> QED
      BY <1>0, <2>1, <2>3, <3>1, StatusSame DEF InStep
  <2> QED
    BY <2>2, <2>3
<1>4. CASE RestoreStatus
  <2>1. /\ UNCHANGED <<outcome, zset, canary, pc, cur, accepted, initial, doubled>> /\ rpc = "consume"
        /\ ~canary
    BY <1>0, <1>4 DEF RestoreStatus, PhaseInv
  <2>2. PICK q \in Record :
             /\ q.id \in Webhooks /\ q.kind = "snapshot" /\ Latest(q.id, q)
             /\ \A i \in Webhooks : i # q.id => status'[i] = status[i]
             /\ \/ rpc' = "restoreData" /\ msg' = q /\ status'[q.id].state = "failed"
                \/ rpc' = "consume" /\ UNCHANGED status
    BY <1>0, <1>4, StatusRestored
  <2>3. InStep
    BY <2>1 DEF InStep, Replaying
  <2>4. CASE status'[id] = status[id]
    BY <1>0, <2>1, <2>3, <2>4, StatusSame
  <2>5. CASE status'[id] # status[id]
    <3>1. id = q.id /\ status'[id].state = "failed"
      BY <1>0, <2>2, <2>5
    <3>2. \A w \in Workers : ~Holds(w, id)
      BY <1>0, <2>1 DEF PhaseInv, Holds
    <3>3. outcome[id] = "none"
      BY <1>0, <2>1, <2>2, <3>1, <3>2 DEF LifeInv, Lives, SnapshotGood
    <3> QED
      BY <2>1, <3>1, <3>3 DEF StatusGood
  <2> QED
    BY <2>4, <2>5
<1>5. CASE RestoreZset
  <2>1. /\ UNCHANGED <<outcome, status, canary, pc, cur, accepted, initial>> /\ rpc = "restoreZset"
        /\ doubled \subseteq doubled' /\ zset' \subseteq zset \cup {<<msg.id, msg.att>>}
    BY <1>5 DEF RestoreZset
  <2>2. InStep
    BY <2>1 DEF InStep, Replaying
  <2>3. StatusGood(id)
    BY <1>0, <2>1
  <2>4. <<msg.id, msg.att>>[1] = msg.id
    OBVIOUS
  <2>5. CASE msg.id # id
    BY <2>1, <2>2, <2>3, <2>4, <2>5, StatusSame
  <2>6. CASE msg.id = id
    <3>1. status[id].state = "failed"
      BY <1>0, <2>1, <2>6 DEF RewriteInv
    <3> QED
      BY <2>1, <2>3, <3>1 DEF StatusGood, Holds
  <2> QED
    BY <2>5, <2>6
<1>6. CASE Flush
  <2>1. /\ UNCHANGED <<outcome, canary, pc, cur>> /\ ~canary
        /\ rpc' \in {"queue", "data", "processed", "flushed"} /\ id \in accepted \ (initial \cup doubled)
    BY <1>0, <1>6 DEF Flush, PhaseInv
  <2>2. status'[id] = status[id] \/ status'[id].state = "absent"
    BY <1>0, <1>6 DEF Flush, Absent
  <2>3. rpc' \in {"data", "processed", "flushed"} => failed' \/ zset' = {}
    BY <1>0, <1>6 DEF Flush, Remove, RewriteInv
  <2>4. InStep' => zset' = {}
    BY <2>1, <2>3 DEF InStep, Replaying
  <2>5. StatusGood(id)
    BY <1>0, <2>1
  <2>6. ASSUME outcome'[id] # "none", \A w \in Workers : Holds(w, id)' => pc'[w] # "settle"
        PROVE  status'[id].state \in {"absent", outcome'[id]}
    BY <2>1, <2>2, <2>5, <2>6 DEF StatusGood, Holds
  <2> QED
    BY <2>4, <2>6 DEF StatusGood
<1>11. CASE Flushed
  <2>1. /\ UNCHANGED <<outcome, status, zset, canary, pc, cur, accepted, initial, doubled>> /\ ~canary
        /\ rpc = "flushed" /\ (rpc' = "off" \/ (~failed /\ rpc' = "partition"))
    BY <1>0, <1>11 DEF Flushed, PhaseInv
  <2>2. InStep' => InStep
    BY <2>1 DEF InStep, Replaying
  <2> QED
    BY <1>0, <2>1, <2>2, StatusSame
<1>7. CASE LoseRedis
  <2>1. status'[id].state = "absent" /\ zset' = {}
    BY <1>0, <1>7 DEF LoseRedis, Absent
  <2> QED
    BY <2>1 DEF StatusGood
<1>8. CASE Run \/ Die
  <2>1. UNCHANGED <<outcome, status, zset, pc, cur, accepted, initial, doubled>>
        /\ rpc' \in {"off", "status"}
    BY <1>8 DEF Run, Die
  <2>2. ~canary'
    BY <1>0, <1>8 DEF Run, Die, PhaseInv
  <2>3. ~InStep'
    BY <2>1, <2>2 DEF InStep, Replaying
  <2> QED
    BY <1>0, <2>1, <2>3, StatusSame
<1>9. CASE ConsumePartition \/ SkipMessage \/ RestoreData \/ Complete
  <2>1. /\ UNCHANGED <<outcome, status, zset, pc, cur, accepted, initial, doubled>>
        /\ rpc \in Replaying
    BY <1>9 DEF ConsumePartition, SkipMessage, RestoreData, Complete, Replaying
  <2>2. InStep
    BY <2>1 DEF InStep
  <2> QED
    BY <1>0, <2>1, <2>2, StatusSame
<1>10. CASE \/ \E j \in Webhooks : Enqueue(j)
            \/ \E r \in zset : Reschedule(r)
            \/ \E r \in publishing : PublishState(r)
            \/ \E p \in Partitions : \E o \in DOMAIN log[p] : Compact(p, o)
            \/ Stop \/ Start \/ UNCHANGED vars
  <2>1. /\ UNCHANGED <<outcome, status, pc, cur, doubled, canary, rpc, failed>> /\ zset' \subseteq zset
        /\ id \in accepted \ initial
    BY <1>10 DEF Enqueue, Reschedule, PublishState, Compact, Stop, Start, vars
  <2>2. InStep' => InStep
    BY <2>1 DEF InStep
  <2> QED
    BY <1>0, <2>1, <2>2, StatusSame
<1> QED
  BY <1>1, <1>2, <1>3, <1>4, <1>5, <1>6, <1>7, <1>8, <1>9, <1>10, <1>11 DEF Next, ReconcilerStep

\* While no handler has a webhook and Redis is initialized, its status is not behind
\* what happened to it, through losses and rebuilds, complete or not.  It needs that
\* the API has written the initial status when a worker takes the webhook, and that
\* records keep their order.
THEOREM StatusNotBehind == Faults \subseteq Prompt => (Spec => []StatusAgrees)
<1> SUFFICES ASSUME Faults \subseteq Prompt PROVE Spec => []StatusAgrees
  OBVIOUS
<1>0. Faults \subseteq Orderly /\ "reorder" \notin Faults
  BY DEF Prompt, Orderly
<1>1. Init => StatusInv
  <2> SUFFICES ASSUME Init PROVE StatusInv
    OBVIOUS
  <2>1. accepted = {} /\ initial = {} /\ rpc = "off" /\ publishing = {}
    BY DEF Init
  <2>2. \A p \in Partitions : DOMAIN log[p] = {}
    BY DEF Init
  <2> QED
    BY <2>1, <2>2 DEF StatusInv, UnstartedInv, RewriteInv, TimedInv, Replaying
<1>2. OrderInv /\ StatusInv /\ [Next]_vars => StatusInv'
  <2> SUFFICES ASSUME OrderInv, StatusInv, [Next]_vars PROVE StatusInv'
    OBVIOUS
  <2>1. UnstartedInv /\ RewriteInv /\ TimedInv /\ TypeInv
    BY DEF StatusInv, OrderInv
  <2>2. \A id \in accepted' \ (initial' \cup doubled') : StatusGood(id)'
    BY StatusGoodStep
  <2>3. UnstartedInv'
    BY <2>1, UnstartedStep
  <2>4. RewriteInv'
    BY <2>1, RewriteStep
  <2>5. TimedInv'
    BY <1>0, <2>1, TimedStep
  <2> QED
    BY <2>2, <2>3, <2>4, <2>5 DEF StatusInv
<1>3. OrderInv /\ StatusInv => StatusAgrees
  <2> SUFFICES ASSUME OrderInv, StatusInv, canary, NEW id \in accepted \ (initial \cup doubled),
                      \A w \in Workers : pc[w] # "idle" => Id(w) # id
               PROVE  /\ outcome[id] # "none" => status[id].state \in {"absent", outcome[id]}
                      /\ (outcome[id] = "none" /\ \E a \in Attempts : <<id, a>> \in zset)
                           => status[id].state = "failed"
    BY DEF StatusAgrees
  <2>1. StatusGood(id) /\ InStep /\ \A w \in Workers : ~Holds(w, id)
    BY DEF StatusInv, InStep, Holds, Id
  <2>2. ASSUME NEW a \in Attempts, <<id, a>> \in zset PROVE \E r \in zset : r[1] = id
    <3>1. <<id, a>>[1] = id
      OBVIOUS
    <3> QED
      BY <2>2, <3>1
  <2> QED
    BY <2>1, <2>2 DEF StatusGood
<1>4. OrderInv /\ [Next]_vars => OrderInv'
  BY <1>0, OrderStep
<1> QED
  BY <1>1, <1>2, <1>3, <1>4, OrderInit, PTL DEF Spec
===============================================================================
