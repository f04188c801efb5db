--------------------------- MODULE ScriptSyncProofs ---------------------------
(***************************************************************************)
(* Proofs about ScriptSync, for every number of processes, requests,       *)
(* config ids and records, and for every pattern of crashes, replay        *)
(* errors, Redis faults and compactions.                                   *)
(***************************************************************************)
EXTENDS ScriptSync, SequenceTheorems, FiniteSetTheorems, TLAPS

\* What a process holds after it has applied record o of k.
Value(k, o) == IF log[k][o] = "script" THEN o ELSE 0

\* The parts of the state the argument is about are functions.
Shape ==
    /\ log \in [Keys -> Seq({"script", "tombstone"})]
    /\ kept = [k \in Keys |-> kept[k]]
    /\ pos \in [Procs -> [Keys -> Nat]]
    /\ loader = [p \in Procs |-> [k \in Keys |-> loader[p][k]]]
    /\ late = [p \in Procs |-> late[p]]

\* Compaction keeps the newest record of a config id.
NewestKept ==
    \A k \in Keys : log[k] # <<>> => Len(log[k]) \in kept[k]

\* A position lies in the log or just behind it.
InLog ==
    /\ \A k \in Keys : kept[k] \subseteq 1 .. Len(log[k])
    /\ \A p \in Procs, k \in Keys : 1 <= pos[p][k] /\ pos[p][k] <= Len(log[k]) + 1

\* The entry of a Loader that no request has written is the last record the
\* replay has applied; at the beginning of a replay it may be left from the
\* one before, unless the topic is empty.
Applied(p, k) ==
    \/ k \in late[p]
    \/ pos[p][k] = 1 /\ (log[k] = <<>> => loader[p][k] = 0)
    \/ pos[p][k] > 1 /\ loader[p][k] = Value(k, pos[p][k] - 1)

ReplayInv ==
    /\ Shape /\ NewestKept /\ InLog
    /\ \A p \in Procs, k \in Keys : Applied(p, k)

LEMMA ReplayInit == Init => ReplayInv
BY DEF Init, ReplayInv, Shape, NewestKept, InLog, Applied, Nothing

\* A record published to the topic changes no record before it.
LEMMA PublishKeeps ==
    ASSUME ReplayInv, NEW k \in Keys, NEW record \in {"script", "tombstone"},
           Publish(k, record), UNCHANGED <<pos, loader, late>>
    PROVE  ReplayInv'
<1>1. /\ log \in [Keys -> Seq({"script", "tombstone"})] /\ kept = [q \in Keys |-> kept[q]]
      /\ log[k] \in Seq({"script", "tombstone"}) /\ Len(log[k]) \in Nat
  BY DEF ReplayInv, Shape
<1>2. /\ log' = [log EXCEPT ![k] = Append(@, record)]
      /\ kept' = [kept EXCEPT ![k] = @ \cup {Len(log[k]) + 1}]
  BY DEF Publish
<1>3. log'[k] = Append(log[k], record) /\ kept'[k] = kept[k] \cup {Len(log[k]) + 1}
  BY <1>1, <1>2
<1>4. \A q \in Keys : q # k => log'[q] = log[q] /\ kept'[q] = kept[q]
  BY <1>1, <1>2
<1>5. Len(log'[k]) = Len(log[k]) + 1 /\ log'[k] # <<>>
  BY <1>1, <1>3
<1>6. Shape'
  <2>1. log' \in [Keys -> Seq({"script", "tombstone"})]
    BY <1>1, <1>2
  <2>2. kept' = [q \in Keys |-> kept'[q]]
    BY <1>1, <1>2
  <2> QED
    BY <2>1, <2>2 DEF ReplayInv, Shape
<1>7. NewestKept'
  BY <1>3, <1>4, <1>5 DEF ReplayInv, NewestKept
<1>8. InLog'
  <2>1. \A q \in Keys : kept'[q] \subseteq 1 .. Len(log'[q])
    <3>1. kept[k] \subseteq 1 .. Len(log[k])
      BY DEF ReplayInv, InLog
    <3>2. kept'[k] \subseteq 1 .. Len(log'[k])
      BY <1>1, <1>3, <1>5, <3>1
    <3> QED
      BY <1>4, <3>2 DEF ReplayInv, InLog
  <2>2. \A p \in Procs, q \in Keys : 1 <= pos[p][q] /\ pos[p][q] <= Len(log'[q]) + 1
    <3> SUFFICES ASSUME NEW p \in Procs, NEW q \in Keys
                 PROVE  1 <= pos[p][q] /\ pos[p][q] <= Len(log'[q]) + 1
      OBVIOUS
    <3>1. pos[p][q] \in Nat /\ 1 <= pos[p][q] /\ pos[p][q] <= Len(log[q]) + 1
      BY DEF ReplayInv, InLog, Shape
    <3>2. CASE q = k
      BY <1>1, <1>5, <3>1, <3>2
    <3>3. CASE q # k
      BY <1>4, <3>1, <3>3
    <3> QED
      BY <3>2, <3>3
  <2> QED
    BY <2>1, <2>2 DEF InLog
<1>9. ASSUME NEW p \in Procs, NEW q \in Keys PROVE Applied(p, q)'
  <2>1. CASE q # k
    BY <1>4, <2>1 DEF ReplayInv, Applied, Value
  <2>2. CASE q = k
    <3>1. pos[p][k] > 1 => Value(k, pos[p][k] - 1)' = Value(k, pos[p][k] - 1)
      <4> SUFFICES ASSUME pos[p][k] > 1
                   PROVE  log'[k][pos[p][k] - 1] = log[k][pos[p][k] - 1]
        BY DEF Value
      <4>1. pos[p][k] \in Nat /\ pos[p][k] <= Len(log[k]) + 1
        BY DEF ReplayInv, InLog, Shape
      <4>2. pos[p][k] - 1 \in 1 .. Len(log[k])
        BY <1>1, <4>1
      <4> QED
        BY <1>1, <1>3, <4>2
    <3>2. Applied(p, k)
      BY DEF ReplayInv
    <3> QED
      BY <1>5, <2>2, <3>1, <3>2 DEF Applied
  <2> QED
    BY <2>1, <2>2
<1> QED
  BY <1>6, <1>7, <1>8, <1>9 DEF ReplayInv

\* An entry of the Loader written by a request is marked as such.
LEMMA SetLocalKeeps ==
    ASSUME ReplayInv, NEW p, NEW k, NEW v, SetLocal(p, k, v), UNCHANGED <<log, kept, pos>>
    PROVE  ReplayInv'
<1>1. /\ loader = [q \in Procs |-> [c \in Keys |-> loader[q][c]]]
      /\ late = [q \in Procs |-> late[q]]
  BY DEF ReplayInv, Shape
<1>2. /\ loader' = [loader EXCEPT ![p][k] = v]
      /\ late' = [late EXCEPT ![p] = @ \cup {k}]
  BY DEF SetLocal
<1>3. Shape'
  <2>1. loader' = [q \in Procs |-> [c \in Keys |-> loader'[q][c]]]
    BY <1>1, <1>2
  <2>2. late' = [q \in Procs |-> late'[q]]
    BY <1>1, <1>2
  <2> QED
    BY <2>1, <2>2 DEF ReplayInv, Shape
<1>4. NewestKept' /\ InLog'
  BY DEF ReplayInv, NewestKept, InLog
<1>5. ASSUME NEW q \in Procs, NEW c \in Keys PROVE Applied(q, c)'
  <2>1. CASE q = p /\ c = k
    <3>1. c \in late'[q]
      BY <1>1, <1>2, <2>1
    <3> QED
      BY <3>1 DEF Applied
  <2>2. CASE ~(q = p /\ c = k)
    <3>1. loader'[q][c] = loader[q][c]
      BY <1>1, <1>2, <2>2
    <3>2. late[q] \subseteq late'[q]
      BY <1>1, <1>2
    <3>3. Applied(q, c)
      BY DEF ReplayInv
    <3> QED
      BY <3>1, <3>2, <3>3 DEF Applied, Value
  <2> QED
    BY <2>1, <2>2
<1> QED
  BY <1>3, <1>4, <1>5 DEF ReplayInv

\* The replay applies the next record that compaction has left.
LEMMA ReplayRecordKeeps ==
    ASSUME ReplayInv, NEW p \in Procs, NEW k \in Keys, ReplayRecord(p, k)
    PROVE  ReplayInv'
<1>1. PICK o \in NextKept(p, k) :
        /\ loader' = [loader EXCEPT ![p][k] = IF log[k][o] = "script" THEN o ELSE 0]
        /\ pos' = [pos EXCEPT ![p][k] = o + 1]
  BY DEF ReplayRecord
<1>2. late' = [late EXCEPT ![p] = @ \ {k}] /\ UNCHANGED <<log, kept>>
  BY DEF ReplayRecord, topicVars
<1>3. /\ loader = [q \in Procs |-> [c \in Keys |-> loader[q][c]]]
      /\ late = [q \in Procs |-> late[q]]
      /\ pos \in [Procs -> [Keys -> Nat]]
      /\ Len(log[k]) \in Nat
  BY DEF ReplayInv, Shape
<1>4. o \in 1 .. Len(log[k])
  BY <1>1 DEF NextKept, ReplayInv, InLog
<1>5. o \in Nat /\ o >= 1 /\ o <= Len(log[k]) /\ o + 1 - 1 = o /\ o + 1 > 1
  BY <1>3, <1>4
<1>6. pos' \in [Procs -> [Keys -> Nat]]
  BY <1>1, <1>3, <1>5
<1>7. pos'[p][k] = o + 1 /\ loader'[p][k] = Value(k, o)
  BY <1>1, <1>3 DEF Value
<1>8. ASSUME NEW q \in Procs, NEW c \in Keys, ~(q = p /\ c = k)
      PROVE  pos'[q][c] = pos[q][c] /\ loader'[q][c] = loader[q][c] /\ (c \in late[q] => c \in late'[q])
  BY <1>1, <1>2, <1>3, <1>8
<1>9. Shape'
  <2>1. loader' = [q \in Procs |-> [c \in Keys |-> loader'[q][c]]]
    BY <1>1, <1>3
  <2>2. late' = [q \in Procs |-> late'[q]]
    BY <1>2, <1>3
  <2> QED
    BY <1>2, <1>6, <2>1, <2>2 DEF ReplayInv, Shape
<1>10. NewestKept'
  BY <1>2 DEF ReplayInv, NewestKept
<1>11. InLog'
  <2> SUFFICES ASSUME NEW q \in Procs, NEW c \in Keys
               PROVE  1 <= pos'[q][c] /\ pos'[q][c] <= Len(log[c]) + 1
    BY <1>2 DEF ReplayInv, InLog
  <2>1. CASE q = p /\ c = k
    BY <1>3, <1>5, <1>7, <2>1
  <2>2. CASE ~(q = p /\ c = k)
    BY <1>8, <2>2 DEF ReplayInv, InLog
  <2> QED
    BY <2>1, <2>2
<1>12. ASSUME NEW q \in Procs, NEW c \in Keys PROVE Applied(q, c)'
  <2>1. CASE q = p /\ c = k
    BY <1>2, <1>5, <1>7, <2>1 DEF Applied, Value
  <2>2. CASE ~(q = p /\ c = k)
    <3>1. Applied(q, c)
      BY DEF ReplayInv
    <3> QED
      BY <1>2, <1>8, <2>2, <3>1 DEF Applied, Value
  <2> QED
    BY <2>1, <2>2
<1> QED
  BY <1>9, <1>10, <1>11, <1>12 DEF ReplayInv

\* A replay that starts again meets the newest record before it has caught up.
LEMMA ReplayFromOldestKeeps ==
    ASSUME ReplayInv, NEW p \in Procs, ReplayFromOldest(p), UNCHANGED <<log, kept>>,
           \/ /\ loader' = [loader EXCEPT ![p] = Nothing]
              /\ late' = [late EXCEPT ![p] = {}]
           \/ UNCHANGED <<loader, late>>
    PROVE  ReplayInv'
<1>1. /\ loader = [q \in Procs |-> [c \in Keys |-> loader[q][c]]]
      /\ late = [q \in Procs |-> late[q]]
      /\ pos \in [Procs -> [Keys -> Nat]]
      /\ \A c \in Keys : Len(log[c]) \in Nat /\ log[c] \in Seq({"script", "tombstone"})
  BY DEF ReplayInv, Shape
<1>2. pos' = [pos EXCEPT ![p] = [k \in Keys |-> 1]]
  BY DEF ReplayFromOldest
<1>3. pos' \in [Procs -> [Keys -> Nat]]
  BY <1>1, <1>2
<1>4. \A c \in Keys : pos'[p][c] = 1
  BY <1>1, <1>2
<1>5. \A q \in Procs : q # p => pos'[q] = pos[q] /\ loader'[q] = loader[q] /\ late'[q] = late[q]
  BY <1>1, <1>2
<1>6. Shape'
  <2>1. loader' = [q \in Procs |-> [c \in Keys |-> loader'[q][c]]]
    BY <1>1 DEF Nothing
  <2>2. late' = [q \in Procs |-> late'[q]]
    BY <1>1
  <2> QED
    BY <1>3, <2>1, <2>2 DEF ReplayInv, Shape
<1>7. NewestKept'
  BY DEF ReplayInv, NewestKept
<1>8. InLog'
  <2> SUFFICES ASSUME NEW q \in Procs, NEW c \in Keys
               PROVE  1 <= pos'[q][c] /\ pos'[q][c] <= Len(log[c]) + 1
    BY DEF ReplayInv, InLog
  <2>1. CASE q = p
    BY <1>1, <1>4, <2>1
  <2>2. CASE q # p
    BY <1>5, <2>2 DEF ReplayInv, InLog
  <2> QED
    BY <2>1, <2>2
<1>9. ASSUME NEW q \in Procs, NEW c \in Keys PROVE Applied(q, c)'
  <2>1. CASE q # p
    <3>1. Applied(q, c)
      BY DEF ReplayInv
    <3> QED
      BY <1>5, <2>1, <3>1 DEF Applied, Value
  <2>2. CASE q = p
    <3>1. CASE loader' = [loader EXCEPT ![p] = Nothing]
      <4>1. loader'[p][c] = 0
        BY <1>1, <3>1 DEF Nothing
      <4> QED
        BY <1>4, <2>2, <4>1 DEF Applied
    <3>2. CASE UNCHANGED <<loader, late>>
      <4>1. log[c] = <<>> => pos[p][c] = 1
        BY <1>1 DEF ReplayInv, InLog
      <4>2. Applied(p, c)
        BY DEF ReplayInv
      <4>3. c \in late[p] \/ (log[c] = <<>> => loader[p][c] = 0)
        BY <4>1, <4>2 DEF Applied
      <4> QED
        BY <1>4, <2>2, <3>2, <4>3 DEF Applied
    <3> QED
      BY <3>1, <3>2
  <2> QED
    BY <2>1, <2>2
<1> QED
  BY <1>6, <1>7, <1>8, <1>9 DEF ReplayInv

\* Compaction without loss of a tombstone keeps the newest record.
LEMMA CompactKeeps ==
    ASSUME "retention" \notin Faults, ReplayInv, NEW k \in Keys, NEW o \in 1 .. RecordBound, Compact(k, o)
    PROVE  ReplayInv'
<1>1. o < Len(log[k]) /\ kept' = [kept EXCEPT ![k] = @ \ {o}]
  BY DEF Compact
<1>2. UNCHANGED <<log, loader, pos, late>>
  BY DEF Compact, replayVars, historyVars
<1>3. kept = [q \in Keys |-> kept[q]] /\ Len(log[k]) \in Nat /\ RecordBound \in Nat
  BY ConstantsAssumption DEF ReplayInv, Shape
<1>4. kept' = [q \in Keys |-> kept'[q]] /\ kept'[k] = kept[k] \ {o}
  BY <1>1, <1>3
<1>5. \A q \in Keys : q # k => kept'[q] = kept[q]
  BY <1>1, <1>3
<1>6. Shape'
  BY <1>2, <1>4 DEF ReplayInv, Shape
<1>7. NewestKept'
  BY <1>1, <1>2, <1>3, <1>4, <1>5 DEF ReplayInv, NewestKept
<1>8. InLog'
  BY <1>2, <1>4, <1>5 DEF ReplayInv, InLog
<1>9. \A p \in Procs, c \in Keys : Applied(p, c)'
  BY <1>2 DEF ReplayInv, Applied, Value
<1> QED
  BY <1>6, <1>7, <1>8, <1>9 DEF ReplayInv

\* Every other step leaves what the argument is about alone.
LEMMA OthersKeep ==
    ASSUME ReplayInv, UNCHANGED <<log, kept, loader, pos, late>>
    PROVE  ReplayInv'
BY DEF ReplayInv, Shape, NewestKept, InLog, Applied, Value

LEMMA ReplayStep ==
    ASSUME "retention" \notin Faults
    PROVE  ReplayInv /\ [Next]_vars => ReplayInv'
<1> SUFFICES ASSUME ReplayInv, [Next]_vars PROVE ReplayInv'
  OBVIOUS
<1> USE DEF topicVars, replayVars, historyVars
<1>1. ASSUME NEW r \in Handlers, NEW k \in Keys, UploadScript(r, k) \/ DeleteScript(r, k)
      PROVE  ReplayInv'
  BY <1>1, PublishKeeps DEF UploadScript, DeleteScript
<1>2. ASSUME NEW r \in Handlers, NEW k \in Keys, EnqueueWebhook(r, k) PROVE ReplayInv'
  BY <1>2, OthersKeep DEF EnqueueWebhook
<1>3. ASSUME NEW r \in Handlers, NEW m \in hooks, Receive(r, m) PROVE ReplayInv'
  BY <1>3, OthersKeep DEF Receive
<1>4. ASSUME NEW r \in Handlers, HandlerStep(r) PROVE ReplayInv'
  <2>1. CASE PopulateLoader(r)
    BY <2>1, SetLocalKeeps DEF PopulateLoader
  <2>2. CASE FillLoader(r)
    BY <2>2, SetLocalKeeps DEF FillLoader
  <2>3. CASE CacheScript(r) \/ DropScript(r)
    BY <2>3, OthersKeep DEF CacheScript, DropScript
  <2>4. CASE LookupRedis(r) \/ LookupNamespace(r)
    BY <2>4, OthersKeep DEF LookupRedis, LookupNamespace
  <2>5. CASE PublishWebhook(r) \/ Execute(r)
    BY <2>5, OthersKeep DEF PublishWebhook, Execute
  <2> QED
    BY <1>4, <2>1, <2>2, <2>3, <2>4, <2>5 DEF HandlerStep
<1>5. ASSUME NEW p \in Procs, NEW k \in Keys, ReplayRecord(p, k) PROVE ReplayInv'
  BY <1>5, ReplayRecordKeeps
<1>6. ASSUME NEW p \in Procs, NEW k \in Keys, WriteThrough(p, k) PROVE ReplayInv'
  BY <1>6, OthersKeep DEF WriteThrough
<1>7. ASSUME NEW p \in Procs, RestartReplay(p) \/ Crash(p) PROVE ReplayInv'
  BY <1>7, ReplayFromOldestKeeps DEF RestartReplay, Crash
<1>8. ASSUME NEW k \in Keys, NEW o \in 1 .. RecordBound, Compact(k, o) PROVE ReplayInv'
  BY <1>8, CompactKeeps
<1>9. CASE Flush \/ UNCHANGED vars
  BY <1>9, OthersKeep DEF Flush, vars
<1> QED
  BY <1>1, <1>2, <1>3, <1>4, <1>5, <1>6, <1>7, <1>8, <1>9 DEF Next

\* As long as the broker drops no tombstone, a process that has read the topic
\* to its end holds the newest script of every config id and no deleted one,
\* unless a request of its own wrote the entry after the replay did.
THEOREM ReplayIsExact ==
    "retention" \notin Faults => (Spec => []ReplayExact)
<1> SUFFICES ASSUME "retention" \notin Faults PROVE Spec => []ReplayExact
  OBVIOUS
<1>1. ReplayInv => ReplayExact
  <2> SUFFICES ASSUME ReplayInv, NEW p \in Procs, NEW k \in Keys, CaughtUp(p, k), k \notin late[p]
               PROVE  loader[p][k] = Latest(k)
    BY DEF ReplayExact
  <2>1. /\ Applied(p, k) /\ pos[p][k] \in Nat /\ log[k] \in Seq({"script", "tombstone"})
        /\ 1 <= pos[p][k] /\ pos[p][k] <= Len(log[k]) + 1 /\ Len(log[k]) \in Nat
    BY DEF ReplayInv, Shape, InLog
  <2>2. CASE log[k] = <<>>
    <3>1. pos[p][k] = 1
      BY <2>1, <2>2
    <3> QED
      BY <2>1, <2>2, <3>1 DEF Applied, Latest
  <2>3. CASE log[k] # <<>>
    <3>1. Len(log[k]) < pos[p][k]
      BY <2>3 DEF ReplayInv, NewestKept, CaughtUp
    <3>2. pos[p][k] - 1 = Len(log[k]) /\ Len(log[k]) > 0
      BY <2>1, <2>3, <3>1
    <3> QED
      BY <2>1, <2>3, <3>2 DEF Applied, Latest, Value
  <2> QED
    BY <2>2, <2>3
<1> QED
  BY <1>1, ReplayInit, ReplayStep, PTL DEF Spec

------------------------------------------------------------------------------
(* Types.  What a handler holds depends on how far it has come.            *)

HandlerShape(r, x) ==
    /\ x \in Handler
    /\ x.pc = "idle" => x = Idle
    /\ x.pc # "idle" => x.key \in Keys
    /\ x.pc = "lookupNs" => NsOf[x.key] \in Keys
    /\ x.pc = "fill" => x.of \in Keys /\ x.of \in {x.key, NsOf[x.key]}
    /\ x.pc = "execute" => ProcOf[r] \notin APIs
    /\ x.pc # "idle" /\ ProcOf[r] \notin APIs => x.hook \in Hook /\ x.hook.key = x.key

TypeInv ==
    /\ TypeOK
    /\ \A k \in Keys : Len(log[k]) <= RecordBound /\ kept[k] \subseteq 1 .. Len(log[k])
    /\ \A p \in Procs, k \in Keys : mid[p][k] <= Len(log[k])
    /\ \A r \in Handlers : HandlerShape(r, h[r])

LEMMA IdleShape == \A r : HandlerShape(r, Idle)
<1>1. Idle \in Handler
  BY ConstantsAssumption DEF Idle, Handler, PCs, Offsets
<1> QED
  BY <1>1 DEF HandlerShape, Idle

LEMMA TypeInit == Init => TypeInv
<1> SUFFICES ASSUME Init PROVE TypeInv
  OBVIOUS
<1>1. RecordBound \in Nat /\ HookBound \in Nat /\ FaultBound \in Nat
  BY ConstantsAssumption
<1>2. Nothing \in [Keys -> Offsets]
  BY <1>1 DEF Nothing, Offsets
<1>3. /\ log \in [Keys -> Seq({"script", "tombstone"})]
      /\ \A k \in Keys : Len(log[k]) = 0 /\ kept[k] = {}
  BY DEF Init
<1>4. kept \in [Keys -> SUBSET (1 .. RecordBound)] /\ late \in [Procs -> SUBSET Keys]
  BY DEF Init
<1>5. /\ redis \in [Keys -> Offsets] /\ loader \in [Procs -> [Keys -> Offsets]]
      /\ mid \in [Procs -> [Keys -> Offsets]] /\ acked \in [Procs -> [Keys -> Offsets]]
  BY <1>2 DEF Init
<1>6. pos \in [Procs -> [Keys -> 1 .. RecordBound + 1]]
  BY <1>1 DEF Init
<1>7. \A r \in Handlers : h[r] = Idle /\ HandlerShape(r, h[r])
  BY IdleShape DEF Init
<1>8. h \in [Handlers -> Handler]
  BY <1>7 DEF Init, HandlerShape
<1>9. \A p \in Procs, k \in Keys : mid[p][k] = 0
  BY DEF Init, Nothing
<1>10. /\ hooks \subseteq Hook /\ made \in 0 .. HookBound /\ faults \in 0 .. FaultBound
       /\ lost \in BOOLEAN /\ sent \subseteq Sent
  <2>1. hooks = {} /\ made = 0 /\ faults = 0 /\ lost = FALSE /\ sent = {}
    BY DEF Init
  <2>2. 0 \in 0 .. HookBound /\ 0 \in 0 .. FaultBound
    BY <1>1
  <2> QED
    BY <2>1, <2>2
<1>11. TypeOK
  BY <1>3, <1>4, <1>5, <1>6, <1>8, <1>10 DEF TypeOK
<1> QED
  BY <1>1, <1>3, <1>7, <1>9, <1>11 DEF TypeInv

\* A handler is replaced by one of the right shape.
LEMMA HandlerSet ==
    ASSUME TypeInv, NEW r \in Handlers, NEW x, HandlerShape(r, x), h' = [h EXCEPT ![r] = x]
    PROVE  h' \in [Handlers -> Handler] /\ \A q \in Handlers : HandlerShape(q, h'[q])
<1>1. x \in Handler /\ h \in [Handlers -> Handler]
  BY DEF HandlerShape, TypeInv, TypeOK
<1>2. h' \in [Handlers -> Handler]
  BY <1>1
<1>3. \A q \in Handlers : h'[q] = IF q = r THEN x ELSE h[q]
  BY <1>1
<1> QED
  BY <1>2, <1>3 DEF TypeInv

\* There is room for the record Publish appends.
LEMMA PublishTyped ==
    ASSUME TypeInv, NEW k \in Keys, NEW record \in {"script", "tombstone"}, Publish(k, record)
    PROVE  /\ log' \in [Keys -> Seq({"script", "tombstone"})]
           /\ kept' \in [Keys -> SUBSET (1 .. RecordBound)]
           /\ \A q \in Keys : Len(log'[q]) <= RecordBound /\ kept'[q] \subseteq 1 .. Len(log'[q])
           /\ \A q \in Keys : Len(log'[q]) \in Nat /\ Len(log[q]) \in Nat /\ Len(log[q]) <= Len(log'[q])
           /\ Len(log[k]) + 1 \in Offsets
<1>1. /\ log \in [Keys -> Seq({"script", "tombstone"})] /\ kept \in [Keys -> SUBSET (1 .. RecordBound)]
      /\ \A q \in Keys : Len(log[q]) <= RecordBound /\ kept[q] \subseteq 1 .. Len(log[q])
      /\ RecordBound \in Nat /\ IsFiniteSet(Keys)
  BY ConstantsAssumption DEF TypeInv, TypeOK
<1>2. PICK n : n = Len(log[k])
  OBVIOUS
<1>3. /\ Cardinality(Records) < RecordBound
      /\ log' = [log EXCEPT ![k] = Append(@, record)]
      /\ kept' = [kept EXCEPT ![k] = @ \cup {n + 1}]
  BY <1>2 DEF Publish
<1>4. n \in Nat /\ n <= RecordBound
  BY <1>1, <1>2
<1>5. n # RecordBound
  <2> SUFFICES ASSUME n = RecordBound PROVE FALSE
    OBVIOUS
  <2>1. PICK S : S = 1 .. RecordBound
    OBVIOUS
  <2>2. IsFiniteSet(S) /\ Cardinality(S) = RecordBound
    <3>1. IsFiniteSet(1 .. RecordBound) /\ Cardinality(1 .. RecordBound) = RecordBound
      BY <1>1, FS_Interval
    <3> QED
      BY <2>1, <3>1
  <2>3. IsFiniteSet(Keys \X S)
    BY <1>1, <2>2, FS_Product
  <2>4. Records \subseteq Keys \X S
    BY <2>1 DEF Records
  <2>5. IsFiniteSet(Records)
    BY <2>3, <2>4, FS_Subset
  <2>6. PICK f : f = [i \in S |-> <<k, i>>]
    OBVIOUS
  <2>7. f \in Injection(S, Records)
    <3>1. ASSUME NEW i \in S PROVE f[i] \in Records
      <4>1. PICK e : e = <<k, i>>
        OBVIOUS
      <4>2. e \in Keys \X (1 .. RecordBound) /\ e[1] = k /\ e[2] = i
        BY <2>1, <4>1
      <4>3. e[2] <= Len(log[e[1]])
        BY <1>1, <1>2, <2>1, <4>2
      <4>4. e \in Records
        BY <4>2, <4>3 DEF Records
      <4> QED
        BY <2>6, <4>1, <4>4
    <3>2. \A i, j \in S : f[i] = f[j] => i = j
      BY <2>6
    <3> QED
      BY <2>6, <3>1, <3>2 DEF Injection, IsInjective
  <2>8. Cardinality(S) <= Cardinality(Records)
    BY <2>5, <2>7, FS_Injection
  <2>9. Cardinality(Records) \in Nat
    BY <2>5, FS_CardinalityType
  <2> QED
    BY <1>1, <1>3, <2>2, <2>8, <2>9
<1>6. n + 1 \in 1 .. RecordBound
  BY <1>1, <1>4, <1>5
<1>7. /\ log'[k] = Append(log[k], record) /\ kept'[k] = kept[k] \cup {n + 1}
      /\ \A q \in Keys : q # k => log'[q] = log[q] /\ kept'[q] = kept[q]
  BY <1>1, <1>3
<1>8. log'[k] \in Seq({"script", "tombstone"}) /\ Len(log'[k]) = n + 1
  BY <1>1, <1>2, <1>7, AppendProperties
<1>9. log' \in [Keys -> Seq({"script", "tombstone"})]
  BY <1>1, <1>3, <1>7, <1>8
<1>10. kept'[k] \subseteq 1 .. RecordBound /\ kept'[k] \subseteq 1 .. Len(log'[k])
  <2>1. kept[k] \subseteq 1 .. n
    BY <1>1, <1>2
  <2> QED
    BY <1>1, <1>4, <1>6, <1>7, <1>8, <2>1
<1>11. kept' \in [Keys -> SUBSET (1 .. RecordBound)]
  BY <1>1, <1>3, <1>7, <1>10
<1>12. \A q \in Keys : Len(log'[q]) <= RecordBound /\ kept'[q] \subseteq 1 .. Len(log'[q])
  BY <1>1, <1>6, <1>7, <1>8, <1>10
<1>13. \A q \in Keys : Len(log'[q]) \in Nat /\ Len(log[q]) \in Nat /\ Len(log[q]) <= Len(log'[q])
  <2>1. \A q \in Keys : Len(log[q]) \in Nat
    BY <1>1
  <2> QED
    BY <1>2, <1>4, <1>7, <1>8, <2>1
<1> QED
  BY <1>2, <1>6, <1>9, <1>11, <1>12, <1>13 DEF Offsets

LEMMA NoScript == 0 \in Offsets
BY ConstantsAssumption DEF Offsets

LEMMA FaultTyped ==
    ASSUME TypeInv, NEW f, Fault(f)
    PROVE  faults' \in 0 .. FaultBound
BY ConstantsAssumption DEF Fault, TypeInv, TypeOK

LEMMA WriteRedisTyped ==
    ASSUME TypeInv, NEW k \in Keys, NEW v \in Offsets, WriteRedis(k, v)
    PROVE  redis' \in [Keys -> Offsets] /\ faults' \in 0 .. FaultBound /\ lost' \in BOOLEAN
<1>1. redis \in [Keys -> Offsets] /\ faults \in 0 .. FaultBound /\ lost \in BOOLEAN
  BY DEF TypeInv, TypeOK
<1>2. CASE redis' = [redis EXCEPT ![k] = v] /\ UNCHANGED <<faults, lost>>
  BY <1>1, <1>2
<1>3. CASE Fault("redis") /\ lost' = TRUE /\ UNCHANGED redis
  BY <1>1, <1>3, FaultTyped
<1> QED
  BY <1>2, <1>3 DEF WriteRedis

LEMMA SetLocalTyped ==
    ASSUME TypeInv, NEW p \in Procs, NEW k \in Keys, NEW v \in Offsets, SetLocal(p, k, v)
    PROVE  loader' \in [Procs -> [Keys -> Offsets]] /\ late' \in [Procs -> SUBSET Keys]
BY DEF SetLocal, TypeInv, TypeOK

\* What a handler record keeps when only its step changes, and in a lookup that
\* found a script.
LEMMA HandlerMoves ==
    ASSUME NEW r, NEW x, HandlerShape(r, x), x.pc # "idle", NEW pc \in PCs \ {"idle"},
           pc = "execute" => ProcOf[r] \notin APIs, pc = "lookupNs" => NsOf[x.key] \in Keys, pc # "fill"
    PROVE  HandlerShape(r, [x EXCEPT !.pc = pc])
<1>1. PICK n : n = [x EXCEPT !.pc = pc]
  OBVIOUS
<1>2. /\ n \in Handler /\ n.pc = pc
      /\ n.key = x.key /\ n.of = x.of /\ n.ver = x.ver /\ n.acked = x.acked /\ n.hook = x.hook
  BY <1>1 DEF HandlerShape, Handler
<1>3. HandlerShape(r, n)
  BY <1>2 DEF HandlerShape
<1> QED
  BY <1>1, <1>3

LEMMA HandlerFinds ==
    ASSUME NEW r, NEW x, HandlerShape(r, x), x.pc # "idle", NEW k \in Keys, NEW v \in Offsets,
           k \in {x.key, NsOf[x.key]}
    PROVE  HandlerShape(r, [x EXCEPT !.pc = "fill", !.of = k, !.ver = v])
<1>1. PICK n : n = [x EXCEPT !.pc = "fill", !.of = k, !.ver = v]
  OBVIOUS
<1>2. /\ n \in Handler /\ n.pc = "fill" /\ n.of = k /\ n.ver = v
      /\ n.key = x.key /\ n.acked = x.acked /\ n.hook = x.hook
  BY <1>1 DEF HandlerShape, Handler, PCs
<1>3. HandlerShape(r, n)
  BY <1>2 DEF HandlerShape
<1> QED
  BY <1>1, <1>3

LEMMA ResolvedPC == \A r : Resolved(r) \in PCs \ {"idle", "fill", "lookupNs"}
                          /\ (Resolved(r) = "execute" => ProcOf[r] \notin APIs)
BY DEF Resolved, PCs

\* handleUploadScript and handleDeleteScript.
LEMMA RequestTyped ==
    ASSUME TypeInv, NEW r \in Handlers, NEW k \in Keys, UploadScript(r, k) \/ DeleteScript(r, k)
    PROVE  TypeInv'
<1>1. PICK record \in {"script", "tombstone"} : Publish(k, record) /\ ProcOf[r] \in APIs
  BY DEF UploadScript, DeleteScript
<1>2. UNCHANGED <<redis, loader, pos, mid, hooks, made, faults, lost, acked, late, sent>>
  BY DEF UploadScript, DeleteScript, replayVars, hookVars, historyVars
<1>3. /\ log' \in [Keys -> Seq({"script", "tombstone"})]
      /\ kept' \in [Keys -> SUBSET (1 .. RecordBound)]
      /\ \A q \in Keys : Len(log'[q]) <= RecordBound /\ kept'[q] \subseteq 1 .. Len(log'[q])
      /\ \A q \in Keys : Len(log'[q]) \in Nat /\ Len(log[q]) \in Nat /\ Len(log[q]) <= Len(log'[q])
      /\ Len(log[k]) + 1 \in Offsets
  BY <1>1, PublishTyped
<1>4. 0 \in Offsets
  BY ConstantsAssumption DEF Offsets
<1>5. PICK n : n \in Handler /\ n.pc \in {"cacheRedis", "dropRedis"} /\ n.key = k /\ h' = [h EXCEPT ![r] = n]
  <2>1. CASE UploadScript(r, k)
    <3>1. PICK n : n = [Idle EXCEPT !.pc = "cacheRedis", !.key = k, !.ver = Len(log[k]) + 1]
      OBVIOUS
    <3>2. n \in Handler /\ n.pc = "cacheRedis" /\ n.key = k
      BY <1>3, <3>1 DEF Idle, Handler, PCs
    <3> QED
      BY <2>1, <3>1, <3>2 DEF UploadScript
  <2>2. CASE DeleteScript(r, k)
    <3>1. PICK n : n = [Idle EXCEPT !.pc = "dropRedis", !.key = k]
      OBVIOUS
    <3>2. n \in Handler /\ n.pc = "dropRedis" /\ n.key = k
      BY <1>4, <3>1 DEF Idle, Handler, PCs
    <3> QED
      BY <2>2, <3>1, <3>2 DEF DeleteScript
  <2> QED
    BY <2>1, <2>2
<1>7. HandlerShape(r, n)
  BY <1>1, <1>5 DEF HandlerShape
<1>8. h' \in [Handlers -> Handler] /\ \A q \in Handlers : HandlerShape(q, h'[q])
  BY <1>5, <1>7, HandlerSet
<1>9. \A p \in Procs, q \in Keys : mid'[p][q] <= Len(log'[q])
  <2> SUFFICES ASSUME NEW p \in Procs, NEW q \in Keys PROVE mid[p][q] <= Len(log'[q])
    BY <1>2
  <2>1. mid[p][q] \in Offsets /\ mid[p][q] <= Len(log[q])
    BY DEF TypeInv, TypeOK
  <2> QED
    BY <1>3, <2>1, ConstantsAssumption DEF Offsets
<1>10. TypeOK'
  BY <1>2, <1>3, <1>8 DEF TypeInv, TypeOK
<1> QED
  BY <1>2, <1>3, <1>8, <1>9, <1>10 DEF TypeInv

\* The Redis write of a script handler.
LEMMA CacheTyped ==
    ASSUME TypeInv, NEW r \in Handlers, CacheScript(r) \/ DropScript(r)
    PROVE  TypeInv'
<1>1. HandlerShape(r, h[r]) /\ h[r] \in Handler
  BY DEF TypeInv, HandlerShape
<1>2. PICK v \in Offsets : WriteRedis(h[r].key, v) /\ h[r].pc \in {"cacheRedis", "dropRedis"}
  BY <1>1, ConstantsAssumption DEF CacheScript, DropScript, Handler, Offsets
<1>3. h[r].key \in Keys
  BY <1>1, <1>2 DEF HandlerShape
<1>4. redis' \in [Keys -> Offsets] /\ faults' \in 0 .. FaultBound /\ lost' \in BOOLEAN
  BY <1>2, <1>3, WriteRedisTyped
<1>5. HandlerShape(r, [h[r] EXCEPT !.pc = "populate"])
  BY <1>1, <1>2, HandlerMoves DEF PCs
<1>6. PICK n : HandlerShape(r, n) /\ h' = [h EXCEPT ![r] = n]
  BY <1>5, IdleShape DEF CacheScript, DropScript
<1>7. h' \in [Handlers -> Handler] /\ \A q \in Handlers : HandlerShape(q, h'[q])
  BY <1>6, HandlerSet
<1>8. UNCHANGED <<log, kept, loader, pos, mid, hooks, made, acked, late, sent>>
  BY DEF CacheScript, DropScript, topicVars, replayVars, hookVars
<1>9. TypeOK'
  BY <1>4, <1>7, <1>8 DEF TypeInv, TypeOK
<1> QED
  BY <1>7, <1>8, <1>9 DEF TypeInv

\* PopulateLoader and FillLoader write the Loader of their process.
LEMMA LoaderTyped ==
    ASSUME TypeInv, NEW r \in Handlers, PopulateLoader(r) \/ FillLoader(r)
    PROVE  TypeInv'
<1>1. HandlerShape(r, h[r]) /\ h[r] \in Handler /\ ProcOf[r] \in Procs /\ h[r].ver \in Offsets
  BY ConstantsAssumption DEF TypeInv, HandlerShape, Handler
<1>2. PICK k \in Keys : SetLocal(ProcOf[r], k, h[r].ver)
  BY <1>1 DEF PopulateLoader, FillLoader, HandlerShape
<1>3. loader' \in [Procs -> [Keys -> Offsets]] /\ late' \in [Procs -> SUBSET Keys]
  BY <1>1, <1>2, SetLocalTyped
<1>4. acked' \in [Procs -> [Keys -> Offsets]]
  <2>1. acked \in [Procs -> [Keys -> Offsets]]
    BY DEF TypeInv, TypeOK
  <2>2. CASE PopulateLoader(r)
    <3>1. h[r].key \in Keys
      BY <1>1, <2>2 DEF PopulateLoader, HandlerShape
    <3> QED
      BY <1>1, <2>1, <2>2, <3>1 DEF PopulateLoader
  <2>3. CASE FillLoader(r)
    BY <2>1, <2>3 DEF FillLoader
  <2> QED
    BY <2>2, <2>3
<1>5. PICK n : HandlerShape(r, n) /\ h' = [h EXCEPT ![r] = n]
  <2>1. CASE PopulateLoader(r)
    BY <2>1, IdleShape DEF PopulateLoader
  <2>2. CASE FillLoader(r)
    <3>1. HandlerShape(r, [h[r] EXCEPT !.pc = Resolved(r)])
      BY <1>1, <2>2, HandlerMoves, ResolvedPC DEF FillLoader
    <3> QED
      BY <2>2, <3>1 DEF FillLoader
  <2> QED
    BY <2>1, <2>2
<1>6. h' \in [Handlers -> Handler] /\ \A q \in Handlers : HandlerShape(q, h'[q])
  BY <1>5, HandlerSet
<1>7. UNCHANGED <<log, kept, redis, pos, mid, hooks, made, faults, lost, sent>>
  BY DEF PopulateLoader, FillLoader, topicVars, replayVars, hookVars
<1>8. TypeOK'
  BY <1>3, <1>4, <1>6, <1>7 DEF TypeInv, TypeOK
<1> QED
  BY <1>6, <1>7, <1>8 DEF TypeInv

\* The lookups in Redis.
LEMMA LookupTyped ==
    ASSUME TypeInv, NEW r \in Handlers, LookupRedis(r) \/ LookupNamespace(r)
    PROVE  TypeInv'
<1>1. HandlerShape(r, h[r]) /\ h[r] \in Handler /\ redis \in [Keys -> Offsets]
  BY DEF TypeInv, TypeOK, HandlerShape
<1>2. h[r].pc \in {"lookup", "lookupNs"} /\ h[r].key \in Keys
  BY <1>1 DEF LookupRedis, LookupNamespace, HandlerShape
<1>3. HandlerShape(r, [h[r] EXCEPT !.pc = Resolved(r)])
  BY <1>1, <1>2, HandlerMoves, ResolvedPC
<1>4. NsOf[h[r].key] # NoKey => HandlerShape(r, [h[r] EXCEPT !.pc = "lookupNs"])
  <2>1. NsOf[h[r].key] # NoKey => NsOf[h[r].key] \in Keys
    BY <1>2, ConstantsAssumption
  <2> QED
    BY <1>1, <1>2, <2>1, HandlerMoves DEF PCs
<1>5. \A k \in Keys : k \in {h[r].key, NsOf[h[r].key]}
          => HandlerShape(r, [h[r] EXCEPT !.pc = "fill", !.of = k, !.ver = redis[k]])
  BY <1>1, <1>2, HandlerFinds
<1>6. PICK n : HandlerShape(r, n) /\ h' = [h EXCEPT ![r] = n]
  <2>1. CASE LookupRedis(r)
    <3> DEFINE k == h[r].key
    <3>1. HandlerShape(r, [h[r] EXCEPT !.pc = "fill", !.of = k, !.ver = redis[k]])
      BY <1>2, <1>5
    <3> HIDE DEF k
    <3>2. HandlerShape(r, [h[r] EXCEPT !.pc = IF NsOf[k] # NoKey THEN "lookupNs" ELSE Resolved(r)])
      BY <1>3, <1>4 DEF k
    <3>3. \/ h' = [h EXCEPT ![r] = [@ EXCEPT !.pc = "fill", !.of = k, !.ver = redis[k]]]
          \/ h' = [h EXCEPT ![r].pc = IF NsOf[k] # NoKey THEN "lookupNs" ELSE Resolved(r)]
          \/ h' = [h EXCEPT ![r].pc = Resolved(r)]
      BY <2>1 DEF LookupRedis, k
    <3> QED
      BY <1>3, <3>1, <3>2, <3>3
  <2>2. CASE LookupNamespace(r)
    <3> DEFINE k == NsOf[h[r].key]
    <3>1. k \in Keys
      BY <1>1, <2>2 DEF LookupNamespace, HandlerShape
    <3>2. HandlerShape(r, [h[r] EXCEPT !.pc = "fill", !.of = k, !.ver = redis[k]])
      BY <3>1, <1>5
    <3> HIDE DEF k
    <3>3. \/ h' = [h EXCEPT ![r] = [@ EXCEPT !.pc = "fill", !.of = k, !.ver = redis[k]]]
          \/ h' = [h EXCEPT ![r].pc = Resolved(r)]
      BY <2>2 DEF LookupNamespace, k
    <3> QED
      BY <1>3, <3>2, <3>3
  <2> QED
    BY <2>1, <2>2
<1>7. h' \in [Handlers -> Handler] /\ \A q \in Handlers : HandlerShape(q, h'[q])
  BY <1>6, HandlerSet
<1>8. faults' \in 0 .. FaultBound /\ lost' \in BOOLEAN
  <2>1. UNCHANGED <<faults, lost>> \/ (Fault("redis") /\ lost' = TRUE)
    BY DEF LookupRedis, LookupNamespace
  <2>2. faults \in 0 .. FaultBound /\ lost \in BOOLEAN
    BY DEF TypeInv, TypeOK
  <2> QED
    BY <2>1, <2>2, FaultTyped
<1>9. UNCHANGED <<log, kept, redis, loader, pos, mid, hooks, made, acked, late, sent>>
  BY DEF LookupRedis, LookupNamespace, topicVars, replayVars, hookVars
<1>10. TypeOK'
  BY <1>7, <1>8, <1>9 DEF TypeInv, TypeOK
<1> QED
  BY <1>7, <1>9, <1>10 DEF TypeInv

\* What GetScript returns, and when it returns a script.
LEMMA LookupResult ==
    ASSUME NEW scripts \in [Keys -> Offsets], NEW k \in Keys
    PROVE  /\ Lookup(scripts, k)[1] \in Keys \cup {NoKey}
           /\ Lookup(scripts, k)[2] \in Offsets
           /\ Found(Lookup(scripts, k)) <=>
                 (scripts[k] # 0 \/ (NsOf[k] # NoKey /\ scripts[NsOf[k]] # 0))
<1>1. 0 \in Offsets /\ NsOf[k] \in Keys \cup {NoKey}
  BY ConstantsAssumption DEF Offsets
<1>2. CASE scripts[k] # 0
  BY <1>1, <1>2 DEF Lookup, Found
<1>3. CASE scripts[k] = 0 /\ NsOf[k] # NoKey /\ scripts[NsOf[k]] # 0
  BY <1>1, <1>3 DEF Lookup, Found
<1>4. CASE scripts[k] = 0 /\ ~(NsOf[k] # NoKey /\ scripts[NsOf[k]] # 0)
  BY <1>1, <1>4 DEF Lookup, Found
<1> QED
  BY <1>2, <1>3, <1>4

LEMMA AddHookTyped ==
    ASSUME TypeInv, NEW k \in Keys, NEW tag \in Offsets, NEW due \in BOOLEAN, AddHook(k, tag, due)
    PROVE  hooks' \subseteq Hook
<1>1. PICK m : m = [key |-> k, tag |-> tag, depth |-> 0, att |-> 0, due |-> due]
  OBVIOUS
<1>2. 0 \in 0 .. 2 /\ 0 \in 0 .. MaxAttempts
  BY ConstantsAssumption
<1>3. m \in Hook
  BY <1>1, <1>2 DEF Hook
<1>4. hooks' = hooks \cup {m} /\ hooks \subseteq Hook
  BY <1>1 DEF AddHook, TypeInv, TypeOK
<1> QED
  BY <1>3, <1>4

\* processEnqueue.
LEMMA EnqueueTyped ==
    ASSUME TypeInv, NEW r \in Handlers, NEW k \in Keys, EnqueueWebhook(r, k)
    PROVE  TypeInv'
<1>1. /\ ProcOf[r] \in Procs /\ ProcOf[r] \in APIs /\ loader[ProcOf[r]] \in [Keys -> Offsets]
      /\ made \in 0 .. HookBound /\ HookBound \in Nat /\ hooks \subseteq Hook
      /\ h \in [Handlers -> Handler] /\ \A q \in Handlers : HandlerShape(q, h[q])
  BY ConstantsAssumption DEF TypeInv, TypeOK, EnqueueWebhook
<1>2. made' \in 0 .. HookBound
  BY <1>1 DEF EnqueueWebhook
<1>3. PICK script : script = Lookup(loader[ProcOf[r]], k)
  OBVIOUS
<1>4. script[2] \in Offsets
  BY <1>1, <1>3, LookupResult
<1>5. \/ /\ AddHook(k, script[2], Acked(k) /\ Undisturbed(k))
         /\ UNCHANGED h
      \/ /\ h' = [h EXCEPT ![r] = [Idle EXCEPT !.pc = "lookup", !.key = k, !.acked = Acked(k)]]
         /\ UNCHANGED hooks
  BY <1>3 DEF EnqueueWebhook
<1>6. UNCHANGED <<log, kept, redis, loader, pos, mid, faults, lost, acked, late, sent>>
  BY DEF EnqueueWebhook, topicVars, replayVars, historyVars
<1>7. /\ hooks' \subseteq Hook
      /\ h' \in [Handlers -> Handler] /\ \A q \in Handlers : HandlerShape(q, h'[q])
  <2>1. CASE AddHook(k, script[2], Acked(k) /\ Undisturbed(k)) /\ UNCHANGED h
    <3>1. (Acked(k) /\ Undisturbed(k)) \in BOOLEAN
      OBVIOUS
    <3>2. hooks' \subseteq Hook
      BY <1>4, <2>1, <3>1, AddHookTyped
    <3> QED
      BY <1>1, <2>1, <3>2
  <2>2. CASE /\ h' = [h EXCEPT ![r] = [Idle EXCEPT !.pc = "lookup", !.key = k, !.acked = Acked(k)]]
             /\ UNCHANGED hooks
    <3>1. PICK n : n = [Idle EXCEPT !.pc = "lookup", !.key = k, !.acked = Acked(k)]
      OBVIOUS
    <3>2. Acked(k) \in BOOLEAN
      BY DEF Acked
    <3>3. n \in Handler /\ n.pc = "lookup" /\ n.key = k
      BY <3>1, <3>2, NoScript DEF Idle, Handler, PCs
    <3>4. HandlerShape(r, n)
      BY <1>1, <3>3 DEF HandlerShape
    <3> QED
      BY <1>1, <2>2, <3>1, <3>4, HandlerSet
  <2> QED
    BY <1>5, <2>1, <2>2
<1>8. TypeOK'
  BY <1>2, <1>6, <1>7 DEF TypeInv, TypeOK
<1> QED
  BY <1>6, <1>7, <1>8 DEF TypeInv

\* buildWebhook's end.
LEMMA PublishHookTyped ==
    ASSUME TypeInv, NEW r \in Handlers, PublishWebhook(r)
    PROVE  TypeInv'
<1>1. /\ HandlerShape(r, h[r]) /\ h[r].key \in Keys /\ h[r].ver \in Offsets /\ hooks \subseteq Hook
  BY DEF TypeInv, TypeOK, PublishWebhook, HandlerShape, Handler
<1>2. hooks' \subseteq Hook
  <2>1. CASE AddHook(h[r].key, h[r].ver, h[r].acked /\ Undisturbed(h[r].key))
    <3>1. (h[r].acked /\ Undisturbed(h[r].key)) \in BOOLEAN
      OBVIOUS
    <3> QED
      BY <1>1, <2>1, <3>1, AddHookTyped
  <2>2. CASE UNCHANGED hooks
    BY <1>1, <2>2
  <2> QED
    BY <2>1, <2>2 DEF PublishWebhook
<1>3. h' \in [Handlers -> Handler] /\ \A q \in Handlers : HandlerShape(q, h'[q])
  BY IdleShape, HandlerSet DEF PublishWebhook
<1>4. UNCHANGED <<log, kept, redis, loader, pos, mid, made, faults, lost, acked, late, sent>>
  BY DEF PublishWebhook, topicVars, replayVars, historyVars
<1>5. TypeOK'
  BY <1>2, <1>3, <1>4 DEF TypeInv, TypeOK
<1> QED
  BY <1>3, <1>4, <1>5 DEF TypeInv

LEMMA RecordTyped ==
    ASSUME TypeInv, NEW what \in {"post", "notfound"}, NEW m \in Hook,
           NEW of \in Keys \cup {NoKey}, NEW depth \in 0 .. 2, Record(what, m, of, depth)
    PROVE  sent' \subseteq Sent
<1>1. PICK s : s = [what |-> what, key |-> m.key, of |-> of, depth |-> depth,
                    due |-> m.due /\ Undisturbed(m.key)]
  OBVIOUS
<1>2. (m.due /\ Undisturbed(m.key)) \in BOOLEAN
  OBVIOUS
<1>3. m.key \in Keys
  BY DEF Hook
<1>4. s \in Sent
  BY <1>1, <1>2, <1>3 DEF Sent
<1>5. sent' = sent \cup {s} /\ sent \subseteq Sent
  BY <1>1 DEF Record, TypeInv, TypeOK
<1> QED
  BY <1>4, <1>5

\* A worker takes a message.
LEMMA ReceiveTyped ==
    ASSUME TypeInv, NEW r \in Handlers, NEW m \in hooks, Receive(r, m)
    PROVE  TypeInv'
<1>1. /\ hooks \subseteq Hook /\ m \in Hook /\ sent \subseteq Sent
      /\ h \in [Handlers -> Handler] /\ \A q \in Handlers : HandlerShape(q, h[q])
      /\ hooks' = hooks \ {m} /\ ProcOf[r] \notin APIs
  BY ConstantsAssumption DEF TypeInv, TypeOK, Receive
<1>2. m.key \in Keys /\ m.depth \in 0 .. 2
  BY <1>1 DEF Hook
<1>3. /\ sent' \subseteq Sent
      /\ h' \in [Handlers -> Handler] /\ \A q \in Handlers : HandlerShape(q, h'[q])
  <2>1. CASE Record("post", m, NoKey, m.depth) /\ UNCHANGED h
    BY <1>1, <1>2, <2>1, RecordTyped
  <2>2. CASE UNCHANGED sent /\ m.tag # 0
    <3>1. PICK pc \in {"execute", "lookup"} :
              h' = [h EXCEPT ![r] = [Idle EXCEPT !.pc = pc, !.key = m.key, !.hook = m]]
      <4>1. m.tag # 0 /\ Receive(r, m) => h' = [h EXCEPT ![r] = [Idle EXCEPT
                !.pc = IF Found(Lookup(loader[ProcOf[r]], m.key)) THEN "execute" ELSE "lookup",
                !.key = m.key, !.hook = m]]
        BY DEF Receive
      <4> QED
        BY <2>2, <4>1
    <3>2. PICK n : n = [Idle EXCEPT !.pc = pc, !.key = m.key, !.hook = m]
      OBVIOUS
    <3>3. n \in Handler /\ n.pc = pc /\ n.key = m.key /\ n.hook = m
      BY <1>1, <1>2, <3>1, <3>2, NoScript DEF Idle, Handler, PCs
    <3>4. HandlerShape(r, n)
      BY <1>1, <1>2, <3>1, <3>3 DEF HandlerShape
    <3> QED
      BY <1>1, <2>2, <3>1, <3>2, <3>4, HandlerSet
  <2> QED
    BY <2>1, <2>2 DEF Receive
<1>4. hooks' \subseteq Hook
  BY <1>1
<1>5. UNCHANGED <<log, kept, redis, loader, pos, mid, made, faults, lost, acked, late>>
  BY DEF Receive, topicVars, replayVars
<1>6. TypeOK'
  BY <1>3, <1>4, <1>5 DEF TypeInv, TypeOK
<1> QED
  BY <1>3, <1>5, <1>6 DEF TypeInv

\* A retry is a webhook with one attempt more.
LEMMA RetryTyped ==
    ASSUME TypeInv, NEW m \in Hook, NEW depth \in 0 .. 2, Retry(m, depth)
    PROVE  /\ hooks' \subseteq Hook
           /\ \E n \in Hook : /\ hooks' = hooks \cup {n}
                              /\ n.key = m.key /\ n.tag = m.tag /\ n.due = m.due
<1>1. PICK n : n = [m EXCEPT !.att = @ + 1, !.depth = IF m.att = 0 THEN depth ELSE @]
  OBVIOUS
<1>2. m.att + 1 \in 0 .. MaxAttempts
  BY ConstantsAssumption DEF Retry, Hook
<1>3. n \in Hook /\ n.key = m.key /\ n.tag = m.tag /\ n.due = m.due
  BY <1>1, <1>2 DEF Hook
<1>4. hooks' = hooks \cup {n} /\ hooks \subseteq Hook
  BY <1>1 DEF Retry, TypeInv, TypeOK
<1> QED
  BY <1>3, <1>4

\* The worker runs the script.
LEMMA ExecuteTyped ==
    ASSUME TypeInv, NEW r \in Handlers, Execute(r)
    PROVE  TypeInv'
<1>1. /\ HandlerShape(r, h[r]) /\ hooks \subseteq Hook /\ sent \subseteq Sent
      /\ ProcOf[r] \in Procs /\ loader[ProcOf[r]] \in [Keys -> Offsets]
  BY ConstantsAssumption DEF TypeInv, TypeOK
<1>2. h[r].pc = "execute" /\ h[r].hook \in Hook /\ h[r].key \in Keys
  BY <1>1 DEF Execute, HandlerShape
<1>3. PICK m \in Hook : m = h[r].hook
  BY <1>2
<1>4. PICK script : script = Lookup(loader[ProcOf[r]], h[r].key)
  OBVIOUS
<1>5. script[1] \in Keys \cup {NoKey}
  BY <1>1, <1>2, <1>4, LookupResult
<1>6. m.depth \in 0 .. 2 /\ applyTransformation(m.depth) \in 0 .. 2
  BY DEF Hook, applyTransformation
<1>7. /\ UNCHANGED sent \/ Record("notfound", m, NoKey, m.depth)
                        \/ Record("post", m, script[1], applyTransformation(m.depth))
      /\ UNCHANGED hooks \/ Retry(m, m.depth) \/ Retry(m, applyTransformation(m.depth))
      /\ h' = [h EXCEPT ![r] = Idle]
  BY <1>3, <1>4 DEF Execute
<1>8. sent' \subseteq Sent
  BY <1>1, <1>5, <1>6, <1>7, RecordTyped
<1>9. hooks' \subseteq Hook
  <2>1. CASE UNCHANGED hooks
    BY <1>1, <2>1
  <2>2. CASE Retry(m, m.depth)
    BY <1>6, <2>2, RetryTyped
  <2>3. CASE Retry(m, applyTransformation(m.depth))
    BY <1>6, <2>3, RetryTyped
  <2> QED
    BY <1>7, <2>1, <2>2, <2>3
<1>10. h' \in [Handlers -> Handler] /\ \A q \in Handlers : HandlerShape(q, h'[q])
  BY <1>7, IdleShape, HandlerSet
<1>11. UNCHANGED <<log, kept, redis, loader, pos, mid, made, faults, lost, acked, late>>
  BY DEF Execute, topicVars, replayVars
<1>12. TypeOK'
  BY <1>8, <1>9, <1>10, <1>11 DEF TypeInv, TypeOK
<1> QED
  BY <1>10, <1>11, <1>12 DEF TypeInv

\* The replay applies a record.
LEMMA ReplayTyped ==
    ASSUME TypeInv, NEW p \in Procs, NEW k \in Keys, ReplayRecord(p, k)
    PROVE  TypeInv'
<1>1. PICK o \in NextKept(p, k) :
        /\ loader' = [loader EXCEPT ![p][k] = IF log[k][o] = "script" THEN o ELSE 0]
        /\ pos' = [pos EXCEPT ![p][k] = o + 1]
        /\ mid' = [mid EXCEPT ![p][k] = o]
  BY DEF ReplayRecord
<1>2. late' = [late EXCEPT ![p] = @ \ {k}] /\ UNCHANGED <<log, kept, redis, h, hooks, made, faults, lost, acked, sent>>
  BY DEF ReplayRecord, topicVars, hookVars
<1>3. /\ loader \in [Procs -> [Keys -> Offsets]] /\ pos \in [Procs -> [Keys -> 1 .. RecordBound + 1]]
      /\ mid \in [Procs -> [Keys -> Offsets]] /\ late \in [Procs -> SUBSET Keys] /\ Len(log[k]) \in Nat
  BY DEF TypeInv, TypeOK
<1>4. o \in 1 .. Len(log[k]) /\ Len(log[k]) <= RecordBound /\ RecordBound \in Nat
  BY <1>1, ConstantsAssumption DEF NextKept, TypeInv
<1>5. o \in Offsets /\ o + 1 \in 1 .. RecordBound + 1 /\ (IF log[k][o] = "script" THEN o ELSE 0) \in Offsets
      /\ o <= Len(log[k])
  BY <1>3, <1>4 DEF Offsets
<1>6. loader' \in [Procs -> [Keys -> Offsets]]
  BY <1>1, <1>3, <1>5
<1>7. pos' \in [Procs -> [Keys -> 1 .. RecordBound + 1]]
  BY <1>1, <1>3, <1>5
<1>8. mid' \in [Procs -> [Keys -> Offsets]] /\ late' \in [Procs -> SUBSET Keys]
  BY <1>1, <1>2, <1>3, <1>5
<1>9. \A q \in Procs, c \in Keys : mid'[q][c] <= Len(log'[c])
  <2> SUFFICES ASSUME NEW q \in Procs, NEW c \in Keys PROVE mid'[q][c] <= Len(log[c])
    BY <1>2
  <2>1. CASE q = p /\ c = k
    BY <1>1, <1>3, <1>5, <2>1
  <2>2. CASE ~(q = p /\ c = k)
    <3>1. mid'[q][c] = mid[q][c]
      BY <1>1, <1>3, <2>2
    <3> QED
      BY <3>1 DEF TypeInv
  <2> QED
    BY <2>1, <2>2
<1>10. TypeOK'
  BY <1>2, <1>6, <1>7, <1>8 DEF TypeInv, TypeOK
<1> QED
  BY <1>2, <1>9, <1>10 DEF TypeInv

\* and mirrors it in Redis.
LEMMA MirrorTyped ==
    ASSUME TypeInv, NEW p \in Procs, NEW k \in Keys, WriteThrough(p, k)
    PROVE  TypeInv'
<1>1. mid \in [Procs -> [Keys -> Offsets]] /\ mid[p][k] \in Offsets
  BY DEF TypeInv, TypeOK
<1>2. (IF log[k][mid[p][k]] = "script" THEN mid[p][k] ELSE 0) \in Offsets
  BY <1>1, NoScript
<1>3. redis' \in [Keys -> Offsets] /\ faults' \in 0 .. FaultBound /\ lost' \in BOOLEAN
  BY <1>2, WriteRedisTyped DEF WriteThrough
<1>4. mid' = [mid EXCEPT ![p][k] = 0] /\ UNCHANGED <<log, kept, loader, pos, h, hooks, made, acked, late, sent>>
  BY DEF WriteThrough, topicVars, hookVars
<1>5. mid' \in [Procs -> [Keys -> Offsets]]
  BY <1>1, <1>4, NoScript
<1>6. \A q \in Procs, c \in Keys : mid'[q][c] = mid[q][c] \/ mid'[q][c] = 0
  BY <1>1, <1>4
<1>7. \A c \in Keys : 0 <= Len(log[c])
  BY DEF TypeInv, TypeOK
<1>8. \A q \in Procs, c \in Keys : mid'[q][c] <= Len(log'[c])
  BY <1>4, <1>6, <1>7 DEF TypeInv
<1>9. TypeOK'
  BY <1>3, <1>4, <1>5 DEF TypeInv, TypeOK
<1> QED
  BY <1>4, <1>8, <1>9 DEF TypeInv

LEMMA OldestTyped ==
    ASSUME TypeInv, NEW p \in Procs, ReplayFromOldest(p)
    PROVE  pos' \in [Procs -> [Keys -> 1 .. RecordBound + 1]]
<1>1. [k \in Keys |-> 1] \in [Keys -> 1 .. RecordBound + 1]
  BY ConstantsAssumption
<1> QED
  BY <1>1 DEF ReplayFromOldest, TypeInv, TypeOK

LEMMA CrashTyped ==
    ASSUME TypeInv, NEW p \in Procs, Crash(p)
    PROVE  TypeInv'
<1>1. /\ loader \in [Procs -> [Keys -> Offsets]] /\ mid \in [Procs -> [Keys -> Offsets]]
      /\ late \in [Procs -> SUBSET Keys] /\ hooks \subseteq Hook
      /\ h \in [Handlers -> Handler] /\ \A r \in Handlers : HandlerShape(r, h[r])
      /\ \A k \in Keys : Len(log[k]) \in Nat
  BY DEF TypeInv, TypeOK
<1>2. Nothing \in [Keys -> Offsets]
  BY NoScript DEF Nothing
<1>3. /\ loader' = [loader EXCEPT ![p] = Nothing] /\ mid' = [mid EXCEPT ![p] = Nothing]
      /\ late' = [late EXCEPT ![p] = {}]
      /\ h' = [r \in Handlers |-> IF ProcOf[r] = p THEN Idle ELSE h[r]]
      /\ hooks' = hooks \cup {h[r].hook : r \in {q \in Handlers : ProcOf[q] = p /\ p \in Workers /\ h[q].hook # <<>>}}
      /\ UNCHANGED <<log, kept, redis, made, lost, acked, sent>>
  BY DEF Crash, topicVars
<1>4. faults' \in 0 .. FaultBound /\ pos' \in [Procs -> [Keys -> 1 .. RecordBound + 1]]
  BY FaultTyped, OldestTyped DEF Crash
<1>5. /\ loader' \in [Procs -> [Keys -> Offsets]] /\ mid' \in [Procs -> [Keys -> Offsets]]
      /\ late' \in [Procs -> SUBSET Keys]
  BY <1>1, <1>2, <1>3
<1>6. \A r \in Handlers : HandlerShape(r, h'[r])
  BY <1>1, <1>3, IdleShape
<1>7. h' \in [Handlers -> Handler]
  BY <1>3, <1>6 DEF HandlerShape
<1>8. hooks' \subseteq Hook
  <2>1. \A r \in Handlers : h[r].hook \in Hook \cup {<<>>}
    BY <1>1 DEF Handler
  <2> QED
    BY <1>1, <1>3, <2>1
<1>9. \A q \in Procs, c \in Keys : mid'[q][c] <= Len(log'[c])
  <2>1. \A q \in Procs, c \in Keys : mid'[q][c] = mid[q][c] \/ mid'[q][c] = 0
    BY <1>1, <1>3 DEF Nothing
  <2> QED
    BY <1>1, <1>3, <2>1 DEF TypeInv
<1>10. TypeOK'
  BY <1>3, <1>4, <1>5, <1>7, <1>8 DEF TypeInv, TypeOK
<1> QED
  BY <1>3, <1>6, <1>9, <1>10 DEF TypeInv

LEMMA TypeStep == TypeInv /\ [Next]_vars => TypeInv'
<1> SUFFICES ASSUME TypeInv, [Next]_vars PROVE TypeInv'
  OBVIOUS
<1> USE DEF topicVars, replayVars, hookVars, historyVars
<1>1. ASSUME NEW r \in Handlers, NEW k \in Keys, UploadScript(r, k) \/ DeleteScript(r, k) \/ EnqueueWebhook(r, k)
      PROVE  TypeInv'
  BY <1>1, RequestTyped, EnqueueTyped
<1>2. ASSUME NEW r \in Handlers, NEW m \in hooks, Receive(r, m) PROVE TypeInv'
  BY <1>2, ReceiveTyped
<1>3. ASSUME NEW r \in Handlers, HandlerStep(r) PROVE TypeInv'
  BY <1>3, CacheTyped, LoaderTyped, LookupTyped, PublishHookTyped, ExecuteTyped DEF HandlerStep
<1>4. ASSUME NEW p \in Procs, NEW k \in Keys, ReplayRecord(p, k) \/ WriteThrough(p, k) PROVE TypeInv'
  BY <1>4, ReplayTyped, MirrorTyped
<1>5. ASSUME NEW p \in Procs, RestartReplay(p) PROVE TypeInv'
  <2>1. faults' \in 0 .. FaultBound /\ pos' \in [Procs -> [Keys -> 1 .. RecordBound + 1]]
    BY <1>5, FaultTyped, OldestTyped DEF RestartReplay
  <2> QED
    BY <1>5, <2>1 DEF RestartReplay, TypeInv, TypeOK
<1>6. ASSUME NEW p \in Procs, Crash(p) PROVE TypeInv'
  BY <1>6, CrashTyped
<1>7. ASSUME NEW k \in Keys, NEW o \in 1 .. RecordBound, Compact(k, o) PROVE TypeInv'
  <2>1. /\ kept \in [Keys -> SUBSET (1 .. RecordBound)] /\ kept' = [kept EXCEPT ![k] = @ \ {o}]
        /\ UNCHANGED <<log, redis, loader, pos, mid, h, hooks, made, faults, lost, acked, late, sent>>
    BY <1>7 DEF Compact, TypeInv, TypeOK
  <2>2. kept' \in [Keys -> SUBSET (1 .. RecordBound)] /\ \A c \in Keys : kept'[c] \subseteq kept[c]
    BY <2>1
  <2>3. TypeOK'
    BY <2>1, <2>2 DEF TypeInv, TypeOK
  <2> QED
    BY <2>1, <2>2, <2>3 DEF TypeInv
<1>8. CASE Flush
  <2>1. faults' \in 0 .. FaultBound /\ redis' \in [Keys -> Offsets] /\ lost' \in BOOLEAN
    BY <1>8, FaultTyped, NoScript DEF Flush, Nothing
  <2>2. UNCHANGED <<log, kept, loader, pos, mid, h, hooks, made, acked, late, sent>>
    BY <1>8 DEF Flush
  <2>3. TypeOK'
    BY <2>1, <2>2 DEF TypeInv, TypeOK
  <2> QED
    BY <2>2, <2>3 DEF TypeInv
<1>9. CASE UNCHANGED vars
  BY <1>9 DEF vars, TypeInv, TypeOK
<1> QED
  BY <1>1, <1>2, <1>3, <1>4, <1>5, <1>6, <1>7, <1>8, <1>9 DEF Next

\* The state of the topic, Redis, the Loaders, the requests and the webhooks stays
\* well-typed: there is room for every record, and a request never goes on
\* without the config id or the webhook its next step needs.
THEOREM TypeCorrect == Spec => []TypeOK
<1>1. TypeInv => TypeOK
  BY DEF TypeInv
<1> QED
  BY <1>1, TypeInit, TypeStep, PTL DEF Spec

------------------------------------------------------------------------------
(* Acknowledged scripts.                                                   *)

\* A Loader finds a script for a config id.
Serves(scripts, k) == scripts[k] # 0 \/ (NsOf[k] # NoKey /\ scripts[NsOf[k]] # 0)

\* A webhook tagged for an acknowledged script carries the tag.
HookServed(m) == m.due => m.tag # 0 /\ Acked(m.key)

\* Redis has the script, unless it lost it or the script was deleted.
Mirrored(k) == ~lost /\ ~Deleted(k) => redis[k] # 0

\* The script was acknowledged before the lookup began.
Expects(r) == IF ProcOf[r] \in APIs THEN h[r].acked ELSE h[r].hook.due

\* A request or a worker that must find a script will: its lookup of Redis does
\* not miss, and the Loader has the script by the time it runs it.
HandlerServed(r) ==
    /\ h[r].pc \in {"cacheRedis", "populate", "fill"} => h[r].ver # 0
    /\ h[r].pc = "populate" => Mirrored(h[r].key)
    /\ h[r].pc = "dropRedis" => Deleted(h[r].key)
    /\ h[r].pc # "idle" /\ h[r].acked => Acked(h[r].key)
    /\ h[r].pc = "lookupNs" /\ Expects(r) => ~Undisturbed(h[r].key)
    /\ h[r].pc = "publish" /\ Expects(r) => ~Undisturbed(h[r].key) \/ h[r].ver # 0
    /\ h[r].pc = "publish" => ProcOf[r] \in APIs
    /\ h[r].pc # "idle" /\ ProcOf[r] \notin APIs => HookServed(h[r].hook)
    /\ h[r].pc = "execute" /\ h[r].hook.due /\ Undisturbed(h[r].key) => Serves(loader[ProcOf[r]], h[r].key)

ServedInv ==
    /\ \A k \in Keys : Acked(k) => Mirrored(k)
    /\ \A m \in hooks : HookServed(m)
    /\ \A r \in Handlers : HandlerServed(r)
    /\ AckedScriptApplied

\* What no step undoes: a loss, a deletion, an acknowledgement, and a script in
\* Redis that was neither lost nor deleted.
Calm ==
    /\ lost => lost'
    /\ \A k \in Keys : Deleted(k) => Deleted(k)'
    /\ \A k \in Keys : Acked(k) => Acked(k)'
    /\ \A k \in Keys : ~lost' /\ ~Deleted(k)' /\ redis[k] # 0 => redis'[k] # 0

\* Only the death of a process empties its Loader of a script not deleted.
LoaderKept(p) == \A k \in Keys : ~Deleted(k)' /\ loader[p][k] # 0 => loader'[p][k] # 0

LEMMA ServedInit == Init => ServedInv
<1> SUFFICES ASSUME Init PROVE ServedInv
  OBVIOUS
<1>1. \A k \in Keys : ~Acked(k)
  BY DEF Init, Acked, Nothing
<1>2. \A r \in Handlers : h[r].pc = "idle"
  BY DEF Init, Idle
<1>3. hooks = {} /\ sent = {}
  BY DEF Init
<1> QED
  BY <1>1, <1>2, <1>3 DEF ServedInv, HandlerServed, AckedScriptApplied

LEMMA CalmFacts ==
    ASSUME Calm
    PROVE  /\ \A k \in Keys : Undisturbed(k)' => Undisturbed(k)
           /\ \A k \in Keys : Mirrored(k) => Mirrored(k)'
           /\ \A m \in Hook : HookServed(m) => HookServed(m)'
           /\ \A p \in Procs, k \in Keys :
                 LoaderKept(p) /\ Undisturbed(k)' /\ Serves(loader[p], k) => Serves(loader'[p], k)
<1>1. \A k \in Keys : NsOf[k] \in Keys \cup {NoKey}
  BY ConstantsAssumption
<1>2. \A k \in Keys : Undisturbed(k)' => Undisturbed(k)
  BY <1>1 DEF Calm, Undisturbed
<1>3. \A k \in Keys : Mirrored(k) => Mirrored(k)'
  BY DEF Calm, Mirrored
<1>4. \A m \in Hook : HookServed(m) => HookServed(m)'
  <2>1. \A m \in Hook : m.key \in Keys
    BY DEF Hook
  <2> QED
    BY <2>1 DEF Calm, HookServed
<1>5. ASSUME NEW p \in Procs, NEW k \in Keys, LoaderKept(p), Undisturbed(k)', Serves(loader[p], k)
      PROVE  Serves(loader'[p], k)
  <2>1. ~Deleted(k)' /\ (NsOf[k] # NoKey => ~Deleted(NsOf[k])')
    BY <1>5 DEF Undisturbed
  <2> QED
    BY <1>1, <1>5, <2>1 DEF LoaderKept, Serves
<1> QED
  BY <1>2, <1>3, <1>4, <1>5

\* A handler that takes no step, in a process that does not die.
LEMMA HandlerKept ==
    ASSUME TypeInv, Calm, NEW r \in Handlers, LoaderKept(ProcOf[r]), HandlerServed(r), h'[r] = h[r]
    PROVE  HandlerServed(r)'
<1>1. HandlerShape(r, h[r]) /\ ProcOf[r] \in Procs
  BY ConstantsAssumption DEF TypeInv
<1>2. PICK x, k, m : x = h[r] /\ k = h[r].key /\ m = h[r].hook
  OBVIOUS
<1>3. CASE x.pc = "idle"
  BY <1>2, <1>3 DEF HandlerServed
<1>4. CASE x.pc # "idle"
  <2>1. k \in Keys /\ (ProcOf[r] \notin APIs => m \in Hook)
    BY <1>1, <1>2, <1>4 DEF HandlerShape
  <2>2. /\ Undisturbed(k)' => Undisturbed(k)
        /\ Mirrored(k) => Mirrored(k)'
        /\ Deleted(k) => Deleted(k)'
        /\ Acked(k) => Acked(k)'
        /\ Undisturbed(k)' /\ Serves(loader[ProcOf[r]], k) => Serves(loader'[ProcOf[r]], k)
    BY <1>1, <2>1, CalmFacts DEF Calm
  <2>3. m \in Hook /\ HookServed(m) => HookServed(m)'
    BY CalmFacts
  <2>4. /\ x.pc \in {"cacheRedis", "populate", "fill"} => x.ver # 0
        /\ x.pc = "populate" => Mirrored(k)
        /\ x.pc = "dropRedis" => Deleted(k)
        /\ x.acked => Acked(k)
        /\ x.pc = "lookupNs" /\ Expects(r) => ~Undisturbed(k)
        /\ x.pc = "publish" /\ Expects(r) => ~Undisturbed(k) \/ x.ver # 0
        /\ x.pc = "publish" => ProcOf[r] \in APIs
        /\ ProcOf[r] \notin APIs => HookServed(m)
        /\ x.pc = "execute" /\ m.due /\ Undisturbed(k) => Serves(loader[ProcOf[r]], k)
    BY <1>2, <1>4 DEF HandlerServed
  <2>5. Expects(r)' <=> Expects(r)
    BY DEF Expects
  <2>6. h'[r] = x /\ x.key = k /\ x.hook = m
    BY <1>2
  <2>7. /\ Mirrored(h[r].key)' <=> Mirrored(k)'
        /\ Deleted(h[r].key)' <=> Deleted(k)'
        /\ Acked(h[r].key)' <=> Acked(k)'
        /\ Undisturbed(h[r].key)' <=> Undisturbed(k)'
        /\ HookServed(h[r].hook)' <=> HookServed(m)'
    BY <2>6 DEF Mirrored, Deleted, Acked, Undisturbed, HookServed
  <2>8. Serves(loader[ProcOf[r]], h[r].key)' <=> Serves(loader'[ProcOf[r]], k)
    BY <2>6 DEF Serves
  <2> QED
    BY <2>1, <2>2, <2>3, <2>4, <2>5, <2>6, <2>7, <2>8 DEF HandlerServed
<1> QED
  BY <1>3, <1>4

\* The invariant after a step that keeps what Calm says.
LEMMA ServedFrom ==
    ASSUME TypeInv, ServedInv, Calm, AckedScriptApplied',
           \A k \in Keys : Acked(k)' => Acked(k) \/ Mirrored(k),
           \A m \in hooks' : m \in hooks \/ HookServed(m)',
           \A q \in Handlers : (h'[q] = h[q] /\ LoaderKept(ProcOf[q])) \/ HandlerServed(q)'
    PROVE  ServedInv'
<1>1. \A k \in Keys : Acked(k)' => Mirrored(k)'
  BY CalmFacts DEF ServedInv
<1>2. \A m \in hooks' : HookServed(m)'
  <2>1. hooks \subseteq Hook
    BY DEF TypeInv, TypeOK
  <2> QED
    BY <2>1, CalmFacts DEF ServedInv
<1>3. \A q \in Handlers : HandlerServed(q)'
  BY HandlerKept DEF ServedInv
<1> QED
  BY <1>1, <1>2, <1>3 DEF ServedInv

LEMMA CalmSame == ASSUME UNCHANGED <<log, lost, redis, acked>> PROVE Calm
BY DEF Calm, Deleted, Acked

LEMMA CalmWrite ==
    ASSUME TypeInv, NEW k \in Keys, NEW v, WriteRedis(k, v), v # 0 \/ Deleted(k), UNCHANGED <<log, acked>>
    PROVE  Calm
<1>1. \A q \in Keys : (Deleted(q)' <=> Deleted(q)) /\ (Acked(q)' <=> Acked(q))
  BY DEF Deleted, Acked
<1>2. redis \in [Keys -> Offsets]
  BY DEF TypeInv, TypeOK
<1>3. CASE redis' = [redis EXCEPT ![k] = v] /\ UNCHANGED <<faults, lost>>
  BY <1>1, <1>2, <1>3 DEF Calm
<1>4. CASE Fault("redis") /\ lost' = TRUE /\ UNCHANGED redis
  BY <1>1, <1>4 DEF Calm
<1> QED
  BY <1>3, <1>4 DEF WriteRedis

LEMMA SetLocalKept ==
    ASSUME TypeInv, NEW p \in Procs, NEW k \in Keys, NEW v, SetLocal(p, k, v), v # 0
    PROVE  loader'[p][k] = v /\ \A q \in Procs : LoaderKept(q)
<1>1. loader \in [Procs -> [Keys -> Offsets]] /\ loader' = [loader EXCEPT ![p][k] = v]
  BY DEF SetLocal, TypeInv, TypeOK
<1>2. loader'[p][k] = v
  BY <1>1
<1>3. \A q \in Procs, c \in Keys : loader'[q][c] = v \/ loader'[q][c] = loader[q][c]
  BY <1>1
<1> QED
  BY <1>2, <1>3 DEF LoaderKept

LEMMA SameLoader == ASSUME UNCHANGED loader PROVE \A p : LoaderKept(p)
BY DEF LoaderKept

LEMMA IdleServed == ASSUME NEW r, h'[r] = Idle PROVE HandlerServed(r)'
BY DEF HandlerServed, Idle

LEMMA ProcOfType == \A r \in Handlers : ProcOf[r] \in Procs
BY ConstantsAssumption

LEMMA SameApplied == ASSUME ServedInv, UNCHANGED sent PROVE AckedScriptApplied'
BY DEF ServedInv, AckedScriptApplied

\* Who takes a step of a handler.
LEMMA OnlyHandler ==
    ASSUME TypeInv, NEW r \in Handlers, NEW n, h' = [h EXCEPT ![r] = n]
    PROVE  h'[r] = n /\ \A q \in Handlers : q # r => h'[q] = h[q]
BY DEF TypeInv, TypeOK

\* A handler goes on with the same request.
LEMMA HandlerGoes ==
    ASSUME TypeInv, Calm, NEW r \in Handlers, HandlerServed(r), h[r].pc # "idle",
           NEW k \in Keys, k = h[r].key, NEW n, h'[r] = n,
           n.key = k, n.acked = h[r].acked, n.hook = h[r].hook,
           n.pc \notin {"cacheRedis", "dropRedis"},
           n.pc \in {"populate", "fill"} => n.ver # 0,
           n.pc = "populate" => Mirrored(k)',
           n.pc = "lookupNs" /\ Expects(r) => ~Undisturbed(k)',
           n.pc = "publish" /\ Expects(r) => ~Undisturbed(k)' \/ n.ver # 0,
           n.pc = "publish" => ProcOf[r] \in APIs,
           n.pc = "execute" /\ h[r].hook.due /\ Undisturbed(k)' => Serves(loader'[ProcOf[r]], k)
    PROVE  HandlerServed(r)'
<1>1. HandlerShape(r, h[r])
  BY DEF TypeInv
<1>2. PICK m : m = h[r].hook
  OBVIOUS
<1>3. /\ ProcOf[r] \notin APIs => m \in Hook /\ HookServed(m)
      /\ h[r].acked => Acked(k)
  BY <1>1, <1>2 DEF HandlerShape, HandlerServed
<1>4. /\ ProcOf[r] \notin APIs => HookServed(m)'
      /\ h[r].acked => Acked(k)'
  BY <1>3, CalmFacts DEF Calm
<1>5. Expects(r)' <=> Expects(r)
  BY DEF Expects
<1>6. /\ Mirrored(h[r].key)' <=> Mirrored(k)'
      /\ Acked(h[r].key)' <=> Acked(k)'
      /\ Undisturbed(h[r].key)' <=> Undisturbed(k)'
      /\ HookServed(h[r].hook)' <=> HookServed(m)'
  BY <1>2 DEF Mirrored, Acked, Undisturbed, HookServed
<1>7. Serves(loader[ProcOf[r]], h[r].key)' <=> Serves(loader'[ProcOf[r]], k)
  BY DEF Serves
<1> QED
  BY <1>4, <1>5, <1>6, <1>7 DEF HandlerServed

\* A record is published.
LEMMA PublishCalm ==
    ASSUME TypeInv, NEW k \in Keys, NEW record, Publish(k, record), UNCHANGED <<lost, redis, acked>>
    PROVE  Calm /\ (record = "tombstone" => Deleted(k)')
<1>1. log \in [Keys -> Seq({"script", "tombstone"})] /\ log' = [log EXCEPT ![k] = Append(@, record)]
  BY DEF Publish, TypeInv, TypeOK
<1>2. log'[k] = Append(log[k], record) /\ \A q \in Keys : q # k => log'[q] = log[q]
  BY <1>1
<1>3. PICK s : s = log[k] /\ s \in Seq({"script", "tombstone"}) /\ Len(s) \in Nat
  BY <1>1
<1>4. /\ DOMAIN s = 1 .. Len(s) /\ DOMAIN Append(s, record) = 1 .. Len(s) + 1
      /\ \A o \in 1 .. Len(s) : Append(s, record)[o] = s[o]
      /\ Append(s, record)[Len(s) + 1] = record
  BY <1>3
<1>5. Deleted(k) => Deleted(k)'
  BY <1>2, <1>3, <1>4 DEF Deleted
<1>6. \A q \in Keys : Deleted(q) => Deleted(q)'
  BY <1>2, <1>5 DEF Deleted
<1>7. record = "tombstone" => Deleted(k)'
  <2>1. Len(s) + 1 \in DOMAIN log'[k] /\ log'[k][Len(s) + 1] = record
    BY <1>2, <1>3, <1>4
  <2> QED
    BY <2>1 DEF Deleted
<1>8. \A q \in Keys : Acked(q) => Acked(q)'
  BY DEF Acked
<1> QED
  BY <1>6, <1>7, <1>8 DEF Calm

LEMMA RequestServed ==
    ASSUME TypeInv, ServedInv, NEW r \in Handlers, NEW k \in Keys, UploadScript(r, k) \/ DeleteScript(r, k)
    PROVE  ServedInv'
<1>1. UNCHANGED <<redis, loader, hooks, lost, acked, sent>> /\ ProcOf[r] \in APIs
  BY DEF UploadScript, DeleteScript, hookVars, historyVars
<1>2. PICK record \in {"script", "tombstone"} : Publish(k, record) /\ (DeleteScript(r, k) => record = "tombstone")
  BY DEF UploadScript, DeleteScript
<1>3. Calm /\ (DeleteScript(r, k) => Deleted(k)')
  BY <1>1, <1>2, PublishCalm
<1>4. PICK n : /\ h' = [h EXCEPT ![r] = n] /\ n.key = k /\ ~n.acked
               /\ \/ n.pc = "cacheRedis" /\ n.ver # 0
                  \/ n.pc = "dropRedis" /\ Deleted(k)'
  <2>1. Len(log[k]) + 1 # 0
    BY DEF TypeInv, TypeOK
  <2>2. CASE UploadScript(r, k)
    <3>1. PICK n : n = [Idle EXCEPT !.pc = "cacheRedis", !.key = k, !.ver = Len(log[k]) + 1]
      OBVIOUS
    <3>2. n.pc = "cacheRedis" /\ n.key = k /\ n.ver # 0 /\ ~n.acked
      BY <2>1, <3>1 DEF Idle
    <3> QED
      BY <2>2, <3>1, <3>2 DEF UploadScript
  <2>3. CASE DeleteScript(r, k)
    <3>1. PICK n : n = [Idle EXCEPT !.pc = "dropRedis", !.key = k]
      OBVIOUS
    <3>2. n.pc = "dropRedis" /\ n.key = k /\ ~n.acked
      BY <3>1 DEF Idle
    <3> QED
      BY <1>3, <2>3, <3>1, <3>2 DEF DeleteScript
  <2> QED
    BY <2>2, <2>3
<1>5. h'[r] = n /\ \A q \in Handlers : q # r => h'[q] = h[q]
  BY <1>4, OnlyHandler
<1>6. HandlerServed(r)'
  <2>1. Deleted(h[r].key)' <=> Deleted(k)'
    BY <1>4, <1>5 DEF Deleted
  <2> QED
    BY <1>1, <1>4, <1>5, <2>1 DEF HandlerServed
<1>7. \A q \in Keys : Acked(q)' => Acked(q)
  BY <1>1 DEF Acked
<1> QED
  BY <1>1, <1>3, <1>5, <1>6, <1>7, SameLoader, SameApplied, ServedFrom

LEMMA CacheServed ==
    ASSUME TypeInv, ServedInv, NEW r \in Handlers, CacheScript(r) \/ DropScript(r)
    PROVE  ServedInv'
<1>1. UNCHANGED <<log, loader, hooks, acked, sent>>
  BY DEF CacheScript, DropScript, topicVars, hookVars
<1>2. HandlerServed(r) /\ HandlerShape(r, h[r])
  BY DEF ServedInv, TypeInv
<1>3. PICK k \in Keys : k = h[r].key
  BY <1>2 DEF HandlerShape, CacheScript, DropScript
<1>4. CASE CacheScript(r)
  <2>1. WriteRedis(k, h[r].ver) /\ h[r].ver # 0 /\ h[r].pc = "cacheRedis"
    BY <1>2, <1>3, <1>4 DEF CacheScript, HandlerServed
  <2>2. Calm
    BY <1>1, <2>1, CalmWrite
  <2>3. Mirrored(k)'
    <3>1. redis \in [Keys -> Offsets]
      BY DEF TypeInv, TypeOK
    <3> QED
      BY <2>1, <3>1 DEF WriteRedis, Mirrored
  <2>4. PICK n : n = [h[r] EXCEPT !.pc = "populate"]
    OBVIOUS
  <2>5. /\ n.pc = "populate" /\ n.key = k /\ n.acked = h[r].acked /\ n.hook = h[r].hook /\ n.ver # 0
    BY <1>2, <1>3, <2>1, <2>4 DEF HandlerShape, Handler
  <2>6. h' = [h EXCEPT ![r] = n]
    BY <1>4, <2>4 DEF CacheScript
  <2>7. h'[r] = n /\ \A q \in Handlers : q # r => h'[q] = h[q]
    BY <2>6, OnlyHandler
  <2>8. HandlerServed(r)'
    BY <1>2, <1>3, <2>1, <2>2, <2>3, <2>5, <2>7, HandlerGoes
  <2>9. \A q \in Keys : Acked(q)' => Acked(q)
    BY <1>1 DEF Acked
  <2> QED
    BY <1>1, <2>2, <2>7, <2>8, <2>9, SameLoader, SameApplied, ServedFrom
<1>5. CASE DropScript(r)
  <2>1. WriteRedis(k, 0) /\ Deleted(k)
    BY <1>2, <1>3, <1>5 DEF DropScript, HandlerServed
  <2>2. Calm
    BY <1>1, <2>1, CalmWrite
  <2>3. h'[r] = Idle /\ \A q \in Handlers : q # r => h'[q] = h[q]
    BY <1>5, OnlyHandler DEF DropScript
  <2>4. \A q \in Keys : Acked(q)' => Acked(q)
    BY <1>1 DEF Acked
  <2> QED
    BY <1>1, <2>2, <2>3, <2>4, IdleServed, SameLoader, SameApplied, ServedFrom
<1> QED
  BY <1>4, <1>5

\* The upload is acknowledged.
LEMMA PopulateServed ==
    ASSUME TypeInv, ServedInv, NEW r \in Handlers, PopulateLoader(r)
    PROVE  ServedInv'
<1>1. UNCHANGED <<log, redis, hooks, lost, sent>>
  BY DEF PopulateLoader, topicVars, hookVars
<1>2. HandlerServed(r) /\ HandlerShape(r, h[r])
  BY DEF ServedInv, TypeInv
<1>3. PICK k \in Keys : k = h[r].key
  BY <1>2 DEF HandlerShape, PopulateLoader
<1>4. PICK v : v = h[r].ver /\ v # 0
  BY <1>2 DEF PopulateLoader, HandlerServed
<1>5. Mirrored(k)
  BY <1>2, <1>3 DEF PopulateLoader, HandlerServed
<1>6. /\ SetLocal(ProcOf[r], k, v)
      /\ acked' = [acked EXCEPT ![ProcOf[r]][k] = v]
      /\ acked \in [Procs -> [Keys -> Offsets]]
  BY <1>3, <1>4 DEF PopulateLoader, TypeInv, TypeOK
<1>7. \A p \in Procs : LoaderKept(p)
  BY <1>4, <1>6, ProcOfType, SetLocalKept
<1>8. \A p \in Procs, q \in Keys : acked'[p][q] = acked[p][q] \/ (q = k /\ acked'[p][q] = v)
  BY <1>6
<1>9. \A q \in Keys : (Acked(q) => Acked(q)') /\ (Acked(q)' => Acked(q) \/ Mirrored(q))
  BY <1>4, <1>5, <1>8 DEF Acked
<1>10. Calm
  BY <1>1, <1>9 DEF Calm, Deleted
<1>11. h'[r] = Idle /\ \A q \in Handlers : q # r => h'[q] = h[q]
  BY OnlyHandler DEF PopulateLoader
<1> QED
  BY <1>1, <1>7, <1>9, <1>10, <1>11, ProcOfType, IdleServed, SameApplied, ServedFrom

\* A lookup for an acknowledged script finds it in Redis.
LEMMA ExpectedMirrored ==
    ASSUME TypeInv, ServedInv, NEW r \in Handlers, h[r].pc # "idle", Expects(r), redis[h[r].key] = 0
    PROVE  ~Undisturbed(h[r].key)
<1>1. HandlerServed(r) /\ HandlerShape(r, h[r])
  BY DEF ServedInv, TypeInv
<1>2. Acked(h[r].key)
  <2>1. CASE ProcOf[r] \in APIs
    BY <1>1, <2>1 DEF Expects, HandlerServed
  <2>2. CASE ProcOf[r] \notin APIs
    BY <1>1, <2>2 DEF Expects, HandlerServed, HookServed, HandlerShape
  <2> QED
    BY <2>1, <2>2
<1>3. h[r].key \in Keys
  BY <1>1 DEF HandlerShape
<1> QED
  BY <1>2, <1>3 DEF ServedInv, Mirrored, Undisturbed

LEMMA LookupServed ==
    ASSUME TypeInv, ServedInv, NEW r \in Handlers, LookupRedis(r) \/ LookupNamespace(r)
    PROVE  ServedInv'
<1>1. UNCHANGED <<log, redis, loader, hooks, acked, sent>>
  BY DEF LookupRedis, LookupNamespace, topicVars, hookVars
<1>2. HandlerServed(r) /\ HandlerShape(r, h[r]) /\ h[r] \in Handler /\ h[r].pc \in {"lookup", "lookupNs"}
  BY DEF ServedInv, TypeInv, HandlerShape, LookupRedis, LookupNamespace
<1>3. PICK k \in Keys : k = h[r].key
  BY <1>2 DEF HandlerShape
<1>4. UNCHANGED lost \/ lost' = TRUE
  BY DEF LookupRedis, LookupNamespace
<1>5. Calm
  <2>1. \A q \in Keys : (Deleted(q)' <=> Deleted(q)) /\ (Acked(q)' <=> Acked(q))
    BY <1>1 DEF Deleted, Acked
  <2> QED
    BY <1>1, <1>4, <2>1 DEF Calm
<1>6. Resolved(r) \in {"publish", "execute"} /\ (Resolved(r) = "publish" <=> ProcOf[r] \in APIs)
  BY DEF Resolved
<1>7. PICK n : /\ h' = [h EXCEPT ![r] = n]
               /\ n.key = k /\ n.acked = h[r].acked /\ n.hook = h[r].hook
               /\ \/ n.pc = "fill" /\ n.ver # 0
                  \/ /\ n.pc \in {"lookupNs", Resolved(r)}
                     /\ Expects(r) => ~Undisturbed(k)'
  <2>1. Undisturbed(k)' => Undisturbed(k)
    BY <1>5, CalmFacts
  <2>2. \A pc : LET n == [h[r] EXCEPT !.pc = pc]
                IN  n.pc = pc /\ n.key = k /\ n.acked = h[r].acked /\ n.hook = h[r].hook
    BY <1>2, <1>3 DEF Handler
  <2>3. \A c : LET n == [h[r] EXCEPT !.pc = "fill", !.of = c, !.ver = redis[c]]
               IN  /\ n.pc = "fill" /\ n.ver = redis[c]
                   /\ n.key = k /\ n.acked = h[r].acked /\ n.hook = h[r].hook
    BY <1>2, <1>3 DEF Handler
  <2>4. lost' = TRUE => ~Undisturbed(k)'
    BY DEF Undisturbed
  <2>5. CASE LookupRedis(r)
    <3>1. \/ /\ redis[k] # 0
             /\ h' = [h EXCEPT ![r] = [@ EXCEPT !.pc = "fill", !.of = k, !.ver = redis[k]]]
          \/ /\ redis[k] = 0
             /\ h' = [h EXCEPT ![r].pc = IF NsOf[k] # NoKey THEN "lookupNs" ELSE Resolved(r)]
          \/ /\ lost' = TRUE
             /\ h' = [h EXCEPT ![r].pc = Resolved(r)]
      BY <1>3, <2>5 DEF LookupRedis
    <3>2. redis[k] = 0 /\ Expects(r) => ~Undisturbed(k)'
      BY <1>2, <1>3, <2>1, ExpectedMirrored
    <3>3. CASE redis[k] # 0 /\ h' = [h EXCEPT ![r] = [@ EXCEPT !.pc = "fill", !.of = k, !.ver = redis[k]]]
      <4>1. PICK n : n = [h[r] EXCEPT !.pc = "fill", !.of = k, !.ver = redis[k]]
        OBVIOUS
      <4>2. n.pc = "fill" /\ n.ver # 0 /\ n.key = k /\ n.acked = h[r].acked /\ n.hook = h[r].hook
        BY <2>3, <3>3, <4>1
      <4> QED
        BY <3>3, <4>1, <4>2
    <3>4. ASSUME NEW pc \in {"lookupNs", Resolved(r)}, h' = [h EXCEPT ![r].pc = pc],
                 Expects(r) => ~Undisturbed(k)'
          PROVE  \E n : /\ h' = [h EXCEPT ![r] = n]
                        /\ n.key = k /\ n.acked = h[r].acked /\ n.hook = h[r].hook
                        /\ n.pc \in {"lookupNs", Resolved(r)}
                        /\ Expects(r) => ~Undisturbed(k)'
      <4>1. PICK n : n = [h[r] EXCEPT !.pc = pc]
        OBVIOUS
      <4>2. n.pc = pc /\ n.key = k /\ n.acked = h[r].acked /\ n.hook = h[r].hook
        BY <2>2, <4>1
      <4>3. h' = [h EXCEPT ![r] = n]
        BY <3>4, <4>1
      <4> QED
        BY <3>4, <4>2, <4>3
    <3> QED
      BY <2>4, <3>1, <3>2, <3>3, <3>4
  <2>6. CASE LookupNamespace(r)
    <3>1. PICK c : c = NsOf[h[r].key]
      OBVIOUS
    <3>2. \/ /\ redis[c] # 0
             /\ h' = [h EXCEPT ![r] = [@ EXCEPT !.pc = "fill", !.of = c, !.ver = redis[c]]]
          \/ h' = [h EXCEPT ![r].pc = Resolved(r)]
      BY <2>6, <3>1 DEF LookupNamespace
    <3>3. Expects(r) => ~Undisturbed(k)'
      BY <1>2, <1>3, <2>1, <2>6 DEF LookupNamespace, HandlerServed
    <3>4. CASE redis[c] # 0 /\ h' = [h EXCEPT ![r] = [@ EXCEPT !.pc = "fill", !.of = c, !.ver = redis[c]]]
      <4>1. PICK n : n = [h[r] EXCEPT !.pc = "fill", !.of = c, !.ver = redis[c]]
        OBVIOUS
      <4>2. n.pc = "fill" /\ n.ver # 0 /\ n.key = k /\ n.acked = h[r].acked /\ n.hook = h[r].hook
        BY <2>3, <3>4, <4>1
      <4> QED
        BY <3>4, <4>1, <4>2
    <3>5. CASE h' = [h EXCEPT ![r].pc = Resolved(r)]
      <4>1. PICK n : n = [h[r] EXCEPT !.pc = Resolved(r)]
        OBVIOUS
      <4>2. n.pc = Resolved(r) /\ n.key = k /\ n.acked = h[r].acked /\ n.hook = h[r].hook
        BY <2>2, <4>1
      <4>3. h' = [h EXCEPT ![r] = n]
        BY <3>5, <4>1
      <4> QED
        BY <3>3, <4>2, <4>3
    <3> QED
      BY <3>2, <3>4, <3>5
  <2> QED
    BY <2>5, <2>6
<1>8. h'[r] = n /\ \A q \in Handlers : q # r => h'[q] = h[q]
  BY <1>7, OnlyHandler
<1>9. n.pc = "execute" /\ h[r].hook.due /\ Undisturbed(k)' => Serves(loader'[ProcOf[r]], k)
  BY <1>6, <1>7 DEF Expects
<1>10. HandlerServed(r)'
  BY <1>2, <1>3, <1>5, <1>6, <1>7, <1>8, <1>9, HandlerGoes
<1>11. \A q \in Keys : Acked(q)' => Acked(q)
  BY <1>1 DEF Acked
<1> QED
  BY <1>1, <1>5, <1>8, <1>10, <1>11, SameLoader, SameApplied, ServedFrom

\* The script that was found goes into the Loader before it is needed.
LEMMA FillServed ==
    ASSUME TypeInv, ServedInv, NEW r \in Handlers, FillLoader(r)
    PROVE  ServedInv'
<1>1. UNCHANGED <<log, redis, hooks, lost, acked, sent>>
  BY DEF FillLoader, topicVars, hookVars
<1>2. HandlerServed(r) /\ HandlerShape(r, h[r]) /\ h[r] \in Handler /\ h[r].pc = "fill"
  BY DEF ServedInv, TypeInv, HandlerShape, FillLoader
<1>3. PICK k \in Keys : k = h[r].key
  BY <1>2 DEF HandlerShape
<1>4. PICK c \in Keys : c = h[r].of /\ c \in {k, NsOf[k]}
  BY <1>2, <1>3 DEF HandlerShape
<1>5. SetLocal(ProcOf[r], c, h[r].ver) /\ h[r].ver # 0
  BY <1>2, <1>4 DEF FillLoader, HandlerServed
<1>6. loader'[ProcOf[r]][c] # 0 /\ \A p \in Procs : LoaderKept(p)
  BY <1>5, ProcOfType, SetLocalKept
<1>7. Serves(loader'[ProcOf[r]], k)
  BY <1>4, <1>6, ConstantsAssumption DEF Serves
<1>8. PICK n : n = [h[r] EXCEPT !.pc = Resolved(r)]
  OBVIOUS
<1>9. /\ n.pc = Resolved(r) /\ n.key = k /\ n.acked = h[r].acked /\ n.hook = h[r].hook /\ n.ver # 0
  BY <1>2, <1>3, <1>5, <1>8 DEF Handler
<1>10. h' = [h EXCEPT ![r] = n]
  BY <1>8 DEF FillLoader
<1>11. h'[r] = n /\ \A q \in Handlers : q # r => h'[q] = h[q]
  BY <1>10, OnlyHandler
<1>12. Calm
  BY <1>1, CalmSame
<1>13. HandlerServed(r)'
  BY <1>2, <1>3, <1>7, <1>9, <1>11, <1>12, HandlerGoes DEF Resolved
<1>14. \A q \in Keys : Acked(q)' => Acked(q)
  BY <1>1 DEF Acked
<1> QED
  BY <1>1, <1>6, <1>11, <1>12, <1>13, <1>14, ProcOfType, SameApplied, ServedFrom

\* The webhook is tagged.
LEMMA AddHookServed ==
    ASSUME NEW k, NEW tag, NEW due, AddHook(k, tag, due), due => tag # 0 /\ Acked(k), UNCHANGED acked
    PROVE  \A m \in hooks' : m \in hooks \/ HookServed(m)'
<1>1. PICK n : n = [key |-> k, tag |-> tag, depth |-> 0, att |-> 0, due |-> due]
  OBVIOUS
<1>2. n.due = due /\ n.tag = tag /\ n.key = k
  BY <1>1
<1>3. HookServed(n)'
  <2>1. Acked(k) => Acked(k)'
    BY DEF Acked
  <2>2. Acked(n.key)' <=> Acked(k)'
    BY <1>2 DEF Acked
  <2> QED
    BY <1>2, <2>1, <2>2 DEF HookServed
<1>4. hooks' = hooks \cup {n}
  BY <1>1 DEF AddHook
<1> QED
  BY <1>3, <1>4

LEMMA EnqueueServed ==
    ASSUME TypeInv, ServedInv, NEW r \in Handlers, NEW k \in Keys, EnqueueWebhook(r, k)
    PROVE  ServedInv'
<1>1. UNCHANGED <<log, redis, loader, lost, acked, sent>> /\ ProcOf[r] \in APIs
  BY DEF EnqueueWebhook, topicVars, historyVars
<1>2. Calm /\ \A p : LoaderKept(p)
  BY <1>1, CalmSame, SameLoader
<1>3. PICK script : script = Lookup(loader[ProcOf[r]], k)
  OBVIOUS
<1>4. \A q \in Keys : Acked(q)' => Acked(q)
  BY <1>1 DEF Acked
<1>5. CASE Found(script) /\ AddHook(k, script[2], Acked(k) /\ Undisturbed(k)) /\ UNCHANGED h
  <2>1. \A m \in hooks' : m \in hooks \/ HookServed(m)'
    BY <1>1, <1>5, AddHookServed DEF Found
  <2> QED
    BY <1>1, <1>2, <1>4, <1>5, <2>1, SameApplied, ServedFrom
<1>6. CASE /\ h' = [h EXCEPT ![r] = [Idle EXCEPT !.pc = "lookup", !.key = k, !.acked = Acked(k)]]
           /\ UNCHANGED hooks
  <2>1. PICK n : n = [Idle EXCEPT !.pc = "lookup", !.key = k, !.acked = Acked(k)]
    OBVIOUS
  <2>2. n.pc = "lookup" /\ n.key = k /\ (n.acked <=> Acked(k))
    BY <2>1 DEF Idle
  <2>3. h'[r] = n /\ \A q \in Handlers : q # r => h'[q] = h[q]
    BY <1>6, <2>1, OnlyHandler
  <2>4. HandlerServed(r)'
    <3>1. Acked(h[r].key)' <=> Acked(k)
      BY <1>1, <2>2, <2>3 DEF Acked
    <3> QED
      BY <1>1, <2>2, <2>3, <3>1 DEF HandlerServed
  <2> QED
    BY <1>1, <1>2, <1>4, <1>6, <2>3, <2>4, SameApplied, ServedFrom
<1> QED
  BY <1>3, <1>5, <1>6 DEF EnqueueWebhook

LEMMA PublishHookServed ==
    ASSUME TypeInv, ServedInv, NEW r \in Handlers, PublishWebhook(r)
    PROVE  ServedInv'
<1>1. UNCHANGED <<log, redis, loader, lost, acked, sent>>
  BY DEF PublishWebhook, topicVars, historyVars
<1>2. HandlerServed(r) /\ h[r].pc = "publish"
  BY DEF ServedInv, PublishWebhook
<1>3. h[r].acked /\ Undisturbed(h[r].key) => h[r].ver # 0 /\ Acked(h[r].key)
  BY <1>2 DEF HandlerServed, Expects
<1>4. \A m \in hooks' : m \in hooks \/ HookServed(m)'
  <2>1. PICK k, v, d : k = h[r].key /\ v = h[r].ver /\ d = (h[r].acked /\ Undisturbed(h[r].key))
    OBVIOUS
  <2>2. d => v # 0 /\ Acked(k)
    BY <1>3, <2>1
  <2>3. AddHook(k, v, d) \/ UNCHANGED hooks
    BY <2>1 DEF PublishWebhook
  <2> QED
    BY <1>1, <2>2, <2>3, AddHookServed
<1>5. h'[r] = Idle /\ \A q \in Handlers : q # r => h'[q] = h[q]
  BY OnlyHandler DEF PublishWebhook
<1>6. \A q \in Keys : Acked(q)' => Acked(q)
  BY <1>1 DEF Acked
<1> QED
  BY <1>1, <1>4, <1>5, <1>6, CalmSame, SameLoader, IdleServed, SameApplied, ServedFrom

\* What is recorded as sent keeps the promise if it does itself.
LEMMA RecordServed ==
    ASSUME ServedInv, NEW what, NEW m, NEW of, NEW depth, Record(what, m, of, depth),
           m.due /\ Undisturbed(m.key) => what = "post" /\ depth >= 1
    PROVE  AckedScriptApplied'
<1>1. PICK s : s = [what |-> what, key |-> m.key, of |-> of, depth |-> depth,
                    due |-> m.due /\ Undisturbed(m.key)]
  OBVIOUS
<1>2. s.what = what /\ s.depth = depth /\ s.due = (m.due /\ Undisturbed(m.key))
  BY <1>1
<1>3. sent' = sent \cup {s}
  BY <1>1 DEF Record
<1> QED
  BY <1>2, <1>3 DEF ServedInv, AckedScriptApplied

LEMMA ReceiveServed ==
    ASSUME TypeInv, ServedInv, NEW r \in Handlers, NEW m \in hooks, Receive(r, m)
    PROVE  ServedInv'
<1>1. UNCHANGED <<log, redis, loader, lost, acked>> /\ hooks' = hooks \ {m} /\ ProcOf[r] \notin APIs
  BY ConstantsAssumption DEF Receive, topicVars
<1>2. m \in Hook /\ m.key \in Keys /\ HookServed(m)
  BY DEF TypeInv, TypeOK, ServedInv, Hook
<1>3. Calm /\ (\A p : LoaderKept(p)) /\ (\A m2 \in hooks' : m2 \in hooks)
  BY <1>1, CalmSame, SameLoader
<1>4. \A q \in Keys : Acked(q)' => Acked(q)
  BY <1>1 DEF Acked
<1>5. CASE m.tag = 0 /\ Record("post", m, NoKey, m.depth) /\ UNCHANGED h
  <2>1. ~m.due
    BY <1>2, <1>5 DEF HookServed
  <2>2. AckedScriptApplied'
    BY <1>5, <2>1, RecordServed
  <2> QED
    BY <1>3, <1>4, <1>5, <2>2, ServedFrom
<1>6. CASE /\ h' = [h EXCEPT ![r] = [Idle EXCEPT
                !.pc = IF Found(Lookup(loader[ProcOf[r]], m.key)) THEN "execute" ELSE "lookup",
                !.key = m.key, !.hook = m]]
           /\ UNCHANGED sent
  <2>1. PICK pc \in {"execute", "lookup"} :
            pc = IF Found(Lookup(loader[ProcOf[r]], m.key)) THEN "execute" ELSE "lookup"
    OBVIOUS
  <2>2. pc = "execute" => Serves(loader[ProcOf[r]], m.key)
    <3>1. loader[ProcOf[r]] \in [Keys -> Offsets]
      BY ProcOfType DEF TypeInv, TypeOK
    <3> QED
      BY <1>2, <2>1, <3>1, LookupResult DEF Serves
  <2>3. PICK n : n = [Idle EXCEPT !.pc = pc, !.key = m.key, !.hook = m]
    OBVIOUS
  <2>4. n.pc = pc /\ n.key = m.key /\ n.hook = m /\ ~n.acked
    BY <2>3 DEF Idle
  <2>5. h'[r] = n /\ \A q \in Handlers : q # r => h'[q] = h[q]
    BY <1>6, <2>1, <2>3, OnlyHandler
  <2>6. HandlerServed(r)'
    <3>1. HookServed(h[r].hook)' <=> HookServed(m)'
      BY <2>4, <2>5 DEF HookServed, Acked
    <3>2. HookServed(m)'
      BY <1>2, <1>3, CalmFacts
    <3>3. Serves(loader[ProcOf[r]], h[r].key)' <=> Serves(loader[ProcOf[r]], m.key)
      BY <1>1, <2>4, <2>5 DEF Serves
    <3> QED
      BY <1>1, <2>1, <2>2, <2>4, <2>5, <3>1, <3>2, <3>3 DEF HandlerServed
  <2> QED
    BY <1>3, <1>4, <1>6, <2>5, <2>6, SameApplied, ServedFrom
<1> QED
  BY <1>5, <1>6 DEF Receive

LEMMA ExecuteServed ==
    ASSUME TypeInv, ServedInv, NEW r \in Handlers, Execute(r)
    PROVE  ServedInv'
<1>1. UNCHANGED <<log, redis, loader, lost, acked>>
  BY DEF Execute, topicVars
<1>2. HandlerServed(r) /\ HandlerShape(r, h[r]) /\ h[r].pc = "execute"
  BY DEF ServedInv, TypeInv, Execute
<1>3. PICK m \in Hook : m = h[r].hook /\ m.key = h[r].key /\ m.key \in Keys /\ HookServed(m)
  BY <1>2 DEF HandlerShape, HandlerServed
<1>4. PICK script : script = Lookup(loader[ProcOf[r]], h[r].key)
  OBVIOUS
<1>5. m.due /\ Undisturbed(m.key) => Found(script)
  <2>1. loader[ProcOf[r]] \in [Keys -> Offsets]
    BY ProcOfType DEF TypeInv, TypeOK
  <2> QED
    BY <1>2, <1>3, <1>4, <2>1, LookupResult DEF HandlerServed, Serves
<1>6. m.depth \in 0 .. 2 /\ applyTransformation(m.depth) \in 0 .. 2 /\ applyTransformation(m.depth) >= 1
  BY DEF Hook, applyTransformation
<1>7. /\ \/ UNCHANGED sent
         \/ ~Found(script) /\ Record("notfound", m, NoKey, m.depth)
         \/ Record("post", m, script[1], applyTransformation(m.depth))
      /\ UNCHANGED hooks \/ Retry(m, m.depth) \/ Retry(m, applyTransformation(m.depth))
      /\ h' = [h EXCEPT ![r] = Idle]
  BY <1>3, <1>4 DEF Execute
<1>8. AckedScriptApplied'
  <2>1. CASE UNCHANGED sent
    BY <2>1, SameApplied
  <2>2. CASE ~Found(script) /\ Record("notfound", m, NoKey, m.depth)
    BY <1>5, <2>2, RecordServed
  <2>3. CASE Record("post", m, script[1], applyTransformation(m.depth))
    BY <1>6, <2>3, RecordServed
  <2> QED
    BY <1>7, <2>1, <2>2, <2>3
<1>9. Calm
  BY <1>1, CalmSame
<1>10. \A m2 \in hooks' : m2 \in hooks \/ HookServed(m2)'
  <2>1. CASE UNCHANGED hooks
    BY <2>1
  <2>2. CASE Retry(m, m.depth) \/ Retry(m, applyTransformation(m.depth))
    <3>1. PICK n \in Hook : hooks' = hooks \cup {n} /\ n.key = m.key /\ n.tag = m.tag /\ n.due = m.due
      BY <1>6, <2>2, RetryTyped
    <3>2. HookServed(n)
      BY <1>3, <3>1 DEF HookServed
    <3>3. HookServed(n)'
      BY <1>9, <3>2, CalmFacts
    <3> QED
      BY <3>1, <3>3
  <2> QED
    BY <1>7, <2>1, <2>2
<1>11. h'[r] = Idle /\ \A q \in Handlers : q # r => h'[q] = h[q]
  BY <1>7, OnlyHandler
<1>12. \A q \in Keys : Acked(q)' => Acked(q)
  BY <1>1 DEF Acked
<1> QED
  BY <1>1, <1>8, <1>9, <1>10, <1>11, <1>12, SameLoader, IdleServed, ServedFrom

\* The replay takes a script away only for a tombstone.
LEMMA ReplayServed ==
    ASSUME TypeInv, ServedInv, NEW p \in Procs, NEW k \in Keys, ReplayRecord(p, k) \/ WriteThrough(p, k)
    PROVE  ServedInv'
<1>1. UNCHANGED <<log, h, hooks, acked, sent>>
  BY DEF ReplayRecord, WriteThrough, topicVars, hookVars
<1>2. log[k] \in Seq({"script", "tombstone"}) /\ Len(log[k]) \in Nat
  BY DEF TypeInv, TypeOK
<1>3. \A o \in 1 .. Len(log[k]) : log[k][o] # "script" => Deleted(k)
  BY <1>2 DEF Deleted
<1>4. \A q \in Keys : (Acked(q)' => Acked(q)) /\ (Deleted(q)' <=> Deleted(q))
  BY <1>1 DEF Acked, Deleted
<1>5. CASE ReplayRecord(p, k)
  <2>1. PICK o \in NextKept(p, k) : loader' = [loader EXCEPT ![p][k] = IF log[k][o] = "script" THEN o ELSE 0]
    BY <1>5 DEF ReplayRecord
  <2>2. o \in 1 .. Len(log[k]) /\ o # 0
    BY <1>2, <2>1 DEF NextKept, TypeInv
  <2>3. loader \in [Procs -> [Keys -> Offsets]]
    BY DEF TypeInv, TypeOK
  <2>4. \A q \in Procs, c \in Keys :
            loader'[q][c] = loader[q][c] \/ (c = k /\ loader'[q][c] = IF log[k][o] = "script" THEN o ELSE 0)
    BY <2>1, <2>3
  <2>5. \A q \in Procs : LoaderKept(q)
    BY <1>3, <1>4, <2>2, <2>4 DEF LoaderKept
  <2>6. Calm
    BY <1>1, <1>5, CalmSame DEF ReplayRecord
  <2> QED
    BY <1>1, <1>4, <2>5, <2>6, ProcOfType, SameApplied, ServedFrom
<1>6. CASE WriteThrough(p, k)
  <2>1. /\ UNCHANGED loader /\ mid[p][k] # 0
        /\ WriteRedis(k, IF log[k][mid[p][k]] = "script" THEN mid[p][k] ELSE 0)
    BY <1>6 DEF WriteThrough
  <2>2. mid[p][k] \in 1 .. Len(log[k])
    <3>1. mid[p][k] \in 0 .. RecordBound /\ mid[p][k] <= Len(log[k]) /\ RecordBound \in Nat
      BY ConstantsAssumption DEF TypeInv, TypeOK, Offsets
    <3> QED
      BY <1>2, <2>1, <3>1
  <2>3. PICK v : v = IF log[k][mid[p][k]] = "script" THEN mid[p][k] ELSE 0
    OBVIOUS
  <2>4. v # 0 \/ Deleted(k)
    BY <1>3, <2>1, <2>2, <2>3
  <2>5. Calm
    BY <1>1, <2>1, <2>3, <2>4, CalmWrite
  <2> QED
    BY <1>1, <1>4, <2>1, <2>5, SameLoader, SameApplied, ServedFrom
<1> QED
  BY <1>5, <1>6

\* A process that dies takes its requests with it; its messages come again.
LEMMA CrashServed ==
    ASSUME TypeInv, ServedInv, NEW p \in Procs, Crash(p)
    PROVE  ServedInv'
<1>1. /\ loader' = [loader EXCEPT ![p] = Nothing]
      /\ h' = [r \in Handlers |-> IF ProcOf[r] = p THEN Idle ELSE h[r]]
      /\ hooks' = hooks \cup {h[r].hook : r \in {q \in Handlers : ProcOf[q] = p /\ p \in Workers /\ h[q].hook # <<>>}}
      /\ UNCHANGED <<log, redis, lost, acked, sent>>
  BY DEF Crash, topicVars
<1>2. Calm
  BY <1>1, CalmSame
<1>3. \A q \in Procs : q # p => LoaderKept(q)
  <2>1. loader \in [Procs -> [Keys -> Offsets]]
    BY DEF TypeInv, TypeOK
  <2>2. \A q \in Procs : q # p => loader'[q] = loader[q]
    BY <1>1, <2>1
  <2> QED
    BY <2>2 DEF LoaderKept
<1>4. \A q \in Handlers : IF ProcOf[q] = p THEN h'[q] = Idle ELSE h'[q] = h[q]
  BY <1>1
<1>5. \A q \in Handlers : (h'[q] = h[q] /\ LoaderKept(ProcOf[q])) \/ HandlerServed(q)'
  BY <1>3, <1>4, ProcOfType, IdleServed
<1>6. ASSUME NEW m \in hooks' PROVE m \in hooks \/ HookServed(m)'
  <2>1. CASE m \in hooks
    BY <2>1
  <2>2. CASE m \notin hooks
    <3>1. PICK r \in Handlers : ProcOf[r] = p /\ p \in Workers /\ h[r].hook # <<>> /\ m = h[r].hook
      BY <1>1, <2>2
    <3>2. HandlerShape(r, h[r]) /\ HandlerServed(r) /\ ProcOf[r] \notin APIs
      BY <3>1, ConstantsAssumption DEF TypeInv, ServedInv
    <3>3. h[r].pc # "idle"
      BY <3>1, <3>2 DEF HandlerShape, Idle
    <3>4. m \in Hook /\ HookServed(m)
      BY <3>1, <3>2, <3>3 DEF HandlerShape, HandlerServed
    <3> QED
      BY <1>2, <3>4, CalmFacts
  <2> QED
    BY <2>1, <2>2
<1>7. \A q \in Keys : Acked(q)' => Acked(q)
  BY <1>1 DEF Acked
<1> QED
  BY <1>1, <1>2, <1>5, <1>6, <1>7, SameApplied, ServedFrom

LEMMA ServedStep == TypeInv /\ ServedInv /\ [Next]_vars => ServedInv'
<1> SUFFICES ASSUME TypeInv, ServedInv, [Next]_vars PROVE ServedInv'
  OBVIOUS
<1> USE DEF topicVars, replayVars, hookVars, historyVars
<1>1. ASSUME NEW r \in Handlers, NEW k \in Keys, UploadScript(r, k) \/ DeleteScript(r, k) \/ EnqueueWebhook(r, k)
      PROVE  ServedInv'
  BY <1>1, RequestServed, EnqueueServed
<1>2. ASSUME NEW r \in Handlers, NEW m \in hooks, Receive(r, m) PROVE ServedInv'
  BY <1>2, ReceiveServed
<1>3. ASSUME NEW r \in Handlers, HandlerStep(r) PROVE ServedInv'
  BY <1>3, CacheServed, PopulateServed, LookupServed, FillServed, PublishHookServed, ExecuteServed DEF HandlerStep
<1>4. ASSUME NEW p \in Procs, NEW k \in Keys, ReplayRecord(p, k) \/ WriteThrough(p, k) PROVE ServedInv'
  BY <1>4, ReplayServed
<1>5. ASSUME NEW p \in Procs, Crash(p) PROVE ServedInv'
  BY <1>5, CrashServed
<1>6. ASSUME UNCHANGED <<log, redis, loader, lost, acked, h, hooks, sent>> PROVE ServedInv'
  <2>1. \A q \in Keys : Acked(q)' => Acked(q)
    BY <1>6 DEF Acked
  <2> QED
    BY <1>6, <2>1, CalmSame, SameLoader, SameApplied, ServedFrom
<1>7. ASSUME NEW p \in Procs, RestartReplay(p) PROVE ServedInv'
  BY <1>6, <1>7 DEF RestartReplay
<1>8. ASSUME NEW k \in Keys, NEW o \in 1 .. RecordBound, Compact(k, o) PROVE ServedInv'
  BY <1>6, <1>8 DEF Compact
<1>9. CASE Flush
  <2>1. lost' = TRUE /\ UNCHANGED <<log, loader, acked, h, hooks, sent>>
    BY <1>9 DEF Flush
  <2>2. \A q \in Keys : (Acked(q)' <=> Acked(q)) /\ (Deleted(q)' <=> Deleted(q))
    BY <2>1 DEF Acked, Deleted
  <2>3. Calm
    BY <2>1, <2>2 DEF Calm
  <2> QED
    BY <2>1, <2>2, <2>3, SameLoader, SameApplied, ServedFrom
<1>10. CASE UNCHANGED vars
  BY <1>6, <1>10 DEF vars
<1> QED
  BY <1>1, <1>2, <1>3, <1>4, <1>5, <1>7, <1>8, <1>9, <1>10 DEF Next

\* Once an upload has been answered 200, every webhook enqueued for the config id
\* is transformed before it is sent, and none is dead-lettered for want of a
\* script, as long as the script is not deleted and Redis loses nothing: under
\* every fault of AllFaults, retention of tombstones included.
THEOREM AcknowledgedApplied == Spec => []AckedScriptApplied
<1>1. ServedInv => AckedScriptApplied
  BY DEF ServedInv
<1> QED
  BY <1>1, TypeInit, TypeStep, ServedInit, ServedStep, PTL DEF Spec
==============================================================================
