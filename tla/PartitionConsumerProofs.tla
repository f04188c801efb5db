------------------------ MODULE PartitionConsumerProofs ------------------------
(***************************************************************************)
(* Proofs about PartitionConsumer, for every log bound, key assignment,    *)
(* parallelism, channel size and number of sessions.                       *)
(***************************************************************************)
EXTENDS PartitionConsumer, FiniteSetTheorems, TLAPS

\* Every message from the group's first claim up to n has been handled.
HandledUpTo(n) == \A o \in Offsets : groupStart <= o /\ o < n => o \in handled

\* What the offset tracker of a live session knows.
TrackerInv ==
    Active => /\ sess > 0
              /\ committed <= marked
              /\ completed \subseteq handled
              /\ lowestPending >= 0
              /\ HandledUpTo(lowestPending)
              /\ HandledUpTo(marked)

\* The inductive invariant behind NoMessageSkipped, for a group that has a
\* committed offset.
SkipInv ==
    /\ committed >= 0
    /\ sess > 0 => /\ groupStart # NoOffset
                   /\ HandledUpTo(committed)
                   /\ HandledUpTo(start)
    /\ sess = 0 => groupStart = NoOffset
    /\ \A w \in busy : w.pc = "mark" => HandledUpTo(w.to)
    /\ TrackerInv

\* Appending to one channel keeps every channel a sequence.
LEMMA AppendToChannel ==
    ASSUME NEW S, NEW C, NEW q \in [C -> Seq(S)], NEW c, NEW x \in S
    PROVE  [q EXCEPT ![c] = Append(@, x)] \in [C -> Seq(S)]
<1>1. CASE c \in C
  BY <1>1
<1>2. CASE c \notin C
  <2>1. [q EXCEPT ![c] = Append(@, x)] = q
    BY <1>2
  <2> QED
    BY <2>1
<1> QED
  BY <1>1, <1>2

\* Emptying the channels of one session keeps every channel a sequence.
LEMMA EmptyChannels ==
    ASSUME NEW S, NEW C, NEW q \in [C -> Seq(S)], NEW s
    PROVE  [c \in C |-> IF c[1] = s THEN <<>> ELSE q[c]] \in [C -> Seq(S)]
OBVIOUS

\* The state of the partition processor keeps its types.
THEOREM TypeCorrect == Spec => []TypeOK
<1> USE DEF TypeOK, NoOffset, Phases
<1>1. Init => TypeOK
  <2> SUFFICES ASSUME Init PROVE TypeOK
    OBVIOUS
  <2>1. queue \in [Channels -> Seq(Offsets)]
    BY DEF Init
  <2>2. fails \in [Offsets -> 0 .. FailBound]
    BY BoundsAssumption DEF Init
  <2> QED
    BY <2>1, <2>2, BoundsAssumption, CommittedAssumption DEF Init
<1>2. TypeOK /\ [Next]_vars => TypeOK'
  <2> SUFFICES ASSUME TypeOK, [Next]_vars PROVE TypeOK'
    OBVIOUS
  <2>1. CASE Publish
    BY <2>1, BoundsAssumption DEF Publish, trackerVars, claimVars
  <2>2. CASE ConsumeClaim
    BY <2>2, BoundsAssumption DEF ConsumeClaim, ClaimOffset, NewOffsetTracker
  <2>3. CASE AutoCommit
    BY <2>3 DEF AutoCommit, trackerVars, claimVars
  <2>4. CASE Receive
    <3>1. fetchPos \in Offsets /\ fetchPos' \in 0 .. LogBound
      BY <2>4, BoundsAssumption DEF Receive, Offsets
    <3>2. hold' \in [off : Offsets, gen : {0, 1}]
      BY <2>4, <3>1 DEF Receive
    <3> QED
      BY <2>4, <3>1, <3>2 DEF Receive, trackerVars, claimVars
  <2>5. CASE Send
    <3>1. hold.off \in Offsets
      BY <2>5 DEF Send
    <3>2. queue' \in [Channels -> Seq(Offsets)]
      <4>1. queue \in [Channels -> Seq(Offsets)]
        OBVIOUS
      <4>2. queue' = [queue EXCEPT ![HeldChannel] = Append(@, hold.off)]
        BY <2>5 DEF Send
      <4> QED
        BY <3>1, <4>1, <4>2, AppendToChannel
    <3> QED
      BY <2>5, <3>2 DEF Send, trackerVars, claimVars
  <2>6. CASE SendOnClosed \/ Crash
    <3>1. queue' \in [Channels -> Seq(Offsets)]
      <4>1. queue \in [Channels -> Seq(Offsets)]
        OBVIOUS
      <4>2. queue' = [c \in Channels |-> IF c[1] = sess THEN <<>> ELSE queue[c]]
        BY <2>6 DEF SendOnClosed, Crash, Die
      <4> QED
        BY <4>1, <4>2, EmptyChannels
    <3> QED
      BY <2>6, <3>1 DEF SendOnClosed, Crash, Die, trackerVars
  <2>7. ASSUME NEW c \in Channels, StartHandler(c) PROVE TypeOK'
    <3>1. queue[c] \in Seq(Offsets) /\ queue[c] # <<>>
      BY <2>7 DEF StartHandler
    <3>2. Head(queue[c]) \in Offsets /\ Tail(queue[c]) \in Seq(Offsets)
      BY <3>1
    <3>3. c[1] \in Sessions /\ c[3] \in {0, 1} /\ 0 \in 0 .. LogBound
      BY BoundsAssumption DEF Channels
    <3>4. [sess |-> c[1], gen |-> c[3], off |-> Head(queue[c]),
           pc |-> "handler", to |-> 0] \in Worker
      BY <3>2, <3>3 DEF Worker
    <3>5. busy' \subseteq Worker
      BY <2>7, <3>4 DEF StartHandler
    <3>6. queue' \in [Channels -> Seq(Offsets)]
      BY <2>7, <3>2 DEF StartHandler
    <3> QED
      BY <2>7, <3>5, <3>6 DEF StartHandler, trackerVars, claimVars
  <2>8. ASSUME NEW w \in busy, HandlerError(w) PROVE TypeOK'
    <3>1. fails' \in [Offsets -> 0 .. FailBound]
      BY <2>8, BoundsAssumption DEF HandlerError, Worker
    <3> QED
      BY <2>8, <3>1 DEF HandlerError, trackerVars, claimVars
  <2>9. ASSUME NEW w \in busy, HandlerOk(w) PROVE TypeOK'
    <3>0. w \in Worker /\ w.off \in Offsets
      BY DEF Worker
    <3>1. CASE w.sess = sess /\ Active
      <4>1. PICK low \in lowestPending .. LogBound :
              /\ MarkCompleted(w.off, low)
              /\ busy' = IF low >= 1
                         THEN (busy \ {w}) \cup {[w EXCEPT !.pc = "mark", !.to = low]}
                         ELSE busy \ {w}
        BY <2>9, <3>1 DEF HandlerOk
      <4>2. low \in {NoOffset} \cup (0 .. LogBound)
        BY <4>1, BoundsAssumption
      <4>3. low >= 1 => [w EXCEPT !.pc = "mark", !.to = low] \in Worker
        <5> SUFFICES ASSUME low >= 1
                     PROVE  [w EXCEPT !.pc = "mark", !.to = low] \in Worker
          OBVIOUS
        <5>1. low \in 0 .. LogBound
          BY <4>2
        <5> HIDE DEF TypeOK
        <5> QED
          BY <3>0, <5>1 DEF Worker
      <4>4. busy' \subseteq Worker
        BY <4>1, <4>3
      <4>5. lowestPending' \in {NoOffset} \cup (0 .. LogBound) /\ completed' \subseteq Offsets
        BY <3>0, <4>1, <4>2 DEF MarkCompleted
      <4> QED
        BY <2>9, <3>0, <4>4, <4>5 DEF HandlerOk, claimVars
    <3>2. CASE ~(w.sess = sess /\ Active)
      BY <2>9, <3>0, <3>2 DEF HandlerOk, trackerVars, claimVars
    <3> QED
      BY <3>1, <3>2
  <2>10. ASSUME NEW w \in busy, MarkOffset(w) PROVE TypeOK'
    <3>1. w.to \in 0 .. LogBound
      BY DEF Worker
    <3> QED
      BY <2>10, <3>1 DEF MarkOffset, trackerVars, claimVars
  <2>11. CASE Cancel \/ CloseChannels
    BY <2>11 DEF Cancel, CloseChannels, trackerVars
  <2>12. CASE Return
    BY <2>12 DEF Return, trackerVars
  <2>13. CASE UNCHANGED vars
    BY <2>13 DEF vars, trackerVars, claimVars
  <2> QED
    BY <2>1, <2>2, <2>3, <2>4, <2>5, <2>6, <2>7, <2>8, <2>9, <2>10, <2>11,
       <2>12, <2>13 DEF Next
<1> QED
  BY <1>1, <1>2, PTL DEF Spec

\* The committed offset only grows: CommitNeverRegresses for every instance.
THEOREM CommitMonotone == Spec => CommitNeverRegresses
<1> DEFINE Inv == Active => committed <= marked
<1>1. Init => Inv
  BY DEF Init, Active
<1>2. TypeOK /\ Inv /\ [Next]_vars => Inv' /\ [committed' >= committed]_committed
  <2> SUFFICES ASSUME TypeOK, Inv, [Next]_vars
               PROVE  Inv' /\ [committed' >= committed]_committed
    OBVIOUS
  <2> USE DEF TypeOK, NoOffset, Active
  <2>1. CASE ConsumeClaim
    BY <2>1 DEF ConsumeClaim
  <2>2. CASE AutoCommit
    BY <2>2, BoundsAssumption DEF AutoCommit, trackerVars, claimVars
  <2>3. CASE Return
    BY <2>3, BoundsAssumption DEF Return
  <2>4. ASSUME NEW w \in busy, MarkOffset(w)
        PROVE  Inv' /\ [committed' >= committed]_committed
    BY <2>4, BoundsAssumption DEF MarkOffset, claimVars, Worker
  <2>5. CASE \/ Publish \/ Receive \/ Send \/ SendOnClosed \/ Crash
             \/ Cancel \/ CloseChannels \/ UNCHANGED vars
    BY <2>5 DEF Publish, Receive, Send, SendOnClosed, Crash, Die, Cancel,
                CloseChannels, vars, claimVars
  <2>6. ASSUME NEW c \in Channels, StartHandler(c)
        PROVE  Inv' /\ [committed' >= committed]_committed
    BY <2>6 DEF StartHandler, claimVars
  <2>7. ASSUME NEW w \in busy, HandlerError(w) \/ HandlerOk(w)
        PROVE  Inv' /\ [committed' >= committed]_committed
    BY <2>7 DEF HandlerError, HandlerOk, claimVars
  <2> QED
    BY <2>1, <2>2, <2>3, <2>4, <2>5, <2>6, <2>7 DEF Next
<1> QED
  BY <1>1, <1>2, TypeCorrect, PTL DEF Spec, CommitNeverRegresses

\* The inductive step of SkipInv, one case per action.
LEMMA SkipInvStep == TypeOK /\ SkipInv /\ [Next]_vars => SkipInv'
<1> SUFFICES ASSUME TypeOK, SkipInv, [Next]_vars PROVE SkipInv'
  OBVIOUS
<1> USE DEF SkipInv, TrackerInv, HandledUpTo, Active, NoOffset
<1>0. /\ committed \in Int /\ marked \in Int /\ lowestPending \in Int
      /\ sess \in Nat /\ start \in Int /\ groupStart \in Int
      /\ Offsets \subseteq Int
      /\ \A w \in busy : w.to \in Int /\ w.off \in Offsets
  BY BoundsAssumption DEF TypeOK, Worker, Offsets
<1>1. CASE Publish \/ Receive \/ Send
  BY <1>1 DEF Publish, Receive, Send, trackerVars, claimVars
<1>2. CASE ConsumeClaim
  BY <1>0, <1>2 DEF ConsumeClaim, ClaimOffset, NewOffsetTracker
<1>3. CASE AutoCommit
  BY <1>0, <1>3 DEF AutoCommit, trackerVars, claimVars
<1>4. CASE SendOnClosed \/ Crash
  BY <1>4 DEF SendOnClosed, Crash, Die, trackerVars
<1>5. ASSUME NEW c \in Channels, StartHandler(c) PROVE SkipInv'
  <2>1. \A w \in busy' : w.pc = "mark" => w \in busy
    BY <1>5 DEF StartHandler
  <2> QED
    BY <1>5, <2>1 DEF StartHandler, trackerVars, claimVars
<1>6. ASSUME NEW w \in busy, HandlerError(w) PROVE SkipInv'
  BY <1>6 DEF HandlerError, trackerVars, claimVars
<1>7. ASSUME NEW w \in busy, HandlerOk(w) PROVE SkipInv'
  <2>1. handled \subseteq handled' /\ w.off \in handled'
    BY <1>7 DEF HandlerOk
  <2>2. UNCHANGED <<committed, marked, sess, phase, start, groupStart>>
    BY <1>7 DEF HandlerOk, claimVars
  <2>3. CASE w.sess = sess /\ Active
    <3>1. PICK low \in lowestPending .. LogBound :
            /\ MarkCompleted(w.off, low)
            /\ busy' = IF low >= 1
                       THEN (busy \ {w}) \cup {[w EXCEPT !.pc = "mark", !.to = low]}
                       ELSE busy \ {w}
      BY <1>7, <2>3 DEF HandlerOk
    <3>2. low \in Int /\ low >= lowestPending
      BY <1>0, <3>1, BoundsAssumption
    <3>3. completed' \subseteq handled' /\ lowestPending' = low
      BY <2>1, <2>3, <3>1 DEF MarkCompleted
    <3>4. HandledUpTo(low)'
      <4> SUFFICES ASSUME NEW o \in Offsets, groupStart' <= o, o < low PROVE o \in handled'
        BY <2>2
      <4>1. CASE o < lowestPending
        BY <2>1, <2>2, <2>3, <4>1
      <4>2. CASE o >= lowestPending
        <5>1. o \in lowestPending .. low - 1
          BY <1>0, <3>2, <4>2
        <5>2. o \in completed \cup {w.off}
          BY <3>1, <5>1 DEF MarkCompleted
        <5> QED
          BY <2>1, <2>3, <5>2
      <4> QED
        BY <1>0, <4>1, <4>2
    <3>5. \A v \in busy' : v.pc = "mark" => HandledUpTo(v.to)'
      <4> SUFFICES ASSUME NEW v \in busy', v.pc = "mark" PROVE HandledUpTo(v.to)'
        OBVIOUS
      <4>1. CASE v \in busy
        BY <2>1, <2>2, <4>1
      <4>2. CASE v \notin busy
        <5>1. v = [w EXCEPT !.pc = "mark", !.to = low]
          BY <3>1, <4>2
        <5>2. v.to = low
          BY <5>1, BoundsAssumption DEF TypeOK, Worker
        <5> QED
          BY <3>4, <5>2
      <4> QED
        BY <4>1, <4>2
    <3> QED
      BY <1>0, <2>1, <2>2, <2>3, <3>2, <3>3, <3>4, <3>5
  <2>4. CASE ~(w.sess = sess /\ Active)
    <3>1. busy' \subseteq busy /\ UNCHANGED <<lowestPending, completed>>
      BY <1>7, <2>4 DEF HandlerOk, trackerVars
    <3> QED
      BY <2>1, <2>2, <3>1
  <2> QED
    BY <2>3, <2>4
<1>8. ASSUME NEW w \in busy, MarkOffset(w) PROVE SkipInv'
  BY <1>0, <1>8 DEF MarkOffset, trackerVars, claimVars
<1>9. CASE Cancel \/ CloseChannels
  BY <1>9 DEF Cancel, CloseChannels, trackerVars
<1>10. CASE Return
  BY <1>0, <1>10 DEF Return, trackerVars
<1>11. CASE UNCHANGED vars
  BY <1>11 DEF vars, trackerVars, claimVars
<1> QED
  BY <1>1, <1>2, <1>3, <1>4, <1>5, <1>6, <1>7, <1>8, <1>9, <1>10, <1>11 DEF Next

\* For a group that has a committed offset, no commit and no claim ever
\* passes a message whose handler has not returned nil, whatever the number
\* of sessions, keys, workers and messages.
THEOREM NoLossAcrossSessions ==
    InitialCommitted # NoOffset => (Spec => []NoMessageSkipped)
<1> SUFFICES ASSUME InitialCommitted # NoOffset PROVE Spec => []NoMessageSkipped
  OBVIOUS
<1>1. Init => SkipInv
  BY CommittedAssumption, BoundsAssumption
     DEF Init, SkipInv, TrackerInv, Active, NoOffset
<1>2. TypeOK /\ SkipInv => NoMessageSkipped
  BY BoundsAssumption
     DEF TypeOK, SkipInv, HandledUpTo, NoMessageSkipped, NoOffset, Offsets
<1> QED
  BY <1>1, <1>2, SkipInvStep, TypeCorrect, PTL DEF Spec
------------------------------------------------------------------------------
(* The refinement of AtLeastOnce.                                          *)

\* A message the group may be working on.
InFlight(o) == groupStart # NoOffset /\ groupStart <= o /\ o < logEnd

\* Only messages of the partition, from the group's first claim on, are held,
\* queued, worked on or handled.
FlightInv ==
    /\ fetchPos <= logEnd
    /\ groupStart <= logEnd
    /\ groupStart <= committed
    /\ sess = 0 => committed <= logEnd
    /\ Active => groupStart <= fetchPos
    /\ hold # NoMsg => InFlight(hold.off)
    /\ \A c \in Channels : \A i \in DOMAIN queue[c] : InFlight(queue[c][i])
    /\ \A w \in busy : InFlight(w.off)
    /\ \A o \in handled : InFlight(o)

\* Everything handled up to n lies in the partition, so n does too.
LEMMA HandledWithinLog ==
    ASSUME TypeOK, FlightInv, sess > 0, groupStart # NoOffset,
           NEW n \in {NoOffset} \cup (0 .. LogBound), HandledUpTo(n)
    PROVE  n <= logEnd
<1>0. n \in Int /\ groupStart \in Int /\ groupStart >= 0 /\ logEnd \in Int /\ LogBound \in Int
  BY BoundsAssumption DEF TypeOK, NoOffset
<1>1. CASE n <= groupStart
  BY <1>0, <1>1 DEF FlightInv
<1>2. CASE n > groupStart
  <2>1. n - 1 \in Offsets /\ groupStart <= n - 1 /\ n - 1 < n
    BY <1>0, <1>2 DEF Offsets, NoOffset
  <2>2. n - 1 \in handled
    BY <2>1 DEF HandledUpTo
  <2>3. n - 1 < logEnd
    BY <2>2 DEF FlightInv, InFlight
  <2> QED
    BY <1>0, <2>3
<1> QED
  BY <1>0, <1>1, <1>2

\* The inductive step of FlightInv.
LEMMA FlightInvStep == TypeOK /\ SkipInv /\ FlightInv /\ [Next]_vars => FlightInv'
<1> SUFFICES ASSUME TypeOK, SkipInv, FlightInv, [Next]_vars PROVE FlightInv'
  OBVIOUS
<1> USE DEF FlightInv, InFlight, Active, NoOffset
<1>0. /\ committed \in Int /\ marked \in Int /\ logEnd \in Int /\ fetchPos \in Int
      /\ sess \in Nat /\ groupStart \in Int /\ LogBound \in Int
      /\ Offsets \subseteq Int
      /\ handled \subseteq Offsets
      /\ queue \in [Channels -> Seq(Offsets)]
      /\ \A w \in busy : w.to \in Int /\ w.off \in Offsets
      /\ hold # NoMsg => hold.off \in Offsets
  BY BoundsAssumption DEF TypeOK, Worker, Offsets
<1>1. CASE Publish
  <2>1. logEnd' = logEnd + 1
    BY <1>1 DEF Publish
  <2>2. UNCHANGED <<committed, fetchPos, hold, queue, busy, handled, sess, phase, groupStart>>
    BY <1>1 DEF Publish, claimVars
  <2>3. \A o \in Offsets : InFlight(o) => InFlight(o)'
    BY <1>0, <2>1, <2>2
  <2>4. \A c \in Channels : \A i \in DOMAIN queue[c] : queue[c][i] \in Offsets
    BY <1>0
  <2>5. (\A c \in Channels : \A i \in DOMAIN queue[c] : InFlight(queue[c][i]))'
    BY <2>2, <2>3, <2>4
  <2>6. /\ (hold # NoMsg => InFlight(hold.off))'
        /\ (\A w \in busy : InFlight(w.off))'
        /\ (\A o \in handled : InFlight(o))'
    BY <1>0, <2>2, <2>3
  <2>7. fetchPos' <= logEnd' /\ groupStart' <= logEnd' /\ (sess' = 0 => committed' <= logEnd')
    BY <1>0, <2>1, <2>2
  <2> QED
    BY <2>2, <2>5, <2>6, <2>7
<1>2. CASE ConsumeClaim
  <2>1. UNCHANGED <<logEnd, committed, queue, busy, handled>> /\ hold' = NoMsg
    BY <1>2 DEF ConsumeClaim
  <2>2. committed <= logEnd
    <3>1. CASE sess = 0
      BY <3>1
    <3>2. CASE sess > 0
      <4>1. groupStart # NoOffset /\ HandledUpTo(committed) /\ committed \in {NoOffset} \cup (0 .. LogBound)
        BY <3>2 DEF SkipInv, TypeOK
      <4> QED
        BY <3>2, <4>1, HandledWithinLog
    <3> QED
      BY <1>0, <3>1, <3>2
  <2>3. fetchPos' = committed
    BY <1>2 DEF ConsumeClaim, ClaimOffset, SkipInv
  <2>4. CASE sess = 0
    <3>1. groupStart = NoOffset /\ groupStart' = committed
      BY <1>2, <2>4 DEF ConsumeClaim, ClaimOffset, SkipInv
    <3>2. sess' # 0
      BY <1>0, <1>2 DEF ConsumeClaim
    <3> QED
      BY <1>0, <2>1, <2>2, <2>3, <3>1, <3>2
  <2>5. CASE sess # 0
    <3>1. groupStart' = groupStart /\ sess' # 0
      BY <1>0, <1>2, <2>5 DEF ConsumeClaim
    <3> QED
      BY <1>0, <2>1, <2>2, <2>3, <3>1
  <2> QED
    BY <2>4, <2>5
<1>3. CASE AutoCommit \/ Return
  <2>1. UNCHANGED <<logEnd, fetchPos, queue, busy, handled, sess, groupStart>>
    BY <1>3 DEF AutoCommit, Return, claimVars
  <2>2. committed' \in {committed, marked} /\ committed <= marked /\ sess > 0
    BY <1>3 DEF AutoCommit, Return, SkipInv, TrackerInv
  <2>3. hold' \in {hold, NoMsg} /\ (phase' = phase \/ phase' = "idle")
    BY <1>3 DEF AutoCommit, Return, claimVars
  <2> QED
    BY <1>0, <2>1, <2>2, <2>3
<1>4. CASE Receive
  <2>1. UNCHANGED <<logEnd, committed, queue, busy, handled, sess, phase, groupStart>>
    BY <1>4 DEF Receive, claimVars
  <2>2. fetchPos < logEnd /\ fetchPos' = fetchPos + 1 /\ hold'.off = fetchPos /\ Active
    BY <1>4 DEF Receive
  <2>3. groupStart # NoOffset
    BY <2>2 DEF SkipInv, TrackerInv
  <2> QED
    BY <1>0, <2>1, <2>2, <2>3
<1>5. CASE Send
  <2>1. UNCHANGED <<logEnd, committed, fetchPos, busy, handled, sess, phase, groupStart>>
    BY <1>5 DEF Send, claimVars
  <2>2. hold # NoMsg /\ hold' = NoMsg /\ queue' = [queue EXCEPT ![HeldChannel] = Append(@, hold.off)]
    BY <1>5 DEF Send
  <2>3. ASSUME NEW c \in Channels, NEW i \in DOMAIN queue'[c] PROVE InFlight(queue'[c][i])
    <3>1. CASE c = HeldChannel
      <4>1. queue'[c] = Append(queue[c], hold.off) /\ queue[c] \in Seq(Offsets) /\ hold.off \in Offsets
        BY <1>0, <2>2, <3>1
      <4>2. queue'[c][i] = hold.off \/ (i \in DOMAIN queue[c] /\ queue'[c][i] = queue[c][i])
        BY <4>1
      <4> QED
        BY <2>2, <4>2
    <3>2. CASE c # HeldChannel
      BY <1>0, <2>2, <3>2
    <3> QED
      BY <3>1, <3>2
  <2> QED
    BY <2>1, <2>2, <2>3
<1>6. CASE SendOnClosed \/ Crash
  <2>1. UNCHANGED <<logEnd, committed, fetchPos, handled, sess, groupStart>> /\ phase' = "idle" /\ hold' = NoMsg
    BY <1>6 DEF SendOnClosed, Crash, Die
  <2>2. busy' \subseteq busy
    BY <1>6 DEF SendOnClosed, Crash, Die
  <2>3. ASSUME NEW c \in Channels, NEW i \in DOMAIN queue'[c] PROVE InFlight(queue'[c][i])
    <3>1. queue' = [d \in Channels |-> IF d[1] = sess THEN <<>> ELSE queue[d]]
      BY <1>6 DEF SendOnClosed, Crash, Die
    <3>2. queue'[c] = <<>> \/ queue'[c] = queue[c]
      BY <3>1
    <3> QED
      BY <2>3, <3>2
  <2> QED
    BY <2>1, <2>2, <2>3
<1>7. ASSUME NEW c \in Channels, StartHandler(c) PROVE FlightInv'
  <2>1. UNCHANGED <<logEnd, committed, fetchPos, hold, handled, sess, phase, groupStart>>
    BY <1>7 DEF StartHandler, claimVars
  <2>2. queue[c] \in Seq(Offsets) /\ queue[c] # <<>>
    BY <1>0, <1>7 DEF StartHandler
  <2>3. Head(queue[c]) = queue[c][1] /\ 1 \in DOMAIN queue[c]
    BY <2>2
  <2>4. \A w \in busy' : w \in busy \/ w.off = Head(queue[c])
    BY <1>7 DEF StartHandler
  <2>5. ASSUME NEW d \in Channels, NEW i \in DOMAIN queue'[d] PROVE InFlight(queue'[d][i])
    <3>1. queue' = [queue EXCEPT ![c] = Tail(@)]
      BY <1>7 DEF StartHandler
    <3>2. CASE d = c
      <4>1. queue'[d] = Tail(queue[c])
        BY <1>0, <3>1, <3>2
      <4>2. i + 1 \in DOMAIN queue[c] /\ queue'[d][i] = queue[c][i + 1]
        BY <2>2, <4>1
      <4> QED
        BY <4>2
    <3>3. CASE d # c
      BY <1>0, <3>1, <3>3
    <3> QED
      BY <3>2, <3>3
  <2> QED
    BY <2>1, <2>3, <2>4, <2>5
<1>8. ASSUME NEW w \in busy, HandlerError(w) \/ MarkOffset(w) PROVE FlightInv'
  BY <1>8 DEF HandlerError, MarkOffset, claimVars
<1>9. ASSUME NEW w \in busy, HandlerOk(w) PROVE FlightInv'
  <2>1. UNCHANGED <<logEnd, committed, fetchPos, hold, queue, sess, phase, groupStart>>
    BY <1>9 DEF HandlerOk, claimVars
  <2>2. handled' = handled \cup {w.off}
    BY <1>9 DEF HandlerOk
  <2>3. \A v \in busy' : v \in busy \/ v.off = w.off
    <3>1. w \in Worker
      BY DEF TypeOK
    <3>2. \A low : [w EXCEPT !.pc = "mark", !.to = low].off = w.off
      BY <3>1 DEF Worker
    <3> QED
      BY <1>9, <3>2 DEF HandlerOk
  <2> QED
    BY <2>1, <2>2, <2>3
<1>10. CASE Cancel \/ CloseChannels
  BY <1>10 DEF Cancel, CloseChannels
<1>11. CASE UNCHANGED vars
  BY <1>11 DEF vars, claimVars
<1> QED
  BY <1>1, <1>2, <1>3, <1>4, <1>5, <1>6, <1>7, <1>8, <1>9, <1>10, <1>11 DEF Next

\* Every step of the partition processor is a step of AtLeastOnce or leaves its
\* variables alone.
LEMMA StepRefines ==
    TypeOK /\ SkipInv /\ FlightInv /\ [Next]_vars => [Log!Next]_(Log!vars)
<1> SUFFICES ASSUME TypeOK, SkipInv, FlightInv, [Next]_vars PROVE [Log!Next]_(Log!vars)
  OBVIOUS
<1> USE DEF NoOffset, Log!Unstarted, Log!vars
<1>0. /\ committed \in Int /\ marked \in Int /\ logEnd \in Int /\ groupStart \in Int
      /\ LogBound \in Int
  BY BoundsAssumption DEF TypeOK
<1>1. CASE Publish
  BY <1>1 DEF Publish, claimVars, Log!Next, Log!Publish
<1>2. CASE ConsumeClaim
  <2>1. CASE sess = 0
    BY <1>2, <2>1 DEF ConsumeClaim, ClaimOffset, SkipInv, Log!Next, Log!Begin
  <2>2. CASE sess # 0
    BY <1>2, <2>2 DEF ConsumeClaim
  <2> QED
    BY <2>1, <2>2
<1>3. CASE AutoCommit \/ Return
  <2>1. UNCHANGED <<logEnd, handled, groupStart>> /\ committed' \in {committed, marked}
    BY <1>3 DEF AutoCommit, Return, claimVars
  <2>2. CASE committed' = committed
    BY <2>1, <2>2
  <2>3. CASE committed' # committed
    <3>1. /\ sess > 0 /\ groupStart # NoOffset /\ committed <= marked /\ HandledUpTo(marked)
          /\ committed' = marked
      BY <1>3, <2>1, <2>3 DEF AutoCommit, Return, Active, SkipInv, TrackerInv
    <3>2. marked \in {NoOffset} \cup (0 .. LogBound) /\ committed >= 0
      BY DEF TypeOK, SkipInv
    <3>3. marked \in 0 .. LogBound /\ marked > committed
      BY <1>0, <2>3, <3>1, <3>2
    <3>4. marked <= logEnd
      BY <3>1, <3>2, HandledWithinLog
    <3>5. \A o \in groupStart .. marked - 1 : o \in handled
      <4> SUFFICES ASSUME NEW o \in groupStart .. marked - 1 PROVE o \in handled
        OBVIOUS
      <4>1. groupStart >= 0
        BY <3>1 DEF TypeOK
      <4>2. o \in Offsets /\ groupStart <= o /\ o < marked
        BY <1>0, <3>3, <4>1 DEF Offsets
      <4> QED
        BY <3>1, <4>2 DEF HandledUpTo
    <3>6. Log!Commit(marked)
      BY <2>1, <3>1, <3>3, <3>4, <3>5 DEF Log!Commit
    <3> QED
      BY <3>3, <3>6 DEF Log!Next
  <2> QED
    BY <2>2, <2>3
<1>4. ASSUME NEW w \in busy, HandlerOk(w) PROVE [Log!Next]_(Log!vars)
  <2>1. handled' = handled \cup {w.off} /\ UNCHANGED <<logEnd, committed, groupStart>>
    BY <1>4 DEF HandlerOk, claimVars
  <2>2. w.off \in 0 .. LogBound - 1
    BY DEF TypeOK, Worker, Offsets
  <2>3. InFlight(w.off)
    BY DEF FlightInv
  <2>4. Log!Handle(w.off)
    BY <2>1, <2>3 DEF InFlight, Log!Handle
  <2> QED
    BY <2>2, <2>4 DEF Log!Next
<1>5. ASSUME NEW w \in busy, HandlerError(w) \/ MarkOffset(w) PROVE UNCHANGED Log!vars
  BY <1>5 DEF HandlerError, MarkOffset, claimVars
<1>6. ASSUME NEW c \in Channels, StartHandler(c) PROVE UNCHANGED Log!vars
  BY <1>6 DEF StartHandler, claimVars
<1>7. CASE \/ Receive \/ Send \/ SendOnClosed \/ Crash \/ Cancel \/ CloseChannels
           \/ UNCHANGED vars
  BY <1>7 DEF Receive, Send, SendOnClosed, Crash, Die, Cancel, CloseChannels, vars, claimVars
<1> QED
  BY <1>1, <1>2, <1>3, <1>4, <1>5, <1>6, <1>7 DEF Next

\* The partition processor implements at-least-once consumption for a group that
\* has a committed offset: every log, key assignment, channel size, number of
\* workers and number of sessions.
THEOREM RefinesAtLeastOnce ==
    InitialCommitted # NoOffset => (Spec => ImplementsAtLeastOnce)
<1> SUFFICES ASSUME InitialCommitted # NoOffset PROVE Spec => ImplementsAtLeastOnce
  OBVIOUS
<1>1. Init => SkipInv
  BY CommittedAssumption, BoundsAssumption
     DEF Init, SkipInv, TrackerInv, Active, NoOffset
<1>2. Init => FlightInv
  <2> SUFFICES ASSUME Init PROVE FlightInv
    OBVIOUS
  <2>1. /\ logEnd = InitialCommitted /\ committed = InitialCommitted /\ InitialCommitted \in 0 .. LogBound
        /\ groupStart = NoOffset /\ fetchPos = 0 /\ phase = "idle" /\ hold = NoMsg /\ busy = {} /\ handled = {}
    BY CommittedAssumption DEF Init
  <2>2. \A c \in Channels : queue[c] = <<>>
    BY DEF Init
  <2> QED
    BY <2>1, <2>2, BoundsAssumption DEF FlightInv, Active, NoOffset
<1>3. Init => Log!Init
  BY CommittedAssumption, BoundsAssumption DEF Init, Log!Init, Log!Unstarted, NoOffset
<1> QED
  BY <1>1, <1>2, <1>3, SkipInvStep, FlightInvStep, StepRefines, TypeCorrect, PTL
     DEF Spec, ImplementsAtLeastOnce, Log!Spec

------------------------------------------------------------------------------
(* The order of a key.                                                     *)

ChannelsOpen == phase \in {"open", "cancelled"}

\* The channel of a key in the current session.
Cur(k) == queue[<<sess, k, 0>>]

\* The message was received before the one run holds, and before the next one.
Before(o) == o < fetchPos /\ (hold # NoMsg => o < hold.off)

\* Later sessions have left nothing yet.
FreshInv ==
    /\ \A c \in Channels : c[1] > sess => queue[c] = <<>>
    /\ \A w \in busy : w.sess <= sess
    /\ IsFiniteSet(busy)

\* What run, the channels and the workers of the current session hold.
HoldInv == hold # NoMsg => hold.gen = 0 /\ hold.off < fetchPos
QueueInv ==
    \A k \in Keys :
        /\ queue[<<sess, k, 1>>] = <<>>
        /\ \A i \in 1 .. Len(Cur(k)) : KeyOf[Cur(k)[i]] = k /\ Before(Cur(k)[i])
        /\ \A i, j \in 1 .. Len(Cur(k)) : i < j => Cur(k)[i] < Cur(k)[j]
BusyInv ==
    \A w \in busy : w.sess = sess =>
        /\ w.gen = 0 /\ Before(w.off)
        /\ \A i \in 1 .. Len(Cur(KeyOf[w.off])) : w.off < Cur(KeyOf[w.off])[i]
        /\ \A v \in busy : v.sess = sess /\ KeyOf[v.off] = KeyOf[w.off] => v = w

\* The inductive invariant behind KeyOrder.
LineInv == ChannelsOpen => sess >= 1 /\ HoldInv /\ QueueInv /\ BusyInv

\* The types the proofs below need of the current session.
LEMMA LineTypes ==
    ASSUME TypeOK
    PROVE  /\ sess \in Int /\ fetchPos \in Int
           /\ sess >= 1 => \A k \in Keys : /\ <<sess, k, 0>> \in Channels
                                           /\ <<sess, k, 1>> \in Channels
                                           /\ Cur(k) \in Seq(Offsets)
           /\ Offsets \subseteq Int /\ \A o \in Offsets : KeyOf[o] \in Keys
           /\ hold # NoMsg => hold.off \in Offsets
           /\ \A w \in busy : w \in Worker /\ w.off \in Offsets /\ w.sess \in Int
<1>1. sess \in Int /\ fetchPos \in Int /\ Offsets \subseteq Int
  BY BoundsAssumption DEF TypeOK, Offsets
<1>2. sess >= 1 => \A k \in Keys : /\ <<sess, k, 0>> \in Channels /\ <<sess, k, 1>> \in Channels
                                   /\ Cur(k) \in Seq(Offsets)
  <2>1. sess >= 1 => sess \in Sessions
    BY BoundsAssumption DEF TypeOK, Sessions
  <2>2. sess >= 1 => \A k \in Keys : <<sess, k, 0>> \in Channels /\ <<sess, k, 1>> \in Channels
    BY <2>1 DEF Channels
  <2> QED
    BY <2>2 DEF TypeOK, Cur
<1>3. \A w \in busy : w \in Worker /\ w.off \in Offsets /\ w.sess \in Int
  BY BoundsAssumption DEF TypeOK, Worker, Sessions
<1>4. (hold # NoMsg => hold.off \in Offsets) /\ \A o \in Offsets : KeyOf[o] \in Keys
  BY KeyOfAssumption DEF TypeOK
<1> QED
  BY <1>1, <1>2, <1>3, <1>4

LEMMA FreshStep == ASSUME TypeOK, FreshInv, LineInv, [Next]_vars PROVE FreshInv'
<1> USE DEF trackerVars, claimVars
<1>0. sess \in Int
  BY LineTypes
<1>1. CASE \/ Publish \/ AutoCommit \/ Receive \/ Cancel \/ CloseChannels \/ Return \/ UNCHANGED vars
  BY <1>1 DEF Publish, AutoCommit, Receive, Cancel, CloseChannels, Return, vars, FreshInv
<1>2. CASE ConsumeClaim
  <2>1. sess' = sess + 1 /\ queue' = queue /\ busy' = busy
    BY <1>2 DEF ConsumeClaim
  <2>2. \A c \in Channels : c[1] \in Int
    BY BoundsAssumption DEF Channels, Sessions
  <2> QED
    BY <1>0, <2>1, <2>2, LineTypes DEF FreshInv
<1>3. CASE Send
  <2>1. queue' = [queue EXCEPT ![HeldChannel] = Append(@, hold.off)] /\ UNCHANGED <<sess, busy>>
    BY <1>3 DEF Send
  <2>2. \A c \in Channels : c[1] > sess => c # HeldChannel
    BY <1>0 DEF HeldChannel
  <2>3. \A c \in Channels : c # HeldChannel => queue'[c] = queue[c]
    BY <2>1 DEF TypeOK
  <2> QED
    BY <2>1, <2>2, <2>3 DEF FreshInv
<1>4. CASE SendOnClosed \/ Crash
  <2>1. /\ queue' = [c \in Channels |-> IF c[1] = sess THEN <<>> ELSE queue[c]]
        /\ busy' \subseteq busy /\ sess' = sess
    BY <1>4 DEF SendOnClosed, Crash, Die
  <2> QED
    BY <2>1, FS_Subset DEF FreshInv
<1>5. ASSUME NEW c \in Channels, StartHandler(c) PROVE FreshInv'
  <2> DEFINE n == [sess |-> c[1], gen |-> c[3], off |-> Head(queue[c]), pc |-> "handler", to |-> 0]
  <2>1. /\ queue[c] # <<>> /\ busy' = busy \cup {n} /\ queue' = [queue EXCEPT ![c] = Tail(@)]
        /\ sess' = sess
    BY <1>5 DEF StartHandler
  <2>2. c[1] \in Int /\ c[1] <= sess /\ n.sess = c[1]
    BY <1>0, <2>1, BoundsAssumption DEF FreshInv, Channels, Sessions
  <2>3. IsFiniteSet(busy')
    BY <2>1, FS_AddElement DEF FreshInv
  <2>4. \A d \in Channels : d[1] > sess => queue'[d] = <<>>
    BY <1>0, <2>1, <2>2 DEF FreshInv, TypeOK
  <2> HIDE DEF n
  <2> QED
    BY <2>1, <2>2, <2>3, <2>4 DEF FreshInv
<1>6. ASSUME NEW w \in busy, HandlerError(w) \/ HandlerOk(w) \/ MarkOffset(w) PROVE FreshInv'
  <2>1. UNCHANGED <<queue, sess>>
    BY <1>6 DEF HandlerError, HandlerOk, MarkOffset
  <2>2. PICK u : busy' \subseteq (busy \ {w}) \cup {u} /\ (u \in busy \/ u.sess = w.sess)
    <3>1. CASE busy' = busy \ {w}
      BY <3>1
    <3>2. CASE HandlerOk(w) /\ busy' # busy \ {w}
      <4>1. PICK low : busy' = (busy \ {w}) \cup {[w EXCEPT !.pc = "mark", !.to = low]}
        BY <3>2 DEF HandlerOk
      <4>2. [w EXCEPT !.pc = "mark", !.to = low].sess = w.sess
        BY LineTypes DEF Worker
      <4> QED
        BY <4>1, <4>2
    <3> QED
      BY <1>6, <3>1, <3>2 DEF HandlerError, MarkOffset
  <2>3. IsFiniteSet(busy \cup {u})
    BY FS_AddElement DEF FreshInv
  <2>4. IsFiniteSet(busy')
    BY <2>2, <2>3, FS_Subset
  <2> QED
    BY <2>1, <2>2, <2>4 DEF FreshInv
<1> QED
  BY <1>1, <1>2, <1>3, <1>4, <1>5, <1>6 DEF Next

\* Nothing but the message in hand and the read position moves on.
LEMMA SameLine ==
    ASSUME TypeOK, LineInv, ChannelsOpen' => ChannelsOpen,
           UNCHANGED <<sess, hold, queue, busy, fetchPos>>
    PROVE  LineInv'
BY DEF LineInv, HoldInv, QueueInv, BusyInv, Before, Cur

\* A worker ends or goes on to MarkOffset.
LEMMA WorkerLine ==
    ASSUME TypeOK, LineInv, NEW w \in busy, HandlerError(w) \/ HandlerOk(w) \/ MarkOffset(w)
    PROVE  LineInv'
<1> USE DEF trackerVars, claimVars
<1>1. UNCHANGED <<sess, hold, queue, fetchPos, phase>>
  BY DEF HandlerError, HandlerOk, MarkOffset
<1>2. PICK u : /\ busy' \subseteq (busy \ {w}) \cup {u}
               /\ u.sess = w.sess /\ u.off = w.off /\ u.gen = w.gen
  <2>1. CASE busy' = busy \ {w}
    BY <2>1
  <2>2. CASE HandlerOk(w) /\ busy' # busy \ {w}
    <3>1. PICK low : busy' = (busy \ {w}) \cup {[w EXCEPT !.pc = "mark", !.to = low]}
      BY <2>2 DEF HandlerOk
    <3> DEFINE u == [w EXCEPT !.pc = "mark", !.to = low]
    <3>2. u.sess = w.sess /\ u.off = w.off /\ u.gen = w.gen
      BY LineTypes DEF Worker
    <3> QED
      BY <3>1, <3>2
  <2> QED
    BY <2>1, <2>2 DEF HandlerError, MarkOffset
<1>3. ChannelsOpen' => ChannelsOpen
  BY <1>1 DEF ChannelsOpen
<1>4. ASSUME ChannelsOpen PROVE HoldInv' /\ QueueInv' /\ sess' >= 1
  BY <1>1, <1>4 DEF LineInv, HoldInv, QueueInv, Before, Cur
<1>5. ASSUME ChannelsOpen PROVE BusyInv'
  <2>1. \A k : Cur(k)' = Cur(k)
    BY <1>1 DEF Cur
  <2>2. \A o : Before(o)' <=> Before(o)
    BY <1>1 DEF Before
  <2> SUFFICES ASSUME NEW x \in busy', x.sess = sess
               PROVE  /\ x.gen = 0 /\ Before(x.off)
                      /\ \A i \in 1 .. Len(Cur(KeyOf[x.off])) : x.off < Cur(KeyOf[x.off])[i]
                      /\ \A v \in busy' : v.sess = sess /\ KeyOf[v.off] = KeyOf[x.off] => v = x
    BY <1>1, <2>1, <2>2 DEF BusyInv
  <2>3. BusyInv
    BY <1>5 DEF LineInv
  <2>4. PICK y \in busy : y.sess = x.sess /\ y.off = x.off /\ y.gen = x.gen /\ (x # u => y = x) /\ (x = u => y = w)
    BY <1>2
  <2>5. /\ x.gen = 0 /\ Before(x.off)
        /\ \A i \in 1 .. Len(Cur(KeyOf[x.off])) : x.off < Cur(KeyOf[x.off])[i]
    BY <2>3, <2>4 DEF BusyInv
  <2>6. ASSUME NEW v \in busy', v.sess = sess, KeyOf[v.off] = KeyOf[x.off] PROVE v = x
    <3>1. PICK z \in busy : z.sess = v.sess /\ z.off = v.off /\ (v # u => z = v) /\ (v = u => z = w)
      BY <1>2
    <3>2. z = y
      BY <2>3, <2>4, <2>6, <3>1 DEF BusyInv
    <3>3. \A q \in busy' : q # u => q # w
      BY <1>2
    <3> QED
      BY <2>4, <3>1, <3>2, <3>3
  <2> QED
    BY <2>5, <2>6
<1> QED
  BY <1>3, <1>4, <1>5 DEF LineInv

\* A new claim begins with empty channels and no worker of its own.
LEMMA ClaimLine ==
    ASSUME TypeOK, FreshInv, ConsumeClaim
    PROVE  LineInv'
<1>1. sess' = sess + 1 /\ hold' = NoMsg /\ queue' = queue /\ busy' = busy /\ sess < MaxSessions
  BY DEF ConsumeClaim
<1>2. sess \in 0 .. MaxSessions /\ sess + 1 \in Sessions
  BY <1>1, BoundsAssumption DEF TypeOK, Sessions
<1>3. \A k \in Keys, g \in {0, 1} : <<sess + 1, k, g>> \in Channels /\ queue'[<<sess', k, g>>] = <<>>
  BY <1>1, <1>2 DEF Channels, FreshInv
<1>4. \A w \in busy' : w.sess # sess'
  BY <1>1, <1>2, LineTypes DEF FreshInv
<1>5. QueueInv'
  <2>1. \A k \in Keys : queue'[<<sess', k, 1>>] = <<>> /\ Cur(k)' = <<>>
    BY <1>3 DEF Cur
  <2>2. \A i : i \notin 1 .. Len(<<>>)
    OBVIOUS
  <2> QED
    BY <2>1, <2>2 DEF QueueInv
<1>6. HoldInv' /\ BusyInv' /\ sess' >= 1
  BY <1>1, <1>2, <1>4 DEF HoldInv, BusyInv
<1> QED
  BY <1>5, <1>6 DEF LineInv

\* run takes the next message: everything else was received before it.
LEMMA ReceiveLine ==
    ASSUME TypeOK, LineInv, Receive
    PROVE  LineInv'
<1> USE DEF trackerVars, claimVars
<1> SUFFICES ASSUME ChannelsOpen PROVE sess' >= 1 /\ HoldInv' /\ QueueInv' /\ BusyInv'
  BY DEF LineInv, Receive, ChannelsOpen
<1>1. /\ hold = NoMsg /\ hold' = [off |-> fetchPos, gen |-> 0] /\ fetchPos' = fetchPos + 1
      /\ UNCHANGED <<sess, queue, busy>>
  BY DEF Receive, ChannelsOpen
<1>2. sess >= 1 /\ QueueInv /\ BusyInv /\ fetchPos \in Int
  BY LineTypes DEF LineInv
<1>3. ASSUME NEW o \in Offsets, Before(o) PROVE Before(o)'
  BY <1>1, <1>2, <1>3, LineTypes DEF Before
<1>4. \A k \in Keys : Cur(k)' = Cur(k) /\ Cur(k) \in Seq(Offsets)
  BY <1>1, <1>2, LineTypes DEF Cur
<1>5. HoldInv'
  BY <1>1, <1>2 DEF HoldInv
<1>6. QueueInv'
  <2>1. ASSUME NEW k \in Keys, NEW i \in 1 .. Len(Cur(k)) PROVE Before(Cur(k)[i])'
    <3>1. Before(Cur(k)[i]) /\ Cur(k)[i] \in Offsets
      <4>1. PICK q \in Seq(Offsets) : q = Cur(k)
        BY <1>4
      <4>2. q[i] \in Offsets
        BY <2>1, <4>1
      <4>3. Before(Cur(k)[i])
        BY <1>2, <2>1 DEF QueueInv
      <4> QED
        BY <4>1, <4>2, <4>3
    <3>2. PICK o \in Offsets : o = Cur(k)[i] /\ o = Cur(k)'[i] /\ Before(o)
      BY <1>4, <3>1
    <3>3. Before(o)'
      BY <1>3, <3>2
    <3> QED
      BY <3>2, <3>3 DEF Before
  <2> QED
    BY <1>1, <1>2, <1>4, <2>1 DEF QueueInv
<1>7. BusyInv'
  <2>1. \A w \in busy : w.off \in Offsets /\ KeyOf[w.off] \in Keys
    BY LineTypes
  <2> QED
    BY <1>1, <1>2, <1>3, <1>4, <2>1 DEF BusyInv
<1> QED
  BY <1>1, <1>2, <1>5, <1>6, <1>7

\* run sends the message to its channel, behind everything of its key.
LEMMA SendLine ==
    ASSUME TypeOK, LineInv, Send
    PROVE  LineInv'
<1> USE DEF trackerVars, claimVars
<1> SUFFICES ASSUME ChannelsOpen PROVE sess' >= 1 /\ HoldInv' /\ QueueInv' /\ BusyInv'
  BY DEF LineInv, Send, ChannelsOpen
<1>1. /\ sess >= 1 /\ HoldInv /\ QueueInv /\ BusyInv
  BY DEF LineInv
<1>2. PICK o \in Offsets, k \in Keys : o = hold.off /\ k = KeyOf[o] /\ o < fetchPos /\ hold.gen = 0
  BY <1>1, LineTypes DEF Send, HoldInv
<1>3. /\ hold # NoMsg /\ hold' = NoMsg
      /\ queue' = [queue EXCEPT ![<<sess, k, 0>>] = Append(@, o)]
      /\ UNCHANGED <<sess, busy, fetchPos>>
  BY <1>2 DEF Send, HeldChannel
<1>4. /\ \A j \in Keys : /\ j # k => Cur(j)' = Cur(j)
                         /\ queue'[<<sess, j, 1>>] = queue[<<sess, j, 1>>]
                         /\ Cur(j) \in Seq(Offsets)
      /\ Cur(k)' = Append(Cur(k), o)
  <2>1. \A d \in Channels : queue'[d] = IF d = <<sess, k, 0>> THEN Append(queue[d], o) ELSE queue[d]
    BY <1>3 DEF TypeOK
  <2>2. \A j \in Keys : /\ <<sess, j, 0>> \in Channels /\ <<sess, j, 1>> \in Channels
                        /\ <<sess, j, 1>> # <<sess, k, 0>>
                        /\ j # k => <<sess, j, 0>> # <<sess, k, 0>>
                        /\ Cur(j) \in Seq(Offsets)
    BY <1>1, LineTypes
  <2>3. \A j \in Keys : queue'[<<sess, j, 1>>] = queue[<<sess, j, 1>>]
    BY <2>1, <2>2
  <2>4. \A j \in Keys : j # k => queue'[<<sess, j, 0>>] = queue[<<sess, j, 0>>]
    BY <2>1, <2>2
  <2>5. queue'[<<sess, k, 0>>] = Append(queue[<<sess, k, 0>>], o)
    BY <2>1, <2>2
  <2> QED
    BY <1>3, <2>2, <2>3, <2>4, <2>5 DEF Cur
<1>5. \A p : Before(p) => p < fetchPos /\ p < o
  BY <1>2, <1>3 DEF Before
<1>7. HoldInv'
  BY <1>3 DEF HoldInv
<1>8. QueueInv'
  <2> SUFFICES ASSUME NEW j \in Keys
               PROVE  /\ queue'[<<sess, j, 1>>] = <<>>
                      /\ \A i \in 1 .. Len(Cur(j)') : KeyOf[Cur(j)'[i]] = j /\ Cur(j)'[i] < fetchPos
                      /\ \A i, l \in 1 .. Len(Cur(j)') : i < l => Cur(j)'[i] < Cur(j)'[l]
    BY <1>3 DEF QueueInv, Before
  <2>1. /\ queue[<<sess, j, 1>>] = <<>>
        /\ \A i \in 1 .. Len(Cur(j)) : KeyOf[Cur(j)[i]] = j /\ Before(Cur(j)[i])
        /\ \A i, l \in 1 .. Len(Cur(j)) : i < l => Cur(j)[i] < Cur(j)[l]
    BY <1>1 DEF QueueInv
  <2>2. CASE j # k
    <3>1. Cur(j)' = Cur(j) /\ queue'[<<sess, j, 1>>] = queue[<<sess, j, 1>>]
      BY <1>4, <2>2
    <3> QED
      BY <1>5, <2>1, <3>1
  <2>3. CASE j = k
    <3>1. Cur(j)' = Append(Cur(j), o) /\ Cur(j) \in Seq(Offsets) /\ Len(Cur(j)) \in Nat
      <4>1. Cur(j) \in Seq(Offsets)
        BY <1>4
      <4>2. Len(Cur(j)) \in Nat
        BY <4>1
      <4>3. Cur(k) = Cur(j) /\ Cur(k)' = Cur(j)'
        BY <2>3 DEF Cur
      <4> QED
        BY <1>4, <4>1, <4>2, <4>3
    <3>2. \A i \in 1 .. Len(Cur(j)') :
              \/ i \in 1 .. Len(Cur(j)) /\ Cur(j)'[i] = Cur(j)[i]
              \/ i = Len(Cur(j)) + 1 /\ Cur(j)'[i] = o
      BY <3>1
    <3>3. \A i \in 1 .. Len(Cur(j)') : KeyOf[Cur(j)'[i]] = j /\ Cur(j)'[i] < fetchPos
      BY <1>2, <1>5, <2>1, <2>3, <3>2
    <3>4. ASSUME NEW i \in 1 .. Len(Cur(j)'), NEW l \in 1 .. Len(Cur(j)'), i < l
          PROVE  Cur(j)'[i] < Cur(j)'[l]
      <4>1. i \in 1 .. Len(Cur(j)) /\ Cur(j)'[i] = Cur(j)[i]
        BY <3>1, <3>4
      <4>2. CASE l \in 1 .. Len(Cur(j)) /\ Cur(j)'[l] = Cur(j)[l]
        BY <2>1, <3>4, <4>1, <4>2
      <4>3. CASE Cur(j)'[l] = o
        BY <1>5, <2>1, <4>1, <4>3
      <4> QED
        BY <3>2, <4>2, <4>3
    <3> QED
      BY <1>4, <2>1, <3>3, <3>4
  <2> QED
    BY <2>2, <2>3
<1>9. BusyInv'
  <2> SUFFICES ASSUME NEW w \in busy, w.sess = sess
               PROVE  /\ w.gen = 0 /\ w.off < fetchPos
                      /\ \A i \in 1 .. Len(Cur(KeyOf[w.off])') : w.off < Cur(KeyOf[w.off])'[i]
                      /\ \A v \in busy : v.sess = sess /\ KeyOf[v.off] = KeyOf[w.off] => v = w
    BY <1>3 DEF BusyInv, Before
  <2>1. /\ w.gen = 0 /\ Before(w.off)
        /\ \A i \in 1 .. Len(Cur(KeyOf[w.off])) : w.off < Cur(KeyOf[w.off])[i]
        /\ \A v \in busy : v.sess = sess /\ KeyOf[v.off] = KeyOf[w.off] => v = w
    BY <1>1 DEF BusyInv
  <2>2. PICK j \in Keys : j = KeyOf[w.off]
    BY LineTypes
  <2>3. w.off < o
    BY <1>5, <2>1
  <2>4. \A i \in 1 .. Len(Cur(j)') : w.off < Cur(j)'[i]
    <3>1. CASE j # k
      BY <1>4, <2>1, <2>2, <3>1
    <3>2. CASE j = k
      <4>1. PICK q \in Seq(Offsets) : q = Cur(j) /\ Cur(j)' = Append(q, o)
        BY <1>4, <3>2
      <4>2. \A i \in 1 .. Len(q) : w.off < q[i]
        BY <2>1, <2>2, <4>1
      <4>3. \A i \in 1 .. Len(Append(q, o)) : (i \in 1 .. Len(q) /\ Append(q, o)[i] = q[i]) \/ Append(q, o)[i] = o
        OBVIOUS
      <4> QED
        BY <2>3, <4>1, <4>2, <4>3
    <3> QED
      BY <3>1, <3>2
  <2> QED
    BY <1>5, <2>1, <2>2, <2>4 DEF Before
<1> QED
  BY <1>1, <1>3, <1>7, <1>8, <1>9

\* The one worker of a key takes the first message of its channel.
LEMMA StartLine ==
    ASSUME PerKeyParallelism <= 1, TypeOK, FreshInv, LineInv, NEW c \in Channels, StartHandler(c)
    PROVE  LineInv'
<1> USE DEF trackerVars, claimVars
<1> SUFFICES ASSUME ChannelsOpen PROVE sess' >= 1 /\ HoldInv' /\ QueueInv' /\ BusyInv'
  BY DEF LineInv, StartHandler, ChannelsOpen
<1>1. sess >= 1 /\ HoldInv /\ QueueInv /\ BusyInv /\ sess \in Int
  BY LineTypes DEF LineInv
<1>2. PICK n : /\ n = [sess |-> c[1], gen |-> c[3], off |-> Head(queue[c]), pc |-> "handler", to |-> 0]
               /\ busy' = busy \cup {n}
  BY DEF StartHandler
<1>3. /\ queue[c] # <<>> /\ Cardinality(BusyOn(c)) < WorkersPerKey
      /\ queue' = [queue EXCEPT ![c] = Tail(@)] /\ UNCHANGED <<sess, hold, fetchPos>>
  BY DEF StartHandler
<1>4. n.sess = c[1] /\ n.gen = c[3] /\ n.off = Head(queue[c])
  BY <1>2
<1>5. \A o : Before(o)' <=> Before(o)
  BY <1>3 DEF Before
<1>6. HoldInv'
  BY <1>1, <1>3 DEF HoldInv
<1>7. CASE c[1] # sess
  <2>1. \A k \in Keys, g \in {0, 1} : queue'[<<sess, k, g>>] = queue[<<sess, k, g>>]
    BY <1>3, <1>7 DEF TypeOK
  <2>2. \A k \in Keys : Cur(k)' = Cur(k)
    BY <1>3, <2>1 DEF Cur
  <2>3. QueueInv'
    BY <1>1, <1>3, <1>5, <2>1, <2>2 DEF QueueInv
  <2>4. \A w \in busy' : w.sess = sess => w \in busy /\ KeyOf[w.off] \in Keys
    <3>1. n.sess # sess
      BY <1>4, <1>7
    <3>2. \A w \in busy' : w \in busy \/ w = n
      BY <1>2
    <3> QED
      BY <3>1, <3>2, LineTypes
  <2>5. BusyInv'
    BY <1>1, <1>3, <1>5, <2>2, <2>4 DEF BusyInv
  <2> QED
    BY <1>1, <1>3, <1>6, <2>3, <2>5
<1>8. CASE c[1] = sess
  <2>1. PICK k \in Keys : c = <<sess, k, 0>> /\ Cur(k) = queue[c] /\ Cur(k) \in Seq(Offsets)
    <3>1. PICK k \in Keys, g \in {0, 1} : c = <<sess, k, g>>
      BY <1>8 DEF Channels
    <3>2. g = 0
      BY <1>1, <1>3, <3>1 DEF QueueInv
    <3> QED
      BY <1>1, <3>1, <3>2, LineTypes DEF Cur
  <2>2. PICK o \in Offsets : o = n.off /\ o = Cur(k)[1] /\ Len(Cur(k)) \in Nat /\ 1 \in 1 .. Len(Cur(k))
    BY <1>3, <1>4, <2>1
  <2>3. KeyOf[o] = k /\ Before(o) /\ n.sess = sess /\ n.gen = 0
    BY <1>1, <1>4, <2>1, <2>2 DEF QueueInv
  <2>4. /\ \A j \in Keys : /\ j # k => Cur(j)' = Cur(j)
                           /\ queue'[<<sess, j, 1>>] = queue[<<sess, j, 1>>]
        /\ Cur(k)' = Tail(Cur(k))
    <3>1. \A d \in Channels : queue'[d] = IF d = c THEN Tail(queue[d]) ELSE queue[d]
      BY <1>3 DEF TypeOK
    <3>2. \A j \in Keys : /\ <<sess, j, 0>> \in Channels /\ <<sess, j, 1>> \in Channels
                          /\ <<sess, j, 1>> # <<sess, k, 0>>
                          /\ j # k => <<sess, j, 0>> # <<sess, k, 0>>
      BY <1>1, LineTypes
    <3>3. \A j \in Keys : queue'[<<sess, j, 1>>] = queue[<<sess, j, 1>>]
      BY <2>1, <3>1, <3>2
    <3>4. \A j \in Keys : j # k => queue'[<<sess, j, 0>>] = queue[<<sess, j, 0>>]
      BY <2>1, <3>1, <3>2
    <3>5. queue'[<<sess, k, 0>>] = Tail(queue[<<sess, k, 0>>])
      BY <2>1, <3>1, <3>2
    <3> QED
      BY <1>3, <3>3, <3>4, <3>5 DEF Cur
  <2>5. /\ Len(Tail(Cur(k))) = Len(Cur(k)) - 1
        /\ \A i \in 1 .. Len(Tail(Cur(k))) : Tail(Cur(k))[i] = Cur(k)[i + 1] /\ i + 1 \in 1 .. Len(Cur(k))
    BY <2>1, <2>2
  <2>6. \A w \in busy : w.sess = sess => KeyOf[w.off] # k
    <3>1. BusyOn(c) \subseteq busy
      BY DEF BusyOn
    <3>2. IsFiniteSet(BusyOn(c)) /\ Cardinality(BusyOn(c)) \in Nat
      BY <3>1, FS_Subset, FS_CardinalityType DEF FreshInv
    <3>3. WorkersPerKey = 1
      BY BoundsAssumption DEF WorkersPerKey
    <3>4. Cardinality(BusyOn(c)) = 0
      BY <1>3, <3>2, <3>3
    <3>5. BusyOn(c) = {}
      BY <3>2, <3>4, FS_EmptySet
    <3>6. \A w \in busy : w.sess = sess => w.gen = 0
      BY <1>1 DEF BusyInv
    <3> QED
      BY <2>1, <3>5, <3>6 DEF BusyOn
  <2>7. QueueInv'
    <3> SUFFICES ASSUME NEW j \in Keys
                 PROVE  /\ queue'[<<sess, j, 1>>] = <<>>
                        /\ \A i \in 1 .. Len(Cur(j)') : KeyOf[Cur(j)'[i]] = j /\ Before(Cur(j)'[i])
                        /\ \A i, l \in 1 .. Len(Cur(j)') : i < l => Cur(j)'[i] < Cur(j)'[l]
      BY <1>3, <1>5 DEF QueueInv
    <3>1. /\ queue[<<sess, j, 1>>] = <<>>
          /\ \A i \in 1 .. Len(Cur(j)) : KeyOf[Cur(j)[i]] = j /\ Before(Cur(j)[i])
          /\ \A i, l \in 1 .. Len(Cur(j)) : i < l => Cur(j)[i] < Cur(j)[l]
      BY <1>1 DEF QueueInv
    <3>2. CASE j # k
      BY <2>4, <3>1, <3>2
    <3>3. CASE j = k
      <4>1. PICK q, t : q = Cur(j) /\ t = Cur(j)' /\ Len(q) \in Nat /\ Len(t) = Len(q) - 1
                        /\ \A i \in 1 .. Len(t) : t[i] = q[i + 1] /\ i + 1 \in 1 .. Len(q)
        BY <2>2, <2>4, <2>5, <3>3
      <4>2. /\ \A i \in 1 .. Len(q) : KeyOf[q[i]] = j /\ Before(q[i])
            /\ \A i, l \in 1 .. Len(q) : i < l => q[i] < q[l]
        BY <3>1, <4>1
      <4>3. /\ \A i \in 1 .. Len(t) : KeyOf[t[i]] = j /\ Before(t[i])
            /\ \A i, l \in 1 .. Len(t) : i < l => t[i] < t[l]
        BY <4>1, <4>2
      <4> QED
        BY <2>4, <3>1, <4>1, <4>3
    <3> QED
      BY <3>2, <3>3
  <2>8. BusyInv'
    <3> SUFFICES ASSUME NEW w \in busy', w.sess = sess
                 PROVE  /\ w.gen = 0 /\ Before(w.off)
                        /\ \A i \in 1 .. Len(Cur(KeyOf[w.off])') : w.off < Cur(KeyOf[w.off])'[i]
                        /\ \A v \in busy' : v.sess = sess /\ KeyOf[v.off] = KeyOf[w.off] => v = w
      BY <1>3, <1>5 DEF BusyInv
    <3>1. CASE w = n
      <4>1. \A i \in 1 .. Len(Cur(k)') : o < Cur(k)'[i]
        <5>1. \A i, l \in 1 .. Len(Cur(k)) : i < l => Cur(k)[i] < Cur(k)[l]
          BY <1>1 DEF QueueInv
        <5>2. PICK q, t : q = Cur(k) /\ t = Cur(k)' /\ Len(q) \in Nat /\ Len(t) = Len(q) - 1 /\ o = q[1]
                          /\ 1 \in 1 .. Len(q)
                          /\ \A i \in 1 .. Len(t) : t[i] = q[i + 1] /\ i + 1 \in 1 .. Len(q)
          BY <2>2, <2>4, <2>5
        <5>3. \A i \in 1 .. Len(t) : 1 < i + 1 /\ q[1] < q[i + 1]
          BY <5>1, <5>2
        <5> QED
          BY <5>2, <5>3
      <4> QED
        BY <1>2, <2>2, <2>3, <2>6, <3>1, <4>1
    <3>2. CASE w # n
      <4>1. w \in busy /\ KeyOf[w.off] # k /\ KeyOf[w.off] \in Keys
        BY <1>2, <2>6, <3>2, LineTypes
      <4>2. Cur(KeyOf[w.off])' = Cur(KeyOf[w.off])
        <5>1. PICK j \in Keys : j = KeyOf[w.off] /\ j # k
          BY <4>1
        <5>2. Cur(j)' = Cur(j)
          BY <2>4, <5>1
        <5> QED
          BY <5>1, <5>2
      <4> QED
        BY <1>1, <1>2, <2>2, <2>3, <4>1, <4>2 DEF BusyInv
    <3> QED
      BY <3>1, <3>2
  <2> QED
    BY <1>1, <1>3, <1>6, <2>7, <2>8
<1> QED
  BY <1>7, <1>8

LEMMA LineStep ==
    ASSUME PerKeyParallelism <= 1, TypeOK, FreshInv, LineInv, [Next]_vars
    PROVE  LineInv'
<1> USE DEF trackerVars, claimVars
<1>1. CASE Publish \/ AutoCommit \/ Cancel \/ UNCHANGED vars
  BY <1>1, SameLine DEF Publish, AutoCommit, Cancel, vars, ChannelsOpen
<1>2. CASE CloseChannels \/ Return \/ SendOnClosed \/ Crash
  BY <1>2 DEF CloseChannels, Return, SendOnClosed, Crash, Die, LineInv, ChannelsOpen
<1> QED
  BY <1>1, <1>2, ClaimLine, ReceiveLine, SendLine, StartLine, WorkerLine DEF Next

\* With one worker per key the messages of a key are handled one at a time and
\* in the order of the log while the channels of the session are open, for every
\* log, key assignment, channel size and number of sessions.
THEOREM KeysInOrder == Spec => []KeyOrder
<1>1. CASE PerKeyParallelism <= 1
  <2>1. Init => FreshInv /\ LineInv
    BY FS_EmptySet DEF Init, FreshInv, LineInv, ChannelsOpen
  <2>2. TypeOK /\ FreshInv /\ LineInv /\ [Next]_vars => FreshInv' /\ LineInv'
    BY <1>1, FreshStep, LineStep
  <2>3. ASSUME TypeOK, LineInv PROVE KeyOrder
    <3> SUFFICES ASSUME ChannelsOpen, NEW w \in busy, w.sess = sess
                 PROVE  /\ \A i \in DOMAIN queue[<<sess, KeyOf[w.off], 0>>] :
                              w.off < queue[<<sess, KeyOf[w.off], 0>>][i]
                        /\ hold # NoMsg => w.off < hold.off
                        /\ \A v \in busy : v.sess = sess /\ KeyOf[v.off] = KeyOf[w.off] => v = w
      BY DEF KeyOrder, ChannelsOpen
    <3>1. BusyInv /\ sess >= 1
      BY <2>3 DEF LineInv
    <3>2. Cur(KeyOf[w.off]) \in Seq(Offsets)
      BY <2>3, <3>1, LineTypes
    <3>3. DOMAIN Cur(KeyOf[w.off]) = 1 .. Len(Cur(KeyOf[w.off]))
      BY <3>2
    <3> QED
      BY <3>1, <3>3 DEF BusyInv, Before, Cur
  <2> QED
    BY <2>1, <2>2, <2>3, TypeCorrect, PTL DEF Spec
<1>2. CASE ~(PerKeyParallelism <= 1)
  <2>1. KeyOrder
    BY <1>2 DEF KeyOrder
  <2> QED
    BY <2>1, PTL
<1> QED
  BY <1>1, <1>2
================================================================================
