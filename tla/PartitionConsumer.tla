-------------------------- MODULE PartitionConsumer --------------------------
(***************************************************************************)
(* One partition of a consumer-group topic (howk.pending, howk.slow) and   *)
(* the partitionProcessor that reads it (internal/broker/kafka.go).        *)
(*                                                                         *)
(* A session is one ConsumeClaim call.  run() hands every message to the   *)
(* channel of its key; the key's workers call the handler and, when it     *)
(* returns nil, tell the offsetTracker, which lets the session mark only   *)
(* a contiguous prefix of the claim.  Sessions end by a rebalance, a       *)
(* shutdown or a crash, and handlers of an ended session may live on.      *)
(*                                                                         *)
(* highestReceived (written, never read), done and handlerOk of a          *)
(* keyedMessage (never waited on) and the idle offsetCommitter goroutine   *)
(* have no effect and are left out.                                        *)
(***************************************************************************)
EXTENDS Integers, Sequences, FiniteSets

CONSTANTS
    Keys,               \* message keys (the ConfigID of a webhook)
    LogBound,           \* bound: the partition holds offsets 0..LogBound-1
    KeyOf,              \* the key of the message at each offset
    PerKeyParallelism,  \* config.PerKeyParallelism
    ChanCap,            \* buffer of a key channel (100 in the code)
    InitialCommitted,   \* committed offset of the group, -1 if it has none
    MaxSessions,        \* bound: number of ConsumeClaim calls; the last one
                        \*        is not interrupted
    FailBound           \* bound: handler errors per offset

NoOffset == -1  \* sarama.OffsetNewest: also what InitialOffset() returns then
Offsets  == 0 .. LogBound - 1
Sessions == 1 .. MaxSessions
\* gen 0: channels made before keyChannelManager closed them, 1: made after.
Channels == Sessions \X Keys \X {0, 1}
NoMsg    == [off |-> NoOffset, gen |-> 0]

ASSUME BoundsAssumption ==
    /\ LogBound \in Nat
    /\ MaxSessions \in Nat
    /\ FailBound \in Nat
    /\ ChanCap \in Nat \ {0}
    /\ PerKeyParallelism \in Int
ASSUME KeyOfAssumption == KeyOf \in [Offsets -> Keys]
ASSUME CommittedAssumption == InitialCommitted \in {NoOffset} \cup (0 .. LogBound)

VARIABLES
    logEnd,         \* high-water mark: next offset the producer will use
    committed,      \* the group's committed offset at the broker
    marked,         \* the session's marked, not yet flushed, next offset
    sess,           \* number of sessions so far; the last one is current
    phase,          \* of the current ConsumeClaim, see Phases
    start,          \* offset at which the current claim began to read
    groupStart,     \* history: offset at which the group's first claim began
    fetchPos,       \* next offset claim.Messages() yields
    hold,           \* message run() took and has not yet sent, or NoMsg
    lowestPending,  \* offsetTracker.lowestPending
    completed,      \* offsetTracker.completed
    queue,          \* contents of each key channel
    busy,           \* workers inside processMessage
    handled,        \* history: offsets whose handler returned nil
    fails           \* history: handler errors per offset

trackerVars == <<lowestPending, completed>>
claimVars   == <<sess, phase, start, groupStart>>
vars == <<logEnd, committed, marked, fetchPos, hold, queue, busy, handled,
          fails, trackerVars, claimVars>>

\* No session; reading; pp.ctx cancelled; keyChannelManager closed the channels.
Phases == {"idle", "open", "cancelled", "closed"}
Active == phase # "idle"

\* A worker in processMessage: calling the handler, or past MarkCompleted and
\* about to call MarkOffset(to).
Worker == [sess : Sessions, gen : {0, 1}, off : Offsets,
           pc : {"handler", "mark"}, to : 0 .. LogBound]

WorkersPerKey == IF PerKeyParallelism < 1 THEN 1 ELSE PerKeyParallelism

BusyOn(c) == {w \in busy : <<w.sess, KeyOf[w.off], w.gen>> = c}

TypeOK ==
    /\ logEnd \in 0 .. LogBound
    /\ committed \in {NoOffset} \cup (0 .. LogBound)
    /\ marked \in {NoOffset} \cup (0 .. LogBound)
    /\ sess \in 0 .. MaxSessions
    /\ phase \in Phases
    /\ start \in 0 .. LogBound
    /\ groupStart \in {NoOffset} \cup (0 .. LogBound)
    /\ fetchPos \in 0 .. LogBound
    /\ hold \in [off : Offsets, gen : {0, 1}] \cup {NoMsg}
    /\ lowestPending \in {NoOffset} \cup (0 .. LogBound)
    /\ completed \subseteq Offsets
    /\ queue \in [Channels -> Seq(Offsets)]
    /\ busy \subseteq Worker
    /\ handled \subseteq Offsets
    /\ fails \in [Offsets -> 0 .. FailBound]

Init ==
    /\ logEnd = IF InitialCommitted = NoOffset THEN 0 ELSE InitialCommitted
    /\ committed = InitialCommitted
    /\ marked = NoOffset
    /\ sess = 0
    /\ phase = "idle"
    /\ start = 0
    /\ groupStart = NoOffset
    /\ fetchPos = 0
    /\ hold = NoMsg
    /\ lowestPending = 0
    /\ completed = {}
    /\ queue = [c \in Channels |-> <<>>]
    /\ busy = {}
    /\ handled = {}
    /\ fails = [o \in Offsets |-> 0]

------------------------------------------------------------------------------
(* The broker and the consumer-group client.                               *)

\* Publish: the producer appends one message (WaitForAll).
Publish ==
    /\ logEnd < LogBound
    /\ logEnd' = logEnd + 1
    /\ UNCHANGED <<committed, marked, fetchPos, hold, queue, busy, handled,
                   fails, trackerVars, claimVars>>

\* The offset a new claim reads from: the group's committed offset, and with
\* none the end of the log (Consumer.Offsets.Initial = OffsetNewest).
ClaimOffset == IF committed = NoOffset THEN logEnd ELSE committed

\* newOffsetTracker: seeded with claim.InitialOffset(), which is the symbolic
\* OffsetNewest (-1) when the group has no committed offset.
NewOffsetTracker(initialOffset) ==
    /\ lowestPending' = initialOffset
    /\ completed' = {}

\* Subscribe's loop calls Consume, which calls ConsumeClaim.
ConsumeClaim ==
    /\ phase = "idle"
    /\ sess < MaxSessions
    /\ sess' = sess + 1
    /\ phase' = "open"
    /\ start' = ClaimOffset
    /\ fetchPos' = ClaimOffset
    /\ groupStart' = IF sess = 0 THEN ClaimOffset ELSE groupStart
    /\ marked' = committed
    /\ hold' = NoMsg
    /\ NewOffsetTracker(committed)
    /\ UNCHANGED <<logEnd, committed, queue, busy, handled, fails>>

\* sarama's auto-commit flushes the marked offset.
AutoCommit ==
    /\ Active
    /\ marked # committed
    /\ committed' = marked
    /\ UNCHANGED <<logEnd, marked, fetchPos, hold, queue, busy, handled,
                   fails, trackerVars, claimVars>>

------------------------------------------------------------------------------
(* run, the key channels and their workers.                                *)

\* Mutant: reads up to and including the high-water mark.
ReceivePastEnd ==
    /\ Active
    /\ hold = NoMsg
    /\ fetchPos <= logEnd
    /\ hold' = [off |-> fetchPos, gen |-> IF phase = "closed" THEN 1 ELSE 0]
    /\ fetchPos' = fetchPos + 1
    /\ UNCHANGED <<logEnd, committed, marked, queue, busy, handled, fails,
                   trackerVars, claimVars>>

\* run: the next message of the claim; getOrCreateKeyChannel finds the key's
\* channel, or makes a fresh one once keyChannelManager has emptied the map.
Receive ==
    /\ Active
    /\ hold = NoMsg
    /\ fetchPos < logEnd
    /\ hold' = [off |-> fetchPos, gen |-> IF phase = "closed" THEN 1 ELSE 0]
    /\ fetchPos' = fetchPos + 1
    /\ UNCHANGED <<logEnd, committed, marked, queue, busy, handled, fails,
                   trackerVars, claimVars>>

HeldChannel == <<sess, KeyOf[hold.off], hold.gen>>

\* run: the select sends to the channel (blocks while its buffer is full).
Send ==
    /\ Active
    /\ hold # NoMsg
    /\ ~(hold.gen = 0 /\ phase = "closed")
    /\ Len(queue[HeldChannel]) < ChanCap
    /\ queue' = [queue EXCEPT ![HeldChannel] = Append(@, hold.off)]
    /\ hold' = NoMsg
    /\ UNCHANGED <<logEnd, committed, marked, fetchPos, busy, handled, fails,
                   trackerVars, claimVars>>

\* The process dies: the current session's workers, channels and marks are
\* gone.  Workers of an earlier session may belong to another process.
Die ==
    /\ phase' = "idle"
    /\ hold' = NoMsg
    /\ busy' = {w \in busy : w.sess # sess}
    /\ queue' = [c \in Channels |-> IF c[1] = sess THEN <<>> ELSE queue[c]]
    /\ UNCHANGED <<logEnd, committed, marked, fetchPos, handled, fails,
                   trackerVars, sess, start, groupStart>>

\* run: the select picks the send on a channel keyChannelManager closed after
\* run looked it up; Go panics.
SendOnClosed ==
    /\ Active
    /\ hold # NoMsg
    /\ hold.gen = 0 /\ phase = "closed"
    /\ Die

Crash ==
    /\ Active
    /\ sess < MaxSessions
    /\ Die

\* Mutant: a goroutine for every message instead of one worker per key.
StartHandlerUnbounded(c) ==
    /\ queue[c] # <<>>
    /\ busy' = busy \cup {[sess |-> c[1], gen |-> c[3], off |-> Head(queue[c]),
                           pc |-> "handler", to |-> 0]}
    /\ queue' = [queue EXCEPT ![c] = Tail(@)]
    /\ UNCHANGED <<logEnd, committed, marked, fetchPos, hold, handled, fails,
                   trackerVars, claimVars>>

\* keyWorker: the select takes a message.  After ctxDone the select may take
\* either branch, so a queued message may also be left behind.
StartHandler(c) ==
    /\ queue[c] # <<>>
    /\ Cardinality(BusyOn(c)) < WorkersPerKey
    /\ busy' = busy \cup {[sess |-> c[1], gen |-> c[3], off |-> Head(queue[c]),
                           pc |-> "handler", to |-> 0]}
    /\ queue' = [queue EXCEPT ![c] = Tail(@)]
    /\ UNCHANGED <<logEnd, committed, marked, fetchPos, hold, handled, fails,
                   trackerVars, claimVars>>

\* processMessage: the handler returned an error.  Nothing is marked and the
\* message is not handed out again in this session.
HandlerError(w) ==
    /\ w \in busy
    /\ w.pc = "handler"
    /\ fails[w.off] < FailBound
    /\ fails' = [fails EXCEPT ![w.off] = @ + 1]
    /\ busy' = busy \ {w}
    /\ UNCHANGED <<logEnd, committed, marked, fetchPos, hold, queue, handled,
                   trackerVars, claimVars>>

\* Mutant: marks the offset just completed, without looking for gaps.
MarkCompletedIgnoringGaps(off, low) ==
    /\ low = off + 1
    /\ lowestPending' = low
    /\ completed' = completed \cup {off}

\* Mutant: advances by one offset only, without the loop over completed ones.
MarkCompletedOneStep(off, low) ==
    /\ low = IF off = lowestPending THEN off + 1 ELSE lowestPending
    /\ lowestPending' = low
    /\ completed' = completed \cup {off}

\* MarkCompleted's loop: low is the first offset from lowestPending on that
\* is not completed once off is.
MarkCompleted(off, low) ==
    LET done == completed \cup {off}
    IN  /\ low \notin done
        /\ \A o \in lowestPending .. low - 1 : o \in done
        /\ lowestPending' = low
        /\ completed' = {o \in done : o >= low \/ o < lowestPending}

\* processMessage: the handler returned nil; MarkCompleted runs under the
\* tracker's mutex and yields markTo = low - 1, usable when it is >= 0.
\* A worker of an ended session updates a tracker nothing reads any more.
HandlerOk(w) ==
    /\ w \in busy
    /\ w.pc = "handler"
    /\ handled' = handled \cup {w.off}
    /\ \/ /\ w.sess = sess /\ Active
          /\ \E low \in lowestPending .. LogBound :
                /\ MarkCompleted(w.off, low)
                /\ busy' = IF low >= 1
                           THEN (busy \ {w}) \cup {[w EXCEPT !.pc = "mark", !.to = low]}
                           ELSE busy \ {w}
       \/ /\ ~(w.sess = sess /\ Active)
          /\ busy' = busy \ {w}
          /\ UNCHANGED trackerVars
    /\ UNCHANGED <<logEnd, committed, marked, fetchPos, hold, queue, fails,
                   claimVars>>

\* Mutant: ResetOffset, which also moves backwards, instead of MarkOffset.
MarkOffsetByReset(w) ==
    /\ w \in busy
    /\ w.pc = "mark"
    /\ marked' = IF w.sess = sess /\ Active THEN w.to ELSE marked
    /\ busy' = busy \ {w}
    /\ UNCHANGED <<logEnd, committed, fetchPos, hold, queue, handled, fails,
                   trackerVars, claimVars>>

\* session.MarkOffset only moves forward, and only counts in a live session.
MarkOffset(w) ==
    /\ w \in busy
    /\ w.pc = "mark"
    /\ marked' = IF w.sess = sess /\ Active /\ w.to > marked THEN w.to ELSE marked
    /\ busy' = busy \ {w}
    /\ UNCHANGED <<logEnd, committed, fetchPos, hold, queue, handled, fails,
                   trackerVars, claimVars>>

------------------------------------------------------------------------------
(* Shutdown of a session.                                                  *)

\* The session's context is cancelled (rebalance, shutdown), or Messages()
\* was closed and run called pp.cancel().
Cancel ==
    /\ phase = "open"
    /\ sess < MaxSessions
    /\ phase' = "cancelled"
    /\ UNCHANGED <<logEnd, committed, marked, fetchPos, hold, queue, busy,
                   handled, fails, trackerVars, sess, start, groupStart>>

\* keyChannelManager: close every channel, then start an empty map.
CloseChannels ==
    /\ phase = "cancelled"
    /\ phase' = "closed"
    /\ UNCHANGED <<logEnd, committed, marked, fetchPos, hold, queue, busy,
                   handled, fails, trackerVars, sess, start, groupStart>>

\* run returns: at once from the select's ctx.Done() branch, or after the
\* workers have finished or 30 seconds; workers still in a handler live on.
\* sarama then flushes the marks, or is fenced off and loses them.
Return ==
    /\ phase \in {"cancelled", "closed"}
    /\ phase' = "idle"
    /\ hold' = NoMsg
    /\ committed' \in {committed, marked}
    /\ UNCHANGED <<logEnd, marked, fetchPos, queue, busy, handled, fails,
                   trackerVars, sess, start, groupStart>>

Next ==
    \/ Publish \/ ConsumeClaim \/ AutoCommit
    \/ Receive \/ Send \/ SendOnClosed
    \/ \E c \in Channels : StartHandler(c)
    \/ \E w \in busy : HandlerError(w) \/ HandlerOk(w) \/ MarkOffset(w)
    \/ Cancel \/ CloseChannels \/ Return \/ Crash

Spec == Init /\ [][Next]_vars

\* A live consumer keeps rejoining, reading, handling and flushing.  A session
\* is never obliged to end, and a handler call ends one way or the other.
Fairness ==
    /\ WF_vars(ConsumeClaim) /\ WF_vars(AutoCommit)
    /\ WF_vars(Receive) /\ WF_vars(Send) /\ WF_vars(Return)
    /\ \A c \in Channels : WF_vars(StartHandler(c))
    /\ \A s \in Sessions, o \in Offsets :
         /\ WF_vars(\E w \in busy : w.sess = s /\ w.off = o
                                    /\ (HandlerOk(w) \/ HandlerError(w)))
         /\ WF_vars(\E w \in busy : w.sess = s /\ w.off = o /\ MarkOffset(w))

FairSpec == Spec /\ Fairness

------------------------------------------------------------------------------
(* Properties.                                                             *)

\* Neither the committed offset nor the position at which a claim begins to
\* read has ever passed a message whose handler has not returned nil: the
\* sliding window of offsetTracker loses no message across rebalances,
\* crashes, abandoned channels and workers that outlive their session.
NoMessageSkipped ==
    \A o \in Offsets :
        groupStart # NoOffset /\ groupStart <= o /\ (o < committed \/ o < start)
            => o \in handled

\* The committed offset of the group never moves backwards, in whatever order
\* the workers reach MarkOffset after MarkCompleted has released its mutex.
CommitNeverRegresses == [][committed' >= committed]_committed

\* The partition processor implements at-least-once consumption of the
\* partition: whatever sessions, rebalances, crashes and workers do, seen from
\* outside only published messages are handled, and a commit moves forward over
\* handled messages alone (kafka.go: a group with a committed offset).
Log == INSTANCE AtLeastOnce WITH published <- logEnd, base <- groupStart
ImplementsAtLeastOnce == Log!Spec

\* While the channels are open, a key with one worker is processed in log
\* order: its running handler is on an earlier offset than everything queued
\* or held for the key, and no second handler of the session runs on the key.
KeyOrder ==
    PerKeyParallelism <= 1 /\ phase \in {"open", "cancelled"} =>
        \A w \in busy : w.sess = sess /\ w.pc = "handler" =>
            /\ \A i \in DOMAIN queue[<<sess, KeyOf[w.off], 0>>] :
                  w.off < queue[<<sess, KeyOf[w.off], 0>>][i]
            /\ hold # NoMsg /\ KeyOf[hold.off] = KeyOf[w.off] => w.off < hold.off
            /\ \A v \in busy : v.sess = sess /\ KeyOf[v.off] = KeyOf[w.off] => v = w

\* kafka.go:300: messages with the same key are processed sequentially.
SameKeySequential ==
    \A v, w \in busy :
        v.pc = "handler" /\ w.pc = "handler" /\ v.sess = w.sess
            /\ KeyOf[v.off] = KeyOf[w.off] => v = w

\* When handlers never fail and sessions eventually last, the group's
\* committed offset reaches every message it has taken up: the window cannot
\* stay stuck on a gap.
EventuallyCommitted ==
    [](\A o \in Offsets : fails[o] = 0) =>
        \A o \in Offsets : (groupStart # NoOffset /\ groupStart <= o /\ o < logEnd)
                              ~> (committed > o)

\* worker.go:388: returning an error from the handler makes Kafka deliver the
\* message again, so a message that failed once is handled in the end.
NackRedelivered == \A o \in Offsets : (fails[o] = 1) ~> (o \in handled)
==============================================================================
