------------------------------- MODULE MemBroker -------------------------------
(***************************************************************************)
(* The in-memory broker of development mode (internal/devmode/broker.go)   *)
(* and the goroutines that use it: MemWebhookPublisher, the Subscribe      *)
(* loops of the workers and the Replay of the script consumer.             *)
(*                                                                         *)
(* Message n of a topic is its n-th publication.  Publish, Close and the   *)
(* registration of a subscriber hold the broker's mutex and are one step   *)
(* each; a loop takes one message of its channel per step.  A handler's    *)
(* error is logged and has no effect.  Every caller publishes one message. *)
(***************************************************************************)
EXTENDS Integers, Sequences, FiniteSets

CONSTANTS
    Kinds,          \* what is published: subset of DOMAIN TopicFor
    Followers,      \* goroutines that call Subscribe
    Replayers,      \* goroutines that call Replay
    TopicOf,        \* the topic each of them reads
    ChannelBuffer,  \* channelBuffer (1000 in the code)
    HistoryLimit,   \* historyLimit (10000 in the code)
    PublishBound    \* bound: messages published to a topic

\* The topic each method of MemWebhookPublisher, and the script publisher, uses.
TopicFor == [webhook |-> "pending", result |-> "results", deadLetter |-> "deadletter",
             slow |-> "slow", state |-> "state", tombstone |-> "state", script |-> "scripts"]

Topics      == {TopicFor[k] : k \in Kinds}
Subscribers == Followers \cup Replayers

ASSUME ConstantsAssumption ==
    /\ Kinds \subseteq DOMAIN TopicFor
    /\ Followers \cap Replayers = {}
    /\ TopicOf \in [Subscribers -> Topics]
    /\ ChannelBuffer \in Nat \ {0} /\ HistoryLimit \in Nat /\ PublishBound \in Nat

VARIABLES
    published,   \* number of messages published to each topic
    history,     \* MemBroker.history
    closed,      \* MemBroker.closed
    shutdown,    \* the context of the goroutines is cancelled
    st,          \* each goroutine: not started, in its loop, returned, or
                 \* refused by a closed broker
    snapshot,    \* Replay's copy of the history, what is left of it
    ch,          \* each goroutine's channel, registered in subs once started
    shut,        \* channels Close has closed
    got,         \* history: messages handed to each handler
    since,       \* history: messages of the topic published before it registered
    dropped      \* history: messages dropped because the channel was full

brokerVars == <<published, history, closed>>
loopVars   == <<st, snapshot, ch, got>>
vars == <<brokerVars, loopVars, shutdown, shut, since, dropped>>

Messages == 1 .. PublishBound

TypeOK ==
    /\ published \in [Topics -> 0 .. PublishBound]
    /\ history \in [Topics -> Seq(Messages)]
    /\ \A t \in Topics : Len(history[t]) <= HistoryLimit
    /\ closed \in BOOLEAN /\ shutdown \in BOOLEAN
    /\ st \in [Subscribers -> {"new", "loop", "returned", "refused"}]
    /\ snapshot \in [Subscribers -> Seq(Messages)]
    /\ ch \in [Subscribers -> Seq(Messages)]
    /\ \A s \in Subscribers : Len(ch[s]) <= ChannelBuffer
    /\ shut \subseteq Subscribers
    /\ got \in [Subscribers -> Seq(Messages)]
    /\ since \in [Subscribers -> 0 .. PublishBound]
    /\ dropped \in [Subscribers -> SUBSET Messages]

Init ==
    /\ published = [t \in Topics |-> 0]
    /\ history = [t \in Topics |-> <<>>]
    /\ closed = FALSE /\ shutdown = FALSE
    /\ st = [s \in Subscribers |-> "new"]
    /\ snapshot = [s \in Subscribers |-> <<>>]
    /\ ch = [s \in Subscribers |-> <<>>]
    /\ shut = {}
    /\ got = [s \in Subscribers |-> <<>>]
    /\ since = [s \in Subscribers |-> 0]
    /\ dropped = [s \in Subscribers |-> {}]

------------------------------------------------------------------------------
\* The channels registered for a topic.  A loop that has returned leaves its
\* channel in subs.
Registered(t) == {s \in Subscribers : st[s] \in {"loop", "returned"} /\ TopicOf[s] = t}

Full(s) == Len(ch[s]) >= ChannelBuffer

\* Mutant: the history grows past its limit.
PublishUncapped(kind) ==
    \E t \in {TopicFor[kind]} :
      /\ ~closed
      /\ published[t] < PublishBound
      /\ published' = [published EXCEPT ![t] = @ + 1]
      /\ history' = [history EXCEPT ![t] = Append(@, published[t] + 1)]
      /\ ch' = [s \in Subscribers |->
            IF s \in Registered(t) /\ ~Full(s) THEN Append(ch[s], published[t] + 1) ELSE ch[s]]
      /\ dropped' = [s \in Subscribers |->
            IF s \in Registered(t) /\ Full(s) THEN dropped[s] \cup {published[t] + 1} ELSE dropped[s]]
      /\ UNCHANGED <<closed, shutdown, st, snapshot, shut, got, since>>

\* MemWebhookPublisher and MemBroker.Publish: kept in the history unless it is
\* full, sent to every channel that has room.  On a closed broker an error.
Publish(kind) ==
    \E t \in {TopicFor[kind]} :
      /\ ~closed
      /\ published[t] < PublishBound
      /\ published' = [published EXCEPT ![t] = @ + 1]
      /\ history' = [history EXCEPT ![t] =
            IF Len(@) < HistoryLimit THEN Append(@, published[t] + 1) ELSE @]
      /\ ch' = [s \in Subscribers |->
            IF s \in Registered(t) /\ ~Full(s) THEN Append(ch[s], published[t] + 1) ELSE ch[s]]
      /\ dropped' = [s \in Subscribers |->
            IF s \in Registered(t) /\ Full(s) THEN dropped[s] \cup {published[t] + 1} ELSE dropped[s]]
      /\ UNCHANGED <<closed, shutdown, st, snapshot, shut, got, since>>

\* Subscribe registers a channel, also on a closed broker.
Subscribe(s) ==
    /\ s \in Followers /\ st[s] = "new"
    /\ st' = [st EXCEPT ![s] = "loop"]
    /\ since' = [since EXCEPT ![s] = published[TopicOf[s]]]
    /\ UNCHANGED <<brokerVars, snapshot, ch, got, shutdown, shut, dropped>>

\* Mutant: the history is copied before the lock is taken to register, so one
\* message may be published in between.
ReplayTwoLocks(s) ==
    /\ s \in Replayers /\ st[s] = "new"
    /\ ~closed
    /\ st' = [st EXCEPT ![s] = "loop"]
    /\ \E n \in {Len(history[TopicOf[s]]), Len(history[TopicOf[s]]) - 1} \cap Nat :
          snapshot' = [snapshot EXCEPT ![s] = SubSeq(history[TopicOf[s]], 1, n)]
    /\ since' = [since EXCEPT ![s] = published[TopicOf[s]]]
    /\ UNCHANGED <<brokerVars, ch, got, shutdown, shut, dropped>>

\* Replay copies the history and registers under one lock.
Replay(s) ==
    /\ s \in Replayers /\ st[s] = "new"
    /\ ~closed
    /\ st' = [st EXCEPT ![s] = "loop"]
    /\ snapshot' = [snapshot EXCEPT ![s] = history[TopicOf[s]]]
    /\ since' = [since EXCEPT ![s] = published[TopicOf[s]]]
    /\ UNCHANGED <<brokerVars, ch, got, shutdown, shut, dropped>>

\* On a closed broker Replay returns an error.
ReplayClosed(s) ==
    /\ s \in Replayers /\ st[s] = "new"
    /\ closed
    /\ st' = [st EXCEPT ![s] = "refused"]
    /\ UNCHANGED <<brokerVars, snapshot, ch, got, shutdown, shut, since, dropped>>

\* Replay hands the snapshot to the handler.
HandleSnapshot(s) ==
    /\ st[s] = "loop"
    /\ snapshot[s] # <<>>
    /\ got' = [got EXCEPT ![s] = Append(@, Head(snapshot[s]))]
    /\ snapshot' = [snapshot EXCEPT ![s] = Tail(@)]
    /\ UNCHANGED <<brokerVars, st, ch, shutdown, shut, since, dropped>>

\* Mutant: the live channel is read beside the snapshot.
HandleEarly(s) ==
    /\ st[s] = "loop"
    /\ ch[s] # <<>>
    /\ got' = [got EXCEPT ![s] = Append(@, Head(ch[s]))]
    /\ ch' = [ch EXCEPT ![s] = Tail(@)]
    /\ UNCHANGED <<brokerVars, st, snapshot, shutdown, shut, since, dropped>>

\* Mutant: the loop stops reading when the context is cancelled or Close closes
\* its channel, and does not return.
HandleUnlessShut(s) ==
    /\ st[s] = "loop"
    /\ snapshot[s] = <<>>
    /\ ch[s] # <<>> /\ s \notin shut
    /\ got' = [got EXCEPT ![s] = Append(@, Head(ch[s]))]
    /\ ch' = [ch EXCEPT ![s] = Tail(@)]
    /\ UNCHANGED <<brokerVars, st, snapshot, shutdown, shut, since, dropped>>

\* The loop takes a message of its channel; a closed channel yields what it
\* still holds first.
Handle(s) ==
    /\ st[s] = "loop"
    /\ snapshot[s] = <<>>
    /\ ch[s] # <<>>
    /\ got' = [got EXCEPT ![s] = Append(@, Head(ch[s]))]
    /\ ch' = [ch EXCEPT ![s] = Tail(@)]
    /\ UNCHANGED <<brokerVars, st, snapshot, shutdown, shut, since, dropped>>

\* The select takes ctx.Done(), or finds the channel closed and empty.
Return(s) ==
    /\ st[s] = "loop"
    /\ snapshot[s] = <<>>
    /\ shutdown \/ (s \in shut /\ ch[s] = <<>>)
    /\ st' = [st EXCEPT ![s] = "returned"]
    /\ UNCHANGED <<brokerVars, snapshot, ch, got, shutdown, shut, since, dropped>>

\* Close closes every registered channel; a second call does nothing.
Close ==
    /\ ~closed
    /\ closed' = TRUE
    /\ shut' = UNION {Registered(t) : t \in Topics}
    /\ UNCHANGED <<published, history, loopVars, shutdown, since, dropped>>

\* The process is told to stop.
Shutdown ==
    /\ ~shutdown
    /\ shutdown' = TRUE
    /\ UNCHANGED <<brokerVars, loopVars, shut, since, dropped>>

LoopStep(s) == HandleSnapshot(s) \/ Handle(s) \/ Return(s)

Next ==
    \/ \E kind \in Kinds : Publish(kind)
    \/ \E s \in Subscribers : Subscribe(s) \/ Replay(s) \/ ReplayClosed(s) \/ LoopStep(s)
    \/ Close \/ Shutdown

Spec == Init /\ [][Next]_vars

\* A loop that has a message or a reason to return takes a step: handlers
\* return.  Nothing obliges anyone to publish, subscribe, close or shut down.
Fairness == \A s \in Subscribers : WF_vars(LoopStep(s))

FairSpec == Spec /\ Fairness

------------------------------------------------------------------------------
(* Properties.                                                             *)

\* What a goroutine was handed, then what it will be.
Due(s) == got[s] \o snapshot[s] \o ch[s]

\* The broker implements FanOut: every handler gets its messages in the order
\* of their publication and none twice, also a Replay beside concurrent
\* publications, and no message in a channel or a snapshot is lost.
Topic == INSTANCE FanOut WITH
            due <- [s \in Subscribers |-> Due(s)],
            handed <- [s \in Subscribers |-> Len(got[s])]
ImplementsFanOut == Topic!Spec

\* A message is missing from what a registered goroutine gets only if it was
\* dropped at its full channel, came before Subscribe, or fell out of the
\* capped history before Replay: snapshot and registration leave no gap
\* ("neither misses nor duplicates").
NoneMissed ==
    \A t \in Topics : \A s \in Registered(t) :
        \A n \in 1 .. published[t] :
            \/ \E i \in DOMAIN Due(s) : Due(s)[i] = n
            \/ n \in dropped[s]
            \/ n <= since[s] /\ (s \in Followers \/ n > HistoryLimit)

\* Whatever is in a channel or a snapshot reaches the handler, unless the process
\* is shut down: Close does not cut off what was accepted before it.
AcceptedIsHandled ==
    \A s \in Subscribers, n \in Messages :
        (\E i \in DOMAIN Due(s) : Due(s)[i] = n)
            ~> (shutdown \/ \E i \in DOMAIN got[s] : got[s][i] = n)
==============================================================================
