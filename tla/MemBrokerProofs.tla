--------------------------- MODULE MemBrokerProofs ---------------------------
(***************************************************************************)
(* MemBroker implements FanOut, for every number of subscribers and every  *)
(* channel size and history limit.                                         *)
(***************************************************************************)
EXTENDS MemBroker, SequenceTheorems, TLAPS

\* A message appended to the channel becomes the last one due.
LEMMA AppendLast ==
    ASSUME NEW S, NEW a \in Seq(S), NEW b \in Seq(S), NEW c \in Seq(S), NEW x \in S
    PROVE  a \o b \o Append(c, x) = Append(a \o b \o c, x)
<1>1. a \o b \in Seq(S) /\ <<x>> \in Seq(S) /\ a \o b \o c \in Seq(S)
  BY ConcatProperties
<1>2. Append(c, x) = c \o <<x>> /\ Append(a \o b \o c, x) = (a \o b \o c) \o <<x>>
  BY <1>1
<1> QED
  BY <1>1, <1>2, ConcatAssociative

\* The head of the snapshot moves to the end of what was handed over.
LEMMA MoveHead ==
    ASSUME NEW S, NEW a \in Seq(S), NEW b \in Seq(S), b # <<>>
    PROVE  Append(a, Head(b)) \o Tail(b) = a \o b
<1>1. Head(b) \in S /\ Tail(b) \in Seq(S) /\ <<Head(b)>> \in Seq(S)
  BY HeadTailProperties
<1>2. Append(a, Head(b)) = a \o <<Head(b)>>
  BY <1>1
<1>3. b = <<Head(b)>> \o Tail(b)
  <2>1. Len(<<Head(b)>> \o Tail(b)) = Len(b) /\ <<Head(b)>> \o Tail(b) \in Seq(S)
    BY <1>1, HeadTailProperties, ConcatProperties
  <2>2. ASSUME NEW i \in 1 .. Len(b) PROVE (<<Head(b)>> \o Tail(b))[i] = b[i]
    <3>1. i = 1 \/ (i - 1 \in 1 .. Len(Tail(b)) /\ i > 1)
      BY HeadTailProperties
    <3>2. CASE i = 1
      BY <1>1, <3>2, ConcatProperties, HeadTailProperties
    <3>3. CASE i - 1 \in 1 .. Len(Tail(b)) /\ i > 1
      BY <1>1, <3>3, ConcatProperties, HeadTailProperties
    <3> QED
      BY <3>1, <3>2, <3>3
  <2> QED
    BY <2>1, <2>2, SeqEqual
<1> QED
  BY <1>1, <1>2, <1>3, ConcatAssociative

\* The history holds the first messages of its topic, all of them unless it is
\* full; a goroutine that has not registered was handed nothing.
BrokerInv ==
    /\ published \in [Topics -> Nat]
    /\ history \in [Topics -> Seq(Nat)]
    /\ st = [s \in Subscribers |-> st[s]]
    /\ snapshot \in [Subscribers -> Seq(Nat)]
    /\ ch \in [Subscribers -> Seq(Nat)]
    /\ got \in [Subscribers -> Seq(Nat)]
    /\ \A t \in Topics :
          /\ \A i \in 1 .. Len(history[t]) : history[t][i] = i
          /\ Len(history[t]) <= published[t]
          /\ Len(history[t]) < HistoryLimit => Len(history[t]) = published[t]
    /\ \A s \in Subscribers : st[s] = "new" =>
          snapshot[s] = <<>> /\ ch[s] = <<>> /\ got[s] = <<>>

LEMMA BrokerInit == Init => BrokerInv
BY ConstantsAssumption DEF Init, BrokerInv

\* Publish keeps the history exact.
LEMMA PublishHistory ==
    ASSUME BrokerInv, NEW kind \in Kinds, Publish(kind)
    PROVE  BrokerInv'
<1> DEFINE t == TopicFor[kind]
<1>1. t \in Topics
  BY DEF Topics
<1> HIDE DEF t
<1>2. /\ published' = [published EXCEPT ![t] = @ + 1]
      /\ history' = [history EXCEPT ![t] = IF Len(@) < HistoryLimit THEN Append(@, published[t] + 1) ELSE @]
      /\ ch' = [s \in Subscribers |->
            IF s \in Registered(t) /\ ~Full(s) THEN Append(ch[s], published[t] + 1) ELSE ch[s]]
      /\ UNCHANGED <<st, snapshot, got>>
  BY DEF Publish, t
<1>3. /\ published \in [Topics -> Nat] /\ history \in [Topics -> Seq(Nat)] /\ ch \in [Subscribers -> Seq(Nat)]
      /\ published[t] \in Nat /\ history[t] \in Seq(Nat) /\ Len(history[t]) \in Nat /\ HistoryLimit \in Nat
  BY <1>1, ConstantsAssumption DEF BrokerInv
<1>4. published' \in [Topics -> Nat]
  <2>1. published[t] + 1 \in Nat
    BY <1>3
  <2>2. published' = [u \in Topics |-> IF u = t THEN published[t] + 1 ELSE published[u]]
    BY <1>2, <1>3
  <2> HIDE DEF t
  <2> QED
    BY <1>3, <2>1, <2>2
<1>5. history' \in [Topics -> Seq(Nat)]
  <2>1. Append(history[t], published[t] + 1) \in Seq(Nat)
    BY <1>3
  <2>2. (IF Len(history[t]) < HistoryLimit THEN Append(history[t], published[t] + 1) ELSE history[t]) \in Seq(Nat)
    BY <1>3, <2>1
  <2> QED
    BY <1>2, <1>3, <2>2
<1>6. ch' \in [Subscribers -> Seq(Nat)]
  <2>1. \A s \in Subscribers : ch[s] \in Seq(Nat) /\ Append(ch[s], published[t] + 1) \in Seq(Nat)
    BY <1>3
  <2> QED
    BY <1>2, <2>1
<1>7. ASSUME NEW u \in Topics
      PROVE  /\ \A i \in 1 .. Len(history'[u]) : history'[u][i] = i
             /\ Len(history'[u]) <= published'[u]
             /\ Len(history'[u]) < HistoryLimit => Len(history'[u]) = published'[u]
  <2>0. /\ \A i \in 1 .. Len(history[u]) : history[u][i] = i
        /\ Len(history[u]) <= published[u]
        /\ Len(history[u]) < HistoryLimit => Len(history[u]) = published[u]
    BY DEF BrokerInv
  <2>1. CASE u # t
    BY <1>2, <1>3, <2>0, <2>1
  <2>2. CASE u = t /\ Len(history[t]) < HistoryLimit
    <3>1. history'[t] = Append(history[t], published[t] + 1) /\ published'[t] = published[t] + 1
      BY <1>1, <1>2, <1>3, <2>2
    <3>2. Len(history'[t]) = Len(history[t]) + 1 /\ published[t] = Len(history[t])
      BY <1>3, <2>0, <2>2, <3>1
    <3>3. \A i \in 1 .. Len(history'[t]) : history'[t][i] = i
      BY <1>3, <2>0, <2>2, <3>1, <3>2
    <3> QED
      BY <1>3, <2>2, <3>1, <3>2, <3>3
  <2>3. CASE u = t /\ ~(Len(history[t]) < HistoryLimit)
    <3>1. history'[t] = history[t] /\ published'[t] = published[t] + 1
      BY <1>1, <1>2, <1>3, <2>3
    <3> QED
      BY <1>3, <2>0, <2>3, <3>1
  <2> QED
    BY <2>1, <2>2, <2>3
<1>8. ASSUME NEW s \in Subscribers, st'[s] = "new"
      PROVE  snapshot'[s] = <<>> /\ ch'[s] = <<>> /\ got'[s] = <<>>
  BY <1>2, <1>8 DEF BrokerInv, Registered
<1> QED
  BY <1>2, <1>4, <1>5, <1>6, <1>7, <1>8 DEF BrokerInv

LEMMA BrokerStep == BrokerInv /\ [Next]_vars => BrokerInv'
<1> SUFFICES ASSUME BrokerInv, [Next]_vars PROVE BrokerInv'
  OBVIOUS
<1> USE DEF brokerVars, loopVars
<1>1. ASSUME NEW kind \in Kinds, Publish(kind) PROVE BrokerInv'
  BY <1>1, PublishHistory
<1>2. ASSUME NEW s \in Subscribers, Subscribe(s) \/ ReplayClosed(s) \/ Return(s) PROVE BrokerInv'
  BY <1>2 DEF Subscribe, ReplayClosed, Return, BrokerInv
<1>3. ASSUME NEW s \in Subscribers, Replay(s) PROVE BrokerInv'
  <2>1. history[TopicOf[s]] \in Seq(Nat)
    BY ConstantsAssumption DEF BrokerInv
  <2>2. snapshot' \in [Subscribers -> Seq(Nat)]
    BY <1>3, <2>1 DEF Replay, BrokerInv
  <2> QED
    BY <1>3, <2>2 DEF Replay, BrokerInv
<1>4. ASSUME NEW s \in Subscribers, HandleSnapshot(s) PROVE BrokerInv'
  <2>1. snapshot[s] \in Seq(Nat) /\ snapshot[s] # <<>> /\ got[s] \in Seq(Nat)
    BY <1>4 DEF HandleSnapshot, BrokerInv
  <2>2. Head(snapshot[s]) \in Nat /\ Tail(snapshot[s]) \in Seq(Nat)
    BY <2>1
  <2>3. snapshot' \in [Subscribers -> Seq(Nat)] /\ got' \in [Subscribers -> Seq(Nat)]
    BY <1>4, <2>1, <2>2 DEF HandleSnapshot, BrokerInv
  <2> QED
    BY <1>4, <2>3 DEF HandleSnapshot, BrokerInv
<1>5. ASSUME NEW s \in Subscribers, Handle(s) PROVE BrokerInv'
  <2>1. ch[s] \in Seq(Nat) /\ ch[s] # <<>> /\ got[s] \in Seq(Nat)
    BY <1>5 DEF Handle, BrokerInv
  <2>2. Head(ch[s]) \in Nat /\ Tail(ch[s]) \in Seq(Nat)
    BY <2>1
  <2>3. ch' \in [Subscribers -> Seq(Nat)] /\ got' \in [Subscribers -> Seq(Nat)]
    BY <1>5, <2>1, <2>2 DEF Handle, BrokerInv
  <2> QED
    BY <1>5, <2>3 DEF Handle, BrokerInv
<1>6. CASE Close \/ Shutdown \/ UNCHANGED vars
  BY <1>6 DEF Close, Shutdown, vars, BrokerInv
<1> QED
  BY <1>1, <1>2, <1>3, <1>4, <1>5, <1>6 DEF Next, LoopStep

\* A step that leaves what is due and what was handed over alone.
LEMMA SameDue ==
    ASSUME UNCHANGED <<published, got, snapshot, ch>>
    PROVE  UNCHANGED Topic!vars
BY DEF Topic!vars, Due

\* A message moves from what is left to what was handed over.
LEMMA HandRefines ==
    ASSUME BrokerInv, NEW s \in Subscribers, NEW x \in Nat, UNCHANGED published,
           got' = [got EXCEPT ![s] = Append(@, x)],
           Due(s)' = Due(s), Len(got[s]) < Len(Due(s)),
           \A q \in Subscribers : q # s => Due(q)' = Due(q)
    PROVE  Topic!Next
<1>1. got \in [Subscribers -> Seq(Nat)]
  BY DEF BrokerInv
<1>2. got'[s] = Append(got[s], x) /\ \A q \in Subscribers : q # s => got'[q] = got[q]
  BY <1>1
<1>3. Len(got'[s]) = Len(got[s]) + 1
  BY <1>1, <1>2
<1>4. [q \in Subscribers |-> Due(q)]' = [q \in Subscribers |-> Due(q)]
  OBVIOUS
<1>5. [q \in Subscribers |-> Len(got[q])]' = [[q \in Subscribers |-> Len(got[q])] EXCEPT ![s] = @ + 1]
  <2>1. \A q \in Subscribers : Len(got'[q]) = IF q = s THEN Len(got[q]) + 1 ELSE Len(got[q])
    BY <1>2, <1>3
  <2> QED
    BY <2>1
<1>6. Topic!Hand(s)
  BY <1>4, <1>5 DEF Topic!Hand
<1> QED
  BY <1>6 DEF Topic!Next

\* A publication is appended to what is due to a registered goroutine with room.
LEMMA PublishDue ==
    ASSUME BrokerInv, NEW kind \in Kinds, Publish(kind), NEW s \in Subscribers
    PROVE  Due(s)' = IF s \in Registered(TopicFor[kind]) /\ ~Full(s)
                     THEN Append(Due(s), published[TopicFor[kind]] + 1) ELSE Due(s)
<1> DEFINE t == TopicFor[kind]
           room == s \in Registered(t) /\ ~Full(s)
<1>1. t \in Topics
  BY DEF Topics
<1>2. ch[s] \in Seq(Nat) /\ snapshot[s] \in Seq(Nat) /\ got[s] \in Seq(Nat) /\ published[t] + 1 \in Nat
  BY <1>1 DEF BrokerInv
<1>3. /\ ch'[s] = IF room THEN Append(ch[s], published[t] + 1) ELSE ch[s]
      /\ UNCHANGED <<snapshot, got>>
  BY DEF Publish
<1> HIDE DEF t, room
<1>4. CASE room
  <2>1. got'[s] = got[s] /\ snapshot'[s] = snapshot[s] /\ ch'[s] = Append(ch[s], published[t] + 1)
    BY <1>3, <1>4
  <2>2. got[s] \o snapshot[s] \o Append(ch[s], published[t] + 1)
            = Append(got[s] \o snapshot[s] \o ch[s], published[t] + 1)
    <3>1. PICK N, n, a, b, c : /\ N = Nat /\ n = published[t] + 1
                               /\ a = got[s] /\ b = snapshot[s] /\ c = ch[s]
      OBVIOUS
    <3>2. n \in N /\ a \in Seq(N) /\ b \in Seq(N) /\ c \in Seq(N)
      BY <1>2, <3>1
    <3>3. a \o b \o Append(c, n) = Append(a \o b \o c, n)
      BY <3>2, AppendLast
    <3> QED
      BY <3>1, <3>3
  <2>3. Due(s)' = Append(Due(s), published[t] + 1)
    BY <2>1, <2>2 DEF Due
  <2> QED
    BY <1>4, <2>3 DEF t, room
<1>5. CASE ~room
  <2>1. Due(s)' = Due(s)
    BY <1>3, <1>5 DEF Due
  <2> QED
    BY <1>5, <2>1 DEF t, room
<1> QED
  BY <1>4, <1>5

\* A Replay is due the history, to nobody else anything changes.
LEMMA ReplayDue ==
    ASSUME BrokerInv, NEW s \in Subscribers, Replay(s)
    PROVE  /\ Due(s) = <<>> /\ Due(s)' = history[TopicOf[s]]
           /\ \A q \in Subscribers : q # s => Due(q)' = Due(q)
<1>1. TopicOf[s] \in Topics /\ history[TopicOf[s]] \in Seq(Nat)
  BY ConstantsAssumption DEF BrokerInv
<1>2. snapshot[s] = <<>> /\ ch[s] = <<>> /\ got[s] = <<>>
  BY DEF Replay, BrokerInv
<1>3. Due(s) = <<>>
  BY <1>2, ConcatEmptySeq, EmptySeq DEF Due
<1>4. snapshot' = [snapshot EXCEPT ![s] = history[TopicOf[s]]] /\ UNCHANGED <<published, ch, got>>
  BY DEF Replay, brokerVars
<1>5. Due(s)' = history[TopicOf[s]]
  <2>1. snapshot'[s] = history[TopicOf[s]] /\ ch'[s] = <<>> /\ got'[s] = <<>>
    BY <1>2, <1>4 DEF BrokerInv
  <2> QED
    BY <1>1, <2>1, ConcatEmptySeq, EmptySeq DEF Due
<1>6. \A q \in Subscribers : q # s => Due(q)' = Due(q)
  BY <1>4 DEF BrokerInv, Due
<1> QED
  BY <1>3, <1>5, <1>6

\* A handler takes a message without changing what was due to anyone.
LEMMA HandDue ==
    ASSUME BrokerInv, NEW s \in Subscribers, HandleSnapshot(s) \/ Handle(s)
    PROVE  \A q \in Subscribers : Due(q)' = Due(q)
<1>0. ch[s] \in Seq(Nat) /\ snapshot[s] \in Seq(Nat) /\ got[s] \in Seq(Nat)
  BY DEF BrokerInv
<1>1. CASE HandleSnapshot(s)
  <2>1. /\ snapshot[s] # <<>> /\ UNCHANGED ch
        /\ got' = [got EXCEPT ![s] = Append(@, Head(snapshot[s]))] /\ snapshot' = [snapshot EXCEPT ![s] = Tail(@)]
    BY <1>1 DEF HandleSnapshot
  <2>2. got'[s] = Append(got[s], Head(snapshot[s])) /\ snapshot'[s] = Tail(snapshot[s])
    BY <2>1 DEF BrokerInv
  <2>3. got'[s] \o snapshot'[s] = got[s] \o snapshot[s]
    BY <1>0, <2>1, <2>2, MoveHead
  <2>4. Due(s)' = Due(s)
    BY <2>1, <2>3 DEF Due
  <2>5. \A q \in Subscribers : q # s => Due(q)' = Due(q)
    BY <2>1 DEF BrokerInv, Due
  <2> QED
    BY <2>4, <2>5
<1>2. CASE Handle(s)
  <2>1. /\ ch[s] # <<>> /\ snapshot[s] = <<>> /\ UNCHANGED snapshot
        /\ got' = [got EXCEPT ![s] = Append(@, Head(ch[s]))] /\ ch' = [ch EXCEPT ![s] = Tail(@)]
    BY <1>2 DEF Handle
  <2>2. Head(ch[s]) \in Nat /\ Tail(ch[s]) \in Seq(Nat) /\ Append(got[s], Head(ch[s])) \in Seq(Nat)
    BY <1>0, <2>1, HeadTailProperties
  <2>3. got'[s] = Append(got[s], Head(ch[s])) /\ ch'[s] = Tail(ch[s])
    BY <2>1 DEF BrokerInv
  <2>4. Due(s) = got[s] \o ch[s] /\ Due(s)' = got'[s] \o ch'[s]
    BY <1>0, <2>1, <2>2, <2>3, ConcatEmptySeq DEF Due
  <2>5. Due(s)' = Due(s)
    BY <1>0, <2>1, <2>3, <2>4, MoveHead
  <2>6. \A q \in Subscribers : q # s => Due(q)' = Due(q)
    BY <2>1 DEF BrokerInv, Due
  <2> QED
    BY <2>5, <2>6
<1> QED
  BY <1>1, <1>2

LEMMA StepRefines == BrokerInv /\ [Next]_vars => [Topic!Next]_(Topic!vars)
<1> SUFFICES ASSUME BrokerInv, [Next]_vars PROVE [Topic!Next]_(Topic!vars)
  OBVIOUS
<1> USE DEF brokerVars, loopVars
<1>0. \A s \in Subscribers : ch[s] \in Seq(Nat) /\ snapshot[s] \in Seq(Nat) /\ got[s] \in Seq(Nat)
  BY DEF BrokerInv
<1>1. ASSUME NEW kind \in Kinds, Publish(kind) PROVE Topic!Next
  <2> DEFINE t == TopicFor[kind]
             S == {s \in Registered(t) : ~Full(s)}
  <2>1. t \in Topics
    BY DEF Topics
  <2>2. S \in SUBSET {s \in Subscribers : TopicOf[s] = t}
    BY DEF Registered
  <2>3. /\ published' = [published EXCEPT ![t] = @ + 1]
        /\ ch' = [s \in Subscribers |-> IF s \in S THEN Append(ch[s], published[t] + 1) ELSE ch[s]]
        /\ UNCHANGED <<snapshot, got>>
    BY <1>1 DEF Publish
  <2> HIDE DEF t, S
  <2>5. ASSUME NEW s \in Subscribers
        PROVE  Due(s)' = IF s \in S THEN Append(Due(s), published[t] + 1) ELSE Due(s)
    BY <1>1, PublishDue DEF S, t
  <2>6. [s \in Subscribers |-> Due(s)]' =
            [s \in Subscribers |-> IF s \in S THEN Append([q \in Subscribers |-> Due(q)][s], published[t] + 1)
                                   ELSE [q \in Subscribers |-> Due(q)][s]]
    BY <2>5
  <2>7. [s \in Subscribers |-> Len(got[s])]' = [s \in Subscribers |-> Len(got[s])]
    BY <2>3
  <2>8. Topic!Publish(t)
    BY <2>2, <2>3, <2>6, <2>7 DEF Topic!Publish
  <2> QED
    BY <2>1, <2>8 DEF Topic!Next
<1>2. ASSUME NEW s \in Subscribers, Subscribe(s) \/ ReplayClosed(s) \/ Return(s) PROVE UNCHANGED Topic!vars
  BY <1>2, SameDue DEF Subscribe, ReplayClosed, Return
<1>3. ASSUME NEW s \in Subscribers, Replay(s) PROVE Topic!Next
  <2> DEFINE t == TopicOf[s]
             n == Len(history[t])
  <2>1. t \in Topics
    BY ConstantsAssumption
  <2>2. history[t] \in Seq(Nat) /\ n \in Nat /\ published[t] \in Nat /\ n <= published[t]
    BY <2>1 DEF BrokerInv
  <2>3. history[t] = [i \in 1 .. n |-> i]
    <3>1. history[t] \in [1 .. n -> Nat]
      BY <2>2, LenProperties
    <3>2. \A i \in 1 .. n : history[t][i] = i
      BY <2>1 DEF BrokerInv
    <3> QED
      BY <3>1, <3>2
  <2>4. /\ Due(s) = <<>> /\ Due(s)' = history[t]
        /\ \A q \in Subscribers : q # s => Due(q)' = Due(q)
    BY <1>3, ReplayDue
  <2>5. UNCHANGED <<published, ch, got>>
    BY <1>3 DEF Replay
  <2>9. n \in 0 .. published[t]
    BY <2>2
  <2> HIDE DEF n, t
  <2>10. [q \in Subscribers |-> Due(q)]' = [[q \in Subscribers |-> Due(q)] EXCEPT ![s] = [i \in 1 .. n |-> i]]
    BY <2>3, <2>4
  <2>11. Topic!Join(s)
    BY <2>4, <2>5, <2>9, <2>10 DEF Topic!Join, t
  <2> QED
    BY <2>11 DEF Topic!Next
<1>4. ASSUME NEW s \in Subscribers, HandleSnapshot(s) PROVE Topic!Next
  <2> DEFINE x == Head(snapshot[s])
  <2>1. /\ snapshot[s] # <<>> /\ UNCHANGED <<published, ch>>
        /\ got' = [got EXCEPT ![s] = Append(@, x)] /\ snapshot' = [snapshot EXCEPT ![s] = Tail(@)]
    BY <1>4 DEF HandleSnapshot
  <2>2. x \in Nat /\ Tail(snapshot[s]) \in Seq(Nat)
    BY <1>0, <2>1, HeadTailProperties
  <2>3. \A q \in Subscribers : Due(q)' = Due(q)
    BY <1>4, HandDue
  <2>6. Len(got[s]) < Len(Due(s))
    <3>1. Len(snapshot[s]) > 0 /\ Len(snapshot[s]) \in Nat /\ Len(ch[s]) \in Nat /\ Len(got[s]) \in Nat
      BY <1>0, <2>1
    <3>2. got[s] \o snapshot[s] \in Seq(Nat) /\ Len(got[s] \o snapshot[s]) = Len(got[s]) + Len(snapshot[s])
      BY <1>0, ConcatProperties
    <3>3. Len(Due(s)) = Len(got[s]) + Len(snapshot[s]) + Len(ch[s])
      BY <1>0, <3>2, ConcatProperties DEF Due
    <3>4. \A a, b, c \in Nat : b > 0 => a < a + b + c
      OBVIOUS
    <3>5. Len(got[s]) < Len(got[s]) + Len(snapshot[s]) + Len(ch[s])
      BY <3>1, <3>4
    <3> QED
      BY <3>3, <3>5
  <2> HIDE DEF x
  <2> QED
    BY <2>1, <2>2, <2>3, <2>6, HandRefines
<1>5. ASSUME NEW s \in Subscribers, Handle(s) PROVE Topic!Next
  <2> DEFINE x == Head(ch[s])
  <2>1. /\ ch[s] # <<>> /\ snapshot[s] = <<>> /\ UNCHANGED <<published, snapshot>>
        /\ got' = [got EXCEPT ![s] = Append(@, x)] /\ ch' = [ch EXCEPT ![s] = Tail(@)]
    BY <1>5 DEF Handle
  <2>2. x \in Nat /\ Tail(ch[s]) \in Seq(Nat) /\ Append(got[s], x) \in Seq(Nat)
    BY <1>0, <2>1, HeadTailProperties
  <2>3. \A q \in Subscribers : Due(q)' = Due(q)
    BY <1>5, HandDue
  <2>4. Due(s) = got[s] \o ch[s]
    BY <1>0, <2>1, ConcatEmptySeq DEF Due
  <2>7. Len(got[s]) < Len(Due(s))
    <3>1. Len(ch[s]) > 0 /\ Len(ch[s]) \in Nat /\ Len(got[s]) \in Nat
      BY <1>0, <2>1
    <3>2. Len(Due(s)) = Len(got[s]) + Len(ch[s])
      BY <1>0, <2>4, ConcatProperties
    <3>3. \A a, b \in Nat : b > 0 => a < a + b
      OBVIOUS
    <3>4. Len(got[s]) < Len(got[s]) + Len(ch[s])
      BY <3>1, <3>3
    <3> QED
      BY <3>2, <3>4
  <2> HIDE DEF x
  <2> QED
    BY <2>1, <2>2, <2>3, <2>7, HandRefines
<1>6. CASE Close \/ Shutdown \/ UNCHANGED vars
  BY <1>6, SameDue DEF Close, Shutdown, vars
<1> QED
  BY <1>1, <1>2, <1>3, <1>4, <1>5, <1>6 DEF Next, LoopStep

\* The in-memory broker hands every subscriber the messages due to it in order
\* and once, and a Replay sees the history and the live messages without a gap
\* or a repetition, for every channel size and history limit.
THEOREM RefinesFanOut == Spec => ImplementsFanOut
<1>1. Init => Topic!Init
  <2> SUFFICES ASSUME Init PROVE Topic!Init
    OBVIOUS
  <2>1. \A s \in Subscribers : got[s] = <<>> /\ snapshot[s] = <<>> /\ ch[s] = <<>>
    BY DEF Init
  <2>2. \A s \in Subscribers : Due(s) = <<>> /\ Len(got[s]) = 0
    BY <2>1, ConcatEmptySeq, EmptySeq DEF Due
  <2> QED
    BY <2>2 DEF Init, Topic!Init
<1> QED
  BY <1>1, BrokerInit, BrokerStep, StepRefines, PTL DEF Spec, ImplementsFanOut, Topic!Spec

------------------------------------------------------------------------------
(* Nothing is missed without a reason.                                     *)

\* Message n is due to the goroutine, or there is a reason why it is not.
InDue(s, n) == \E i \in DOMAIN Due(s) : Due(s)[i] = n
Accounted(s, n) ==
    InDue(s, n) \/ n \in dropped[s] \/ (n <= since[s] /\ (s \in Followers \/ n > HistoryLimit))

MissInv ==
    /\ since = [s \in Subscribers |-> since[s]]
    /\ dropped = [s \in Subscribers |-> dropped[s]]
    /\ \A s \in Subscribers : st[s] \in {"loop", "returned"} =>
          \A n \in 1 .. published[TopicOf[s]] : Accounted(s, n)

\* What is due is a sequence of messages.
LEMMA DueType == ASSUME BrokerInv, NEW s \in Subscribers PROVE Due(s) \in Seq(Nat)
<1>1. ch[s] \in Seq(Nat) /\ snapshot[s] \in Seq(Nat) /\ got[s] \in Seq(Nat)
  BY DEF BrokerInv
<1>2. got[s] \o snapshot[s] \in Seq(Nat)
  BY <1>1, ConcatProperties
<1> QED
  BY <1>1, <1>2, ConcatProperties DEF Due

\* Publish accounts for the new message and loses none of the earlier ones.
LEMMA PublishMiss ==
    ASSUME BrokerInv, MissInv, NEW kind \in Kinds, Publish(kind)
    PROVE  MissInv'
<1> DEFINE t == TopicFor[kind]
           m == published[t] + 1
<1>1. t \in Topics /\ published[t] \in Nat
  BY DEF Topics, BrokerInv
<1>2. /\ published' = [published EXCEPT ![t] = m]
      /\ dropped' = [s \in Subscribers |->
            IF s \in Registered(t) /\ Full(s) THEN dropped[s] \cup {m} ELSE dropped[s]]
      /\ UNCHANGED <<st, since>>
  BY DEF Publish
<1>3. ASSUME NEW s \in Subscribers, st'[s] \in {"loop", "returned"},
             NEW n \in 1 .. published'[TopicOf[s]]
      PROVE  Accounted(s, n)'
  <2>1. Due(s)' = IF s \in Registered(t) /\ ~Full(s) THEN Append(Due(s), m) ELSE Due(s)
    BY PublishDue
  <2>2. Due(s) \in Seq(Nat) /\ m \in Nat /\ TopicOf[s] \in Topics
    BY <1>1, DueType, ConstantsAssumption
  <2> HIDE DEF t, m
  <2>3. InDue(s, n) => InDue(s, n)'
    <3>1. CASE Due(s)' = Append(Due(s), m)
      BY <2>2, <3>1, AppendProperties DEF InDue
    <3>2. CASE Due(s)' = Due(s)
      BY <3>2 DEF InDue
    <3> QED
      BY <2>1, <3>1, <3>2
  <2>4. dropped[s] \subseteq dropped'[s] /\ since'[s] = since[s] /\ st'[s] = st[s]
    BY <1>2
  <2>5. CASE n \in 1 .. published[TopicOf[s]]
    <3>1. Accounted(s, n)
      BY <1>3, <2>4, <2>5 DEF MissInv
    <3> QED
      BY <2>3, <2>4, <3>1 DEF Accounted
  <2>6. CASE n \notin 1 .. published[TopicOf[s]]
    <3>1. TopicOf[s] = t /\ n = m
      BY <1>1, <1>2, <1>3, <2>2, <2>6 DEF BrokerInv, m
    <3>2. s \in Registered(t)
      BY <1>3, <2>4, <3>1 DEF Registered
    <3>3. CASE Full(s)
      BY <1>2, <3>1, <3>2, <3>3 DEF Accounted
    <3>4. CASE ~Full(s)
      <4>1. Due(s)' = Append(Due(s), m)
        BY <2>1, <3>2, <3>4
      <4>2. Len(Due(s)) + 1 \in DOMAIN Append(Due(s), m) /\ Append(Due(s), m)[Len(Due(s)) + 1] = m
        BY <2>2, AppendProperties
      <4> QED
        BY <3>1, <4>1, <4>2 DEF Accounted, InDue
    <3> QED
      BY <3>3, <3>4
  <2> QED
    BY <2>5, <2>6
<1>4. since' = [s \in Subscribers |-> since'[s]] /\ dropped' = [s \in Subscribers |-> dropped'[s]]
  BY <1>2 DEF MissInv
<1> QED
  BY <1>3, <1>4 DEF MissInv

\* A Replay is due the whole history; what is missing from it fell out of it.
LEMMA ReplayMiss ==
    ASSUME BrokerInv, MissInv, NEW s \in Subscribers, Replay(s)
    PROVE  MissInv'
<1> DEFINE t == TopicOf[s]
<1>1. t \in Topics /\ published[t] \in Nat /\ history[t] \in Seq(Nat) /\ HistoryLimit \in Nat
  BY ConstantsAssumption DEF BrokerInv
<1>2. /\ st' = [st EXCEPT ![s] = "loop"] /\ since' = [since EXCEPT ![s] = published[t]]
      /\ UNCHANGED <<published, dropped>>
  BY DEF Replay, brokerVars
<1>3. ASSUME NEW q \in Subscribers, st'[q] \in {"loop", "returned"},
             NEW n \in 1 .. published'[TopicOf[q]]
      PROVE  Accounted(q, n)'
  <2>1. CASE q = s
    <3>1. Due(s)' = history[t] /\ since'[s] = published[t] /\ n \in 1 .. published[t]
      BY <1>2, <1>3, <2>1, ReplayDue DEF MissInv
    <3>2. CASE n <= Len(history[t])
      <4>1. n \in DOMAIN history[t] /\ history[t][n] = n
        BY <1>1, <3>1, <3>2 DEF BrokerInv
      <4> QED
        BY <2>1, <3>1, <4>1 DEF Accounted, InDue
    <3>3. CASE n > Len(history[t])
      <4>1. Len(history[t]) \in Nat /\ ~(Len(history[t]) < HistoryLimit)
        BY <1>1, <3>1, <3>3 DEF BrokerInv
      <4>2. n > HistoryLimit /\ n <= since'[s]
        BY <1>1, <3>1, <3>3, <4>1
      <4> QED
        BY <2>1, <4>2 DEF Accounted
    <3> QED
      BY <1>1, <3>1, <3>2, <3>3
  <2>2. CASE q # s
    <3>1. st'[q] = st[q] /\ since'[q] = since[q] /\ Due(q)' = Due(q)
      BY <1>2, <2>2, ReplayDue DEF BrokerInv, MissInv
    <3>2. Accounted(q, n)
      BY <1>2, <1>3, <3>1 DEF MissInv
    <3> QED
      BY <1>2, <3>1, <3>2 DEF Accounted, InDue
  <2> QED
    BY <2>1, <2>2
<1>4. since' = [q \in Subscribers |-> since'[q]] /\ dropped' = [q \in Subscribers |-> dropped'[q]]
  BY <1>2 DEF MissInv
<1> QED
  BY <1>3, <1>4 DEF MissInv

\* The other steps leave what is due to a registered goroutine alone.
LEMMA SameMiss ==
    ASSUME MissInv, UNCHANGED <<published, since, dropped>>,
           \A q \in Subscribers : Due(q)' = Due(q),
           \A q \in Subscribers : st'[q] \in {"loop", "returned"} => st[q] \in {"loop", "returned"}
    PROVE  MissInv'
BY DEF MissInv, Accounted, InDue

LEMMA MissStep == ASSUME BrokerInv, MissInv, [Next]_vars PROVE MissInv'
<1> USE DEF brokerVars, loopVars
<1>1. ASSUME NEW kind \in Kinds, Publish(kind) PROVE MissInv'
  BY <1>1, PublishMiss
<1>2. ASSUME NEW s \in Subscribers, Replay(s) PROVE MissInv'
  BY <1>2, ReplayMiss
<1>3. ASSUME NEW s \in Subscribers, Subscribe(s) PROVE MissInv'
  <2>1. /\ s \in Followers /\ st' = [st EXCEPT ![s] = "loop"]
        /\ since' = [since EXCEPT ![s] = published[TopicOf[s]]]
        /\ UNCHANGED <<published, dropped, got, snapshot, ch>>
    BY <1>3 DEF Subscribe
  <2>2. published[TopicOf[s]] \in Nat
    BY ConstantsAssumption DEF BrokerInv
  <2>3. ASSUME NEW q \in Subscribers, st'[q] \in {"loop", "returned"},
               NEW n \in 1 .. published'[TopicOf[q]]
        PROVE  Accounted(q, n)'
    <3>1. CASE q = s
      <4>1. since'[s] = published[TopicOf[s]] /\ n \in 1 .. published[TopicOf[s]]
        BY <2>1, <2>3, <3>1 DEF MissInv
      <4> QED
        BY <2>1, <2>2, <3>1, <4>1 DEF Accounted
    <3>2. CASE q # s
      <4>1. st'[q] = st[q] /\ since'[q] = since[q] /\ Due(q)' = Due(q)
        BY <2>1, <3>2 DEF BrokerInv, MissInv, Due
      <4>2. Accounted(q, n)
        BY <2>1, <2>3, <4>1 DEF MissInv
      <4> QED
        BY <2>1, <4>1, <4>2 DEF Accounted, InDue
    <3> QED
      BY <3>1, <3>2
  <2> QED
    BY <2>1, <2>3 DEF MissInv
<1>4. ASSUME NEW s \in Subscribers, HandleSnapshot(s) \/ Handle(s) PROVE MissInv'
  <2>1. UNCHANGED <<published, since, dropped, st>>
    BY <1>4 DEF HandleSnapshot, Handle
  <2> QED
    BY <1>4, <2>1, HandDue, SameMiss
<1>5. ASSUME NEW s \in Subscribers, ReplayClosed(s) \/ Return(s) PROVE MissInv'
  <2>1. UNCHANGED <<published, since, dropped, got, snapshot, ch>>
    BY <1>5 DEF ReplayClosed, Return
  <2>2. \A q \in Subscribers : st'[q] \in {"loop", "returned"} => st[q] \in {"loop", "returned"}
    BY <1>5 DEF ReplayClosed, Return, BrokerInv
  <2>3. \A q \in Subscribers : Due(q)' = Due(q)
    BY <2>1 DEF Due
  <2> QED
    BY <2>1, <2>2, <2>3, SameMiss
<1>6. CASE Close \/ Shutdown \/ UNCHANGED vars
  <2>1. UNCHANGED <<published, since, dropped, got, snapshot, ch, st>>
    BY <1>6 DEF Close, Shutdown, vars
  <2>2. \A q \in Subscribers : Due(q)' = Due(q)
    BY <2>1 DEF Due
  <2> QED
    BY <2>1, <2>2, SameMiss
<1> QED
  BY <1>1, <1>2, <1>3, <1>4, <1>5, <1>6 DEF Next, LoopStep

\* A subscriber of the in-memory broker misses a message only when its channel
\* was full, when it subscribed after the message, or when the message had
\* fallen out of the capped history before its Replay.
THEOREM NothingMissed == Spec => []NoneMissed
<1>1. Init => MissInv
  BY DEF Init, MissInv
<1>2. ASSUME MissInv PROVE NoneMissed
  BY <1>2 DEF MissInv, NoneMissed, Registered, Accounted, InDue
<1> QED
  BY <1>1, <1>2, BrokerInit, BrokerStep, MissStep, PTL DEF Spec

------------------------------------------------------------------------------
\* A publication keeps every history and every channel within its limit.
LEMMA PublishTyped ==
    ASSUME TypeOK, NEW kind \in Kinds, Publish(kind)
    PROVE  TypeOK'
<1> DEFINE t == TopicFor[kind]
           n == published[t] + 1
<1>1. t \in Topics
  BY DEF Topics
<1>2. /\ published[t] < PublishBound
      /\ published' = [published EXCEPT ![t] = @ + 1]
      /\ history' = [history EXCEPT ![t] = IF Len(@) < HistoryLimit THEN Append(@, n) ELSE @]
      /\ ch' = [s \in Subscribers |-> IF s \in Registered(t) /\ ~Full(s) THEN Append(ch[s], n) ELSE ch[s]]
      /\ dropped' = [s \in Subscribers |-> IF s \in Registered(t) /\ Full(s) THEN dropped[s] \cup {n} ELSE dropped[s]]
      /\ UNCHANGED <<closed, shutdown, st, snapshot, shut, got, since>>
  BY DEF Publish
<1>3. /\ published \in [Topics -> 0 .. PublishBound] /\ history \in [Topics -> Seq(Messages)]
      /\ ch \in [Subscribers -> Seq(Messages)] /\ dropped \in [Subscribers -> SUBSET Messages]
      /\ \A u \in Topics : Len(history[u]) <= HistoryLimit
      /\ \A s \in Subscribers : Len(ch[s]) <= ChannelBuffer
      /\ ChannelBuffer \in Nat /\ HistoryLimit \in Nat /\ PublishBound \in Nat
  BY ConstantsAssumption DEF TypeOK
<1>4. n \in 0 .. PublishBound /\ n \in Messages
  BY <1>1, <1>2, <1>3 DEF Messages
<1> HIDE DEF t, n
<1>5. published' \in [Topics -> 0 .. PublishBound]
  <2>1. published' = [published EXCEPT ![t] = n]
    BY <1>2 DEF n
  <2> QED
    BY <1>3, <1>4, <2>1
<1>6. ASSUME NEW u \in Topics PROVE history'[u] \in Seq(Messages) /\ Len(history'[u]) <= HistoryLimit
  <2>1. history[u] \in Seq(Messages) /\ Len(history[u]) <= HistoryLimit
    BY <1>3
  <2>2. CASE u = t /\ Len(history[u]) < HistoryLimit
    <3>1. history'[u] = Append(history[u], n)
      BY <1>2, <1>3, <2>2
    <3> QED
      BY <1>3, <1>4, <2>1, <2>2, <3>1, AppendProperties
  <2>3. CASE ~(u = t /\ Len(history[u]) < HistoryLimit)
    <3>1. history'[u] = history[u]
      BY <1>2, <1>3, <2>3
    <3> QED
      BY <2>1, <3>1
  <2> QED
    BY <2>2, <2>3
<1>7. history' \in [Topics -> Seq(Messages)]
  BY <1>2, <1>3, <1>6
<1>8. ASSUME NEW s \in Subscribers PROVE ch'[s] \in Seq(Messages) /\ Len(ch'[s]) <= ChannelBuffer
  <2>1. ch[s] \in Seq(Messages) /\ Len(ch[s]) <= ChannelBuffer
    BY <1>3
  <2>2. CASE s \in Registered(t) /\ ~Full(s)
    <3>1. ch'[s] = Append(ch[s], n) /\ Len(ch[s]) < ChannelBuffer
      BY <1>2, <1>3, <2>1, <2>2 DEF Full
    <3> QED
      BY <1>3, <1>4, <2>1, <3>1, AppendProperties
  <2>3. CASE ~(s \in Registered(t) /\ ~Full(s))
    <3>1. ch'[s] = ch[s]
      BY <1>2, <2>3
    <3> QED
      BY <2>1, <3>1
  <2> QED
    BY <2>2, <2>3
<1>9. ch' \in [Subscribers -> Seq(Messages)]
  BY <1>2, <1>8
<1>10. dropped' \in [Subscribers -> SUBSET Messages]
  BY <1>2, <1>3, <1>4
<1> QED
  BY <1>2, <1>5, <1>6, <1>7, <1>8, <1>9, <1>10 DEF TypeOK

\* Taking the head of a queue keeps it and what was handed over typed.
LEMMA TakeTyped ==
    ASSUME NEW S, NEW q \in [Subscribers -> Seq(S)], NEW g \in [Subscribers -> Seq(S)],
           NEW s \in Subscribers, q[s] # <<>>
    PROVE  /\ [q EXCEPT ![s] = Tail(@)] \in [Subscribers -> Seq(S)]
           /\ [g EXCEPT ![s] = Append(@, Head(q[s]))] \in [Subscribers -> Seq(S)]
           /\ Len(Tail(q[s])) = Len(q[s]) - 1 /\ Len(q[s]) \in Nat
<1>1. q[s] \in Seq(S) /\ g[s] \in Seq(S)
  OBVIOUS
<1>2. /\ Head(q[s]) \in S /\ Tail(q[s]) \in Seq(S)
      /\ Len(Tail(q[s])) = Len(q[s]) - 1 /\ Len(q[s]) \in Nat
  BY <1>1, HeadTailProperties, LenProperties
<1>3. Append(g[s], Head(q[s])) \in Seq(S)
  BY <1>1, <1>2, AppendProperties
<1> QED
  BY <1>2, <1>3

LEMMA TypeStep == TypeOK /\ [Next]_vars => TypeOK'
<1> SUFFICES ASSUME TypeOK, [Next]_vars PROVE TypeOK'
  OBVIOUS
<1> USE DEF brokerVars, loopVars
<1>1. ASSUME NEW kind \in Kinds, Publish(kind) PROVE TypeOK'
  BY <1>1, PublishTyped
<1>2. ASSUME NEW s \in Subscribers, Subscribe(s) PROVE TypeOK'
  <2>1. TopicOf[s] \in Topics /\ published[TopicOf[s]] \in 0 .. PublishBound
    BY ConstantsAssumption DEF TypeOK
  <2>2. st' \in [Subscribers -> {"new", "loop", "returned", "refused"}] /\ since' \in [Subscribers -> 0 .. PublishBound]
    BY <1>2, <2>1 DEF Subscribe, TypeOK
  <2> QED
    BY <1>2, <2>2 DEF Subscribe, TypeOK
<1>3. ASSUME NEW s \in Subscribers, Replay(s) PROVE TypeOK'
  <2>1. /\ TopicOf[s] \in Topics /\ published[TopicOf[s]] \in 0 .. PublishBound
        /\ history[TopicOf[s]] \in Seq(Messages)
    BY ConstantsAssumption DEF TypeOK
  <2>2. /\ st' \in [Subscribers -> {"new", "loop", "returned", "refused"}]
        /\ since' \in [Subscribers -> 0 .. PublishBound]
        /\ snapshot' \in [Subscribers -> Seq(Messages)]
    BY <1>3, <2>1 DEF Replay, TypeOK
  <2> QED
    BY <1>3, <2>2 DEF Replay, TypeOK
<1>4. ASSUME NEW s \in Subscribers, ReplayClosed(s) \/ Return(s) PROVE TypeOK'
  <2>1. st' \in [Subscribers -> {"new", "loop", "returned", "refused"}]
    BY <1>4 DEF ReplayClosed, Return, TypeOK
  <2> QED
    BY <1>4, <2>1 DEF ReplayClosed, Return, TypeOK
<1>5. ASSUME NEW s \in Subscribers, HandleSnapshot(s) PROVE TypeOK'
  <2>1. /\ snapshot \in [Subscribers -> Seq(Messages)] /\ got \in [Subscribers -> Seq(Messages)]
        /\ snapshot[s] # <<>>
        /\ got' = [got EXCEPT ![s] = Append(@, Head(snapshot[s]))] /\ snapshot' = [snapshot EXCEPT ![s] = Tail(@)]
    BY <1>5 DEF HandleSnapshot, TypeOK
  <2>2. snapshot' \in [Subscribers -> Seq(Messages)] /\ got' \in [Subscribers -> Seq(Messages)]
    BY <2>1, TakeTyped
  <2> QED
    BY <1>5, <2>2 DEF HandleSnapshot, TypeOK
<1>6. ASSUME NEW s \in Subscribers, Handle(s) PROVE TypeOK'
  <2>1. /\ ch \in [Subscribers -> Seq(Messages)] /\ got \in [Subscribers -> Seq(Messages)]
        /\ ch[s] # <<>>
        /\ got' = [got EXCEPT ![s] = Append(@, Head(ch[s]))] /\ ch' = [ch EXCEPT ![s] = Tail(@)]
    BY <1>6 DEF Handle, TypeOK
  <2>2. /\ ch' \in [Subscribers -> Seq(Messages)] /\ got' \in [Subscribers -> Seq(Messages)]
        /\ Len(Tail(ch[s])) = Len(ch[s]) - 1 /\ Len(ch[s]) \in Nat
    BY <2>1, TakeTyped
  <2>3. \A q \in Subscribers : Len(ch'[q]) <= ChannelBuffer
    <3>1. (\A q \in Subscribers : Len(ch[q]) <= ChannelBuffer) /\ ChannelBuffer \in Nat
      BY ConstantsAssumption DEF TypeOK
    <3>2. Len(ch'[s]) <= ChannelBuffer
      BY <2>1, <2>2, <3>1
    <3> QED
      BY <2>1, <3>1, <3>2
  <2> QED
    BY <1>6, <2>2, <2>3 DEF Handle, TypeOK
<1>7. CASE Close
  <2>1. shut' \subseteq Subscribers
    BY <1>7 DEF Close, Registered
  <2> QED
    BY <1>7, <2>1 DEF Close, TypeOK
<1>8. CASE Shutdown \/ UNCHANGED vars
  BY <1>8 DEF Shutdown, vars, TypeOK
<1> QED
  BY <1>1, <1>2, <1>3, <1>4, <1>5, <1>6, <1>7, <1>8 DEF Next, LoopStep

\* No history grows past its limit and no channel past its buffer, and nothing is
\* kept, sent or handed over that was not published.
THEOREM TypeCorrect == Spec => []TypeOK
<1>1. Init => TypeOK
  <2> SUFFICES ASSUME Init PROVE TypeOK
    OBVIOUS
  <2>1. 0 \in 0 .. PublishBound /\ HistoryLimit \in Nat /\ ChannelBuffer \in Nat
    BY ConstantsAssumption
  <2>2. <<>> \in Seq(Messages) /\ Len(<<>>) = 0
    BY EmptySeq
  <2>3. /\ history \in [Topics -> Seq(Messages)]
        /\ snapshot \in [Subscribers -> Seq(Messages)] /\ ch \in [Subscribers -> Seq(Messages)]
        /\ got \in [Subscribers -> Seq(Messages)]
    BY <2>2 DEF Init
  <2>4. /\ \A t \in Topics : Len(history[t]) <= HistoryLimit
        /\ \A s \in Subscribers : Len(ch[s]) <= ChannelBuffer
    BY <2>1, <2>2 DEF Init
  <2>5. /\ published \in [Topics -> 0 .. PublishBound] /\ since \in [Subscribers -> 0 .. PublishBound]
        /\ dropped \in [Subscribers -> SUBSET Messages] /\ shut \subseteq Subscribers
        /\ st \in [Subscribers -> {"new", "loop", "returned", "refused"}]
        /\ closed \in BOOLEAN /\ shutdown \in BOOLEAN
    BY <2>1 DEF Init
  <2> QED
    BY <2>3, <2>4, <2>5 DEF TypeOK
<1> QED
  BY <1>1, TypeStep, PTL DEF Spec
==============================================================================
