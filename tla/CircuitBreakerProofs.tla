------------------------- MODULE CircuitBreakerProofs -------------------------
(***************************************************************************)
(* Proofs about CircuitBreaker, for every configuration and any number of  *)
(* workers.  What is stored and what is in flight must be well formed      *)
(* together, because SaveProbe writes a circuit read in an earlier step.   *)
(***************************************************************************)
EXTENDS CircuitBreaker, TLAPS

InFlightFit == \A w \in Workers : CountsFit(new[w])
CountsInv == CountsConsistent /\ InFlightFit

LEMMA ClosedType == Closed0 \in Circuit /\ CountsFit(Closed0)
BY ConfigAssumption DEF Closed0, Circuit, States, CountsFit

LEMMA DecType ==
    ASSUME NEW k \in Nat, NEW n \in 0 .. k
    PROVE  Dec(n) \in 0 .. k
BY DEF Dec

LEMMA AgeType ==
    ASSUME NEW c \in Circuit
    PROVE  /\ Age(c) \in Circuit
           /\ CountsFit(c) => CountsFit(Age(c))
<1>1. /\ Dec(c.recoverIn) \in 0 .. RecoveryTimeout
      /\ Dec(c.probeIn) \in 0 .. ProbeInterval
      /\ Dec(c.failIn) \in 0 .. FailureWindow
  BY ConfigAssumption, DecType DEF Circuit
<1>2. Age(c) \in Circuit
  BY <1>1 DEF Age, Circuit
<1>3. Age(c).state = c.state /\ Age(c).failures = c.failures
      /\ Age(c).successes = c.successes
  BY DEF Age, Circuit
<1> QED BY <1>2, <1>3 DEF CountsFit

\* RecordSuccess keeps a circuit well formed.
LEMMA SucceededFits ==
    ASSUME NEW c \in Circuit
    PROVE  /\ CountsFit(c) => Succeeded(c) \in Circuit
           /\ CountsFit(c) => CountsFit(Succeeded(c))
<1> SUFFICES ASSUME CountsFit(c) PROVE Succeeded(c) \in Circuit /\ CountsFit(Succeeded(c))
  OBVIOUS
<1>1. /\ c.state \in States /\ c.failures \in 0 .. FailureThreshold
      /\ c.successes \in 0 .. SuccessThreshold + 1
      /\ 0 \in 0 .. ProbeInterval /\ 0 \in 0 .. RecoveryTimeout
      /\ 0 \in 0 .. FailureThreshold
      /\ {0, 1} \subseteq 0 .. SuccessThreshold + 1
  BY ConfigAssumption DEF Circuit
<1>2. CASE c.state = "closed"
  <2>1. Succeeded(c) = [c EXCEPT !.failures = 0]
    BY <1>2 DEF Succeeded
  <2> QED BY <1>1, <1>2, <2>1, ConfigAssumption DEF Circuit, States, CountsFit
<1>3. CASE c.state = "half_open" /\ c.successes + 1 >= SuccessThreshold
  <2>1. Succeeded(c) = [c EXCEPT !.state = "closed", !.failures = 0, !.successes = 0,
                                 !.probeIn = 0]
    BY <1>3 DEF Succeeded
  <2>2. Succeeded(c) \in Circuit
    BY <1>1, <2>1 DEF Circuit, States
  <2>3. /\ Succeeded(c).state = "closed" /\ Succeeded(c).failures = 0
        /\ Succeeded(c).successes = 0
    BY <2>1 DEF Circuit
  <2> QED BY <2>2, <2>3, ConfigAssumption DEF CountsFit
<1>4. CASE c.state = "half_open" /\ ~(c.successes + 1 >= SuccessThreshold)
  <2>1. Succeeded(c) = [c EXCEPT !.successes = @ + 1]
    BY <1>4 DEF Succeeded
  <2>2. c.successes + 1 \in 0 .. SuccessThreshold + 1 /\ c.successes + 1 < SuccessThreshold
    BY <1>1, <1>4, ConfigAssumption
  <2> QED BY <1>1, <1>4, <2>1, <2>2, ConfigAssumption DEF Circuit, States, CountsFit
<1>5. CASE c.state = "open"
  <2>1. Succeeded(c) = [c EXCEPT !.state = "half_open", !.successes = 1, !.recoverIn = 0]
    BY <1>5 DEF Succeeded
  <2>2. Succeeded(c) \in Circuit
    BY <1>1, <2>1 DEF Circuit, States
  <2>3. Succeeded(c).state = "half_open" /\ Succeeded(c).successes = 1
    BY <2>1 DEF Circuit
  <2> QED BY <2>2, <2>3 DEF CountsFit
<1> QED BY <1>1, <1>2, <1>3, <1>4, <1>5 DEF States

\* RecordFailure keeps a circuit well formed.
LEMMA FailedFits ==
    ASSUME NEW c \in Circuit
    PROVE  /\ CountsFit(c) => Failed(c) \in Circuit
           /\ CountsFit(c) => CountsFit(Failed(c))
<1> SUFFICES ASSUME CountsFit(c) PROVE Failed(c) \in Circuit /\ CountsFit(Failed(c))
  OBVIOUS
<1> DEFINE d == [c EXCEPT !.failures = CountFailure(c), !.failIn = FailureWindow]
<1>1. /\ c.state \in States /\ c.failures \in 0 .. FailureThreshold
      /\ FailureWindow \in 0 .. FailureWindow
      /\ RecoveryTimeout \in 0 .. RecoveryTimeout
      /\ 0 \in 0 .. ProbeInterval /\ 0 \in 0 .. SuccessThreshold + 1
  BY ConfigAssumption DEF Circuit
<1>2. CountFailure(c) \in 0 .. FailureThreshold
  BY <1>1, ConfigAssumption DEF CountFailure
<1>3. /\ d \in Circuit /\ d.state = c.state /\ d.successes = c.successes
      /\ d.failures = CountFailure(c)
  BY <1>1, <1>2 DEF Circuit
<1> HIDE DEF d
<1>4. CASE c.state = "closed" /\ d.failures >= FailureThreshold
  <2>1. Failed(c) = [d EXCEPT !.state = "open", !.recoverIn = RecoveryTimeout]
    BY <1>4 DEF Failed, d
  <2> QED BY <1>1, <1>3, <1>4, <2>1 DEF Circuit, States, CountsFit
<1>5. CASE c.state = "closed" /\ ~(d.failures >= FailureThreshold)
  <2>1. Failed(c) = d
    BY <1>5 DEF Failed, d
  <2>2. d.failures < FailureThreshold
    BY <1>2, <1>3, <1>5, ConfigAssumption
  <2> QED BY <1>3, <1>5, <2>1, <2>2 DEF CountsFit
<1>6. CASE c.state = "half_open"
  <2>1. Failed(c) = [d EXCEPT !.state = "open", !.recoverIn = RecoveryTimeout,
                              !.successes = 0, !.probeIn = 0]
    BY <1>6 DEF Failed, d
  <2>2. Failed(c) \in Circuit
    BY <1>1, <1>3, <2>1 DEF Circuit, States
  <2>3. Failed(c).state = "open" /\ Failed(c).successes = 0
    BY <1>3, <2>1 DEF Circuit
  <2> QED BY <2>2, <2>3 DEF CountsFit
<1>7. CASE c.state = "open"
  <2>1. Failed(c) = d
    BY <1>7 DEF Failed, d
  <2> QED BY <1>3, <1>7, <2>1 DEF CountsFit
<1> QED BY <1>1, <1>4, <1>5, <1>6, <1>7 DEF States

------------------------------------------------------------------------------
Inv == TypeOK /\ CountsInv

LEMMA SaveInv ==
    ASSUME NEW c \in Circuit, CountsFit(c), Save(c)
    PROVE  cb' \in Circuit /\ ttl' \in Nat /\ CountsFit(cb')
BY ConfigAssumption DEF Save

LEMMA LetThroughType ==
    ASSUME TypeOK, NEW w \in Workers, LetThrough(w) \/ Deny(w)
    PROVE  pc' \in [Workers -> PCs] /\ quiet' \in 0 .. ProbeInterval
BY ConfigAssumption DEF TypeOK, LetThrough, Deny, Goto, PCs

LEMMA TouchType ==
    ASSUME TypeOK
    PROVE  /\ Touch \in [Workers -> {"none", "clean", "touched"}]
           /\ \A w \in Workers : [Touch EXCEPT ![w] = "none"]
                                    \in [Workers -> {"none", "clean", "touched"}]
BY DEF TypeOK, Touch

LEMMA InvStep == Inv /\ [Next]_vars => Inv'
<1> SUFFICES ASSUME Inv, [Next]_vars PROVE Inv'
  OBVIOUS
<1> USE DEF Inv
<1>0. /\ cb \in Circuit /\ CountsFit(cb)
      /\ \A w \in Workers : new[w] \in Circuit /\ CountsFit(new[w])
  BY DEF CountsInv, CountsConsistent, InFlightFit, TypeOK
\* It is enough to look at the circuits.
<1>1. ASSUME TypeOK', CountsFit(cb'), \A w \in Workers : CountsFit(new'[w])
      PROVE  Inv'
  BY <1>1 DEF CountsInv, CountsConsistent, InFlightFit
<1>2. ASSUME NEW w \in Workers, NEW c \in Circuit, CountsFit(c),
             new' = [new EXCEPT ![w] = c]
      PROVE  new' \in [Workers -> Circuit] /\ \A v \in Workers : CountsFit(new'[v])
  BY <1>2, <1>0 DEF TypeOK
<1>3. ASSUME NEW w \in Workers, Get(w) PROVE Inv'
  <2> DEFINE c == [cb EXCEPT !.probeIn = ProbeInterval]
  <2>1. new' = [new EXCEPT ![w] = c]
    BY <1>3 DEF Get
  <2>3. c \in Circuit /\ CountsFit(c)
    BY <1>0, ConfigAssumption DEF Circuit, CountsFit
  <2>2. pc' \in [Workers -> PCs] /\ quiet' \in 0 .. ProbeInterval
    BY <1>3, LetThroughType DEF Get, TypeOK, Goto, PCs
  <2> HIDE DEF c
  <2> QED BY <1>3, <1>0, <1>1, <1>2, <2>1, <2>2, <2>3 DEF Get, TypeOK
<1>4. ASSUME NEW w \in Workers, WatchOpen(w) PROVE Inv'
  <2>1. CASE UNCHANGED <<new, watch>> /\ (LetThrough(w) \/ Deny(w))
    BY <1>4, <2>1, <1>0, <1>1, LetThroughType DEF WatchOpen, TypeOK
  <2>2. CASE /\ new' = [new EXCEPT ![w] = [cb EXCEPT !.state = "half_open", !.successes = 0,
                                !.recoverIn = 0, !.probeIn = new[w].probeIn]]
             /\ watch' = [watch EXCEPT ![w] = "clean"]
             /\ Goto(w, "transit")
             /\ UNCHANGED quiet
    <3> DEFINE c == [cb EXCEPT !.state = "half_open", !.successes = 0,
                               !.recoverIn = 0, !.probeIn = new[w].probeIn]
    <3>1. c \in Circuit /\ CountsFit(c)
      <4>1. /\ new[w].probeIn \in 0 .. ProbeInterval
            /\ 0 \in 0 .. RecoveryTimeout /\ 0 \in 0 .. SuccessThreshold + 1
        BY <1>0, ConfigAssumption DEF Circuit
      <4>2. c \in Circuit
        BY <1>0, <4>1 DEF Circuit, States
      <4>3. c.state = "half_open" /\ c.successes = 0
        BY <1>0 DEF Circuit
      <4> QED BY <4>2, <4>3 DEF CountsFit
    <3>2. new' = [new EXCEPT ![w] = c]
      BY <2>2
    <3>3. pc' \in [Workers -> PCs] /\ watch' \in [Workers -> {"none", "clean", "touched"}]
      BY <2>2 DEF TypeOK, Goto, PCs
    <3> HIDE DEF c
    <3> QED BY <1>4, <2>2, <1>0, <1>1, <1>2, <3>1, <3>2, <3>3 DEF WatchOpen, TypeOK
  <2> QED BY <1>4, <2>1, <2>2 DEF WatchOpen
<1>5. ASSUME NEW w \in Workers, Transit(w) PROVE Inv'
  <2>1. cb' \in Circuit /\ ttl' \in Nat /\ CountsFit(cb')
    BY <1>5, <1>0, SaveInv DEF Transit, TypeOK
  <2>2. watch' \in [Workers -> {"none", "clean", "touched"}]
    BY <1>5, TouchType DEF Transit, TypeOK
  <2> QED BY <1>5, <1>0, <1>1, <2>1, <2>2, LetThroughType DEF Transit, TypeOK
<1>6. ASSUME NEW w \in Workers, ProbeLock(w) PROVE Inv'
  <2>1. CASE lock = 0 /\ lock' = ProbeInterval /\ Goto(w, "save") /\ UNCHANGED quiet
    <3>1. pc' \in [Workers -> PCs] /\ lock' \in 0 .. ProbeInterval
      BY <2>1, ConfigAssumption DEF TypeOK, Goto, PCs
    <3> QED BY <1>6, <2>1, <1>0, <1>1, <3>1 DEF ProbeLock, TypeOK
  <2>2. CASE (LetThrough(w) \/ Deny(w)) /\ UNCHANGED lock
    BY <1>6, <2>2, <1>0, <1>1, LetThroughType DEF ProbeLock, TypeOK
  <2> QED BY <1>6, <2>1, <2>2 DEF ProbeLock
<1>7. ASSUME NEW w \in Workers, SaveProbe(w) PROVE Inv'
  <2>1. cb' \in Circuit /\ ttl' \in Nat /\ CountsFit(cb')
    BY <1>7, <1>0, SaveInv DEF SaveProbe, TypeOK
  <2> QED BY <1>7, <1>0, <1>1, <2>1, TouchType, LetThroughType DEF SaveProbe, TypeOK
<1>8. ASSUME NEW w \in Workers, Deliver(w) PROVE Inv'
  BY <1>8, <1>0, <1>1 DEF Deliver, TypeOK, Goto, PCs
<1>9. ASSUME NEW w \in Workers, WatchRecord(w) PROVE Inv'
  <2>1. pc' \in [Workers -> PCs] /\ watch' \in [Workers -> {"none", "clean", "touched"}]
    BY <1>9 DEF WatchRecord, TypeOK, Goto, PCs
  <2>2. new' \in [Workers -> Circuit] /\ \A v \in Workers : CountsFit(new'[v])
    <3>1. Succeeded(cb) \in Circuit /\ CountsFit(Succeeded(cb))
      BY <1>0, SucceededFits
    <3>2. Failed(cb) \in Circuit /\ CountsFit(Failed(cb))
      BY <1>0, FailedFits
    <3>3. \/ new' = [new EXCEPT ![w] = Succeeded(cb)]
          \/ new' = [new EXCEPT ![w] = Failed(cb)]
          \/ new' = new
      BY <1>9 DEF WatchRecord
    <3> QED BY <1>0, <1>2, <3>1, <3>2, <3>3 DEF TypeOK
  <2> QED BY <1>9, <1>0, <1>1, <2>1, <2>2 DEF WatchRecord, TypeOK
<1>10. ASSUME NEW w \in Workers, Commit(w) PROVE Inv'
  <2>1. cb' \in Circuit /\ ttl' \in Nat /\ CountsFit(cb')
    BY <1>10, <1>0, SaveInv DEF Commit, TypeOK
  <2>2. watch' \in [Workers -> {"none", "clean", "touched"}]
    BY <1>10, TouchType DEF Commit, TypeOK
  <2> QED BY <1>10, <1>0, <1>1, <2>1, <2>2 DEF Commit, TypeOK, Goto, PCs
<1>11. CASE Tick
  <2>1. cb' \in Circuit /\ CountsFit(cb')
    BY <1>11, <1>0, ClosedType, AgeType DEF Tick
  <2>2. new' \in [Workers -> Circuit] /\ \A v \in Workers : CountsFit(new'[v])
    BY <1>11, <1>0, AgeType DEF Tick
  <2>3. lock' \in 0 .. ProbeInterval /\ quiet' \in 0 .. ProbeInterval
    BY <1>11, ConfigAssumption, DecType DEF Tick, TypeOK
  <2>4. ttl' \in Nat
    BY <1>11 DEF Tick, TypeOK, Dec
  <2> QED BY <1>11, <1>1, <2>1, <2>2, <2>3, <2>4, TouchType DEF Tick, TypeOK
<1>12. CASE Toggle
  BY <1>12, <1>0, <1>1 DEF Toggle, TypeOK
<1>13. CASE UNCHANGED vars
  BY <1>13, <1>0, <1>1 DEF vars, TypeOK
<1> QED BY <1>3, <1>4, <1>5, <1>6, <1>7, <1>8, <1>9, <1>10, <1>11, <1>12, <1>13
        DEF Next, UnderWay

LEMMA InvInit == Init => Inv
BY ClosedType, ConfigAssumption
   DEF Init, Inv, TypeOK, PCs, CountsInv, CountsConsistent, InFlightFit

\* Every reachable circuit is well typed.
THEOREM TypeCorrect == Spec => []TypeOK
<1>1. Inv => TypeOK
  BY DEF Inv
<1> QED BY <1>1, InvInit, InvStep, PTL DEF Spec

\* Whatever the thresholds, timeouts and number of workers, and although a probe
\* saves a circuit it read earlier, no state inherits a count of another one.
THEOREM CountsAlwaysConsistent == Spec => []CountsConsistent
<1>1. Inv => CountsConsistent
  BY DEF Inv, CountsInv
<1> QED BY <1>1, InvInit, InvStep, PTL DEF Spec
===============================================================================
