------------------------- MODULE ConcurrencyGateProofs -------------------------
(* Proofs about ConcurrencyGate, for any number of workers and endpoints.  *)
EXTENDS ConcurrencyGate, FiniteSetTheorems, TLAPS

------------------------------------------------------------------------------
(* Type correctness.                                                       *)

\* A limit, and the key of a gate, are what they should be.
LEMMA KeyOfType ==
    ASSUME TypeOK, NEW w \in Workers, NEW g \in Gates
    PROVE  KeyOf(w, g) \in Keys
  BY DEF TypeOK, KeyOf, Keys, Gates

\* Incr keeps the counters typed.
LEMMA IncrType ==
    ASSUME TypeOK, NEW k \in Keys, Incr(k)
    PROVE  count' \in [Keys -> Nat] /\ ttl' \in [Keys -> 0 .. InflightTTL]
  BY ConstantsAssumption DEF TypeOK, Incr

\* So does Decr.
LEMMA DecrType ==
    ASSUME TypeOK, NEW k \in Keys, Decr(k)
    PROVE  /\ count' \in [Keys -> Nat] /\ ttl' \in [Keys -> 0 .. InflightTTL]
           /\ faults' \in 0 .. FaultBound
  BY ConstantsAssumption DEF TypeOK, Decr, Fault

LEMMA TypeStep == ASSUME TypeOK, [Next]_vars PROVE TypeOK'
<1>1. CASE UNCHANGED vars
  BY <1>1 DEF vars, TypeOK
<1>2. ASSUME NEW w \in Workers, NEW e \in Endpoints, NEW l \in {"fast", "slow"},
             Arrive(w, e, l)
      PROVE  TypeOK'
  BY <1>2 DEF Arrive, TypeOK, Goto, PCs, Gates
<1>3. ASSUME NEW w \in Workers, Acquire(w) PROVE TypeOK'
  <2>1. gate[w] \in Gates
    BY DEF TypeOK
  <2>2. count' \in [Keys -> Nat] /\ ttl' \in [Keys -> 0 .. InflightTTL]
    BY <1>3, <2>1, KeyOfType, IncrType DEF Acquire
  <2> QED
    BY <1>3, <2>1, <2>2 DEF Acquire, Own, Proceed, Goto, TypeOK, PCs, Gates
<1>4. ASSUME NEW w \in Workers, AcquireError(w) PROVE TypeOK'
  <2>1. gate[w] \in Gates
    BY DEF TypeOK
  <2>2. count' \in [Keys -> Nat] /\ ttl' \in [Keys -> 0 .. InflightTTL]
    BY <1>4, <2>1, KeyOfType, IncrType DEF AcquireError, TypeOK
  <2>3. faults' \in 0 .. FaultBound
    BY <1>4, ConstantsAssumption DEF AcquireError, Fault, TypeOK
  <2>4. owns' \in [Workers -> SUBSET Gates]
    BY <1>4, <2>1 DEF AcquireError, Own, TypeOK
  <2> QED
    BY <1>4, <2>1, <2>2, <2>3, <2>4 DEF AcquireError, Proceed, Goto, TypeOK, PCs, Gates
<1>5. ASSUME NEW w \in Workers, UndoAcquire(w) PROVE TypeOK'
  <2>1. gate[w] \in Gates
    BY DEF TypeOK
  <2>2. /\ count' \in [Keys -> Nat] /\ ttl' \in [Keys -> 0 .. InflightTTL]
        /\ faults' \in 0 .. FaultBound
    BY <1>5, <2>1, KeyOfType, DecrType DEF UndoAcquire
  <2> QED
    BY <1>5, <2>2 DEF UndoAcquire, Disown, Goto, TypeOK, PCs
<1>6. ASSUME NEW w \in Workers, Divert(w) PROVE TypeOK'
  BY <1>6 DEF Divert, Proceed, Goto, TypeOK, PCs, Gates
<1>7. ASSUME NEW w \in Workers, Reacquire(w) PROVE TypeOK'
  <2>1. ep[w] \in Keys
    BY DEF TypeOK, Keys
  <2>2. count' \in [Keys -> Nat] /\ ttl' \in [Keys -> 0 .. InflightTTL]
    BY <1>7, <2>1, IncrType DEF Reacquire, TypeOK
  <2>3. faults' \in 0 .. FaultBound
    BY <1>7, ConstantsAssumption DEF Reacquire, Fault, TypeOK
  <2> QED
    BY <1>7, <2>2, <2>3 DEF Reacquire, Own, Goto, TypeOK, PCs, Gates
<1>8. ASSUME NEW w \in Workers, Deliver(w) PROVE TypeOK'
  BY <1>8 DEF Deliver, Goto, TypeOK, PCs
<1>9. ASSUME NEW w \in Workers, Release(w) PROVE TypeOK'
  <2>1. PICK g \in held[w] : /\ Decr(KeyOf(w, g)) /\ Disown(w, g)
                             /\ held' = [held EXCEPT ![w] = @ \ {g}]
    BY <1>9 DEF Release
  <2>2. g \in Gates
    BY DEF TypeOK
  <2>3. /\ count' \in [Keys -> Nat] /\ ttl' \in [Keys -> 0 .. InflightTTL]
        /\ faults' \in 0 .. FaultBound
    BY <2>1, <2>2, KeyOfType, DecrType
  <2> QED
    BY <1>9, <2>1, <2>3 DEF Release, Disown, TypeOK
<1>10. ASSUME NEW w \in Workers, Return(w) PROVE TypeOK'
  BY <1>10 DEF Return, Goto, TypeOK, PCs
<1>11. ASSUME NEW w \in Workers, Crash(w) PROVE TypeOK'
  BY <1>11, ConstantsAssumption DEF Crash, Fault, Goto, TypeOK, PCs
<1>12. CASE Tick
  BY <1>12, ConstantsAssumption DEF Tick, Fault, TypeOK
<1> QED
  BY <1>1, <1>2, <1>3, <1>4, <1>5, <1>6, <1>7, <1>8, <1>9, <1>10, <1>11, <1>12
     DEF Next, HandlerStep

\* Every variable keeps its type in every behaviour of the two gates.
THEOREM TypeCorrect == Spec => []TypeOK
<1>1. Init => TypeOK
  BY ConstantsAssumption DEF Init, TypeOK, PCs, Gates
<1>2. TypeOK /\ [Next]_vars => TypeOK'
  BY TypeStep
<1> QED
  BY <1>1, <1>2, PTL DEF Spec

------------------------------------------------------------------------------
(* The counters.                                                           *)

\* Where a worker's claims on the counters stand, when no INCR fails: what the
\* deferred functions will release is really counted, an INCR about to be taken
\* back too, a worker that handles nothing has nothing counted, and a worker at
\* a gate does not hold that gate's slot yet.
ClaimInv ==
    \A w \in Workers :
        /\ held[w] \subseteq owns[w]
        /\ pc[w] = "undo" => gate[w] \in owns[w]
        /\ pc[w] = "idle" => owns[w] = {}
        /\ pc[w] \in {"acquire", "undo", "divert", "reacquire"} =>
              held[w] \subseteq {"domain"} \ {gate[w]}

\* The strengthening of NeverUndercounts that is inductive.
CountInv == TypeOK /\ ClaimInv /\ NeverUndercounts

\* Sets of workers are finite and their cardinality is a number.
LEMMA WorkerSets ==
    ASSUME NEW S, S \subseteq Workers
    PROVE  IsFiniteSet(S) /\ Cardinality(S) \in Nat
  BY ConstantsAssumption, FS_Subset, FS_CardinalityType

\* A smaller set of workers counts no more.
LEMMA Shrink ==
    ASSUME NEW S, NEW T, S \subseteq Workers, T \subseteq S
    PROVE  Cardinality(T) <= Cardinality(S) /\ Cardinality(T) \in Nat
  BY WorkerSets, FS_Subset, FS_CardinalityType

\* One more worker counts at most one more.
LEMMA Grow ==
    ASSUME NEW S, NEW T, NEW w \in Workers, S \subseteq Workers, T \subseteq S \cup {w}
    PROVE  Cardinality(T) <= Cardinality(S) + 1 /\ Cardinality(T) \in Nat
<1>1. Cardinality(S \cup {w}) <= Cardinality(S) + 1 /\ Cardinality(S) \in Nat
  BY WorkerSets, FS_AddElement
<1>2. Cardinality(T) <= Cardinality(S \cup {w}) /\ Cardinality(T) \in Nat
  BY Shrink, S \cup {w} \subseteq Workers
<1>3. Cardinality(S \cup {w}) \in Nat
  BY WorkerSets, S \cup {w} \subseteq Workers
<1> QED
  BY <1>1, <1>2, <1>3

\* One worker less counts one less.
LEMMA Remove ==
    ASSUME NEW S, NEW T, NEW w \in S, S \subseteq Workers, T \subseteq S \ {w}
    PROVE  Cardinality(T) <= Cardinality(S) - 1 /\ Cardinality(T) \in Nat
           /\ Cardinality(S) \in Nat
<1>1. Cardinality(S \ {w}) = Cardinality(S) - 1 /\ Cardinality(S) \in Nat
  BY WorkerSets, FS_RemoveElement
<1>2. Cardinality(T) <= Cardinality(S \ {w}) /\ Cardinality(T) \in Nat
  BY Shrink
<1> QED
  BY <1>1, <1>2

LEMMA OwnersSubset == \A k \in Keys : Owners(k) \subseteq Workers
  BY DEF Owners

\* Incr with Own: the counter of the key grows by one, and so may its owners.
LEMMA IncrCounts ==
    ASSUME TypeOK, NeverUndercounts, NEW w \in Workers, NEW g \in Gates,
           Incr(KeyOf(w, g)), Own(w, g), ep' = ep
    PROVE  NeverUndercounts'
<1> SUFFICES ASSUME NEW k \in Keys PROVE count'[k] >= Cardinality(Owners(k)')
  BY DEF NeverUndercounts
<1>1. KeyOf(w, g) \in Keys
  BY KeyOfType
<1>2. count[k] \in Nat /\ count[k] >= Cardinality(Owners(k)) /\ Cardinality(Owners(k)) \in Nat
  BY OwnersSubset, WorkerSets DEF TypeOK, NeverUndercounts
<1>3. CASE k = KeyOf(w, g)
  <2>1. Owners(k)' \subseteq Owners(k) \cup {w}
    BY DEF Owners, Own, KeyOf, TypeOK
  <2>2. Cardinality(Owners(k)') <= Cardinality(Owners(k)) + 1 /\ Cardinality(Owners(k)') \in Nat
    BY <2>1, Grow, OwnersSubset
  <2>3. count'[k] = count[k] + 1
    BY <1>3 DEF Incr, TypeOK
  <2> QED
    BY <1>2, <2>2, <2>3
<1>4. CASE k # KeyOf(w, g)
  <2>1. Owners(k)' \subseteq Owners(k)
    BY <1>4 DEF Owners, Own, KeyOf, TypeOK
  <2>2. Cardinality(Owners(k)') <= Cardinality(Owners(k)) /\ Cardinality(Owners(k)') \in Nat
    BY <2>1, Shrink, OwnersSubset
  <2>3. count'[k] = count[k]
    BY <1>1, <1>4 DEF Incr, TypeOK
  <2> QED
    BY <1>2, <2>2, <2>3
<1> QED
  BY <1>3, <1>4

\* No Redis error on INCR, no decrement that is repeated and no handler that outlives
\* the TTL of its slot.
SlotsReliable == "incr" \notin Faults /\ "repeat" \notin Faults /\ "slow" \notin Faults

\* Decr with Disown: the owner leaves, and the counter falls by at most one.
LEMMA DecrCounts ==
    ASSUME SlotsReliable, TypeOK, NeverUndercounts, NEW w \in Workers, NEW g \in owns[w],
           Decr(KeyOf(w, g)), Disown(w, g), ep' = ep
    PROVE  NeverUndercounts'
<1> SUFFICES ASSUME NEW k \in Keys PROVE count'[k] >= Cardinality(Owners(k)')
  BY DEF NeverUndercounts
<1>0. g \in Gates
  BY DEF TypeOK
<1>1. KeyOf(w, g) \in Keys
  BY <1>0, KeyOfType
<1>2. count[k] \in Nat /\ count[k] >= Cardinality(Owners(k)) /\ Cardinality(Owners(k)) \in Nat
  BY OwnersSubset, WorkerSets DEF TypeOK, NeverUndercounts
<1>3. Owners(k)' \subseteq Owners(k)
  BY DEF Owners, Disown, KeyOf, TypeOK
<1>4. Cardinality(Owners(k)') <= Cardinality(Owners(k)) /\ Cardinality(Owners(k)') \in Nat
  BY <1>3, Shrink, OwnersSubset
<1>5. CASE count'[k] = count[k]
  BY <1>2, <1>4, <1>5
<1>6. CASE count'[k] # count[k]
  <2>1. k = KeyOf(w, g) /\ count'[k] \in Nat /\ count'[k] >= count[k] - 1
    BY <1>1, <1>2, <1>6 DEF Decr, Fault, SlotsReliable, TypeOK
  <2>2. w \in Owners(k)
    BY <2>1 DEF Owners
  <2>3. Owners(k)' \subseteq Owners(k) \ {w}
    BY <1>0, <2>1, ConstantsAssumption DEF Owners, Disown, KeyOf, TypeOK, Gates
  <2>4. Cardinality(Owners(k)') <= Cardinality(Owners(k)) - 1
    BY <2>2, <2>3, Remove, OwnersSubset
  <2> QED
    BY <1>2, <1>4, <2>1, <2>4
<1> QED
  BY <1>5, <1>6

\* Counters unchanged, owners at most fewer.
LEMMA FewerCounts ==
    ASSUME TypeOK, NeverUndercounts, count' = count,
           \A k \in Keys : Owners(k)' \subseteq Owners(k)
    PROVE  NeverUndercounts'
<1> SUFFICES ASSUME NEW k \in Keys PROVE count'[k] >= Cardinality(Owners(k)')
  BY DEF NeverUndercounts
<1>1. Cardinality(Owners(k)') <= Cardinality(Owners(k)) /\ Cardinality(Owners(k)') \in Nat
  BY Shrink, OwnersSubset
<1>2. count[k] \in Nat /\ count[k] >= Cardinality(Owners(k)) /\ Cardinality(Owners(k)) \in Nat
  BY OwnersSubset, WorkerSets DEF TypeOK, NeverUndercounts
<1> QED
  BY <1>1, <1>2

\* Every step keeps the claims in order.
LEMMA ClaimStep == ASSUME SlotsReliable, TypeOK, ClaimInv, [Next]_vars PROVE ClaimInv'
<1>1. CASE UNCHANGED vars
  BY <1>1 DEF vars, ClaimInv
<1>2. ASSUME NEW w \in Workers, NEW e \in Endpoints, NEW l \in {"fast", "slow"},
             Arrive(w, e, l)
      PROVE  ClaimInv'
  BY <1>2 DEF Arrive, ClaimInv, TypeOK, Goto
<1>3. ASSUME NEW w \in Workers, Acquire(w) PROVE ClaimInv'
  BY <1>3 DEF Acquire, Own, Proceed, ClaimInv, TypeOK, Goto
<1>4. ASSUME NEW w \in Workers, AcquireError(w) PROVE ClaimInv'
  BY <1>4 DEF AcquireError, Fault, SlotsReliable
<1>5. ASSUME NEW w \in Workers, UndoAcquire(w) PROVE ClaimInv'
  BY <1>5 DEF UndoAcquire, Disown, ClaimInv, TypeOK, Goto
<1>6. ASSUME NEW w \in Workers, Divert(w) PROVE ClaimInv'
  BY <1>6 DEF Divert, Proceed, ClaimInv, TypeOK, Goto
<1>7. ASSUME NEW w \in Workers, Reacquire(w) PROVE ClaimInv'
  BY <1>7 DEF Reacquire, Own, Fault, SlotsReliable, ClaimInv, TypeOK, Goto
<1>8. ASSUME NEW w \in Workers, Deliver(w) PROVE ClaimInv'
  BY <1>8 DEF Deliver, ClaimInv, TypeOK, Goto
<1>9. ASSUME NEW w \in Workers, Release(w) PROVE ClaimInv'
  BY <1>9 DEF Release, Disown, ClaimInv, TypeOK
<1>10. ASSUME NEW w \in Workers, Return(w) PROVE ClaimInv'
  BY <1>10 DEF Return, ClaimInv, TypeOK, Goto
<1>11. ASSUME NEW w \in Workers, Crash(w) PROVE ClaimInv'
  BY <1>11 DEF Crash, ClaimInv, TypeOK, Goto
<1>12. CASE Tick
  BY <1>12 DEF Tick, ClaimInv
<1> QED
  BY <1>1, <1>2, <1>3, <1>4, <1>5, <1>6, <1>7, <1>8, <1>9, <1>10, <1>11, <1>12
     DEF Next, HandlerStep

\* Every step keeps the counters from falling behind.
LEMMA CountStep ==
    ASSUME SlotsReliable, CountInv, [Next]_vars PROVE NeverUndercounts'
<1> USE DEF CountInv
<1>1. CASE UNCHANGED vars
  BY <1>1 DEF vars, NeverUndercounts, Owners, KeyOf
<1>2. ASSUME NEW w \in Workers, NEW e \in Endpoints, NEW l \in {"fast", "slow"},
             Arrive(w, e, l)
      PROVE  NeverUndercounts'
  <2>1. owns[w] = {} /\ owns' = owns
    BY <1>2 DEF Arrive, ClaimInv
  <2>2. \A k \in Keys : Owners(k)' \subseteq Owners(k)
    BY <1>2, <2>1 DEF Arrive, Owners, KeyOf, TypeOK
  <2> QED
    BY <1>2, <2>2, FewerCounts DEF Arrive
<1>3. ASSUME NEW w \in Workers, Acquire(w) PROVE NeverUndercounts'
  <2>1. gate[w] \in Gates /\ ep' = ep /\ Incr(KeyOf(w, gate[w])) /\ Own(w, gate[w])
    BY <1>3 DEF Acquire, TypeOK
  <2> QED
    BY <2>1, IncrCounts
<1>4. ASSUME NEW w \in Workers, AcquireError(w) PROVE NeverUndercounts'
  BY <1>4 DEF AcquireError, Fault, SlotsReliable
<1>5. ASSUME NEW w \in Workers, UndoAcquire(w) PROVE NeverUndercounts'
  <2>1. /\ gate[w] \in owns[w] /\ ep' = ep
        /\ Decr(KeyOf(w, gate[w])) /\ Disown(w, gate[w])
    BY <1>5 DEF UndoAcquire, ClaimInv
  <2> QED
    BY <2>1, DecrCounts
<1>6. ASSUME NEW w \in Workers, Divert(w) PROVE NeverUndercounts'
  BY <1>6 DEF Divert, NeverUndercounts, Owners, KeyOf
<1>7. ASSUME NEW w \in Workers, Reacquire(w) PROVE NeverUndercounts'
  <2>1. Incr(ep[w]) /\ Own(w, "endpoint") /\ ep' = ep
    BY <1>7 DEF Reacquire, Fault, SlotsReliable
  <2>2. ep[w] = KeyOf(w, "endpoint") /\ "endpoint" \in Gates
    BY DEF KeyOf, Gates
  <2> QED
    BY <2>1, <2>2, IncrCounts
<1>8. ASSUME NEW w \in Workers, Deliver(w) PROVE NeverUndercounts'
  BY <1>8 DEF Deliver, NeverUndercounts, Owners, KeyOf
<1>9. ASSUME NEW w \in Workers, Release(w) PROVE NeverUndercounts'
  <2>1. PICK g \in held[w] : Decr(KeyOf(w, g)) /\ Disown(w, g)
    BY <1>9 DEF Release
  <2>2. g \in owns[w] /\ ep' = ep
    BY <1>9 DEF ClaimInv, Release
  <2> QED
    BY <2>1, <2>2, DecrCounts
<1>10. ASSUME NEW w \in Workers, Return(w) PROVE NeverUndercounts'
  <2>1. \A k \in Keys : Owners(k)' \subseteq Owners(k)
    BY <1>10 DEF Return, Owners, KeyOf, TypeOK
  <2> QED
    BY <1>10, <2>1, FewerCounts DEF Return
<1>11. ASSUME NEW w \in Workers, Crash(w) PROVE NeverUndercounts'
  <2>1. \A k \in Keys : Owners(k)' \subseteq Owners(k)
    BY <1>11 DEF Crash, Owners, KeyOf, TypeOK
  <2> QED
    BY <1>11, <2>1, FewerCounts DEF Crash
<1>12. CASE Tick
  <2> SUFFICES ASSUME NEW k \in Keys PROVE count'[k] >= Cardinality(Owners(k)')
    BY DEF NeverUndercounts
  <2>1. Owners(k)' = Owners(k)
    BY <1>12 DEF Tick, Owners, KeyOf
  <2>2. CASE ttl[k] = 1
    <3>1. Owners(k) = {} /\ count'[k] = 0
      BY <1>12, <2>2 DEF Tick, Outlasted, Fault, SlotsReliable
    <3> QED
      BY <2>1, <3>1, FS_EmptySet
  <2>3. CASE ttl[k] # 1
    BY <1>12, <2>1, <2>3 DEF Tick, NeverUndercounts
  <2> QED
    BY <2>2, <2>3
<1> QED
  BY <1>1, <1>2, <1>3, <1>4, <1>5, <1>6, <1>7, <1>8, <1>9, <1>10, <1>11, <1>12
     DEF Next, HandlerStep

LEMMA CountInit == Init => CountInv
<1> SUFFICES ASSUME Init PROVE CountInv
  OBVIOUS
<1>1. TypeOK
  BY ConstantsAssumption DEF Init, TypeOK, PCs, Gates
<1>2. ClaimInv
  BY DEF Init, ClaimInv
<1>3. \A k \in Keys : Owners(k) = {} /\ count[k] = 0
  BY DEF Init, Owners
<1>4. NeverUndercounts
  BY <1>3, FS_EmptySet DEF NeverUndercounts
<1> QED
  BY <1>1, <1>2, <1>4 DEF CountInv

\* Unless an INCR fails, a decrement is repeated or a handler outlives the TTL, no
\* crash, no failed decrement and no failed diversion makes a counter smaller than
\* the number of workers that stand in it.
THEOREM CountersNeverUndercount == SlotsReliable => (Spec => []NeverUndercounts)
<1> SUFFICES ASSUME SlotsReliable PROVE Spec => []NeverUndercounts
  OBVIOUS
<1>1. CountInv /\ [Next]_vars => CountInv'
  BY TypeStep, ClaimStep, CountStep DEF CountInv
<1>2. CountInv => NeverUndercounts
  BY DEF CountInv
<1> QED
  BY <1>1, <1>2, CountInit, PTL DEF Spec

------------------------------------------------------------------------------
(* The limits.                                                             *)

\* Workers that were admitted under a slot of the key and have not released it.
Holders(k) == {w \in Workers : \E g \in held[w] : KeyOf(w, g) = k}
LimitOf(k) == IF k = Domain THEN MaxDomain ELSE MaxInflight

WithinLimit == \A k \in Keys : Cardinality(Holders(k)) <= LimitOf(k)

\* Without failed diversions an INCR that stands was admitted, or is about to be
\* taken back.
AdmitInv ==
    \A w \in Workers :
        /\ pc[w] # "reacquire"
        /\ owns[w] \subseteq held[w] \cup (IF pc[w] = "undo" THEN {gate[w]} ELSE {})

LimitInv == CountInv /\ AdmitInv /\ WithinLimit

Reliable == SlotsReliable /\ "kafka" \notin Faults

LEMMA HoldersSubset == \A k \in Keys : Holders(k) \subseteq Workers
  BY DEF Holders

LEMMA AdmitStep ==
    ASSUME Reliable, CountInv, AdmitInv, [Next]_vars PROVE AdmitInv'
<1> USE DEF CountInv
<1>1. CASE UNCHANGED vars
  BY <1>1 DEF vars, AdmitInv
<1>2. ASSUME NEW w \in Workers, NEW e \in Endpoints, NEW l \in {"fast", "slow"},
             Arrive(w, e, l)
      PROVE  AdmitInv'
  BY <1>2 DEF Arrive, AdmitInv, TypeOK, Goto
<1>3. ASSUME NEW w \in Workers, Acquire(w) PROVE AdmitInv'
  BY <1>3 DEF Acquire, Own, Proceed, AdmitInv, TypeOK, Goto
<1>4. ASSUME NEW w \in Workers, AcquireError(w) PROVE AdmitInv'
  BY <1>4 DEF AcquireError, Fault, Reliable, SlotsReliable
<1>5. ASSUME NEW w \in Workers, UndoAcquire(w) PROVE AdmitInv'
  BY <1>5 DEF UndoAcquire, Disown, AdmitInv, TypeOK, Goto
<1>6. ASSUME NEW w \in Workers, Divert(w) PROVE AdmitInv'
  BY <1>6 DEF Divert, Reliable, AdmitInv, TypeOK, Goto
<1>7. ASSUME NEW w \in Workers, Reacquire(w) PROVE AdmitInv'
  BY <1>7 DEF Reacquire, AdmitInv
<1>8. ASSUME NEW w \in Workers, Deliver(w) PROVE AdmitInv'
  BY <1>8 DEF Deliver, AdmitInv, TypeOK, Goto
<1>9. ASSUME NEW w \in Workers, Release(w) PROVE AdmitInv'
  BY <1>9 DEF Release, Disown, AdmitInv, TypeOK
<1>10. ASSUME NEW w \in Workers, Return(w) PROVE AdmitInv'
  BY <1>10 DEF Return, AdmitInv, TypeOK, Goto
<1>11. ASSUME NEW w \in Workers, Crash(w) PROVE AdmitInv'
  BY <1>11 DEF Crash, AdmitInv, TypeOK, Goto
<1>12. CASE Tick
  BY <1>12 DEF Tick, AdmitInv
<1> QED
  BY <1>1, <1>2, <1>3, <1>4, <1>5, <1>6, <1>7, <1>8, <1>9, <1>10, <1>11, <1>12
     DEF Next, HandlerStep

\* A step after which no key has a new holder stays within the limits.
LEMMA FewerHolders ==
    ASSUME WithinLimit, \A k \in Keys : Holders(k)' \subseteq Holders(k)
    PROVE  WithinLimit'
<1> SUFFICES ASSUME NEW k \in Keys PROVE Cardinality(Holders(k)') <= LimitOf(k)
  BY DEF WithinLimit, LimitOf
<1>1. Cardinality(Holders(k)') <= Cardinality(Holders(k)) /\ Cardinality(Holders(k)') \in Nat
  BY Shrink, HoldersSubset
<1>2. Cardinality(Holders(k)) \in Nat /\ LimitOf(k) \in Nat
  BY WorkerSets, HoldersSubset, ConstantsAssumption DEF LimitOf
<1> QED
  BY <1>1, <1>2 DEF WithinLimit

\* The worker that is admitted is one of at most as many holders as its counter
\* says, because the counter never falls behind.
LEMMA AcquireWithin ==
    ASSUME CountInv, CountInv', WithinLimit, NEW w \in Workers, Acquire(w)
    PROVE  WithinLimit'
<1> SUFFICES ASSUME NEW k \in Keys PROVE Cardinality(Holders(k)') <= LimitOf(k)
  BY DEF WithinLimit, LimitOf
<1> DEFINE g == gate[w]
<1>0. g \in Gates /\ KeyOf(w, g) \in Keys /\ TypeOK
  BY KeyOfType DEF CountInv, TypeOK
<1>1. Cardinality(Holders(k)) \in Nat /\ LimitOf(k) \in Nat /\ Cardinality(Holders(k)) <= LimitOf(k)
  BY WorkerSets, HoldersSubset, ConstantsAssumption DEF LimitOf, WithinLimit
<1>2. CASE KeyOf(w, g) # k \/ held' = held
  <2>1. Holders(k)' \subseteq Holders(k)
    BY <1>0, <1>2 DEF Acquire, Holders, KeyOf, TypeOK
  <2>2. Cardinality(Holders(k)') <= Cardinality(Holders(k)) /\ Cardinality(Holders(k)') \in Nat
    BY <2>1, Shrink, HoldersSubset
  <2> QED
    BY <1>1, <2>2
<1>3. CASE KeyOf(w, g) = k /\ held' # held
  <2>1. count[k] + 1 <= Limit(g) /\ count'[k] = count[k] + 1
    BY <1>0, <1>3 DEF Acquire, Incr, TypeOK
  <2>2. Limit(g) = LimitOf(k)
    BY <1>0, <1>3, ConstantsAssumption DEF Limit, LimitOf, KeyOf, TypeOK, Gates
  <2>3. Holders(k)' \subseteq Owners(k)'
    BY DEF Holders, Owners, CountInv, ClaimInv
  <2>4. Owners(k)' \subseteq Workers
    BY DEF Owners
  <2>5. /\ Cardinality(Holders(k)') <= Cardinality(Owners(k)')
        /\ Cardinality(Holders(k)') \in Nat /\ Cardinality(Owners(k)') \in Nat
    BY <2>3, <2>4, Shrink, WorkerSets
  <2>6. count'[k] >= Cardinality(Owners(k)') /\ count'[k] \in Nat
    BY DEF CountInv, NeverUndercounts, TypeOK
  <2> QED
    BY <1>1, <2>1, <2>2, <2>5, <2>6
<1> QED
  BY <1>2, <1>3

LEMMA WithinStep ==
    ASSUME Reliable, CountInv, CountInv', AdmitInv, WithinLimit, [Next]_vars
    PROVE  WithinLimit'
<1> DEFINE Fewer == \A k \in Keys : Holders(k)' \subseteq Holders(k)
<1> USE DEF CountInv
<1>1. CASE UNCHANGED vars
  <2>1. Fewer
    BY <1>1 DEF vars, Holders, KeyOf
  <2> QED
    BY <2>1, FewerHolders
<1>2. ASSUME NEW w \in Workers, NEW e \in Endpoints, NEW l \in {"fast", "slow"},
             Arrive(w, e, l)
      PROVE  WithinLimit'
  <2>1. held[w] = {} /\ held' = held
    BY <1>2 DEF Arrive, ClaimInv
  <2>2. Fewer
    BY <1>2, <2>1 DEF Arrive, Holders, KeyOf, TypeOK
  <2> QED
    BY <2>2, FewerHolders
<1>3. ASSUME NEW w \in Workers, Acquire(w) PROVE WithinLimit'
  BY <1>3, AcquireWithin
<1>4. ASSUME NEW w \in Workers, AcquireError(w) PROVE WithinLimit'
  BY <1>4 DEF AcquireError, Fault, Reliable, SlotsReliable
<1>5. ASSUME NEW w \in Workers,
             UndoAcquire(w) \/ Divert(w) \/ Deliver(w) \/ Return(w)
      PROVE  WithinLimit'
  <2>1. held' = held /\ ep' = ep
    BY <1>5 DEF UndoAcquire, Divert, Deliver, Return
  <2>2. Fewer
    BY <2>1 DEF Holders, KeyOf
  <2> QED
    BY <2>2, FewerHolders
<1>6. ASSUME NEW w \in Workers, Reacquire(w) PROVE WithinLimit'
  BY <1>6 DEF Reacquire, AdmitInv
<1>7. ASSUME NEW w \in Workers, Release(w) \/ Crash(w) PROVE WithinLimit'
  <2>1. ep' = ep /\ \A v \in Workers : held'[v] \subseteq held[v]
    BY <1>7 DEF Release, Crash, TypeOK
  <2>2. Fewer
    BY <2>1 DEF Holders, KeyOf
  <2> QED
    BY <2>2, FewerHolders
<1>8. CASE Tick
  <2>1. Fewer
    BY <1>8 DEF Tick, Holders, KeyOf
  <2> QED
    BY <2>1, FewerHolders
<1> QED
  BY <1>1, <1>2, <1>3, <1>4, <1>5, <1>6, <1>7, <1>8 DEF Next, HandlerStep

\* What is delivered under a slot is held.
LEMMA LimitInvImplies == LimitInv => LimitRespected
<1> SUFFICES ASSUME LimitInv PROVE LimitRespected
  OBVIOUS
<1>1. ASSUME NEW k \in Keys PROVE Cardinality(Delivering(k)) <= LimitOf(k)
  <2>1. Delivering(k) \subseteq Holders(k)
    BY DEF LimitInv, AdmitInv, Delivering, Holders, Owners
  <2>2. Cardinality(Delivering(k)) <= Cardinality(Holders(k)) /\ Cardinality(Delivering(k)) \in Nat
    BY <2>1, Shrink, HoldersSubset
  <2>3. Cardinality(Holders(k)) \in Nat /\ LimitOf(k) \in Nat /\ Cardinality(Holders(k)) <= LimitOf(k)
    BY WorkerSets, HoldersSubset, ConstantsAssumption DEF LimitOf, WithinLimit, LimitInv
  <2> QED
    BY <2>2, <2>3
<1> QED
  BY <1>1, ConstantsAssumption DEF LimitRespected, LimitOf, Keys

\* Workers count themselves in before they look, crash, and fail to count
\* themselves out; still no domain and no endpoint ever has more deliveries
\* under way than its limit.
THEOREM LimitsHold == Reliable => (Spec => []LimitRespected)
<1> SUFFICES ASSUME Reliable PROVE Spec => []LimitRespected
  OBVIOUS
<1>1. Init => LimitInv
  <2> SUFFICES ASSUME Init PROVE LimitInv
    OBVIOUS
  <2>1. AdmitInv
    BY DEF Init, AdmitInv
  <2>2. \A k \in Keys : Holders(k) = {} /\ LimitOf(k) \in Nat
    BY ConstantsAssumption DEF Init, Holders, LimitOf
  <2>3. WithinLimit
    BY <2>2, FS_EmptySet DEF WithinLimit
  <2> QED
    BY <2>1, <2>3, CountInit DEF LimitInv
<1>2. LimitInv /\ [Next]_vars => LimitInv'
  <2> SUFFICES ASSUME LimitInv, [Next]_vars PROVE LimitInv'
    OBVIOUS
  <2>1. CountInv'
    BY TypeStep, ClaimStep, CountStep DEF LimitInv, CountInv, Reliable
  <2> QED
    BY <2>1, AdmitStep, WithinStep DEF LimitInv
<1> QED
  BY <1>1, <1>2, LimitInvImplies, PTL DEF Spec

------------------------------------------------------------------------------
(* Exact counters.                                                         *)

\* The claims of the workers while nothing has gone wrong: an INCR stands
\* exactly for the slots that will be released and for the one about to be taken
\* back, and no worker comes to a gate in whose counter it stands already.
ExactClaims ==
    \A w \in Workers :
        /\ owns[w] = held[w] \cup (IF pc[w] = "undo" THEN {gate[w]} ELSE {})
        /\ pc[w] = "idle" => held[w] = {}
        /\ pc[w] \in {"acquire", "undo", "divert", "reacquire"} =>
              held[w] \subseteq {"domain"} \ {gate[w]}

Exact == \A k \in Keys : count[k] = Cardinality(Owners(k))

ExactInv == TypeOK /\ (faults = 0 => ExactClaims /\ Exact)

\* A step after which there has been no fault is no fault, and there was none
\* before it.
LEMMA NoFault ==
    ASSUME TypeOK, [Next]_vars, faults' = 0
    PROVE  faults = 0 /\ \A f : ~Fault(f)
<1>1. faults \in Nat
  BY DEF TypeOK
<1>2. \A f : ~Fault(f)
  BY <1>1 DEF Fault
<1>3. faults' = faults
  BY <1>2 DEF Next, vars, Arrive, HandlerStep, Acquire, AcquireError, UndoAcquire, Divert,
              Reacquire, Deliver, Release, Return, Crash, Tick, Decr
<1> QED
  BY <1>2, <1>3

\* Every step without a fault keeps the claims exact.
LEMMA ExactClaimStep ==
    ASSUME TypeOK, ExactClaims, [Next]_vars, \A f : ~Fault(f)
    PROVE  ExactClaims'
<1>1. CASE UNCHANGED vars
  BY <1>1 DEF vars, ExactClaims
<1>2. ASSUME NEW w \in Workers, NEW e \in Endpoints, NEW l \in {"fast", "slow"},
             Arrive(w, e, l)
      PROVE  ExactClaims'
  BY <1>2 DEF Arrive, ExactClaims, TypeOK, Goto
<1>3. ASSUME NEW w \in Workers, Acquire(w) PROVE ExactClaims'
  BY <1>3 DEF Acquire, Own, Proceed, ExactClaims, TypeOK, Goto
<1>4. ASSUME NEW w \in Workers, AcquireError(w) \/ Crash(w) PROVE ExactClaims'
  BY <1>4 DEF AcquireError, Crash
<1>5. ASSUME NEW w \in Workers, UndoAcquire(w) PROVE ExactClaims'
  BY <1>5 DEF UndoAcquire, Disown, ExactClaims, TypeOK, Goto
<1>6. ASSUME NEW w \in Workers, Divert(w) PROVE ExactClaims'
  BY <1>6 DEF Divert, Proceed, ExactClaims, TypeOK, Goto
<1>7. ASSUME NEW w \in Workers, Reacquire(w) PROVE ExactClaims'
  BY <1>7 DEF Reacquire, Own, ExactClaims, TypeOK, Goto
<1>8. ASSUME NEW w \in Workers, Deliver(w) PROVE ExactClaims'
  BY <1>8 DEF Deliver, ExactClaims, TypeOK, Goto
<1>9. ASSUME NEW w \in Workers, Release(w) PROVE ExactClaims'
  BY <1>9 DEF Release, Disown, ExactClaims, TypeOK
<1>10. ASSUME NEW w \in Workers, Return(w) PROVE ExactClaims'
  BY <1>10 DEF Return, ExactClaims, TypeOK, Goto
<1>11. CASE Tick
  BY <1>11 DEF Tick, ExactClaims
<1> QED
  BY <1>1, <1>2, <1>3, <1>4, <1>5, <1>6, <1>7, <1>8, <1>9, <1>10, <1>11
     DEF Next, HandlerStep

\* Incr with Own by a worker that does not stand in the counter yet.
LEMMA IncrExact ==
    ASSUME TypeOK, Exact, NEW w \in Workers, NEW g \in Gates, g \notin owns[w],
           Incr(KeyOf(w, g)), Own(w, g), ep' = ep
    PROVE  Exact'
<1> SUFFICES ASSUME NEW k \in Keys PROVE count'[k] = Cardinality(Owners(k)')
  BY DEF Exact
<1>1. KeyOf(w, g) \in Keys /\ count[k] = Cardinality(Owners(k))
  BY KeyOfType DEF Exact
<1>2. CASE k = KeyOf(w, g)
  <2>1. w \notin Owners(k)
    BY <1>2, ConstantsAssumption DEF Owners, KeyOf, TypeOK, Gates
  <2>2. Owners(k)' = Owners(k) \cup {w}
    BY <1>2 DEF Owners, Own, KeyOf, TypeOK
  <2>3. IsFiniteSet(Owners(k))
    BY OwnersSubset, WorkerSets
  <2>4. Cardinality(Owners(k)') = Cardinality(Owners(k)) + 1
    BY <2>1, <2>2, <2>3, FS_AddElement
  <2>5. count'[k] = count[k] + 1
    BY <1>2 DEF Incr, TypeOK
  <2> QED
    BY <1>1, <2>4, <2>5
<1>3. CASE k # KeyOf(w, g)
  <2>1. Owners(k)' = Owners(k)
    BY <1>3 DEF Owners, Own, KeyOf, TypeOK
  <2>2. count'[k] = count[k]
    BY <1>1, <1>3 DEF Incr, TypeOK
  <2> QED
    BY <1>1, <2>1, <2>2
<1> QED
  BY <1>2, <1>3

\* Decr with Disown by a worker that stands in the counter: the guard of the
\* script, which stops at 0, never matters.
LEMMA DecrExact ==
    ASSUME TypeOK, Exact, NEW w \in Workers, NEW g \in owns[w], \A f : ~Fault(f),
           Decr(KeyOf(w, g)), Disown(w, g), ep' = ep
    PROVE  Exact'
<1> SUFFICES ASSUME NEW k \in Keys PROVE count'[k] = Cardinality(Owners(k)')
  BY DEF Exact
<1>1. g \in Gates
  BY DEF TypeOK
<1>2. KeyOf(w, g) \in Keys /\ count[k] = Cardinality(Owners(k))
  BY <1>1, KeyOfType DEF Exact
<1>3. count' = [count EXCEPT ![KeyOf(w, g)] = IF @ > 0 THEN @ - 1 ELSE 0]
  BY DEF Decr
<1>4. CASE k = KeyOf(w, g)
  <2>1. w \in Owners(k)
    BY <1>4 DEF Owners
  <2>2. Owners(k)' = Owners(k) \ {w}
    BY <1>1, <1>4, ConstantsAssumption DEF Owners, Disown, KeyOf, TypeOK, Gates
  <2>3. IsFiniteSet(Owners(k)) /\ Cardinality(Owners(k)) \in Nat
    BY OwnersSubset, WorkerSets
  <2>4. Cardinality(Owners(k)') = Cardinality(Owners(k)) - 1
    BY <2>1, <2>2, <2>3, FS_RemoveElement
  <2>5. Cardinality(Owners(k)) > 0
    BY <2>1, <2>3, FS_EmptySet
  <2>6. count'[k] = count[k] - 1
    BY <1>2, <1>3, <1>4, <2>5 DEF TypeOK
  <2> QED
    BY <1>2, <2>4, <2>6
<1>5. CASE k # KeyOf(w, g)
  <2>1. Owners(k)' = Owners(k)
    BY <1>1, <1>5 DEF Owners, Disown, KeyOf, TypeOK
  <2>2. count'[k] = count[k]
    BY <1>2, <1>3, <1>5 DEF TypeOK
  <2> QED
    BY <1>2, <2>1, <2>2
<1> QED
  BY <1>4, <1>5

\* Neither counters nor owners change.
LEMMA SameExact ==
    ASSUME Exact, count' = count, \A k \in Keys : Owners(k)' = Owners(k)
    PROVE  Exact'
  BY DEF Exact

\* Every step without a fault keeps the counters exact.
LEMMA ExactStep ==
    ASSUME TypeOK, ExactClaims, Exact, [Next]_vars, \A f : ~Fault(f)
    PROVE  Exact'
<1>1. CASE UNCHANGED vars
  BY <1>1, SameExact DEF vars, Owners, KeyOf
<1>2. ASSUME NEW w \in Workers, NEW e \in Endpoints, NEW l \in {"fast", "slow"},
             Arrive(w, e, l)
      PROVE  Exact'
  <2>1. owns[w] = {} /\ owns' = owns
    BY <1>2 DEF Arrive, ExactClaims
  <2>2. \A k \in Keys : Owners(k)' = Owners(k)
    BY <1>2, <2>1 DEF Arrive, Owners, KeyOf, TypeOK
  <2> QED
    BY <1>2, <2>2, SameExact DEF Arrive
<1>3. ASSUME NEW w \in Workers, Acquire(w) PROVE Exact'
  <2>1. gate[w] \in Gates /\ ep' = ep /\ Incr(KeyOf(w, gate[w])) /\ Own(w, gate[w])
    BY <1>3 DEF Acquire, TypeOK
  <2>2. gate[w] \notin owns[w]
    BY <1>3 DEF Acquire, ExactClaims
  <2> QED
    BY <2>1, <2>2, IncrExact
<1>4. ASSUME NEW w \in Workers, AcquireError(w) \/ Crash(w) PROVE Exact'
  BY <1>4 DEF AcquireError, Crash
<1>5. ASSUME NEW w \in Workers, UndoAcquire(w) PROVE Exact'
  <2>1. /\ gate[w] \in owns[w] /\ ep' = ep
        /\ Decr(KeyOf(w, gate[w])) /\ Disown(w, gate[w])
    BY <1>5 DEF UndoAcquire, ExactClaims
  <2> QED
    BY <2>1, DecrExact
<1>6. ASSUME NEW w \in Workers, Divert(w) \/ Deliver(w) PROVE Exact'
  BY <1>6, SameExact DEF Divert, Deliver, Owners, KeyOf
<1>7. ASSUME NEW w \in Workers, Reacquire(w) PROVE Exact'
  <2>1. Incr(ep[w]) /\ Own(w, "endpoint") /\ ep' = ep
    BY <1>7 DEF Reacquire
  <2>2. ep[w] = KeyOf(w, "endpoint") /\ "endpoint" \in Gates /\ "endpoint" \notin owns[w]
    BY <1>7 DEF KeyOf, Gates, Reacquire, ExactClaims
  <2> QED
    BY <2>1, <2>2, IncrExact
<1>8. ASSUME NEW w \in Workers, Release(w) PROVE Exact'
  <2>1. PICK g \in held[w] : Decr(KeyOf(w, g)) /\ Disown(w, g)
    BY <1>8 DEF Release
  <2>2. g \in owns[w] /\ ep' = ep
    BY <1>8 DEF ExactClaims, Release
  <2> QED
    BY <2>1, <2>2, DecrExact
<1>9. ASSUME NEW w \in Workers, Return(w) PROVE Exact'
  <2>1. owns[w] = {} /\ owns' = [owns EXCEPT ![w] = {}] /\ UNCHANGED <<count, ep>>
    BY <1>9 DEF Return, ExactClaims
  <2>2. \A k \in Keys : Owners(k)' = Owners(k)
    BY <2>1 DEF Owners, KeyOf, TypeOK
  <2> QED
    BY <2>1, <2>2, SameExact
<1>10. CASE Tick
  <2> SUFFICES ASSUME NEW k \in Keys PROVE count'[k] = Cardinality(Owners(k)')
    BY DEF Exact
  <2>1. Owners(k)' = Owners(k)
    BY <1>10 DEF Tick, Owners, KeyOf
  <2>2. CASE ttl[k] = 1
    <3>1. Owners(k) = {} /\ count'[k] = 0
      BY <1>10, <2>2 DEF Tick, Outlasted
    <3> QED
      BY <2>1, <3>1, FS_EmptySet
  <2>3. CASE ttl[k] # 1
    BY <1>10, <2>1, <2>3 DEF Tick, Exact
  <2> QED
    BY <2>2, <2>3
<1> QED
  BY <1>1, <1>2, <1>3, <1>4, <1>5, <1>6, <1>7, <1>8, <1>9, <1>10 DEF Next, HandlerStep

\* Until a Redis call fails, a worker dies or a handler outlives the TTL, every
\* way out of a handler gives back exactly the slots it took, failed diversions
\* included: the counters are the numbers of the workers that stand in them.
THEOREM CountersExact == Spec => []CountsExact
<1>1. Init => ExactInv
  <2> SUFFICES ASSUME Init PROVE ExactInv
    OBVIOUS
  <2>1. TypeOK
    BY CountInit DEF CountInv
  <2>2. ExactClaims
    BY DEF Init, ExactClaims
  <2>3. \A k \in Keys : Owners(k) = {} /\ count[k] = 0
    BY DEF Init, Owners
  <2> QED
    BY <2>1, <2>2, <2>3, FS_EmptySet DEF ExactInv, Exact
<1>2. ExactInv /\ [Next]_vars => ExactInv'
  BY TypeStep, NoFault, ExactClaimStep, ExactStep DEF ExactInv
<1>3. ExactInv => CountsExact
  BY DEF ExactInv, Exact, CountsExact
<1> QED
  BY <1>1, <1>2, <1>3, PTL DEF Spec
==============================================================================
