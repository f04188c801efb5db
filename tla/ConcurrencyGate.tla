---------------------------- MODULE ConcurrencyGate ----------------------------
(***************************************************************************)
(* The two concurrency gates a handler passes before it delivers           *)
(* (processMessage and runConcurrencyGate in internal/worker/worker.go):   *)
(* the domain limiter (internal/delivery/limiter.go) and then the          *)
(* endpoint's inflight counter (internal/hotstate/redis.go).               *)
(*                                                                         *)
(* Both count in Redis keys shared by all workers.  INCR comes with an     *)
(* EXPIRE that starts the key's TTL again, the Lua decrement stops at 0    *)
(* and leaves the TTL alone.  All endpoints here belong to one domain.     *)
(* Every Redis or Kafka call is a step of its own.  A leak needs a fault,  *)
(* and FaultBound caps their number.                                       *)
(***************************************************************************)
EXTENDS Integers, FiniteSets

CONSTANTS
    Workers,      \* goroutines running processMessage, both lanes
    Endpoints,
    MaxDomain,    \* MaxInflightPerDomain or its override; 0: no domain gate
    MaxInflight,  \* MaxInflightPerEndpoint
    InflightTTL,  \* ticks a counter lives after its last INCR
    Faults,       \* subset of AllFaults
    FaultBound    \* bound: faults that can leave a counter wrong

\* incr: the INCR/EXPIRE pipeline returns an error, applied or not.  decr: a
\* decrement fails.  repeat: the Redis client repeats a decrement whose reply was
\* lost (a repeated INCR leaves what another worker's crash leaves).  kafka:
\* PublishToSlow fails.  crash: a worker dies.  slow: a handler may take longer
\* than InflightTTL.
AllFaults == {"incr", "decr", "repeat", "kafka", "crash", "slow"}

Gates == {"domain", "endpoint"}
Domain == "domain"
Keys == {Domain} \cup Endpoints

ASSUME ConstantsAssumption ==
    /\ IsFiniteSet(Workers)
    /\ Domain \notin Endpoints
    /\ MaxDomain \in Nat
    /\ MaxInflight \in Nat
    /\ InflightTTL \in Nat \ {0}
    /\ Faults \subseteq AllFaults
    /\ FaultBound \in Nat

VARIABLES
    count,   \* value of each counter, 0 when the key is absent
    ttl,     \* ticks each key has left, 0 when it is absent
    pc,      \* where each worker is
    ep,      \* the endpoint of the webhook it handles
    lane,    \* the lane it serves
    gate,    \* the gate it is at
    held,    \* gates whose deferred function will release a slot
    owns,    \* history: gates in whose counter the worker's own INCR stands
    faults   \* history: faults so far

vars == <<count, ttl, pc, ep, lane, gate, held, owns, faults>>

PCs == {"idle", "acquire", "undo", "divert", "reacquire", "deliver", "release"}

TypeOK ==
    /\ count \in [Keys -> Nat]
    /\ ttl \in [Keys -> 0 .. InflightTTL]
    /\ pc \in [Workers -> PCs]
    /\ ep \in [Workers -> Endpoints]
    /\ lane \in [Workers -> {"fast", "slow"}]
    /\ gate \in [Workers -> Gates]
    /\ held \in [Workers -> SUBSET Gates]
    /\ owns \in [Workers -> SUBSET Gates]
    /\ faults \in 0 .. FaultBound

Init ==
    /\ count = [k \in Keys |-> 0]
    /\ ttl = [k \in Keys |-> 0]
    /\ pc = [w \in Workers |-> "idle"]
    /\ ep \in [Workers -> Endpoints] /\ \A v, w \in Workers : ep[v] = ep[w]
    /\ lane = [w \in Workers |-> "fast"]
    /\ gate = [w \in Workers |-> "endpoint"]
    /\ held = [w \in Workers |-> {}]
    /\ owns = [w \in Workers |-> {}]
    /\ faults = 0

------------------------------------------------------------------------------
Goto(w, label) == pc' = [pc EXCEPT ![w] = label]

KeyOf(w, g) == IF g = "domain" THEN Domain ELSE ep[w]
Limit(g) == IF g = "domain" THEN MaxDomain ELSE MaxInflight

Own(w, g)    == owns' = [owns EXCEPT ![w] = @ \cup {g}]
Disown(w, g) == owns' = [owns EXCEPT ![w] = @ \ {g}]

\* One of the faults that can make a counter wrong.
Fault(f) ==
    /\ f \in Faults
    /\ faults < FaultBound
    /\ faults' = faults + 1

\* Mutant: the EXPIRE is left out.
IncrWithoutExpire(k) ==
    /\ count' = [count EXCEPT ![k] = @ + 1]
    /\ UNCHANGED ttl

\* IncrInflight and the domain limiter's pipeline: INCR and EXPIRE.
Incr(k) ==
    /\ count' = [count EXCEPT ![k] = @ + 1]
    /\ ttl' = [ttl EXCEPT ![k] = InflightTTL]

\* Mutant: a plain DECR, which goes below zero.
DecrWithoutFloor(k) ==
    /\ count' = [count EXCEPT ![k] = @ - 1]
    /\ UNCHANGED <<ttl, faults>>

\* decrInflightScript and decrDomainScript, run once, twice or not at all.
Decr(k) ==
    \/ /\ count' = [count EXCEPT ![k] = IF @ > 0 THEN @ - 1 ELSE 0]
       /\ UNCHANGED <<ttl, faults>>
    \/ /\ Fault("repeat")
       /\ count' = [count EXCEPT ![k] = IF @ > 2 THEN @ - 2 ELSE 0]
       /\ UNCHANGED ttl
    \/ /\ Fault("decr")
       /\ UNCHANGED <<count, ttl>>

\* After the domain gate comes the endpoint gate, and then the delivery.
Proceed(w, g) ==
    /\ Goto(w, IF g = "domain" THEN "acquire" ELSE "deliver")
    /\ gate' = [gate EXCEPT ![w] = "endpoint"]

------------------------------------------------------------------------------
\* A handler that has passed the circuit comes to its first gate.
Arrive(w, e, l) ==
    /\ pc[w] = "idle"
    /\ ep' = [ep EXCEPT ![w] = e]
    /\ lane' = [lane EXCEPT ![w] = l]
    /\ gate' = [gate EXCEPT ![w] = IF MaxDomain > 0 THEN "domain" ELSE "endpoint"]
    /\ Goto(w, "acquire")
    /\ UNCHANGED <<count, ttl, held, owns, faults>>

\* Mutant: compares the counter as it was before its own INCR.
AcquireCheckFirst(w) ==
    /\ pc[w] = "acquire"
    /\ Incr(KeyOf(w, gate[w]))
    /\ Own(w, gate[w])
    /\ \/ /\ count[KeyOf(w, gate[w])] <= Limit(gate[w])
          /\ held' = [held EXCEPT ![w] = @ \cup {gate[w]}]
          /\ Proceed(w, gate[w])
       \/ /\ count[KeyOf(w, gate[w])] > Limit(gate[w])
          /\ Goto(w, "undo")
          /\ UNCHANGED <<held, gate>>
    /\ UNCHANGED <<ep, lane, faults>>

\* Mutant: a rejected worker's deferred release runs as well.
AcquireHeldOnReject(w) ==
    /\ pc[w] = "acquire"
    /\ Incr(KeyOf(w, gate[w]))
    /\ Own(w, gate[w])
    /\ held' = [held EXCEPT ![w] = @ \cup {gate[w]}]
    /\ \/ /\ count[KeyOf(w, gate[w])] + 1 <= Limit(gate[w])
          /\ Proceed(w, gate[w])
       \/ /\ count[KeyOf(w, gate[w])] + 1 > Limit(gate[w])
          /\ Goto(w, "undo")
          /\ UNCHANGED gate
    /\ UNCHANGED <<ep, lane, faults>>

\* TryAcquire: the slot is taken, within the limit or over it.
Acquire(w) ==
    /\ pc[w] = "acquire"
    /\ Incr(KeyOf(w, gate[w]))
    /\ Own(w, gate[w])
    /\ \/ /\ count[KeyOf(w, gate[w])] + 1 <= Limit(gate[w])
          /\ held' = [held EXCEPT ![w] = @ \cup {gate[w]}]
          /\ Proceed(w, gate[w])
       \/ /\ count[KeyOf(w, gate[w])] + 1 > Limit(gate[w])
          /\ Goto(w, "undo")
          /\ UNCHANGED <<held, gate>>
    /\ UNCHANGED <<ep, lane, faults>>

\* TryAcquire meets a Redis error, after or before the INCR was applied: the
\* domain limiter reports the slot as acquired, the inflight gate reports the
\* error and the handler goes on without a slot.
AcquireError(w) ==
    /\ pc[w] = "acquire"
    /\ Fault("incr")
    /\ \/ Incr(KeyOf(w, gate[w])) /\ Own(w, gate[w])
       \/ UNCHANGED <<count, ttl, owns>>
    /\ held' = IF gate[w] = "domain" THEN [held EXCEPT ![w] = @ \cup {"domain"}] ELSE held
    /\ Proceed(w, gate[w])
    /\ UNCHANGED <<ep, lane>>

\* Mutant: the rejected INCR is not taken back.
KeepRejected(w) ==
    /\ pc[w] = "undo"
    /\ Disown(w, gate[w])
    /\ Goto(w, IF lane[w] = "slow" THEN "release" ELSE "divert")
    /\ UNCHANGED <<count, ttl, ep, lane, gate, held, faults>>

\* The rejected INCR is taken back; the slow lane answers with a NACK.
UndoAcquire(w) ==
    /\ pc[w] = "undo"
    /\ Decr(KeyOf(w, gate[w]))
    /\ Disown(w, gate[w])
    /\ Goto(w, IF lane[w] = "slow" THEN "release" ELSE "divert")
    /\ UNCHANGED <<ep, lane, gate, held>>

\* PublishToSlow; when it fails the handler goes on in the fast lane, with a
\* slot of the inflight counter taken unconditionally.
Divert(w) ==
    /\ pc[w] = "divert"
    /\ \/ Goto(w, "release") /\ UNCHANGED gate
       \/ /\ "kafka" \in Faults
          /\ gate[w] = "domain"
          /\ Proceed(w, "domain")
       \/ /\ "kafka" \in Faults
          /\ gate[w] = "endpoint"
          /\ Goto(w, "reacquire")
          /\ UNCHANGED gate
    /\ UNCHANGED <<count, ttl, ep, lane, held, owns, faults>>

\* ReacquireOnDivertFail, whose error is ignored.
Reacquire(w) ==
    /\ pc[w] = "reacquire"
    /\ \/ Incr(ep[w]) /\ Own(w, "endpoint") /\ UNCHANGED faults
       \/ Fault("incr") /\ UNCHANGED <<count, ttl, owns>>
    /\ held' = [held EXCEPT ![w] = @ \cup {"endpoint"}]
    /\ Goto(w, "deliver")
    /\ UNCHANGED <<ep, lane, gate>>

\* The delivery and everything after it, up to the deferred functions.
Deliver(w) ==
    /\ pc[w] = "deliver"
    /\ Goto(w, "release")
    /\ UNCHANGED <<count, ttl, ep, lane, gate, held, owns, faults>>

\* The deferred functions: the inflight slot first, then the domain slot.
Release(w) ==
    /\ pc[w] = "release"
    /\ \E g \in held[w] :
          /\ g = "domain" => held[w] = {"domain"}
          /\ Decr(KeyOf(w, g))
          /\ Disown(w, g)
          /\ held' = [held EXCEPT ![w] = @ \ {g}]
    /\ UNCHANGED <<pc, ep, lane, gate>>

\* The handler returns.
Return(w) ==
    /\ pc[w] = "release"
    /\ held[w] = {}
    /\ Goto(w, "idle")
    /\ owns' = [owns EXCEPT ![w] = {}]
    /\ UNCHANGED <<count, ttl, ep, lane, gate, held, faults>>

Crash(w) ==
    /\ pc[w] # "idle"
    /\ Fault("crash")
    /\ Goto(w, "idle")
    /\ held' = [held EXCEPT ![w] = {}]
    /\ owns' = [owns EXCEPT ![w] = {}]
    /\ UNCHANGED <<count, ttl, ep, lane, gate>>

\* Workers whose own INCR stands in the counter of the key.
Owners(k) == {w \in Workers : \E g \in owns[w] : KeyOf(w, g) = k}

\* Time passes and keys expire.  InflightTTL is meant to be longer than any
\* delivery (config.go); the fault "slow" is a handler for which it is not.
Outlasted == \E k \in Keys : ttl[k] = 1 /\ Owners(k) # {}
Tick ==
    /\ \E k \in Keys : ttl[k] > 0
    /\ IF Outlasted THEN Fault("slow") ELSE UNCHANGED faults
    /\ ttl' = [k \in Keys |-> IF ttl[k] > 0 THEN ttl[k] - 1 ELSE 0]
    /\ count' = [k \in Keys |-> IF ttl[k] = 1 THEN 0 ELSE count[k]]
    /\ UNCHANGED <<pc, ep, lane, gate, held, owns>>

HandlerStep(w) ==
    \/ Acquire(w) \/ AcquireError(w) \/ UndoAcquire(w) \/ Divert(w) \/ Reacquire(w)
    \/ Deliver(w) \/ Release(w) \/ Return(w)

Next ==
    \/ \E w \in Workers, e \in Endpoints, l \in {"fast", "slow"} : Arrive(w, e, l)
    \/ \E w \in Workers : HandlerStep(w) \/ Crash(w)
    \/ Tick

Spec == Init /\ [][Next]_vars

\* Handlers go on and time passes; nothing obliges webhooks to arrive or stop.
FairSpec == Spec /\ WF_vars(Tick) /\ \A w \in Workers : WF_vars(HandlerStep(w))

------------------------------------------------------------------------------
(* Properties.                                                             *)

\* Workers that deliver under a slot of the key, as opposed to having been let
\* through because something failed.
Delivering(k) == {w \in Owners(k) : pc[w] = "deliver"}

\* The two gates keep what they promise although every worker counts itself in
\* before it looks: no endpoint and no domain has more deliveries at work under
\* a slot than its limit.
LimitRespected ==
    /\ Cardinality(Delivering(Domain)) <= MaxDomain
    /\ \A e \in Endpoints : Cardinality(Delivering(e)) <= MaxInflight

\* Slots are given back exactly once on every way out of a handler (a delivery,
\* a diversion at either gate, a NACK, a failed diversion): each counter is the
\* number of workers that stand in it, as long as no fault has made it
\* wrong.
CountsExact == faults = 0 => \A k \in Keys : count[k] = Cardinality(Owners(k))

\* The counters never fall below the number of workers that stand in them, so that
\* neither a crash nor a failed decrement lets a slot be given out twice.  Other
\* faults do: a failed INCR whose slot is released all the same (incr), a decrement
\* run twice (repeat) and a handler that outlives its slot (slow).
NeverUndercounts == \A k \in Keys : count[k] >= Cardinality(Owners(k))

\* "TTL on concurrency keys (2min default) auto-corrects leaked counts"
\* (README.md:213): the counter of an endpoint always comes back to the number
\* of workers that stand in it.
LeakCorrected == \A e \in Endpoints : []<>(count[e] <= Cardinality(Owners(e)))

\* The part of it the code provides: an endpoint that gets no more webhooks has
\* its counter cleared, whatever crashes and failed decrements left in it.
QuietLeakCorrected ==
    \A e \in Endpoints :
        <>[](\A w \in Workers : pc[w] # "idle" => ep[w] # e) => <>[](count[e] = 0)
==============================================================================
