---------------------------- MODULE CircuitBreaker ----------------------------
(***************************************************************************)
(* The circuit breaker of one endpoint (circuitBreaker in                  *)
(* internal/hotstate/redis.go) as the workers of all processes use it:     *)
(* ShouldAllow before a delivery, RecordSuccess or RecordFailure after it. *)
(*                                                                         *)
(* Every Redis round trip is a step.  WATCH/MULTI/EXEC is modelled by a    *)
(* mark on each transaction whose key is written or expires before EXEC.   *)
(*                                                                         *)
(* Time is a Tick.  A timestamp t that the code compares with now is the   *)
(* time left until the comparison turns true, 0 once it has (or for nil);  *)
(* the records in flight age with the stored one, because the now of each  *)
(* is that of the read it starts from: ShouldAllow takes it right after    *)
(* Get, the records right before their WATCH.                              *)
(***************************************************************************)
EXTENDS Integers

CONSTANTS
    Workers,           \* goroutines delivering to the endpoint
    FailureThreshold,  \* CircuitBreakerConfig
    SuccessThreshold,
    FailureWindow,
    RecoveryTimeout,
    ProbeInterval,
    CircuitStateTTL,   \* TTLConfig; 0 is no expiry
    Responses,         \* what the endpoint answers when it is down
    RedisFaults        \* subset of {"get", "write"}: Redis calls that may fail

ASSUME ConfigAssumption ==
    /\ FailureThreshold \in Nat \ {0}
    /\ SuccessThreshold \in Nat \ {0}
    /\ FailureWindow \in Nat \ {0}
    /\ RecoveryTimeout \in Nat \ {0}
    /\ ProbeInterval \in Nat \ {0}
    /\ CircuitStateTTL \in Nat
    /\ Responses \subseteq {"2xx", "4xx", "5xx"}
    /\ RedisFaults \subseteq {"get", "write"}

VARIABLES
    cb,        \* the stored CircuitBreaker (Closed0 when the key is absent)
    ttl,       \* time the key has left, 0 when it is absent or does not expire
    lock,      \* time the key probe_lock has left, 0 when it is absent
    pc,        \* where each worker is
    new,       \* the CircuitBreaker a worker is about to write
    watch,     \* of a worker's WATCH: "none", "clean" or "touched"
    endpoint,  \* "up" or "down"
    quiet      \* history: ticks left of the interval after the last request
               \* that passed a circuit that was not closed

vars == <<cb, ttl, lock, pc, new, watch, endpoint, quiet>>

States == {"closed", "open", "half_open"}
Circuit == [state : States,
            failures : 0 .. FailureThreshold,      \* capped: only compared with it
            successes : 0 .. SuccessThreshold + 1,
            recoverIn : 0 .. RecoveryTimeout,      \* kept while open
            probeIn : 0 .. ProbeInterval,          \* NextProbeAt
            failIn : 0 .. FailureWindow]           \* LastFailureAt + FailureWindow

\* The result of Get and getWithTx when there is no key.
Closed0 == [state |-> "closed", failures |-> 0, successes |-> 0,
            recoverIn |-> 0, probeIn |-> 0, failIn |-> 0]

PCs == {"idle", "open", "transit", "lock", "save", "send",
        "success", "failure", "commit"}

TypeOK ==
    /\ cb \in Circuit
    /\ ttl \in Nat
    /\ lock \in 0 .. ProbeInterval
    /\ pc \in [Workers -> PCs]
    /\ new \in [Workers -> Circuit]
    /\ watch \in [Workers -> {"none", "clean", "touched"}]
    /\ endpoint \in {"up", "down"}
    /\ quiet \in 0 .. ProbeInterval

Init ==
    /\ cb = Closed0 /\ ttl = 0 /\ lock = 0
    /\ pc = [w \in Workers |-> "idle"]
    /\ new = [w \in Workers |-> Closed0]
    /\ watch = [w \in Workers |-> "none"]
    /\ endpoint = "up"
    /\ quiet = 0

------------------------------------------------------------------------------
Goto(w, label) == pc' = [pc EXCEPT ![w] = label]

\* Any write of the key, and its expiry, touches the transactions watching it.
Touch == [w \in Workers |-> IF watch[w] = "clean" THEN "touched" ELSE watch[w]]

\* save and saveWithTx: SET with the TTL of the state.
Save(c) ==
    /\ cb' = c
    /\ ttl' = IF c.state = "closed" /\ c.failures = 0 THEN 2 * RecoveryTimeout
              ELSE CircuitStateTTL

\* The worker goes on to deliver.
LetThrough(w) ==
    /\ Goto(w, "send")
    /\ quiet' = IF cb.state = "closed" THEN quiet ELSE ProbeInterval

\* The worker goes back for other work (scheduleRetryForCircuit).
Deny(w) == Goto(w, "idle") /\ UNCHANGED quiet

------------------------------------------------------------------------------
(* ShouldAllow.                                                            *)

\* Mutant: probes before the probe interval is over instead of after it.
GetProbesEarly(w) ==
    /\ pc[w] = "idle"
    /\ new' = [new EXCEPT ![w] = [cb EXCEPT !.probeIn = ProbeInterval]]
    /\ \/ cb.state = "closed" /\ LetThrough(w)
       \/ cb.state = "open" /\ cb.recoverIn = 0 /\ Goto(w, "open") /\ UNCHANGED quiet
       \/ cb.state = "half_open" /\ cb.probeIn > 0 /\ Goto(w, "lock") /\ UNCHANGED quiet
       \/ cb.state = "open" /\ cb.recoverIn > 0 /\ Deny(w)
       \/ cb.state = "half_open" /\ cb.probeIn = 0 /\ Deny(w)
    /\ UNCHANGED <<cb, ttl, lock, watch, endpoint>>

\* Get; closed lets the request through, and so does an error of Get.  The worker's
\* now is of this moment, also in the NextProbeAt that it may come to write.
Get(w) ==
    /\ pc[w] = "idle"
    /\ new' = [new EXCEPT ![w] = [cb EXCEPT !.probeIn = ProbeInterval]]
    /\ \/ cb.state = "closed" /\ LetThrough(w)
       \/ cb.state = "open" /\ cb.recoverIn = 0 /\ Goto(w, "open") /\ UNCHANGED quiet
       \/ cb.state = "half_open" /\ cb.probeIn = 0 /\ Goto(w, "lock") /\ UNCHANGED quiet
       \/ cb.state = "open" /\ cb.recoverIn > 0 /\ Deny(w)
       \/ cb.state = "half_open" /\ cb.probeIn > 0 /\ Deny(w)
       \/ "get" \in RedisFaults /\ LetThrough(w)
    /\ UNCHANGED <<cb, ttl, lock, watch, endpoint>>

\* WATCH and getWithTx: the circuit is still open and will become half-open,
\* another worker was first, or an error lets the request through.
WatchOpen(w) ==
    /\ pc[w] = "open"
    /\ \/ /\ cb.state = "open"
          /\ new' = [new EXCEPT ![w] = [cb EXCEPT !.state = "half_open", !.successes = 0,
                                          !.recoverIn = 0, !.probeIn = new[w].probeIn]]
          /\ watch' = [watch EXCEPT ![w] = "clean"]
          /\ Goto(w, "transit")
          /\ UNCHANGED quiet
       \/ /\ cb.state # "open"
          /\ Deny(w)
          /\ UNCHANGED <<new, watch>>
       \/ /\ "get" \in RedisFaults
          /\ LetThrough(w)
          /\ UNCHANGED <<new, watch>>
    /\ UNCHANGED <<cb, ttl, lock, endpoint>>

\* EXEC of the transition: this worker is the probe.  If the transaction was
\* touched ShouldAllow returns its error, on which processMessage allows the
\* request.
Transit(w) ==
    /\ pc[w] = "transit"
    /\ LetThrough(w)
    /\ \/ /\ watch[w] = "clean"
          /\ Save(new[w])
          /\ watch' = [Touch EXCEPT ![w] = "none"]
       \/ /\ watch[w] = "touched" \/ "write" \in RedisFaults
          /\ watch' = [watch EXCEPT ![w] = "none"]
          /\ UNCHANGED <<cb, ttl>>
    /\ UNCHANGED <<lock, new, endpoint>>

\* SETNX of the probe lock.
ProbeLock(w) ==
    /\ pc[w] = "lock"
    /\ \/ /\ lock = 0
          /\ lock' = ProbeInterval
          /\ Goto(w, "save")
          /\ UNCHANGED quiet
       \/ /\ lock > 0
          /\ Deny(w)
          /\ UNCHANGED lock
       \/ /\ "write" \in RedisFaults
          /\ LetThrough(w)
          /\ UNCHANGED lock
    /\ UNCHANGED <<cb, ttl, new, watch, endpoint>>

\* save: outside any transaction, of the circuit that Get read.
SaveProbe(w) ==
    /\ pc[w] = "save"
    /\ LetThrough(w)
    /\ \/ /\ Save(new[w])
          /\ watch' = Touch
       \/ /\ "write" \in RedisFaults
          /\ UNCHANGED <<cb, ttl, watch>>
    /\ UNCHANGED <<lock, new, endpoint>>

------------------------------------------------------------------------------
(* The delivery and its record.                                            *)

\* IsSuccess decides which record is made, whatever kind of failure it is.
Deliver(w) ==
    /\ pc[w] = "send"
    /\ \E r \in IF endpoint = "up" THEN {"2xx"} ELSE Responses :
          Goto(w, IF r = "2xx" THEN "success" ELSE "failure")
    /\ UNCHANGED <<cb, ttl, lock, new, watch, endpoint, quiet>>

\* Mutant: successes are counted, the circuit is never closed.
SucceededNeverCloses(c) ==
    CASE c.state = "closed" -> [c EXCEPT !.failures = 0]
      [] c.state = "half_open" -> [c EXCEPT !.successes = @ + 1]
      [] c.state = "open" ->
            [c EXCEPT !.state = "half_open", !.successes = 1, !.recoverIn = 0]

\* What RecordSuccess makes of a circuit.
Succeeded(c) ==
    CASE c.state = "closed" -> [c EXCEPT !.failures = 0]
      [] c.state = "half_open" ->
            IF c.successes + 1 >= SuccessThreshold
            THEN [c EXCEPT !.state = "closed", !.failures = 0, !.successes = 0,
                           !.probeIn = 0]
            ELSE [c EXCEPT !.successes = @ + 1]
      [] c.state = "open" ->
            [c EXCEPT !.state = "half_open", !.successes = 1, !.recoverIn = 0]

\* Failures within the window add up, otherwise the count starts again.
CountFailure(c) ==
    IF c.failIn > 0
    THEN IF c.failures < FailureThreshold THEN c.failures + 1 ELSE FailureThreshold
    ELSE 1

\* Mutant: reopening keeps the successes of the failed recovery.
FailedKeepsSuccesses(c) ==
    LET d == [c EXCEPT !.failures = CountFailure(c), !.failIn = FailureWindow]
    IN  IF c.state = "half_open" \/ (c.state = "closed" /\ d.failures >= FailureThreshold)
        THEN [d EXCEPT !.state = "open", !.recoverIn = RecoveryTimeout, !.probeIn = 0]
        ELSE d

\* What RecordFailure makes of a circuit.
Failed(c) ==
    LET d == [c EXCEPT !.failures = CountFailure(c), !.failIn = FailureWindow]
    IN  CASE c.state = "closed" ->
                IF d.failures >= FailureThreshold
                THEN [d EXCEPT !.state = "open", !.recoverIn = RecoveryTimeout]
                ELSE d
          [] c.state = "half_open" ->
                [d EXCEPT !.state = "open", !.recoverIn = RecoveryTimeout,
                          !.successes = 0, !.probeIn = 0]
          [] c.state = "open" -> d

\* RecordSuccess and RecordFailure: WATCH and getWithTx, or an error.
WatchRecord(w) ==
    /\ pc[w] \in {"success", "failure"}
    /\ \/ /\ new' = [new EXCEPT ![w] = IF pc[w] = "success" THEN Succeeded(cb) ELSE Failed(cb)]
          /\ watch' = [watch EXCEPT ![w] = "clean"]
          /\ Goto(w, "commit")
       \/ /\ "get" \in RedisFaults
          /\ Goto(w, "idle")
          /\ UNCHANGED <<new, watch>>
    /\ UNCHANGED <<cb, ttl, lock, endpoint, quiet>>

\* EXEC; an error, a touched transaction too, is logged and the record is lost.
Commit(w) ==
    /\ pc[w] = "commit"
    /\ Goto(w, "idle")
    /\ \/ /\ watch[w] = "clean"
          /\ Save(new[w])
          /\ watch' = [Touch EXCEPT ![w] = "none"]
       \/ /\ watch[w] = "touched" \/ "write" \in RedisFaults
          /\ watch' = [watch EXCEPT ![w] = "none"]
          /\ UNCHANGED <<cb, ttl>>
    /\ UNCHANGED <<lock, new, endpoint, quiet>>

------------------------------------------------------------------------------
Dec(n) == IF n > 0 THEN n - 1 ELSE 0
Age(c) == [c EXCEPT !.recoverIn = Dec(@), !.probeIn = Dec(@), !.failIn = Dec(@)]

\* Time passes: deadlines come nearer, the lock and the key expire.
Tick ==
    /\ lock' = Dec(lock)
    /\ quiet' = Dec(quiet)
    /\ ttl' = Dec(ttl)
    /\ cb' = IF ttl = 1 THEN Closed0 ELSE Age(cb)
    /\ watch' = IF ttl = 1 THEN Touch ELSE watch
    /\ new' = [w \in Workers |-> Age(new[w])]
    /\ UNCHANGED <<pc, endpoint>>

\* The endpoint goes down or comes up.
Toggle ==
    /\ endpoint' = IF endpoint = "up" THEN "down" ELSE "up"
    /\ UNCHANGED <<cb, ttl, lock, pc, new, watch, quiet>>

\* A webhook that a worker has begun.
UnderWay(w) ==
    \/ WatchOpen(w) \/ Transit(w) \/ ProbeLock(w) \/ SaveProbe(w)
    \/ Deliver(w) \/ WatchRecord(w) \/ Commit(w)

Next == Tick \/ Toggle \/ \E w \in Workers : Get(w) \/ UnderWay(w)

Spec == Init /\ [][Next]_vars

\* Time passes, and a webhook under way is seen through.  Nothing obliges webhooks
\* to arrive: those that are denied are not checked again when they come back, they
\* are skipped as processed.  A worker that keeps recording does not lose the race
\* to EXEC every single time.
Fairness ==
    /\ WF_vars(Tick)
    /\ \A w \in Workers : WF_vars(UnderWay(w)) /\ SF_vars(watch[w] = "clean" /\ Commit(w))

FairSpec == Spec /\ Fairness

------------------------------------------------------------------------------
(* Properties.                                                             *)

\* A closed circuit is below its threshold and starts from a clean count, and
\* successes are only counted while half-open: no interleaving of records,
\* transitions and probes hands an old count over to the next state.
CountsFit(c) ==
    /\ c.state = "closed" => c.failures < FailureThreshold
    /\ c.state # "half_open" => c.successes = 0
    /\ c.successes <= 1 \/ c.successes < SuccessThreshold

CountsConsistent == CountsFit(cb)

\* The environment's part in the two liveness properties: while a worker is free, a
\* webhook for the endpoint comes in the end, to this worker or to another.
Arrivals == WF_vars(\E w \in Workers : Get(w))

\* "If endpoint recovers -> circuit closes" (docs/FAILURE_MODES.md:374): an
\* endpoint that stays up, and to which webhooks keep coming, finds its circuit
\* closed again and again, although records may lose their transaction and probes
\* overwrite the circuit.
EndpointRecovers ==
    Arrivals /\ <>[](endpoint = "up") => []<>(cb.state = "closed")

\* "After recovery_timeout -> probe request sent" (docs/FAILURE_MODES.md:373): as
\* long as webhooks keep coming, a circuit that is not closed does not cut the
\* endpoint off for ever.
ProbeSent ==
    Arrivals => ((cb.state # "closed") ~> (\E w \in Workers : pc[w] = "send"))

\* "Periodically allow ONE probe request (HALF_OPEN)" (README.md:174): while the
\* circuit is not closed no two requests pass it within a probe interval.
OneProbe ==
    [][\A w \in Workers : pc[w] # "send" /\ pc'[w] = "send" /\ cb.state # "closed"
            => quiet = 0]_vars

\* An open circuit is left because its recovery timeout is over, a success is
\* recorded or its key expires (README.md:159, "recovery_timeout expired").
OpenHolds ==
    [][cb.state = "open" /\ cb'.state # "open" =>
          \/ cb.recoverIn = 0
          \/ ttl = 1
          \/ \E w \in Workers : pc[w] = "commit" /\ pc'[w] = "idle"]_vars

\* "Fail-closed ... If Redis is unavailable, requests are blocked" (README.md:204):
\* no error of the circuit check lets a request pass a circuit that is not
\* closed.
FailClosed ==
    [][\A w \in Workers : pc[w] = "idle" /\ pc'[w] = "send" => cb.state = "closed"]_vars

\* "Circuit breaker NOT affected" by a 4xx (docs/FAILURE_MODES.md:429): client
\* errors alone never take the circuit out of the closed state.
ClientErrorsIgnored == "5xx" \notin Responses => cb.state = "closed"
==============================================================================
