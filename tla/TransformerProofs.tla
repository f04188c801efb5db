--------------------------- MODULE TransformerProofs ---------------------------
(***************************************************************************)
(* Proofs about HttpModule and Transformer, for every number of requests,  *)
(* scripts, directories, Lua states and keys and under every fault.        *)
(***************************************************************************)
EXTENDS Transformer, FiniteSetTheorems, WellFoundedInduction, TLAPS

------------------------------------------------------------------------------
(* The http module.                                                        *)

\* A step of the http module, by whatever script.
HttpNext ==
    \/ \E c \in Callers, ns \in Namespaces, g \in Gets :
          Mutate(c, ns, g) \/ \E ttl \in {0, 1} : Get(c, ns, g, ttl)
    \/ \E c \in Callers : CallStep(c)
    \/ Upstream
    \/ \E k \in Keys : CacheExpires(k)
    \/ UNCHANGED httpVars

\* A call under way has a key.
Keyed(c) == call[c].pc \in {"join", "request", "wait", "store"}
KeyedInv == \A c \in Callers : Keyed(c) => call[c].key \in Keys

HttpInv == HttpTypeOK /\ KeyedInv

\* The resource a key asks for.
Asked(k) == <<k[1], k[2]>>

\* What was seen is no newer than the server; a call's floor no newer than what
\* was seen; a request has one leader, and while its response is on the way
\* nothing newer is seen of a request with one key.
SeenInv  == \A p \in Namespaces \X Gets : seen[p] <= upstream
FlightInv ==
    \A k \in Keys : /\ flight[k].ver <= upstream
                    /\ flight[k].leader = Nobody => flight[k].ver = 0
                    /\ Orders[k[2]] = 1 /\ flight[k].ver # 0 => seen[Asked(k)] <= flight[k].ver
LeadsInv == \A c \in Callers : call[c].pc = "request" => flight[call[c].key].leader = c
FloorInv == \A c \in Callers : call[c].pc \in {"join", "request", "wait"} => call[c].floor <= seen[Asked(call[c].key)]

\* No request with one key has gone back.
OrderedInv == \A p \in regressed : Orders[p[2]] # 1

MonoInv == SeenInv /\ FlightInv /\ LeadsInv /\ FloorInv /\ OrderedInv

LEMMA HttpConstants == VersionBound \in Nat \ {0} /\ Nobody \notin Callers
BY HttpAssumption

\* A key is made of a namespace, a request and one of its orders.
LEMMA KeyParts ==
    ASSUME NEW k \in Keys
    PROVE  /\ k[1] \in Namespaces /\ k[2] \in Gets /\ k[3] \in 1 .. Orders[k[2]]
           /\ k = <<k[1], k[2], k[3]>>
           /\ Asked(k) \in Namespaces \X Gets
BY DEF Keys, Asked

\* A request whose headers have one order has one key per namespace.
LEMMA OneKey ==
    ASSUME NEW k \in Keys, NEW l \in Keys, Asked(k) = Asked(l), Orders[k[2]] = 1
    PROVE  k = l
<1>1. k[1] = l[1] /\ k[2] = l[2]
  BY DEF Asked
<1>2. k[3] = 1 /\ l[3] = 1
  BY <1>1, KeyParts
<1> QED BY <1>1, <1>2, KeyParts

LEMMA HttpInit1 == HttpInit => HttpInv /\ MonoInv
<1> SUFFICES ASSUME HttpInit PROVE HttpInv /\ MonoInv
  OBVIOUS
<1>1. HttpTypeOK
  BY HttpAssumption DEF HttpInit, HttpTypeOK, NoCall, NoFlight, Versions
<1>2. KeyedInv
  BY DEF HttpInit, KeyedInv, Keyed, NoCall
<1>3. MonoInv
  BY HttpAssumption, KeyParts DEF HttpInit, MonoInv, SeenInv, FlightInv, LeadsInv, FloorInv, OrderedInv, NoCall, NoFlight
<1> QED BY <1>1, <1>2, <1>3 DEF HttpInv

\* The types of a call and of a shared request, and its leader.
CallType == [pc : {"idle", "join", "request", "wait", "store", "mutate"}, key : Keys \cup {NoKey},
             ttl : {0, 1}, ver : 0 .. VersionBound, floor : 0 .. VersionBound]
FlightType == [leader : Callers \cup {Nobody}, ver : 0 .. VersionBound]
LeaderInv == \A k \in Keys : flight[k].leader # Nobody =>
                call[flight[k].leader].pc = "request" /\ call[flight[k].leader].key = k

LEMMA HttpParts ==
    HttpInv <=> /\ upstream \in 1 .. VersionBound /\ cache \in [Keys -> 0 .. VersionBound]
                /\ flight \in [Keys -> FlightType] /\ call \in [Callers -> CallType]
                /\ LeaderInv /\ KeyedInv
                /\ seen \in [Namespaces \X Gets -> 0 .. VersionBound]
                /\ regressed \subseteq Namespaces \X Gets
BY DEF HttpInv, HttpTypeOK, CallType, FlightType, LeaderInv, Versions

LEMMA HttpFromParts ==
    ASSUME upstream' \in 1 .. VersionBound, cache' \in [Keys -> 0 .. VersionBound],
           flight' \in [Keys -> FlightType], call' \in [Callers -> CallType],
           LeaderInv', KeyedInv',
           seen' \in [Namespaces \X Gets -> 0 .. VersionBound],
           regressed' \subseteq Namespaces \X Gets
    PROVE  HttpInv'
BY DEF HttpInv, HttpTypeOK, CallType, FlightType, LeaderInv, Versions

LEMMA CallFields ==
    ASSUME NEW n \in CallType, NEW l \in {"idle", "join", "request", "wait", "store", "mutate"}
    PROVE  [n EXCEPT !.pc = l] \in CallType /\ [n EXCEPT !.pc = l].pc = l /\ [n EXCEPT !.pc = l].key = n.key
BY DEF CallType

\* What a Report leaves.
LEMMA ReportType ==
    ASSUME HttpInv, NEW ns \in Namespaces, NEW g \in Gets, NEW ver \in 0 .. VersionBound, NEW floors,
           Report(ns, g, ver, floors)
    PROVE  /\ seen' \in [Namespaces \X Gets -> 0 .. VersionBound]
           /\ regressed' \subseteq Namespaces \X Gets
<1>1. <<ns, g>> \in Namespaces \X Gets
  OBVIOUS
<1> QED BY <1>1, HttpParts, HttpConstants DEF Report, Newer

\* The calls that share a request end, or go on to store its response.
LEMMA SharersType ==
    ASSUME HttpInv, NEW k \in Keys,
           flight' = [flight EXCEPT ![k] = NoFlight],
           call' \in [Callers -> CallType],
           \A d \in Callers : /\ d \notin Sharers(k) => call'[d] = call[d]
                              /\ d \in Sharers(k) =>
                                    \/ call'[d] = NoCall
                                    \/ call'[d].pc = "store" /\ call'[d].key = k
    PROVE  flight' \in [Keys -> FlightType] /\ LeaderInv' /\ KeyedInv'
<1> USE HttpParts, HttpConstants
<1>1. flight' \in [Keys -> FlightType]
  BY DEF NoFlight, FlightType
<1>2. KeyedInv'
  BY DEF NoCall, KeyedInv, Keyed
<1>3. ASSUME NEW l \in Keys, flight'[l].leader # Nobody
      PROVE  call'[flight'[l].leader].pc = "request" /\ call'[flight'[l].leader].key = l
  <2>1. l # k /\ flight'[l] = flight[l]
    BY <1>3 DEF NoFlight
  <2>2. flight[l].leader \in Callers
    BY <1>3, <2>1 DEF FlightType
  <2>3. call[flight[l].leader].pc = "request" /\ call[flight[l].leader].key = l
    BY <1>3, <2>1 DEF LeaderInv
  <2>4. flight[l].leader \notin Sharers(k)
    BY <2>1, <2>3 DEF Sharers
  <2> QED BY <2>1, <2>2, <2>3, <2>4
<1> QED BY <1>1, <1>2, <1>3 DEF LeaderInv

\* The http module keeps its types and keys.
LEMMA HttpKept ==
    ASSUME HttpInv, HttpNext
    PROVE  HttpInv'
<1> USE HttpConstants
<1>0. /\ upstream \in 1 .. VersionBound /\ cache \in [Keys -> 0 .. VersionBound]
      /\ flight \in [Keys -> FlightType] /\ call \in [Callers -> CallType]
      /\ LeaderInv /\ KeyedInv
      /\ seen \in [Namespaces \X Gets -> 0 .. VersionBound]
      /\ regressed \subseteq Namespaces \X Gets
  BY HttpParts
<1>1. ASSUME NEW c \in Callers, NEW ns \in Namespaces, NEW g \in Gets, NEW ttl \in {0, 1}, Get(c, ns, g, ttl)
      PROVE  HttpInv'
  <2>1. <<ns, g>> \in Namespaces \X Gets /\ call[c].pc = "idle" /\ UNCHANGED <<upstream, cache, flight>>
    BY <1>1 DEF Get
  <2>2. CASE UNCHANGED <<call, seen, regressed>>
    BY <1>0, <2>1, <2>2, HttpFromParts DEF LeaderInv, KeyedInv, Keyed
  <2>3. ASSUME NEW ver \in 0 .. VersionBound, NEW floors, call' = call, Report(ns, g, ver, floors)
        PROVE  HttpInv'
    <3>1. seen' \in [Namespaces \X Gets -> 0 .. VersionBound] /\ regressed' \subseteq Namespaces \X Gets
      BY <2>3, ReportType
    <3> QED BY <1>0, <2>1, <2>3, <3>1, HttpFromParts DEF LeaderInv, KeyedInv, Keyed
  <2>4. ASSUME NEW o \in 1 .. Orders[g],
               call' = [call EXCEPT ![c] = [pc |-> "join", key |-> <<ns, g, o>>, ttl |-> ttl, ver |-> 0,
                                            floor |-> IF Cached(ttl) THEN 0 ELSE seen[<<ns, g>>]]],
               UNCHANGED <<seen, regressed>>
        PROVE  HttpInv'
    <3>1. <<ns, g, o>> \in Keys
      BY DEF Keys
    <3>2. PICK f \in 0 .. VersionBound : f = IF Cached(ttl) THEN 0 ELSE seen[<<ns, g>>]
      BY <1>0, <2>1
    <3>3. PICK k \in Keys : k = <<ns, g, o>>
      BY <3>1
    <3>4. call' = [call EXCEPT ![c] = [pc |-> "join", key |-> k, ttl |-> ttl, ver |-> 0, floor |-> f]]
      BY <2>4, <3>2, <3>3
    <3>5. call' \in [Callers -> CallType]
      <4>1. [pc |-> "join", key |-> k, ttl |-> ttl, ver |-> 0, floor |-> f] \in CallType
        BY DEF CallType
      <4> QED BY <1>0, <3>4, <4>1
    <3>6. \A d \in Callers : call'[d] = call[d] \/ (d = c /\ call'[d].pc = "join" /\ call'[d].key \in Keys)
      BY <1>0, <3>4
    <3>7. LeaderInv'
      BY <1>0, <2>1, <3>6 DEF LeaderInv, FlightType
    <3>8. KeyedInv'
      BY <1>0, <3>6 DEF KeyedInv, Keyed
    <3> QED BY <1>0, <2>1, <2>4, <3>5, <3>7, <3>8, HttpFromParts
  <2>5. \A o \in 1 .. Orders[g] : getCached(<<ns, g, o>>, ttl) \in 0 .. VersionBound
    BY <1>0 DEF getCached, Keys
  <2>6. CASE validateHost(ns, g)
    <3>1. PICK o \in 1 .. Orders[g] :
              IF getCached(<<ns, g, o>>, ttl) # 0
                THEN /\ call' = call
                     /\ Report(ns, g, getCached(<<ns, g, o>>, ttl), IF Cached(ttl) THEN {} ELSE {seen[<<ns, g>>]})
                ELSE /\ call' = [call EXCEPT ![c] = [pc |-> "join", key |-> <<ns, g, o>>, ttl |-> ttl, ver |-> 0,
                                                     floor |-> IF Cached(ttl) THEN 0 ELSE seen[<<ns, g>>]]]
                     /\ UNCHANGED <<seen, regressed>>
      BY <1>1, <2>6 DEF Get
    <3> QED BY <2>3, <2>4, <2>5, <3>1
  <2> QED BY <1>1, <2>2, <2>6 DEF Get
<1>2. ASSUME NEW c \in Callers, NEW ns \in Namespaces, NEW g \in Gets, Mutate(c, ns, g)
      PROVE  HttpInv'
  <2>1. call[c].pc = "idle" /\ UNCHANGED <<upstream, cache, flight, seen, regressed>>
    BY <1>2 DEF Mutate
  <2>0. call' = call \/ call' = [call EXCEPT ![c] = [call[c] EXCEPT !.pc = "mutate"]]
    BY <1>2 DEF Mutate
  <2>6. PICK n \in CallType : n = [call[c] EXCEPT !.pc = "mutate"] /\ n.pc = "mutate"
    <3>1. call[c] \in CallType
      BY <1>0
    <3> QED BY <3>1, CallFields
  <2>2. call' \in [Callers -> CallType]
    BY <1>0, <2>0, <2>6
  <2>3. \A d \in Callers : call'[d] = call[d] \/ (d = c /\ call'[d].pc = "mutate")
    BY <1>0, <2>0, <2>6
  <2>4. LeaderInv'
    BY <1>0, <2>1, <2>3 DEF LeaderInv, FlightType
  <2>5. KeyedInv'
    BY <1>0, <2>3 DEF KeyedInv, Keyed
  <2> QED BY <1>0, <2>1, <2>2, <2>4, <2>5, HttpFromParts
<1>3. ASSUME NEW c \in Callers, Do(c) PROVE HttpInv'
  <2>1. PICK k \in Keys : k = call[c].key
    BY <1>0, <1>3 DEF Do, KeyedInv, Keyed
  <2>2. /\ call[c].pc = "join" /\ UNCHANGED <<upstream, cache, seen, regressed>>
        /\ call' = [call EXCEPT ![c].pc = IF flight[k].leader = Nobody THEN "request" ELSE "wait"]
        /\ flight' = IF flight[k].leader = Nobody THEN [flight EXCEPT ![k].leader = c] ELSE flight
    BY <1>3, <2>1 DEF Do
  <2>3. call' \in [Callers -> CallType] /\ flight' \in [Keys -> FlightType]
    <3>1. flight' \in [Keys -> FlightType]
      BY <1>0, <2>2 DEF FlightType
    <3>2. PICK l \in {"request", "wait"} : call' = [call EXCEPT ![c] = [call[c] EXCEPT !.pc = l]]
      BY <2>2
    <3> QED BY <1>0, <3>1, <3>2, CallFields
  <2>4. KeyedInv'
    BY <1>0, <2>1, <2>2 DEF KeyedInv, Keyed, CallType
  <2>5. LeaderInv'
    BY <1>0, <2>1, <2>2 DEF LeaderInv, CallType, FlightType
  <2> QED BY <1>0, <2>2, <2>3, <2>4, <2>5, HttpFromParts
<1>4. ASSUME NEW c \in Callers, Serve(c) PROVE HttpInv'
  <2>1. PICK k \in Keys : k = call[c].key
    BY <1>0, <1>4 DEF Serve, KeyedInv, Keyed
  <2>2. flight' = [flight EXCEPT ![k].ver = upstream] /\ UNCHANGED <<upstream, cache, call, seen, regressed>>
    BY <1>4, <2>1 DEF Serve
  <2>3. flight' \in [Keys -> FlightType] /\ \A l \in Keys : flight'[l].leader = flight[l].leader
    BY <1>0, <2>2 DEF FlightType
  <2> QED BY <1>0, <2>2, <2>3, HttpFromParts DEF LeaderInv, KeyedInv, Keyed
<1>5. ASSUME NEW c \in Callers, doRequest(c) PROVE HttpInv'
  <2>1. PICK k \in Keys : k = call[c].key
    BY <1>0, <1>5 DEF doRequest, KeyedInv, Keyed
  <2>2. PICK ver \in 0 .. VersionBound : ver = flight[k].ver
    BY <1>0 DEF FlightType
  <2>3. call' = [d \in Callers |->
                   IF d \notin Sharers(k) THEN call[d]
                   ELSE IF Cached(call[d].ttl) THEN [call[d] EXCEPT !.pc = "store", !.ver = ver]
                   ELSE NoCall]
    BY <1>5, <2>1, <2>2 DEF doRequest
  <2>4. Report(k[1], k[2], ver, {call[d].floor : d \in {d \in Sharers(k) : ~Cached(call[d].ttl)}})
    BY <1>5, <2>1, <2>2 DEF doRequest
  <2>5. flight' = [flight EXCEPT ![k] = NoFlight] /\ UNCHANGED <<upstream, cache>>
    BY <1>5, <2>1 DEF doRequest
  <2>6. seen' \in [Namespaces \X Gets -> 0 .. VersionBound] /\ regressed' \subseteq Namespaces \X Gets
    <3>1. PICK ns \in Namespaces, g \in Gets : ns = k[1] /\ g = k[2]
      BY KeyParts
    <3>2. PICK floors : floors = {call[d].floor : d \in {d \in Sharers(k) : ~Cached(call[d].ttl)}}
      OBVIOUS
    <3>3. Report(ns, g, ver, floors)
      BY <2>4, <3>1, <3>2
    <3> QED BY <3>3, ReportType
  <2>7. call' \in [Callers -> CallType]
    <3>1. \A n \in CallType : [n EXCEPT !.pc = "store", !.ver = ver] \in CallType
      BY DEF CallType
    <3>2. NoCall \in CallType
      BY DEF NoCall, CallType
    <3> QED BY <1>0, <2>3, <3>1, <3>2
  <2>8. \A d \in Callers : /\ d \notin Sharers(k) => call'[d] = call[d]
                           /\ d \in Sharers(k) => \/ call'[d] = NoCall
                                                  \/ call'[d].pc = "store" /\ call'[d].key = k
    BY <1>0, <2>3 DEF CallType, Sharers
  <2>9. flight' \in [Keys -> FlightType] /\ LeaderInv' /\ KeyedInv'
    BY <2>5, <2>7, <2>8, SharersType
  <2> QED BY <1>0, <2>5, <2>6, <2>7, <2>9, HttpFromParts
<1>6. ASSUME NEW c \in Callers, RequestFails(c) PROVE HttpInv'
  <2>1. PICK k \in Keys : k = call[c].key
    BY <1>0, <1>6 DEF RequestFails, KeyedInv, Keyed
  <2>2. /\ call' = [d \in Callers |-> IF d \in Sharers(k) THEN NoCall ELSE call[d]]
        /\ flight' = [flight EXCEPT ![k] = NoFlight]
        /\ UNCHANGED <<upstream, cache, seen, regressed>>
    BY <1>6, <2>1 DEF RequestFails
  <2>3. call' \in [Callers -> CallType]
    BY <1>0, <2>2 DEF NoCall, CallType
  <2>4. flight' \in [Keys -> FlightType] /\ LeaderInv' /\ KeyedInv'
    BY <2>2, <2>3, SharersType
  <2> QED BY <1>0, <2>2, <2>3, <2>4, HttpFromParts
<1>7. ASSUME NEW c \in Callers, call[c].pc \in {"store", "mutate"}, call' = [call EXCEPT ![c] = NoCall],
             UNCHANGED <<flight, seen, regressed>>,
             upstream' \in 1 .. VersionBound, cache' \in [Keys -> 0 .. VersionBound]
      PROVE  HttpInv'
  <2>1. call' \in [Callers -> CallType] /\ \A d \in Callers : d # c => call'[d] = call[d]
    BY <1>0, <1>7 DEF CallType, NoCall
  <2>2. LeaderInv'
    BY <1>0, <1>7, <2>1 DEF LeaderInv, FlightType
  <2>3. KeyedInv'
    BY <1>0, <1>7 DEF KeyedInv, Keyed, NoCall
  <2> QED BY <1>0, <1>7, <2>1, <2>2, <2>3, HttpFromParts
<1>8. ASSUME NEW c \in Callers, setCached(c) PROVE HttpInv'
  BY <1>0, <1>7, <1>8 DEF setCached, CallType
<1>9. ASSUME NEW c \in Callers, MutateReturns(c) PROVE HttpInv'
  BY <1>0, <1>7, <1>9 DEF MutateReturns, Versions
<1>10. ASSUME upstream' \in 1 .. VersionBound, cache' \in [Keys -> 0 .. VersionBound],
              UNCHANGED <<flight, call, seen, regressed>>
       PROVE  HttpInv'
  BY <1>0, <1>10, HttpFromParts DEF LeaderInv, KeyedInv, Keyed
<1>11. ASSUME NEW k \in Keys, CacheExpires(k) PROVE HttpInv'
  BY <1>0, <1>10, <1>11 DEF CacheExpires
<1>12. CASE Upstream
  BY <1>0, <1>10, <1>12 DEF Upstream
<1>13. CASE UNCHANGED httpVars
  BY <1>0, <1>10, <1>13 DEF httpVars
<1> QED BY <1>1, <1>2, <1>3, <1>4, <1>5, <1>6, <1>8, <1>9, <1>11, <1>12, <1>13 DEF HttpNext, CallStep

\* Nothing but calls, the cache and the server's version has changed, and the
\* calls that did have no request of their own and keep or lose their floor.
LEMMA MonoCalls ==
    ASSUME HttpInv, MonoInv, HttpInv',
           UNCHANGED <<flight, seen, regressed>>,
           upstream' >= upstream,
           \A c \in Callers : \/ call'[c] = call[c]
                              \/ call'[c].pc \notin {"join", "request", "wait"}
                              \/ /\ call'[c].pc = "join"
                                 /\ call'[c].floor <= seen[Asked(call'[c].key)]
    PROVE  MonoInv'
<1> USE HttpConstants
<1>0. /\ upstream \in 1 .. VersionBound /\ upstream' \in 1 .. VersionBound
      /\ flight \in [Keys -> FlightType] /\ seen \in [Namespaces \X Gets -> 0 .. VersionBound]
  BY HttpParts DEF HttpInv, HttpTypeOK, Versions
<1>1. SeenInv'
  BY <1>0 DEF MonoInv, SeenInv
<1>2. FlightInv'
  <2> SUFFICES ASSUME NEW l \in Keys
               PROVE  /\ flight'[l].ver <= upstream'
                      /\ flight'[l].leader = Nobody => flight'[l].ver = 0
                      /\ Orders[l[2]] = 1 /\ flight'[l].ver # 0 => seen[Asked(l)] <= flight'[l].ver
    BY DEF FlightInv, Asked
  <2>1. flight[l].ver \in Int /\ flight[l].ver <= upstream
    BY <1>0 DEF MonoInv, FlightInv, FlightType
  <2> QED BY <1>0, <2>1 DEF MonoInv, FlightInv
<1>3. LeadsInv'
  BY DEF MonoInv, LeadsInv
<1>4. FloorInv'
  BY DEF MonoInv, FloorInv, Asked
<1>5. OrderedInv'
  BY DEF MonoInv, OrderedInv
<1> QED BY <1>1, <1>2, <1>3, <1>4, <1>5 DEF MonoInv

\* The http module keeps what makes reads monotonic.
LEMMA MonoKept ==
    ASSUME HttpInv, MonoInv, HttpNext
    PROVE  MonoInv'
<1> USE HttpConstants
<1>0. /\ upstream \in 1 .. VersionBound /\ cache \in [Keys -> 0 .. VersionBound]
      /\ flight \in [Keys -> FlightType] /\ call \in [Callers -> CallType]
      /\ LeaderInv /\ KeyedInv
      /\ seen \in [Namespaces \X Gets -> 0 .. VersionBound]
      /\ regressed \subseteq Namespaces \X Gets
  BY HttpParts
<1>h. HttpInv'
  BY HttpKept
<1>1. ASSUME NEW c \in Callers, NEW ns \in Namespaces, NEW g \in Gets, NEW ttl \in {0, 1}, Get(c, ns, g, ttl)
      PROVE  MonoInv'
  <2>1. upstream' >= upstream /\ flight' = flight /\ <<ns, g>> \in Namespaces \X Gets
    BY <1>0, <1>1 DEF Get
  <2>2. CASE UNCHANGED <<call, seen, regressed>>
    BY <1>h, <2>1, <2>2, MonoCalls
  <2>3. ASSUME NEW o \in 1 .. Orders[g], getCached(<<ns, g, o>>, ttl) # 0, call' = call,
               Report(ns, g, getCached(<<ns, g, o>>, ttl), IF Cached(ttl) THEN {} ELSE {seen[<<ns, g>>]})
        PROVE  MonoInv'
    <3>1. UNCHANGED <<seen, regressed>>
      BY <2>3 DEF getCached, Report
    <3> QED BY <1>h, <2>1, <2>3, <3>1, MonoCalls
  <2>4. ASSUME NEW o \in 1 .. Orders[g],
               call' = [call EXCEPT ![c] = [pc |-> "join", key |-> <<ns, g, o>>, ttl |-> ttl, ver |-> 0,
                                            floor |-> IF Cached(ttl) THEN 0 ELSE seen[<<ns, g>>]]],
               UNCHANGED <<seen, regressed>>
        PROVE  MonoInv'
    <3>1. PICK f : f = IF Cached(ttl) THEN 0 ELSE seen[<<ns, g>>]
      OBVIOUS
    <3>2. f <= seen[<<ns, g>>]
      BY <1>0, <2>1, <3>1
    <3>3. call'[c].pc = "join" /\ call'[c].floor = f /\ Asked(call'[c].key) = <<ns, g>>
      BY <1>0, <2>4, <3>1 DEF Asked
    <3>4. \A d \in Callers : d # c => call'[d] = call[d]
      BY <1>0, <2>4
    <3> QED BY <1>h, <2>1, <2>4, <3>2, <3>3, <3>4, MonoCalls
  <2>6. CASE validateHost(ns, g)
    <3>1. PICK o \in 1 .. Orders[g] :
              IF getCached(<<ns, g, o>>, ttl) # 0
                THEN /\ call' = call
                     /\ Report(ns, g, getCached(<<ns, g, o>>, ttl), IF Cached(ttl) THEN {} ELSE {seen[<<ns, g>>]})
                ELSE /\ call' = [call EXCEPT ![c] = [pc |-> "join", key |-> <<ns, g, o>>, ttl |-> ttl, ver |-> 0,
                                                     floor |-> IF Cached(ttl) THEN 0 ELSE seen[<<ns, g>>]]]
                     /\ UNCHANGED <<seen, regressed>>
      BY <1>1, <2>6 DEF Get
    <3> QED BY <2>3, <2>4, <3>1
  <2> QED BY <1>1, <2>2, <2>6 DEF Get
<1>2. ASSUME NEW c \in Callers, NEW ns \in Namespaces, NEW g \in Gets, Mutate(c, ns, g)
      PROVE  MonoInv'
  <2>1. \A d \in Callers : call'[d] = call[d] \/ call'[d].pc = "mutate"
    BY <1>0, <1>2 DEF Mutate, CallType
  <2> QED BY <1>0, <1>h, <1>2, <2>1, MonoCalls DEF Mutate
<1>3. ASSUME NEW c \in Callers, Do(c) PROVE MonoInv'
  <2>1. PICK k \in Keys : k = call[c].key
    BY <1>0, <1>3 DEF Do, KeyedInv, Keyed
  <2>2. /\ call[c].pc = "join" /\ UNCHANGED <<upstream, cache, seen, regressed>>
        /\ call' = [call EXCEPT ![c].pc = IF flight[k].leader = Nobody THEN "request" ELSE "wait"]
        /\ flight' = IF flight[k].leader = Nobody THEN [flight EXCEPT ![k].leader = c] ELSE flight
    BY <1>3, <2>1 DEF Do
  <2>3. /\ \A d \in Callers : d # c => call'[d] = call[d]
        /\ call'[c].pc = IF flight[k].leader = Nobody THEN "request" ELSE "wait"
        /\ call'[c].key = k /\ call'[c].floor = call[c].floor
    BY <1>0, <2>1, <2>2 DEF CallType
  <2>4. \A l \in Keys : /\ flight'[l].ver = flight[l].ver
                        /\ flight'[l].leader = IF l = k /\ flight[k].leader = Nobody THEN c ELSE flight[l].leader
    BY <1>0, <2>2 DEF FlightType
  <2>5. LeadsInv'
    <3> SUFFICES ASSUME NEW d \in Callers, call'[d].pc = "request" PROVE flight'[call'[d].key].leader = d
      BY DEF LeadsInv
    <3>1. CASE d = c
      BY <2>3, <2>4, <3>1
    <3>2. CASE d # c
      <4>1. call[d].pc = "request" /\ call'[d].key = call[d].key
        BY <2>3, <3>2
      <4>2. call[d].key \in Keys
        BY <1>0, <4>1 DEF KeyedInv, Keyed
      <4>3. flight[call[d].key].leader = d
        BY <4>1 DEF MonoInv, LeadsInv
      <4> QED BY <2>4, <4>1, <4>2, <4>3
    <3> QED BY <3>1, <3>2
  <2>6. FloorInv'
    <3> SUFFICES ASSUME NEW d \in Callers, call'[d].pc \in {"join", "request", "wait"}
                 PROVE  call'[d].floor <= seen[Asked(call'[d].key)]
      BY <2>2 DEF FloorInv, Asked
    <3> QED BY <2>1, <2>2, <2>3 DEF MonoInv, FloorInv
  <2>7. FlightInv'
    BY <2>2, <2>4 DEF MonoInv, FlightInv, Asked
  <2> QED BY <2>2, <2>5, <2>6, <2>7 DEF MonoInv, SeenInv, OrderedInv
<1>4. ASSUME NEW c \in Callers, Serve(c) PROVE MonoInv'
  <2>1. PICK k \in Keys : k = call[c].key
    BY <1>0, <1>4 DEF Serve, KeyedInv, Keyed
  <2>2. /\ call[c].pc = "request" /\ flight' = [flight EXCEPT ![k].ver = upstream]
        /\ UNCHANGED <<upstream, cache, call, seen, regressed>>
    BY <1>4, <2>1 DEF Serve
  <2>3. \A l \in Keys : /\ flight'[l].leader = flight[l].leader
                        /\ flight'[l].ver = IF l = k THEN upstream ELSE flight[l].ver
    BY <1>0, <2>2 DEF FlightType
  <2>4. flight[k].leader # Nobody
    BY <2>1, <2>2 DEF MonoInv, LeadsInv
  <2>5. seen[Asked(k)] <= upstream
    BY KeyParts DEF MonoInv, SeenInv
  <2>6. FlightInv'
    <3> SUFFICES ASSUME NEW l \in Keys
                 PROVE  /\ flight'[l].ver <= upstream'
                        /\ flight'[l].leader = Nobody => flight'[l].ver = 0
                        /\ Orders[l[2]] = 1 /\ flight'[l].ver # 0 => seen[Asked(l)] <= flight'[l].ver
      BY <2>2 DEF FlightInv, Asked
    <3>1. upstream' = upstream
      BY <2>2
    <3> QED BY <1>0, <2>3, <2>4, <2>5, <3>1 DEF MonoInv, FlightInv
  <2>7. LeadsInv'
    BY <1>0, <2>2, <2>3 DEF MonoInv, LeadsInv, KeyedInv, Keyed
  <2> QED BY <2>2, <2>6, <2>7 DEF MonoInv, SeenInv, FloorInv, OrderedInv, Asked
<1>5. ASSUME NEW c \in Callers, doRequest(c) PROVE MonoInv'
  <2>1. PICK k \in Keys : k = call[c].key
    BY <1>0, <1>5 DEF doRequest, KeyedInv, Keyed
  <2>2. PICK ver \in 0 .. VersionBound : ver = flight[k].ver /\ ver # 0
    BY <1>0, <1>5, <2>1 DEF FlightType, doRequest
  <2>3. PICK floors : floors = {call[d].floor : d \in {d \in Sharers(k) : ~Cached(call[d].ttl)}}
    OBVIOUS
  <2>4. Report(k[1], k[2], ver, floors)
    BY <1>5, <2>1, <2>2, <2>3 DEF doRequest
  <2>5. \A d \in Callers : \/ d \notin Sharers(k) /\ call'[d] = call[d]
                           \/ call'[d].pc \in {"store", "idle"}
    <3>1. call' = [d \in Callers |->
                     IF d \notin Sharers(k) THEN call[d]
                     ELSE IF Cached(call[d].ttl) THEN [call[d] EXCEPT !.pc = "store", !.ver = ver]
                     ELSE NoCall]
      BY <1>5, <2>1, <2>2 DEF doRequest
    <3>2. \A n \in CallType : [n EXCEPT !.pc = "store", !.ver = ver].pc = "store"
      BY DEF CallType
    <3> QED BY <1>0, <3>1, <3>2 DEF NoCall
  <2>6. flight' = [flight EXCEPT ![k] = NoFlight] /\ UNCHANGED <<upstream, cache>>
    BY <1>5, <2>1 DEF doRequest
  <2>7. \A l \in Keys : flight'[l] = IF l = k THEN NoFlight ELSE flight[l]
    BY <1>0, <2>6
  <2>8. Asked(k) \in Namespaces \X Gets /\ Asked(k)[2] = k[2]
    BY KeyParts DEF Asked
  <2>9. \A p \in Namespaces \X Gets : /\ seen'[p] >= seen[p]
                                      /\ p # Asked(k) => seen'[p] = seen[p]
                                      /\ seen'[p] = seen[p] \/ seen'[p] = ver
    BY <1>0, <2>2, <2>4, <2>8 DEF Report, Newer, Asked
  <2>10. \A f \in floors : f <= seen[Asked(k)]
    <3> SUFFICES ASSUME NEW d \in Sharers(k) PROVE call[d].floor <= seen[Asked(k)]
      BY <2>3
    <3> QED BY DEF Sharers, MonoInv, FloorInv
  <2>11. Orders[k[2]] = 1 => seen[Asked(k)] <= ver
    BY <2>2 DEF MonoInv, FlightInv
  <2>12. OrderedInv'
    <3>1. CASE Orders[k[2]] = 1
      <4>1. \A f \in floors : f \in Int
        BY <1>0, <2>3 DEF Sharers, CallType
      <4>2. ~ \E f \in floors : ver < f
        BY <1>0, <2>2, <2>8, <2>10, <2>11, <3>1, <4>1
      <4> QED BY <2>4, <4>2 DEF Report, MonoInv, OrderedInv
    <3>2. CASE Orders[k[2]] # 1
      BY <2>4, <2>8, <3>2 DEF Report, MonoInv, OrderedInv, Asked
    <3> QED BY <3>1, <3>2
  <2>13. SeenInv'
    <3>1. ver <= upstream
      BY <2>2 DEF MonoInv, FlightInv
    <3> QED BY <2>6, <2>9, <3>1 DEF MonoInv, SeenInv
  <2>14. FlightInv'
    <3> SUFFICES ASSUME NEW l \in Keys
                 PROVE  /\ flight'[l].ver <= upstream
                        /\ flight'[l].leader = Nobody => flight'[l].ver = 0
                        /\ Orders[l[2]] = 1 /\ flight'[l].ver # 0 => seen'[Asked(l)] <= flight'[l].ver
      BY <2>6 DEF FlightInv, Asked
    <3>1. CASE l = k
      BY <1>0, <2>7, <3>1 DEF NoFlight
    <3>2. CASE l # k
      <4>1. Orders[l[2]] = 1 => Asked(l) # Asked(k)
        BY <3>2, OneKey
      <4>2. Orders[l[2]] = 1 => seen'[Asked(l)] = seen[Asked(l)]
        BY <2>9, <4>1, KeyParts
      <4> QED BY <2>7, <3>2, <4>2 DEF MonoInv, FlightInv
    <3> QED BY <3>1, <3>2
  <2>15. LeadsInv'
    <3> SUFFICES ASSUME NEW d \in Callers, call'[d].pc = "request" PROVE flight'[call'[d].key].leader = d
      BY DEF LeadsInv
    <3>1. call'[d] = call[d] /\ d \notin Sharers(k)
      BY <2>5
    <3>2. call[d].key # k
      BY <3>1 DEF Sharers
    <3>3. call[d].key \in Keys
      BY <1>0, <3>1 DEF KeyedInv, Keyed
    <3> QED BY <2>7, <3>1, <3>2, <3>3 DEF MonoInv, LeadsInv
  <2>16. FloorInv'
    <3> SUFFICES ASSUME NEW d \in Callers, call'[d].pc \in {"join", "request", "wait"}
                 PROVE  call'[d].floor <= seen'[Asked(call'[d].key)]
      BY DEF FloorInv, Asked
    <3>1. call'[d] = call[d]
      BY <2>5
    <3>2. PICK l \in Keys : l = call[d].key
      BY <1>0, <3>1 DEF KeyedInv, Keyed
    <3>3. call[d].floor <= seen[Asked(l)] /\ seen[Asked(l)] <= seen'[Asked(l)]
      BY <2>9, <3>1, <3>2, KeyParts DEF MonoInv, FloorInv
    <3>4. call[d].floor \in Int /\ seen[Asked(l)] \in Int /\ seen'[Asked(l)] \in Int
      <4>1. seen' \in [Namespaces \X Gets -> 0 .. VersionBound]
        BY <1>h DEF HttpInv, HttpTypeOK
      <4> QED BY <1>0, <4>1, KeyParts DEF CallType
    <3> QED BY <3>1, <3>2, <3>3, <3>4
  <2> QED BY <2>12, <2>13, <2>14, <2>15, <2>16 DEF MonoInv
<1>6. ASSUME NEW c \in Callers, RequestFails(c) PROVE MonoInv'
  <2>1. PICK k \in Keys : k = call[c].key
    BY <1>0, <1>6 DEF RequestFails, KeyedInv, Keyed
  <2>2. /\ call' = [d \in Callers |-> IF d \in Sharers(k) THEN NoCall ELSE call[d]]
        /\ flight' = [flight EXCEPT ![k] = NoFlight]
        /\ UNCHANGED <<upstream, cache, seen, regressed>>
    BY <1>6, <2>1 DEF RequestFails
  <2>3. \A d \in Callers : call'[d].pc = "idle" \/ (d \notin Sharers(k) /\ call'[d] = call[d])
    BY <2>2 DEF NoCall
  <2>4. \A l \in Keys : flight'[l] = IF l = k THEN NoFlight ELSE flight[l]
    BY <1>0, <2>2
  <2>5. FlightInv'
    <3> SUFFICES ASSUME NEW l \in Keys
                 PROVE  /\ flight'[l].ver <= upstream'
                        /\ flight'[l].leader = Nobody => flight'[l].ver = 0
                        /\ Orders[l[2]] = 1 /\ flight'[l].ver # 0 => seen[Asked(l)] <= flight'[l].ver
      BY <2>2 DEF FlightInv, Asked
    <3>1. upstream' = upstream
      BY <2>2
    <3> QED BY <1>0, <2>4, <3>1 DEF MonoInv, FlightInv, NoFlight
  <2>6. LeadsInv'
    BY <1>0, <2>3, <2>4 DEF MonoInv, LeadsInv, Sharers, KeyedInv, Keyed
  <2>7. FloorInv'
    BY <2>2, <2>3 DEF MonoInv, FloorInv, Asked
  <2> QED BY <2>2, <2>5, <2>6, <2>7 DEF MonoInv, SeenInv, OrderedInv
<1>7. ASSUME NEW c \in Callers, setCached(c) PROVE MonoInv'
  BY <1>0, <1>h, <1>7, MonoCalls DEF setCached, NoCall
<1>8. ASSUME NEW c \in Callers, MutateReturns(c) PROVE MonoInv'
  BY <1>0, <1>h, <1>8, MonoCalls DEF MutateReturns, NoCall
<1>9. ASSUME NEW k \in Keys, CacheExpires(k) PROVE MonoInv'
  BY <1>0, <1>h, <1>9, MonoCalls DEF CacheExpires
<1>10. CASE Upstream
  BY <1>0, <1>h, <1>10, MonoCalls DEF Upstream
<1>11. CASE UNCHANGED httpVars
  BY <1>0, <1>h, <1>11, MonoCalls DEF httpVars
<1> QED BY <1>1, <1>2, <1>3, <1>4, <1>5, <1>6, <1>7, <1>8, <1>9, <1>10, <1>11 DEF HttpNext, CallStep

------------------------------------------------------------------------------
(* Loading the scripts.                                                    *)

\* Every nonempty set of naturals has a least element.
LEMMA NatLeast ==
    ASSUME NEW S \in SUBSET Nat, S # {}
    PROVE  \E x \in S : \A y \in S : x <= y
<1> DEFINE R == {ss \in Nat \X Nat : ss[1] < ss[2]}
<1>1. IsWellFoundedOn(R, Nat)
  BY NatLessThanWellFounded, Zenon DEF OpToRel
<1> HIDE DEF R
<1>2. PICK x \in S : \A y \in S : ~(<<y, x>> \in R)
  BY <1>1, WFMin
<1>3. ASSUME NEW y \in S PROVE x <= y
  <2>1. x \in Nat /\ y \in Nat
    OBVIOUS
  <2>2. ~(<<y, x>> \in R)
    BY <1>2
  <2>3. ~(y < x)
    BY <2>1, <2>2 DEF R
  <2> QED BY <2>1, <2>3
<1> QED BY <1>3

\* Min and Max of a nonempty set of positions are positions of it.
LEMMA Positions ==
    ASSUME NEW N \in Nat, NEW S \in SUBSET (1 .. N), S # {}
    PROVE  Min(S) \in S /\ Max(S) \in S
<1>1. \E x \in S : \A y \in S : x <= y
  BY NatLeast
<1>2. \E x \in S : \A y \in S : x >= y
  <2> DEFINE U == {m \in Nat : \A y \in S : y <= m}
  <2>1. N \in U
    OBVIOUS
  <2>2. PICK m \in U : \A u \in U : m <= u
    BY <2>1, NatLeast
  <2>3. m \in Nat /\ \A y \in S : y <= m
    OBVIOUS
  <2>4. ASSUME m \notin S PROVE FALSE
    <3>1. \A y \in S : y <= m - 1
      BY <2>3, <2>4
    <3>2. m - 1 \in Nat
      <4>1. PICK y \in S : y \in 1 .. N
        OBVIOUS
      <4> QED BY <2>3, <3>1, <4>1
    <3>3. m - 1 \in U
      BY <3>1, <3>2
    <3> QED BY <2>2, <2>3, <3>3
  <2> QED BY <2>3, <2>4
<1> QED BY <1>1, <1>2 DEF Min, Max

LEMMA ListedDirs ==
    /\ ScriptDirs \in Seq(Dirs) /\ PasswdDirs \in Seq(Dirs)
    /\ \A i \in DOMAIN ScriptDirs : ScriptDirs[i] \in Dirs
    /\ \A i \in DOMAIN PasswdDirs : PasswdDirs[i] \in Dirs
BY TransformerAssumption

LEMMA DiskFile ==
    ASSUME NEW disk \in Disks, NEW d \in Dirs, NEW n \in Names
    PROVE  disk[d][n] \in File
<1>1. disk[d][n] \in Files[d][n]
  BY DEF Disks
<1>2. Files[d][n] \in SUBSET File
  BY TransformerAssumption
<1> QED BY <1>1, <1>2

LEMMA PasswdType ==
    ASSUME NEW disk \in Disks, NEW n \in Names
    PROVE  loadPasswd(disk, n) \in SUBSET Creds
<1> DEFINE dirs == IF PasswdDirs = <<>> THEN ScriptDirs ELSE PasswdDirs
           parsed == {i \in DOMAIN dirs : disk[dirs[i]][n].passwd # {}}
<1>1. dirs \in Seq(Dirs)
  BY ListedDirs, SMTT(30)
<1>2. CASE parsed = {}
  BY <1>2 DEF loadPasswd
<1>3. CASE parsed # {}
  <2>1. PICK i \in parsed : i = Min(parsed)
    <3>1. parsed \in SUBSET (1 .. Len(dirs)) /\ Len(dirs) \in Nat
      BY <1>1
    <3> QED BY <1>3, <3>1, Positions
  <2>2. disk[dirs[i]][n] \in File
    BY <1>1, DiskFile
  <2>3. UNION disk[dirs[i]][n].passwd \in SUBSET Creds
    BY <2>2 DEF File, Optional
  <2>4. loadPasswd(disk, n) = UNION disk[dirs[i]][n].passwd
    BY <1>3, <2>1 DEF loadPasswd
  <2> QED BY <2>3, <2>4
<1> QED BY <1>2, <1>3

\* A script that a directory has is loaded as a script.
LEMMA ScriptType ==
    ASSUME NEW disk \in Disks, NEW d \in Dirs, NEW n \in loadFromDir(disk, d)
    PROVE  loadScript(disk, d, n) \in Script
<1>1. n \in Names /\ disk[d][n].lua # NoFile
  BY DEF loadFromDir
<1>2. disk[d][n] \in File
  BY <1>1, DiskFile
<1>3. disk[d][n].lua \in {"good", "bad"}
  BY <1>1, <1>2 DEF File
<1>4. (IF disk[d][n].json = {} THEN Hosts ELSE UNION disk[d][n].json) \in SUBSET Hosts
  BY <1>2 DEF File, Optional
<1>5. loadPasswd(disk, n) \in SUBSET Creds
  BY <1>1, PasswdType
<1> QED BY <1>3, <1>4, <1>5 DEF loadScript, Script

\* Whatever the directories hold and whichever cannot be read, a Load gives each
\* name a script or none.
LEMMA LoadType ==
    ASSUME NEW disks \in [DOMAIN ScriptDirs -> Disks], NEW failed
    PROVE  Load(disks, failed) \in [Names -> Script \cup {NoScript}]
<1> SUFFICES ASSUME NEW n \in Names PROVE Load(disks, failed)[n] \in Script \cup {NoScript}
  BY DEF Load
<1> DEFINE having == {i \in DOMAIN ScriptDirs \ failed : n \in loadFromDir(disks[i], ScriptDirs[i])}
<1>1. CASE having = {}
  BY <1>1 DEF Load
<1>2. CASE having # {}
  <2>1. PICK i \in having : i = Max(having)
    <3>1. having \in SUBSET (1 .. Len(ScriptDirs)) /\ Len(ScriptDirs) \in Nat
      BY ListedDirs
    <3> QED BY <1>2, <3>1, Positions
  <2>2. loadScript(disks[i], ScriptDirs[i], n) \in Script
    BY ScriptType, ListedDirs
  <2>3. Load(disks, failed)[n] = loadScript(disks[i], ScriptDirs[i], n)
    BY <1>2, <2>1 DEF Load
  <2> QED BY <2>2, <2>3
<1> QED BY <1>1, <1>2

------------------------------------------------------------------------------
(* The engine: types, and what the goroutine of a request knows.           *)

GoPC == {"off", "start", "run", "loop", "publish", "status", "kv", "put", "done"}
ScriptPC == {"run", "loop", "publish", "status", "kv", "put"}    \* it has a Lua state
ReqType == [pc : {"new", "body", "wait", "answered"}, name : Names \cup {NoFile}, cred : Creds,
            script : Script \cup {NoScript}]
GoType == [pc : GoPC, name : Names \cup {NoFile}, cred : Creds, script : Script \cup {NoScript},
           state : LuaStates \cup {NoState}, ops : Calls \cup {0}, list : SUBSET Calls]
LoadedType == [kv : Names \cup {NoFile}, http : Names \cup {NoFile}]
ChanType == [kind : {"none", "ok", "error"}, list : SUBSET Calls]
AnswerType == [ok : BOOLEAN, list : SUBSET Calls]

RegT  == scripts \in [Names -> Script \cup {NoScript}]
PoolT == pool \subseteq LuaStates /\ loaded \in [LuaStates -> LoadedType]
ReqT  == req \in [Callers -> ReqType] /\ done \subseteq Callers
AnsT  == answer \in [Callers -> AnswerType] /\ chan \in [Callers -> ChanType]
GoT   == go \in [Callers -> GoType]
OutT  == published \subseteq Callers \X Calls /\ unsure \subseteq published

\* A goroutine has a Lua state exactly while it runs its script, which has a name;
\* what it publishes has a number; before Execute it is not running.
RunInv ==
    \A r \in Callers :
        /\ go[r].pc \in ScriptPC <=> go[r].state \in LuaStates
        /\ go[r].pc \notin {"off", "done"} => go[r].name \in Names
        /\ go[r].pc \in {"publish", "status"} => go[r].ops \in Calls
        /\ req[r].pc = "body" => req[r].name \in Names
        /\ req[r].pc \in {"new", "body"} => go[r] = NotRunning

\* Every Lua state in the pool or in use was taken by a request of its own, so
\* that one is left for a request that starts.
Acquired == {r \in Callers : go[r].pc \notin {"off", "start"}}
CardInv  == Cardinality(pool \cup InUse) <= Cardinality(Acquired)

TypeInv == HttpInv /\ RegT /\ PoolT /\ ReqT /\ AnsT /\ GoT /\ OutT /\ RunInv /\ CardInv

LEMMA TypeInvTypeOK == TypeInv => TypeOK
BY DEF TypeInv, HttpInv, RegT, PoolT, ReqT, AnsT, GoT, OutT, TypeOK, ReqType, GoType, GoPC, LoadedType, ChanType, AnswerType

LEMMA Constants == NoCred \in Creds /\ NoState \notin LuaStates /\ OpBound \in [Callers -> Nat]
BY TransformerAssumption

LEMMA Records ==
    /\ NewRequest \in ReqType /\ NewRequest.pc = "new"
    /\ NotRunning \in GoType /\ NotRunning.pc = "off" /\ NotRunning.state = NoState /\ NotRunning.list = {}
    /\ Failure \in AnswerType /\ Failure.ok = FALSE
    /\ Empty \in ChanType /\ Empty.kind = "none"
    /\ NewState \in LoadedType
BY Constants DEF NewRequest, NotRunning, Failure, Empty, NewState, ReqType, GoType, GoPC, AnswerType, ChanType, LoadedType

LEMMA InitType == Init => TypeInv
<1> SUFFICES ASSUME Init PROVE TypeInv
  OBVIOUS
<1>1. HttpInv
  BY HttpInit1 DEF Init
<1>2. RegT
  <2>1. PICK disks \in [DOMAIN ScriptDirs -> Disks] : scripts = Load(disks, {})
    BY DEF Init, FirstLoads
  <2> QED BY <2>1, LoadType DEF RegT
<1>3. PoolT /\ ReqT /\ AnsT /\ GoT /\ OutT
  BY Records DEF Init, PoolT, ReqT, AnsT, GoT, OutT, NewState
<1>4. RunInv
  BY Constants DEF Init, RunInv, ScriptPC, NewRequest, NotRunning
<1>5. CardInv
  <2>1. pool \cup InUse = {} /\ Acquired = {}
    BY DEF Init, InUse, Acquired, NotRunning
  <2> QED BY <2>1, FS_EmptySet DEF CardInv
<1> QED BY <1>1, <1>2, <1>3, <1>4, <1>5 DEF TypeInv

\* The steps of a goroutine between Acquire and Put.
Running(r) ==
    \/ KvCall(r) \/ KvReturns(r)
    \/ \E g \in Gets : HttpMutate(r, g) \/ \E ttl \in {0, 1} : HttpGet(r, g, ttl)
    \/ \E host \in Hosts : Post(r, host)
    \/ PublishWebhook(r) \/ PublishFails(r) \/ SetStatus(r)
    \/ Loop(r) \/ Returns(r) \/ Interrupt(r)

\* They take the goroutine to n, which has the same script and Lua state.
Runs(r, n) ==
    /\ go' = [go EXCEPT ![r] = n]
    /\ go[r].pc \in ScriptPC /\ n.pc \in ScriptPC
    /\ n.state = go[r].state /\ n.name = go[r].name /\ n.cred = go[r].cred /\ n.script = go[r].script
    /\ n.pc \in {"publish", "status"} => n.ops \in Calls
    /\ UNCHANGED <<scripts, pool, done, req, answer>>

\* A script that may call a function counts the call with a number of Calls.
LEMMA Numbered ==
    ASSUME TypeInv, NEW r \in Callers, NEW fn, Invokes(r, fn)
    PROVE  go[r].ops + 1 \in Calls /\ go[r].pc = "run"
<1>1. go[r].pc = "run" /\ go[r].ops < OpBound[r]
  BY DEF Invokes, InLua
<1>2. go[r].ops \in Calls \cup {0}
  BY DEF TypeInv, GoT, GoType
<1>3. \A q \in Callers : OpBound[q] \in Nat
  BY Constants
<1>4. go[r].ops \in Nat
  BY <1>2, <1>3 DEF Calls
<1>5. go[r].ops + 1 \in 1 .. OpBound[r]
  BY <1>1, <1>3, <1>4
<1> QED BY <1>1, <1>5 DEF Calls

LEMMA RunningRuns ==
    ASSUME TypeInv, NEW r \in Callers, Running(r)
    PROVE  \E n \in GoType : Runs(r, n)
<1>0. go[r] \in GoType
  BY DEF TypeInv, GoT
<1>1. ASSUME NEW p \in ScriptPC, go[r].pc \in ScriptPC, go' = [go EXCEPT ![r].pc = p],
             p \in {"publish", "status"} => go[r].ops \in Calls,
             UNCHANGED <<scripts, pool, done, req, answer>>
      PROVE  \E n \in GoType : Runs(r, n)
  <2>1. PICK n : n = [go[r] EXCEPT !.pc = p]
    OBVIOUS
  <2>2. n \in GoType /\ n.pc = p /\ n.ops = go[r].ops
        /\ n.state = go[r].state /\ n.name = go[r].name /\ n.cred = go[r].cred /\ n.script = go[r].script
    BY <1>0, <2>1 DEF GoType, GoPC, ScriptPC
  <2>3. go' = [go EXCEPT ![r] = n]
    BY <1>1, <2>1
  <2> QED BY <1>1, <2>2, <2>3 DEF Runs
<1>2. ASSUME NEW p \in ScriptPC, NEW o \in Calls, go[r].pc \in ScriptPC,
             go' = [go EXCEPT ![r].ops = o, ![r].pc = p],
             UNCHANGED <<scripts, pool, done, req, answer>>
      PROVE  \E n \in GoType : Runs(r, n)
  <2>1. PICK n : n = [go[r] EXCEPT !.ops = o, !.pc = p]
    OBVIOUS
  <2>2. n \in GoType /\ n.pc = p /\ n.ops = o
        /\ n.state = go[r].state /\ n.name = go[r].name /\ n.cred = go[r].cred /\ n.script = go[r].script
    BY <1>0, <2>1 DEF GoType, GoPC, ScriptPC
  <2>3. go' = [go EXCEPT ![r] = n]
    BY <1>2, <2>1
  <2> QED BY <1>2, <2>2, <2>3 DEF Runs
<1>3. CASE KvCall(r)
  <2>1. go[r].ops + 1 \in Calls /\ go[r].pc = "run"
    BY <1>3, Numbered DEF KvCall
  <2> QED BY <1>2, <1>3, <2>1 DEF KvCall, ScriptPC
<1>4. CASE KvReturns(r)
  BY <1>1, <1>4 DEF KvReturns, ScriptPC
<1>5. ASSUME NEW fn, Invokes(r, fn), Counted(r), UNCHANGED <<scripts, pool, done, req, answer>>
      PROVE  \E n \in GoType : Runs(r, n)
  <2>1. go[r].ops + 1 \in Calls /\ go[r].pc = "run"
    BY <1>5, Numbered
  <2>2. PICK o \in Calls : o = go[r].ops + 1
    BY <2>1
  <2>3. PICK n : n = [go[r] EXCEPT !.ops = o]
    OBVIOUS
  <2>4. n \in GoType /\ n.pc = "run"
        /\ n.state = go[r].state /\ n.name = go[r].name /\ n.cred = go[r].cred /\ n.script = go[r].script
    BY <1>0, <2>1, <2>3 DEF GoType, GoPC
  <2>5. go' = [go EXCEPT ![r] = n]
    BY <1>5, <2>2, <2>3 DEF Counted
  <2> QED BY <1>5, <2>1, <2>4, <2>5 DEF Runs, ScriptPC
<1>6. ASSUME NEW g \in Gets, HttpMutate(r, g) PROVE \E n \in GoType : Runs(r, n)
  BY <1>5, <1>6 DEF HttpMutate
<1>7. ASSUME NEW g \in Gets, NEW ttl \in {0, 1}, HttpGet(r, g, ttl) PROVE \E n \in GoType : Runs(r, n)
  BY <1>5, <1>7 DEF HttpGet
<1>8. ASSUME NEW host \in Hosts, Post(r, host) PROVE \E n \in GoType : Runs(r, n)
  <2>1. go[r].ops + 1 \in Calls /\ go[r].pc = "run"
    BY <1>8, Numbered DEF Post
  <2> QED BY <1>2, <1>8, <2>1 DEF Post, ScriptPC
<1>9. CASE PublishWebhook(r)
  <2>1. go[r].pc = "publish" /\ go[r].ops \in Calls
    BY <1>9 DEF PublishWebhook, TypeInv, RunInv
  <2> QED BY <1>1, <1>9, <2>1 DEF PublishWebhook, ScriptPC
<1>10. CASE PublishFails(r)
  BY <1>1, <1>10 DEF PublishFails, ScriptPC
<1>11. CASE SetStatus(r)
  <2>1. go[r].pc = "status" /\ go[r].ops \in Calls
    BY <1>11 DEF SetStatus, TypeInv, RunInv
  <2>2. PICK n : n = [go[r] EXCEPT !.pc = "run", !.list = @ \cup {go[r].ops}]
    OBVIOUS
  <2>3. go[r].list \in SUBSET Calls
    BY <1>0 DEF GoType
  <2>4. n \in GoType /\ n.pc = "run"
        /\ n.state = go[r].state /\ n.name = go[r].name /\ n.cred = go[r].cred /\ n.script = go[r].script
    BY <1>0, <2>1, <2>2, <2>3 DEF GoType, GoPC
  <2>5. go' = [go EXCEPT ![r] = n]
    BY <1>11, <2>2 DEF SetStatus
  <2> QED BY <1>11, <2>1, <2>4, <2>5 DEF Runs, ScriptPC, SetStatus
<1>12. CASE Loop(r)
  BY <1>1, <1>12 DEF Loop, InLua, ScriptPC
<1>13. CASE Returns(r)
  BY <1>1, <1>13 DEF Returns, Ends, InLua, ScriptPC
<1>14. CASE Interrupt(r)
  BY <1>1, <1>14 DEF Interrupt, Ends, ScriptPC
<1> QED BY <1>3, <1>4, <1>6, <1>7, <1>8, <1>9, <1>10, <1>11, <1>12, <1>13, <1>14 DEF Running

LEMMA Finite ==
    ASSUME TypeInv
    PROVE  /\ IsFiniteSet(Acquired) /\ Cardinality(Acquired) \in Nat
           /\ pool \cup InUse \subseteq LuaStates
           /\ IsFiniteSet(pool \cup InUse) /\ Cardinality(pool \cup InUse) \in Nat
<1>1. Acquired \in SUBSET Callers
  BY DEF Acquired
<1>2. pool \cup InUse \in SUBSET LuaStates
  BY DEF TypeInv, PoolT, GoT, GoType, InUse
<1>3. IsFiniteSet(Callers) /\ IsFiniteSet(LuaStates)
  BY TransformerAssumption
<1>4. IsFiniteSet(Acquired) /\ IsFiniteSet(pool \cup InUse)
  BY <1>1, <1>2, <1>3, FS_Subset
<1> QED BY <1>2, <1>4, FS_CardinalityType

\* A request that starts finds a Lua state that is neither pooled nor in use.
LEMMA Fresh ==
    ASSUME TypeInv, NEW r \in Callers, go[r].pc = "start"
    PROVE  \E new \in LuaStates : new \notin pool \cup InUse
<1> SUFFICES ASSUME LuaStates \subseteq pool \cup InUse PROVE FALSE
  OBVIOUS
<1>1. pool \cup InUse = LuaStates
  BY Finite
<1>2. IsFiniteSet(Callers) /\ IsFiniteSet(LuaStates) /\ Cardinality(LuaStates) >= Cardinality(Callers)
  BY TransformerAssumption
<1>3. Acquired \in SUBSET Callers /\ Acquired # Callers
  BY DEF Acquired
<1>4. Cardinality(Acquired) <= Cardinality(Callers) /\ Cardinality(Acquired) # Cardinality(Callers)
  BY <1>2, <1>3, FS_Subset
<1>5. Cardinality(Callers) \in Nat /\ Cardinality(LuaStates) \in Nat /\ Cardinality(Acquired) \in Nat
  BY <1>2, FS_CardinalityType, Finite
<1>6. Cardinality(LuaStates) <= Cardinality(Acquired)
  BY <1>1 DEF TypeInv, CardInv
<1> QED BY <1>2, <1>4, <1>5, <1>6

\* What Acquire does: the state it takes is pooled, or new.
LEMMA Acquires ==
    ASSUME TypeInv, NEW r \in Callers, Acquire(r)
    PROVE  \E s \in LuaStates, n \in GoType :
             /\ s \notin InUse \/ s \in pool
             /\ pool' = pool \ {s}
             /\ loaded' = IF s \in pool THEN loaded ELSE [loaded EXCEPT ![s] = NewState]
             /\ go' = [go EXCEPT ![r] = n]
             /\ n.state = s /\ n.pc \in {"put", "run"} /\ n.list = go[r].list
             /\ n.name = go[r].name /\ n.cred = go[r].cred /\ n.script = go[r].script
<1>1. go[r].pc = "start" /\ go[r] \in GoType
  BY DEF Acquire, TypeInv, GoT
<1>2. PICK new \in LuaStates : new \notin pool \cup InUse /\ new = CHOOSE x \in LuaStates : x \notin pool \cup InUse
  BY <1>1, Fresh
<1>3. PICK s \in pool \cup {new} :
          /\ pool' = pool \ {s}
          /\ loaded' = IF s \in pool THEN loaded ELSE [loaded EXCEPT ![s] = NewState]
          /\ go' = [go EXCEPT ![r].state = s, ![r].pc = IF go[r].script.lua = "bad" THEN "put" ELSE "run"]
  BY <1>2 DEF Acquire
<1>4. s \in LuaStates /\ (s \notin InUse \/ s \in pool)
  BY <1>2 DEF TypeInv, PoolT
<1>5. PICK p \in {"put", "run"} : p = IF go[r].script.lua = "bad" THEN "put" ELSE "run"
  OBVIOUS
<1>6. PICK n : n = [go[r] EXCEPT !.state = s, !.pc = p]
  OBVIOUS
<1>7. go' = [go EXCEPT ![r] = n]
  BY <1>3, <1>5, <1>6
<1>8. /\ n \in GoType /\ n.state = s /\ n.pc = p /\ n.list = go[r].list
      /\ n.name = go[r].name /\ n.cred = go[r].cred /\ n.script = go[r].script
  BY <1>1, <1>4, <1>6 DEF GoType, GoPC
<1> QED BY <1>3, <1>4, <1>7, <1>8

\* The http module only serves scripts that have names.
LEMMA RequiredName ==
    ASSUME TypeInv, NEW r \in Callers, NEW fn, Invokes(r, fn), NEW mod \in {"kv", "http"}
    PROVE  Required(r, mod) \in Names /\ go[r].state \in LuaStates
<1>1. go[r].pc = "run"
  BY DEF Invokes, InLua
<1>2. go[r].state \in LuaStates /\ go[r].name \in Names
  BY <1>1 DEF TypeInv, RunInv, ScriptPC
<1>3. loaded[go[r].state] \in LoadedType
  BY <1>2 DEF TypeInv, PoolT
<1>4. loaded[go[r].state][mod] \in Names \cup {NoFile}
  BY <1>3 DEF LoadedType
<1> QED BY <1>2, <1>4 DEF Required

LEMMA NextHttp == TypeInv /\ [Next]_vars => HttpNext
<1> SUFFICES ASSUME TypeInv, [Next]_vars PROVE HttpNext
  OBVIOUS
<1>1. ASSUME NEW r \in Callers, NEW g \in Gets, NEW ttl \in {0, 1}, HttpGet(r, g, ttl) PROVE HttpNext
  <2>1. Required(r, "http") \in Namespaces
    BY <1>1, RequiredName DEF HttpGet, Names
  <2> QED BY <1>1, <2>1 DEF HttpGet, HttpNext
<1>2. ASSUME NEW r \in Callers, NEW g \in Gets, HttpMutate(r, g) PROVE HttpNext
  <2>1. Required(r, "http") \in Namespaces
    BY <1>2, RequiredName DEF HttpMutate, Names
  <2> QED BY <1>2, <2>1 DEF HttpMutate, HttpNext
<1>3. ASSUME NEW r \in Callers, HttpStep(r) PROVE HttpNext
  BY <1>3 DEF HttpStep, HttpNext
<1>4. CASE Environment
  BY <1>4 DEF Environment, HttpNext
<1>5. ASSUME UNCHANGED httpVars PROVE HttpNext
  BY <1>5 DEF HttpNext
<1>6. CASE Reload
  BY <1>5, <1>6 DEF Reload
<1>7. ASSUME NEW r \in Callers, NEW n \in Names, NEW cred \in Creds, Lookup(r, n, cred) PROVE HttpNext
  BY <1>5, <1>7 DEF Lookup
<1>8. ASSUME NEW r \in Callers, BodyFails(r) \/ Execute(r) \/ WaitStep(r) PROVE HttpNext
  BY <1>5, <1>8 DEF BodyFails, Execute, WaitStep, ContextDone, AnswerTimeout, Answer
<1>9. ASSUME NEW r \in Callers, Acquire(r) \/ KvCall(r) \/ KvReturns(r) \/ PublishWebhook(r) \/ PublishFails(r)
                                \/ SetStatus(r) \/ Loop(r) \/ Returns(r) \/ Interrupt(r) \/ Put(r)
      PROVE  HttpNext
  BY <1>5, <1>9 DEF Acquire, KvCall, KvReturns, PublishWebhook, PublishFails, SetStatus, Loop, Returns, Interrupt, Ends, Put
<1>10. ASSUME NEW r \in Callers, NEW host \in Hosts, Post(r, host) PROVE HttpNext
  BY <1>5, <1>10 DEF Post
<1>11. CASE UNCHANGED vars
  BY <1>5, <1>11 DEF vars
<1> QED BY <1>1, <1>2, <1>3, <1>4, <1>6, <1>7, <1>8, <1>9, <1>10, <1>11 DEF Next, GoStep

\* The steps that touch neither goroutines nor requests, but for their time.
Quiet == UNCHANGED <<pool, go, req, answer, chan, outVars>>

\* The steps of a request's handler that leave its goroutine alone.
Handles(r) ==
    \/ \E n \in Names, cred \in Creds : Lookup(r, n, cred)
    \/ BodyFails(r) \/ AnswerTimeout(r) \/ Answer(r)

LEMMA Kinds ==
    ASSUME [Next]_vars
    PROVE  \/ Quiet
           \/ \E r \in Callers : Handles(r) \/ Execute(r) \/ Acquire(r) \/ Running(r) \/ Put(r)
<1>1. ASSUME NEW r \in Callers, ContextDone(r) \/ HttpStep(r) PROVE Quiet
  BY <1>1 DEF ContextDone, HttpStep, Quiet, tvars, engineVars
<1>2. Reload \/ Environment \/ UNCHANGED vars => Quiet
  BY DEF Reload, Environment, vars, tvars, engineVars, Quiet
<1>3. ASSUME NEW r \in Callers, GoStep(r)
      PROVE  HttpStep(r) \/ Acquire(r) \/ Running(r) \/ Put(r)
  BY <1>3 DEF GoStep, Running
<1> QED BY <1>1, <1>2, <1>3 DEF Next, WaitStep, Handles

\* A step that leaves a goroutine its Lua state, and the pool alone.
LEMMA CardSame ==
    ASSUME TypeInv, pool' = pool,
           \A q \in Callers : /\ go'[q].state = go[q].state
                              /\ go'[q].pc \in {"off", "start"} <=> go[q].pc \in {"off", "start"}
    PROVE  CardInv'
<1>1. InUse' = InUse /\ Acquired' = Acquired
  BY DEF InUse, Acquired
<1> QED BY <1>1 DEF TypeInv, CardInv

LEMMA CardKept == TypeInv /\ [Next]_vars => CardInv'
<1> SUFFICES ASSUME TypeInv, [Next]_vars PROVE CardInv'
  OBVIOUS
<1>0. /\ go \in [Callers -> GoType] /\ RunInv /\ pool \subseteq LuaStates
      /\ Cardinality(pool \cup InUse) <= Cardinality(Acquired)
  BY DEF TypeInv, GoT, PoolT, CardInv
<1>1. CASE Quiet
  BY <1>1, CardSame DEF Quiet
<1>2. ASSUME NEW r \in Callers, Handles(r) PROVE CardInv'
  <2>1. UNCHANGED <<pool, go>>
    BY <1>2 DEF Handles, Lookup, BodyFails, AnswerTimeout, Answer
  <2> QED BY <2>1, CardSame
<1>3. ASSUME NEW r \in Callers, Execute(r) PROVE CardInv'
  <2>1. go[r].pc = "off" /\ go[r].state = NoState
    BY <1>0, <1>3, Records DEF Execute, RunInv
  <2>2. go'[r].pc = "start" /\ go'[r].state = NoState /\ pool' = pool
    BY <1>0, <1>3 DEF Execute, NotRunning
  <2>3. \A q \in Callers : q # r => go'[q] = go[q]
    BY <1>0, <1>3 DEF Execute
  <2> QED BY <2>1, <2>2, <2>3, CardSame
<1>4. ASSUME NEW r \in Callers, Running(r) PROVE CardInv'
  <2>1. PICK n \in GoType : Runs(r, n)
    BY <1>4, RunningRuns
  <2> QED BY <1>0, <2>1, CardSame DEF Runs, ScriptPC
<1>5. ASSUME NEW r \in Callers, Acquire(r) PROVE CardInv'
  <2>1. PICK s \in LuaStates, n \in GoType :
             /\ pool' = pool \ {s} /\ go' = [go EXCEPT ![r] = n]
             /\ n.state = s /\ n.pc \in {"put", "run"}
    BY <1>5, Acquires
  <2>2. go[r].pc = "start" /\ go[r].state = NoState
    BY <1>0, <1>5 DEF Acquire, RunInv, GoType, ScriptPC
  <2>3. \A q \in Callers : go'[q] = IF q = r THEN n ELSE go[q]
    BY <1>0, <2>1
  <2>4. InUse' = InUse \cup {s}
    BY <2>1, <2>2, <2>3, Constants DEF InUse
  <2>5. (pool \cup InUse)' = (pool \cup InUse) \cup {s}
    BY <2>1, <2>4
  <2>6. Acquired' = Acquired \cup {r} /\ r \notin Acquired
    BY <2>1, <2>2, <2>3 DEF Acquired
  <2>7. Cardinality(Acquired') = Cardinality(Acquired) + 1
    BY <2>6, Finite, FS_AddElement
  <2>8. Cardinality((pool \cup InUse)') <= Cardinality(pool \cup InUse) + 1
    <3>1. PICK S : S = pool \cup InUse
      OBVIOUS
    <3>2. IsFiniteSet(S) /\ Cardinality(S) \in Nat
      BY <3>1, Finite
    <3>3. Cardinality(S \cup {s}) = IF s \in S THEN Cardinality(S) ELSE Cardinality(S) + 1
      BY <3>2, FS_AddElement
    <3>4. Cardinality(S \cup {s}) <= Cardinality(S) + 1
      BY <3>2, <3>3
    <3> QED BY <2>5, <3>1, <3>4
  <2>9. Cardinality((pool \cup InUse)') \in Nat
    BY <2>5, Finite, FS_AddElement, FS_CardinalityType
  <2> QED BY <1>0, <2>7, <2>8, <2>9, Finite DEF CardInv
<1>6. ASSUME NEW r \in Callers, Put(r) PROVE CardInv'
  <2>1. go[r].pc = "put" /\ go[r].state \in LuaStates
    BY <1>0, <1>6 DEF Put, RunInv, ScriptPC
  <2>2. pool' = pool \cup {go[r].state}
    BY <1>6 DEF Put
  <2>3. go'[r].pc = "done" /\ go'[r].state = NoState /\ \A q \in Callers : q # r => go'[q] = go[q]
    BY <1>0, <1>6 DEF Put, NotRunning
  <2>4. (pool \cup InUse)' = pool \cup InUse
    BY <2>1, <2>2, <2>3, Constants DEF InUse
  <2>5. Acquired' = Acquired
    BY <2>1, <2>3 DEF Acquired
  <2> QED BY <1>0, <2>4, <2>5 DEF CardInv
<1> QED BY <1>1, <1>2, <1>3, <1>4, <1>5, <1>6, Kinds

\* Each request has a Lua state of its own, and the pool none that is in use.
LEMMA ExclusiveKept == TypeInv /\ StateExclusive /\ [Next]_vars => StateExclusive'
<1> SUFFICES ASSUME TypeInv, StateExclusive, [Next]_vars PROVE StateExclusive'
  OBVIOUS
<1>0. go \in [Callers -> GoType] /\ RunInv
  BY DEF TypeInv, GoT
<1>1. ASSUME pool' = pool, \A q \in Callers : go'[q].state \in {go[q].state, NoState} PROVE StateExclusive'
  BY <1>1 DEF StateExclusive
<1>2. CASE Quiet
  BY <1>1, <1>2 DEF Quiet
<1>3. ASSUME NEW r \in Callers, Handles(r) PROVE StateExclusive'
  <2>1. UNCHANGED <<pool, go>>
    BY <1>3 DEF Handles, Lookup, BodyFails, AnswerTimeout, Answer
  <2> QED BY <1>1, <2>1
<1>4. ASSUME NEW r \in Callers, Execute(r) PROVE StateExclusive'
  <2>1. go'[r].state = NoState /\ pool' = pool /\ \A q \in Callers : q # r => go'[q] = go[q]
    BY <1>0, <1>4 DEF Execute, NotRunning
  <2> QED BY <1>1, <2>1
<1>5. ASSUME NEW r \in Callers, Running(r) PROVE StateExclusive'
  <2>1. PICK n \in GoType : Runs(r, n)
    BY <1>5, RunningRuns
  <2>2. pool' = pool /\ \A q \in Callers : go'[q].state = go[q].state
    BY <1>0, <2>1 DEF Runs
  <2> QED BY <1>1, <2>2
<1>6. ASSUME NEW r \in Callers, Acquire(r) PROVE StateExclusive'
  <2>1. PICK s \in LuaStates, n \in GoType :
             /\ s \notin InUse \/ s \in pool
             /\ pool' = pool \ {s} /\ go' = [go EXCEPT ![r] = n] /\ n.state = s
    BY <1>6, Acquires
  <2>2. \A q \in Callers : go'[q] = IF q = r THEN n ELSE go[q]
    BY <1>0, <2>1
  <2>3. \A q \in Callers : go[q].state # s
    BY <2>1, Constants DEF InUse, StateExclusive
  <2> QED BY <2>1, <2>2, <2>3 DEF StateExclusive
<1>7. ASSUME NEW r \in Callers, Put(r) PROVE StateExclusive'
  <2>1. pool' = pool \cup {go[r].state} /\ go'[r].state = NoState /\ \A q \in Callers : q # r => go'[q] = go[q]
    BY <1>0, <1>7 DEF Put, NotRunning
  <2>2. go[r].state \in LuaStates
    BY <1>0, <1>7 DEF Put, RunInv, ScriptPC
  <2>3. \A q \in Callers : q # r /\ go[q].state # NoState => go[q].state # go[r].state
    BY DEF StateExclusive
  <2> QED BY <2>1, <2>2, <2>3, Constants DEF StateExclusive
<1> QED BY <1>2, <1>3, <1>4, <1>5, <1>6, <1>7, Kinds

\* Answered leaves well-typed answers.
LEMMA AnsweredType ==
    ASSUME TypeInv, NEW r \in Callers, NEW a \in AnswerType, Answered(r, a)
    PROVE  ReqT' /\ AnsT' /\ \A q \in Callers : req'[q].pc = "answered" \/ req'[q] = req[q]
<1>0. /\ req \in [Callers -> ReqType] /\ done \subseteq Callers
      /\ answer \in [Callers -> AnswerType] /\ chan \in [Callers -> ChanType]
  BY DEF TypeInv, ReqT, AnsT
<1>1. PICK n \in ReqType : n = [NewRequest EXCEPT !.pc = "answered"] /\ n.pc = "answered"
  <2>1. [NewRequest EXCEPT !.pc = "answered"] \in ReqType /\ [NewRequest EXCEPT !.pc = "answered"].pc = "answered"
    BY Records DEF ReqType
  <2> QED BY <2>1
<1>2. /\ req' = [req EXCEPT ![r] = n] /\ answer' = [answer EXCEPT ![r] = a]
      /\ done' = done \ {r} /\ chan' = [chan EXCEPT ![r] = Empty]
  BY <1>1 DEF Answered
<1> QED BY <1>0, <1>1, <1>2, Records DEF ReqT, AnsT

LEMMA HandlesType ==
    ASSUME TypeInv, NEW r \in Callers, Handles(r)
    PROVE  /\ ReqT' /\ AnsT' /\ UNCHANGED <<scripts, pool, loaded, go, outVars>>
           /\ \A q \in Callers : \/ req'[q] = req[q]
                                 \/ req'[q].pc = "answered"
                                 \/ /\ req[q].pc = "new" /\ req'[q].pc = "body" /\ req'[q].name \in Names
                                    /\ req'[q].cred \in req'[q].script.creds
<1>0. /\ req \in [Callers -> ReqType] /\ scripts \in [Names -> Script \cup {NoScript}]
      /\ chan \in [Callers -> ChanType]
  BY DEF TypeInv, ReqT, RegT, AnsT
<1>1. UNCHANGED <<scripts, pool, loaded, go, outVars>>
  BY DEF Handles, Lookup, BodyFails, AnswerTimeout, Answer
<1>2. ASSUME NEW a \in AnswerType, Answered(r, a)
      PROVE  ReqT' /\ AnsT' /\ \A q \in Callers : req'[q].pc = "answered" \/ req'[q] = req[q]
  BY <1>2, AnsweredType
<1>3. ASSUME NEW n \in Names, NEW cred \in Creds, Lookup(r, n, cred), ~Answered(r, Failure)
      PROVE  /\ ReqT' /\ AnsT' /\ \A q \in Callers : q # r => req'[q] = req[q]
             /\ req[r].pc = "new" /\ req'[r].pc = "body" /\ req'[r].name \in Names
             /\ req'[r].cred \in req'[r].script.creds
  <2>1. /\ req' = [req EXCEPT ![r] = [pc |-> "body", name |-> n, cred |-> cred, script |-> scripts[n]]]
        /\ req[r].pc = "new" /\ cred \in scripts[n].creds /\ UNCHANGED <<answer, done, chan>>
    BY <1>3 DEF Lookup, Check
  <2>2. PICK m \in ReqType : /\ m = [pc |-> "body", name |-> n, cred |-> cred, script |-> scripts[n]]
                             /\ m.pc = "body" /\ m.name = n /\ m.cred = cred /\ m.script = scripts[n]
    <3>1. scripts[n] \in Script \cup {NoScript}
      BY <1>0
    <3>2. [pc |-> "body", name |-> n, cred |-> cred, script |-> scripts[n]] \in ReqType
      BY <3>1 DEF ReqType
    <3> QED BY <3>2
  <2>3. req' = [req EXCEPT ![r] = m]
    BY <2>1, <2>2
  <2> QED BY <1>0, <2>1, <2>2, <2>3 DEF ReqT, AnsT, TypeInv
<1>4. ASSUME NEW n \in Names, NEW cred \in Creds, Lookup(r, n, cred)
      PROVE  /\ ReqT' /\ AnsT'
             /\ \A q \in Callers : \/ req'[q] = req[q]
                                   \/ req'[q].pc = "answered"
                                   \/ /\ req[q].pc = "new" /\ req'[q].pc = "body" /\ req'[q].name \in Names
                                      /\ req'[q].cred \in req'[q].script.creds
  BY <1>2, <1>3, <1>4, Records
<1>5. [ok |-> chan[r].kind = "ok", list |-> chan[r].list] \in AnswerType
  <2>1. chan[r] \in ChanType /\ (chan[r].kind = "ok") \in BOOLEAN
    BY <1>0
  <2> QED BY <2>1 DEF ChanType, AnswerType
<1>6. CASE BodyFails(r) \/ AnswerTimeout(r)
  BY <1>1, <1>2, <1>6, Records DEF BodyFails, AnswerTimeout
<1>7. CASE Answer(r)
  BY <1>1, <1>2, <1>5, <1>7 DEF Answer
<1> QED BY <1>1, <1>4, <1>6, <1>7 DEF Handles

LEMMA ExecuteType ==
    ASSUME TypeInv, NEW r \in Callers, Execute(r)
    PROVE  \E n \in GoType, m \in ReqType :
              /\ go' = [go EXCEPT ![r] = n] /\ req' = [req EXCEPT ![r] = m] /\ m.pc = "wait"
              /\ n.pc = "start" /\ n.state = NoState /\ n.list = {} /\ n.name \in Names
              /\ n.cred = req[r].cred /\ n.script = req[r].script
              /\ req[r].pc = "body" /\ go[r] = NotRunning
<1>0. req[r] \in ReqType /\ req[r].pc = "body" /\ go[r] = NotRunning /\ req[r].name \in Names
  BY DEF TypeInv, ReqT, RunInv, Execute
<1>1. PICK m \in ReqType : m = [NewRequest EXCEPT !.pc = "wait"] /\ m.pc = "wait"
  <2>1. [NewRequest EXCEPT !.pc = "wait"] \in ReqType /\ [NewRequest EXCEPT !.pc = "wait"].pc = "wait"
    BY Records DEF ReqType
  <2> QED BY <2>1
<1>2. PICK n : n = [NotRunning EXCEPT !.pc = "start", !.name = req[r].name, !.cred = req[r].cred,
                                      !.script = req[r].script]
  OBVIOUS
<1>3. /\ n \in GoType /\ n.pc = "start" /\ n.state = NoState /\ n.list = {} /\ n.name = req[r].name
      /\ n.cred = req[r].cred /\ n.script = req[r].script
  BY <1>0, <1>2, Records DEF GoType, GoPC, ReqType
<1>4. go' = [go EXCEPT ![r] = n] /\ req' = [req EXCEPT ![r] = m]
  BY <1>1, <1>2 DEF Execute
<1> QED BY <1>0, <1>1, <1>3, <1>4

LEMMA RunMove ==
    ASSUME RunInv, NEW r \in Callers, NEW n, go[r].pc # "off", req' = req,
           \A q \in Callers : go'[q] = IF q = r THEN n ELSE go[q],
           n.pc \in ScriptPC <=> n.state \in LuaStates,
           n.pc \notin {"off", "done"} => n.name \in Names,
           n.pc \in {"publish", "status"} => n.ops \in Calls
    PROVE  RunInv'
<1> SUFFICES ASSUME NEW q \in Callers
             PROVE  /\ go'[q].pc \in ScriptPC <=> go'[q].state \in LuaStates
                    /\ go'[q].pc \notin {"off", "done"} => go'[q].name \in Names
                    /\ go'[q].pc \in {"publish", "status"} => go'[q].ops \in Calls
                    /\ req[q].pc = "body" => req[q].name \in Names
                    /\ req[q].pc \in {"new", "body"} => go'[q] = NotRunning
  BY DEF RunInv
<1>1. CASE q # r
  BY <1>1 DEF RunInv
<1>2. CASE q = r
  <2>1. go[r] # NotRunning
    BY Records
  <2> QED BY <1>2, <2>1 DEF RunInv
<1> QED BY <1>1, <1>2

LEMMA GoKept == TypeInv /\ [Next]_vars => GoT' /\ ReqT' /\ RunInv'
<1> SUFFICES ASSUME TypeInv, [Next]_vars PROVE GoT' /\ ReqT' /\ RunInv'
  OBVIOUS
<1>0. go \in [Callers -> GoType] /\ RunInv /\ req \in [Callers -> ReqType] /\ done \subseteq Callers
  BY DEF TypeInv, GoT, ReqT
<1>1. CASE Quiet
  <2>1. done' \subseteq Callers
    <3>1. ASSUME NEW r \in Callers, ContextDone(r) \/ Answered(r, Failure) PROVE done' \subseteq Callers
      BY <1>0, <3>1, SMTT(30) DEF ContextDone, Answered
    <3>2. UNCHANGED done \/ \E r \in Callers : Handles(r) \/ ContextDone(r)
      BY DEF Next, Reload, Environment, Handles, WaitStep, GoStep, Execute, Acquire, HttpStep, KvCall, KvReturns,
             HttpMutate, HttpGet, Post, PublishWebhook, PublishFails, SetStatus, Loop, Returns, Interrupt, Ends,
             Put, vars, tvars, engineVars
    <3> QED BY <1>0, <3>1, <3>2, HandlesType DEF ReqT
  <2> QED BY <1>0, <1>1, <2>1 DEF Quiet, GoT, ReqT, RunInv
<1>2. ASSUME NEW r \in Callers, Handles(r) PROVE GoT' /\ ReqT' /\ RunInv'
  <2>1. /\ ReqT' /\ go' = go
        /\ \A q \in Callers : \/ req'[q] = req[q]
                              \/ req'[q].pc = "answered"
                              \/ req[q].pc = "new" /\ req'[q].pc = "body" /\ req'[q].name \in Names
    BY <1>2, HandlesType
  <2> QED BY <1>0, <2>1 DEF GoT, RunInv
<1>3. ASSUME NEW r \in Callers, Execute(r) PROVE GoT' /\ ReqT' /\ RunInv'
  <2>1. PICK n \in GoType, m \in ReqType :
              /\ go' = [go EXCEPT ![r] = n] /\ req' = [req EXCEPT ![r] = m] /\ m.pc = "wait"
              /\ n.pc = "start" /\ n.state = NoState /\ n.name \in Names
    BY <1>3, ExecuteType
  <2>2. /\ \A q \in Callers : go'[q] = IF q = r THEN n ELSE go[q]
        /\ \A q \in Callers : req'[q] = IF q = r THEN m ELSE req[q]
    BY <1>0, <2>1
  <2>3. done' = done
    BY <1>3 DEF Execute
  <2>4. RunInv'
    BY <1>0, <2>1, <2>2, Constants DEF RunInv, ScriptPC
  <2> QED BY <1>0, <2>1, <2>3, <2>4 DEF GoT, ReqT
<1>4. ASSUME NEW r \in Callers, Running(r) PROVE GoT' /\ ReqT' /\ RunInv'
  <2>1. PICK n \in GoType : Runs(r, n)
    BY <1>4, RunningRuns
  <2>2. \A q \in Callers : go'[q] = IF q = r THEN n ELSE go[q]
    BY <1>0, <2>1 DEF Runs
  <2>3. RunInv'
    <3>1. go[r].pc # "off" /\ go[r].pc \in ScriptPC
      BY <2>1 DEF Runs, ScriptPC
    <3>2. n.state \in LuaStates /\ n.name \in Names
      BY <1>0, <2>1, <3>1 DEF Runs, RunInv, ScriptPC
    <3> QED BY <1>0, <2>1, <2>2, <3>1, <3>2, RunMove DEF Runs
  <2> QED BY <1>0, <2>1, <2>3 DEF GoT, ReqT, Runs
<1>5. ASSUME NEW r \in Callers, Acquire(r) PROVE GoT' /\ ReqT' /\ RunInv'
  <2>1. PICK s \in LuaStates, n \in GoType :
             /\ go' = [go EXCEPT ![r] = n]
             /\ n.state = s /\ n.pc \in {"put", "run"} /\ n.name = go[r].name
    BY <1>5, Acquires
  <2>2. go[r].pc = "start" /\ req' = req /\ done' = done
    BY <1>5 DEF Acquire
  <2>3. \A q \in Callers : go'[q] = IF q = r THEN n ELSE go[q]
    BY <1>0, <2>1
  <2>4. RunInv'
    <3>1. n.name \in Names /\ n.pc \in ScriptPC /\ n.pc \notin {"publish", "status"}
      BY <1>0, <2>1, <2>2 DEF RunInv, ScriptPC
    <3> QED BY <1>0, <2>1, <2>2, <2>3, <3>1, RunMove
  <2> QED BY <1>0, <2>1, <2>2, <2>4 DEF GoT, ReqT
<1>6. ASSUME NEW r \in Callers, Put(r) PROVE GoT' /\ ReqT' /\ RunInv'
  <2>1. PICK n : n = [NotRunning EXCEPT !.pc = "done"]
    OBVIOUS
  <2>2. n \in GoType /\ n.pc = "done" /\ n.state = NoState
    BY <2>1, Records DEF GoType, GoPC
  <2>3. go' = [go EXCEPT ![r] = n] /\ req' = req /\ done' = done /\ go[r].pc = "put"
    BY <1>6, <2>1 DEF Put
  <2>4. \A q \in Callers : go'[q] = IF q = r THEN n ELSE go[q]
    BY <1>0, <2>3
  <2>5. RunInv'
    <3>1. n.pc \notin ScriptPC /\ n.state \notin LuaStates
      BY <2>2, Constants DEF ScriptPC
    <3> QED BY <1>0, <2>2, <2>3, <2>4, <3>1, RunMove
  <2> QED BY <1>0, <2>2, <2>3, <2>5 DEF GoT, ReqT
<1> QED BY <1>1, <1>2, <1>3, <1>4, <1>5, <1>6, Kinds

LEMMA EndsType ==
    ASSUME TypeInv, NEW r \in Callers, NEW outcome \in {"ok", "error"}, Ends(r, outcome)
    PROVE  chan' \in [Callers -> ChanType]
<1>0. chan \in [Callers -> ChanType] /\ go[r].list \in SUBSET Calls
  BY DEF TypeInv, AnsT, GoT, GoType
<1>1. PICK c \in ChanType : c = [kind |-> outcome, list |-> IF outcome = "ok" THEN go[r].list ELSE {}]
  <2>1. [kind |-> outcome, list |-> IF outcome = "ok" THEN go[r].list ELSE {}] \in ChanType
    BY <1>0 DEF ChanType
  <2> QED BY <2>1
<1>2. chan' = chan \/ chan' = [chan EXCEPT ![r] = c]
  BY <1>1 DEF Ends
<1> QED BY <1>0, <1>2

\* The goroutine's steps write nothing but the outcome to the channel, and nothing
\* but published webhooks to the topic.
LEMMA RunningType ==
    ASSUME TypeInv, NEW r \in Callers, Running(r)
    PROVE  AnsT' /\ OutT' /\ loaded' \in [LuaStates -> LoadedType]
<1>0. /\ answer \in [Callers -> AnswerType] /\ chan \in [Callers -> ChanType]
      /\ loaded \in [LuaStates -> LoadedType]
      /\ published \subseteq Callers \X Calls /\ unsure \subseteq published
  BY DEF TypeInv, AnsT, PoolT, OutT
<1>1. answer' = answer
  BY RunningRuns DEF Runs
<1>2. chan' \in [Callers -> ChanType]
  <2>1. CASE Returns(r) \/ Interrupt(r)
    BY <2>1, EndsType DEF Returns, Interrupt
  <2>2. CASE ~(Returns(r) \/ Interrupt(r))
    BY <1>0, <2>2 DEF Running, KvCall, KvReturns, HttpMutate, HttpGet, Post, PublishWebhook, PublishFails, SetStatus, Loop
  <2> QED BY <2>1, <2>2
<1>3. OutT'
  <2>1. CASE PublishWebhook(r) \/ PublishFails(r)
    <3>1. <<r, go[r].ops>> \in Callers \X Calls
      BY <2>1 DEF PublishWebhook, PublishFails, TypeInv, RunInv
    <3>2. CASE PublishWebhook(r)
      BY <1>0, <3>1, <3>2 DEF PublishWebhook, OutT
    <3>3. CASE PublishFails(r)
      <4>1. PICK w \in SUBSET {<<r, go[r].ops>>} : published' = published \cup w /\ unsure' = unsure \cup w
        BY <3>3 DEF PublishFails
      <4> QED BY <1>0, <3>1, <4>1 DEF OutT
    <3> QED BY <2>1, <3>2, <3>3
  <2>2. CASE ~(PublishWebhook(r) \/ PublishFails(r))
    <3>1. UNCHANGED outVars
      BY <2>2 DEF Running, KvCall, KvReturns, HttpMutate, HttpGet, Post, SetStatus, Loop, Returns, Interrupt, Ends
    <3> QED BY <1>0, <3>1 DEF OutT, outVars
  <2> QED BY <2>1, <2>2
<1>4. loaded' \in [LuaStates -> LoadedType]
  <2>1. ASSUME NEW fn, NEW mod \in {"kv", "http"}, Invokes(r, fn), Require(r, mod)
        PROVE  loaded' \in [LuaStates -> LoadedType]
    <3>1. PICK s \in LuaStates, v \in Names : s = go[r].state /\ v = Required(r, mod)
      BY <2>1, RequiredName
    <3>2. loaded' = [loaded EXCEPT ![s][mod] = v]
      BY <2>1, <3>1 DEF Require
    <3>3. PICK n : n = [loaded[s] EXCEPT ![mod] = v]
      OBVIOUS
    <3>4. n \in LoadedType
      <4>1. loaded[s] \in LoadedType
        BY <1>0
      <4>2. CASE mod = "kv"
        BY <3>3, <4>1, <4>2 DEF LoadedType
      <4>3. CASE mod = "http"
        BY <3>3, <4>1, <4>3 DEF LoadedType
      <4> QED BY <4>2, <4>3
    <3>5. loaded' = [loaded EXCEPT ![s] = n]
      BY <3>2, <3>3
    <3> QED BY <1>0, <3>4, <3>5
  <2>2. CASE KvCall(r)
    BY <2>1, <2>2 DEF KvCall
  <2>3. ASSUME NEW g \in Gets, HttpMutate(r, g) PROVE loaded' \in [LuaStates -> LoadedType]
    BY <2>1, <2>3 DEF HttpMutate
  <2>4. ASSUME NEW g \in Gets, NEW ttl \in {0, 1}, HttpGet(r, g, ttl) PROVE loaded' \in [LuaStates -> LoadedType]
    BY <2>1, <2>4 DEF HttpGet
  <2>5. KvReturns(r) \/ (\E host \in Hosts : Post(r, host)) \/ PublishWebhook(r) \/ PublishFails(r) \/ SetStatus(r)
        \/ Loop(r) \/ Returns(r) \/ Interrupt(r) => loaded' = loaded
    BY DEF KvReturns, Post, PublishWebhook, PublishFails, SetStatus, Loop, Returns, Interrupt, Ends
  <2> QED BY <1>0, <2>2, <2>3, <2>4, <2>5 DEF Running
<1> QED BY <1>0, <1>1, <1>2, <1>3, <1>4 DEF AnsT

LEMMA RegKept == TypeInv /\ [Next]_vars => RegT'
<1> SUFFICES ASSUME TypeInv, [Next]_vars PROVE RegT'
  OBVIOUS
<1>1. CASE Reload
  <2>1. PICK disks \in [DOMAIN ScriptDirs -> Disks], failed \in SUBSET DOMAIN ScriptDirs : scripts' = Load(disks, failed)
    BY <1>1 DEF Reload, Loads
  <2> QED BY <2>1, LoadType DEF RegT
<1>2. CASE ~Reload
  <2>1. UNCHANGED scripts
    BY <1>2 DEF Next, Environment, WaitStep, GoStep, Lookup, BodyFails, Execute, ContextDone, AnswerTimeout, Answer,
           Acquire, HttpStep, KvCall, KvReturns, HttpMutate, HttpGet, Post, PublishWebhook, PublishFails, SetStatus,
           Loop, Returns, Interrupt, Ends, Put, vars, tvars
  <2> QED BY <2>1, SMTT(30) DEF TypeInv, RegT
<1> QED BY <1>1, <1>2

LEMMA EngineKept == TypeInv /\ [Next]_vars => PoolT' /\ AnsT' /\ OutT'
<1> SUFFICES ASSUME TypeInv, [Next]_vars PROVE PoolT' /\ AnsT' /\ OutT'
  OBVIOUS
<1>0. /\ answer \in [Callers -> AnswerType] /\ chan \in [Callers -> ChanType]
      /\ pool \subseteq LuaStates /\ loaded \in [LuaStates -> LoadedType]
      /\ published \subseteq Callers \X Calls /\ unsure \subseteq published
  BY DEF TypeInv, AnsT, PoolT, OutT
<1>1. ASSUME NEW r \in Callers, Handles(r) PROVE PoolT' /\ AnsT' /\ OutT'
  BY <1>0, <1>1, HandlesType DEF PoolT, OutT, outVars
<1>2. ASSUME NEW r \in Callers, Running(r) PROVE PoolT' /\ AnsT' /\ OutT'
  <2>1. pool' = pool
    BY <1>2, RunningRuns DEF Runs
  <2> QED BY <1>0, <1>2, <2>1, RunningType DEF PoolT
<1>3. ASSUME NEW r \in Callers, Acquire(r) PROVE PoolT' /\ AnsT' /\ OutT'
  <2>1. PICK s \in LuaStates : /\ pool' = pool \ {s}
                               /\ loaded' = IF s \in pool THEN loaded ELSE [loaded EXCEPT ![s] = NewState]
    BY <1>3, Acquires
  <2>2. PoolT'
    BY <1>0, <2>1, Records DEF PoolT
  <2>3. chan' = chan \/ chan' = [chan EXCEPT ![r].kind = "error"]
    BY <1>3 DEF Acquire
  <2>4. chan' \in [Callers -> ChanType]
    BY <1>0, <2>3 DEF ChanType
  <2> QED BY <1>0, <1>3, <2>2, <2>4 DEF Acquire, AnsT, OutT, outVars
<1>4. ASSUME NEW r \in Callers, Put(r) PROVE PoolT' /\ AnsT' /\ OutT'
  <2>1. go[r].state \in LuaStates
    BY <1>4 DEF Put, TypeInv, RunInv, ScriptPC
  <2> QED BY <1>0, <1>4, <2>1 DEF Put, PoolT, AnsT, OutT, outVars
<1>5. ASSUME UNCHANGED <<pool, loaded, answer, chan, outVars>> PROVE PoolT' /\ AnsT' /\ OutT'
  BY <1>0, <1>5 DEF PoolT, AnsT, OutT, outVars
<1>6. ASSUME NEW r \in Callers, Execute(r) \/ ContextDone(r) \/ HttpStep(r) PROVE PoolT' /\ AnsT' /\ OutT'
  BY <1>5, <1>6 DEF Execute, ContextDone, HttpStep, tvars, engineVars
<1>7. Reload \/ Environment \/ UNCHANGED vars => PoolT' /\ AnsT' /\ OutT'
  BY <1>5 DEF Reload, Environment, vars, tvars, engineVars
<1> QED BY <1>1, <1>2, <1>3, <1>4, <1>6, <1>7 DEF Next, Handles, Running, WaitStep, GoStep

LEMMA TypeStep == TypeInv /\ [Next]_vars => TypeInv'
<1> SUFFICES ASSUME TypeInv, [Next]_vars PROVE TypeInv'
  OBVIOUS
<1>1. HttpInv'
  BY NextHttp, HttpKept DEF TypeInv
<1> QED BY <1>1, GoKept, RegKept, EngineKept, CardKept DEF TypeInv

\* The registry, the handlers, the goroutines, the pool and the http module stay
\* well-typed, whatever files a reload finds.
THEOREM TypeCorrect == Spec => []TypeOK
BY InitType, TypeStep, TypeInvTypeOK, PTL DEF Spec

\* No two goroutines share a Lua state and none that is used is in the pool, for
\* any number of requests, also after a request was answered 504.
THEOREM StatesExclusive == Spec => []StateExclusive
<1>1. Init => StateExclusive
  BY DEF Init, StateExclusive, NotRunning
<1> QED BY <1>1, InitType, TypeStep, ExclusiveKept, PTL DEF Spec

\* A request whose body is awaited has presented credentials of the script it
\* holds, and so has a goroutine.
AuthInv ==
    \A r \in Callers :
        /\ req[r].pc = "body" => req[r].cred \in req[r].script.creds
        /\ go[r].pc \notin {"off", "done"} => go[r].cred \in go[r].script.creds

LEMMA AuthKept == TypeInv /\ AuthInv /\ [Next]_vars => AuthInv'
<1> SUFFICES ASSUME TypeInv, AuthInv, [Next]_vars PROVE AuthInv'
  OBVIOUS
<1>0. go \in [Callers -> GoType] /\ req \in [Callers -> ReqType]
  BY DEF TypeInv, GoT, ReqT
<1>1. CASE Quiet
  BY <1>1 DEF Quiet, AuthInv
<1>2. ASSUME NEW r \in Callers, Handles(r) PROVE AuthInv'
  <2>1. go' = go
    BY <1>2, HandlesType
  <2>2. \A q \in Callers : req'[q].pc = "body" => req'[q] = req[q] \/ req'[q].cred \in req'[q].script.creds
    BY <1>2, HandlesType
  <2> QED BY <2>1, <2>2 DEF AuthInv
<1>3. ASSUME NEW r \in Callers, NEW n, go' = [go EXCEPT ![r] = n],
             \A q \in Callers : req'[q].pc = "body" => req'[q] = req[q],
             n.pc \notin {"off", "done"} => n.cred \in n.script.creds
      PROVE  AuthInv'
  <2>1. \A q \in Callers : go'[q] = IF q = r THEN n ELSE go[q]
    BY <1>0, <1>3
  <2> QED BY <1>3, <2>1 DEF AuthInv
<1>4. ASSUME NEW r \in Callers, Execute(r) PROVE AuthInv'
  <2>1. PICK n \in GoType, m \in ReqType :
              /\ go' = [go EXCEPT ![r] = n] /\ req' = [req EXCEPT ![r] = m] /\ m.pc = "wait"
              /\ n.cred = req[r].cred /\ n.script = req[r].script /\ req[r].pc = "body"
    BY <1>4, ExecuteType
  <2>2. \A q \in Callers : req'[q].pc = "body" => req'[q] = req[q]
    BY <1>0, <2>1
  <2> QED BY <1>3, <2>1, <2>2 DEF AuthInv
<1>5. ASSUME NEW r \in Callers, Running(r) PROVE AuthInv'
  <2>1. PICK n \in GoType : Runs(r, n)
    BY <1>5, RunningRuns
  <2> QED BY <1>3, <2>1 DEF Runs, AuthInv, ScriptPC
<1>6. ASSUME NEW r \in Callers, Acquire(r) PROVE AuthInv'
  <2>1. PICK n \in GoType : go' = [go EXCEPT ![r] = n] /\ n.cred = go[r].cred /\ n.script = go[r].script
    BY <1>6, Acquires
  <2>2. go[r].pc = "start" /\ req' = req
    BY <1>6 DEF Acquire
  <2> QED BY <1>3, <2>1, <2>2 DEF AuthInv
<1>7. ASSUME NEW r \in Callers, Put(r) PROVE AuthInv'
  <2>1. PICK n : n = [NotRunning EXCEPT !.pc = "done"]
    OBVIOUS
  <2>2. go' = [go EXCEPT ![r] = n] /\ req' = req /\ n.pc = "done"
    BY <1>7, <2>1 DEF Put, NotRunning
  <2> QED BY <1>3, <2>2
<1> QED BY <1>1, <1>2, <1>4, <1>5, <1>6, <1>7, Kinds

\* A request runs only a script whose own credentials it presented, however
\* reloads fall between its steps.
THEOREM Authorised == Spec => []AuthorisedRun
<1>1. Init => AuthInv
  BY DEF Init, AuthInv, NewRequest, NotRunning
<1>2. AuthInv => AuthorisedRun
  BY DEF AuthInv, AuthorisedRun
<1> QED BY <1>1, <1>2, InitType, TypeStep, AuthKept, PTL DEF Spec

\* A request whose headers can be met in one order only, as with one header.
OneOrder == \A g \in Gets : Orders[g] = 1

\* With one order per request, an uncached http.get never returns an older
\* version than one that had returned when it began, for any number of callers
\* that share requests and any mixture of cached and uncached calls.
THEOREM ReadsMonotonic == OneOrder => (Spec => []MonotonicReads)
<1> SUFFICES ASSUME OneOrder PROVE Spec => []MonotonicReads
  OBVIOUS
<1>1. Init => MonoInv
  BY HttpInit1 DEF Init
<1>2. TypeInv /\ MonoInv /\ [Next]_vars => MonoInv'
  BY NextHttp, MonoKept DEF TypeInv
<1>3. TypeInv /\ MonoInv => MonotonicReads
  <2> SUFFICES ASSUME TypeInv, MonoInv, NEW p \in regressed PROVE FALSE
    BY DEF MonotonicReads
  <2>1. p[2] \in Gets
    BY DEF TypeInv, HttpInv, HttpTypeOK
  <2> QED BY <2>1 DEF MonoInv, OrderedInv, OneOrder
<1> QED BY <1>1, <1>2, <1>3, InitType, TypeStep, PTL DEF Spec

------------------------------------------------------------------------------
(* The list of webhooks that a request is answered with.                   *)

\* L is what was published for the request, but for publishes that reported an
\* error.
Exact(r, L) ==
    /\ \A n \in L : <<r, n>> \in published
    /\ \A n \in Calls : <<r, n>> \in published \ unsure => n \in L

\* The webhooks a goroutine has published and will have listed.
Listed(r) == IF go[r].pc = "status" THEN go[r].list \cup {go[r].ops} ELSE go[r].list

\* What a goroutine lists is exact at every moment; the outcome it has sent and the
\* answer made of it are the list it ended with, after which it publishes nothing.
ListInv ==
    \A r \in Callers :
        /\ go[r].pc # "done" => Exact(r, Listed(r))
        /\ chan[r].kind = "ok" => go[r].pc \in {"put", "done"} /\ Exact(r, chan[r].list)
        /\ answer[r].ok => go[r].pc \in {"put", "done"} /\ Exact(r, answer[r].list)

\* The goroutine of r goes to n; nothing is published for another request.
LEMMA ListMove ==
    ASSUME TypeInv, ListInv, NEW r \in Callers, NEW n,
           go[r].pc \notin {"put", "done"},
           go' = [go EXCEPT ![r] = n], answer' = answer,
           \A q \in Callers : q # r => \A i : /\ <<q, i>> \in published' <=> <<q, i>> \in published
                                              /\ <<q, i>> \in unsure' <=> <<q, i>> \in unsure,
           \A q \in Callers : q # r => chan'[q] = chan[q],
           n.pc # "done",
           Exact(r, IF n.pc = "status" THEN n.list \cup {n.ops} ELSE n.list)',
           chan'[r].kind = "ok" => n.pc = "put" /\ chan'[r].list = n.list
    PROVE  ListInv'
<1>0. \A q \in Callers : go'[q] = IF q = r THEN n ELSE go[q]
  BY DEF TypeInv, GoT
<1> SUFFICES ASSUME NEW q \in Callers
             PROVE  /\ go'[q].pc # "done" => Exact(q, Listed(q))'
                    /\ chan'[q].kind = "ok" => go'[q].pc \in {"put", "done"} /\ Exact(q, chan[q].list)'
                    /\ answer'[q].ok => go'[q].pc \in {"put", "done"} /\ Exact(q, answer[q].list)'
  BY DEF ListInv
<1>1. CASE q # r
  <2>1. go'[q] = go[q] /\ chan'[q] = chan[q] /\ answer'[q] = answer[q]
    BY <1>0, <1>1
  <2>2. \A i : /\ <<q, i>> \in published' <=> <<q, i>> \in published
               /\ <<q, i>> \in unsure' <=> <<q, i>> \in unsure
    BY <1>1
  <2>3. (go[q].pc # "done" => Exact(q, Listed(q))) => (go'[q].pc # "done" => Exact(q, Listed(q))')
    BY <2>1, <2>2 DEF Exact, Listed
  <2>4. Exact(q, chan[q].list) => Exact(q, chan[q].list)'
    BY <2>1, <2>2 DEF Exact
  <2>5. Exact(q, answer[q].list) => Exact(q, answer[q].list)'
    BY <2>1, <2>2 DEF Exact
  <2> QED BY <2>1, <2>3, <2>4, <2>5 DEF ListInv
<1>2. CASE q = r
  <2>1. go'[q] = n
    BY <1>0, <1>2
  <2>2. ~answer'[q].ok
    BY <1>2 DEF ListInv
  <2>3. Exact(q, Listed(q))'
    BY <1>2, <2>1 DEF Exact, Listed
  <2>4. chan'[q].kind = "ok" => go'[q].pc \in {"put", "done"} /\ Exact(q, chan[q].list)'
    BY <1>2, <2>1 DEF Exact
  <2> QED BY <2>2, <2>3, <2>4
<1> QED BY <1>1, <1>2

\* A step that publishes nothing and sends no outcome.
LEMMA ListSilent ==
    ASSUME TypeInv, ListInv, NEW r \in Callers, NEW n,
           go[r].pc \notin {"put", "done"}, n.pc \notin {"done", "status"}, n.list = Listed(r),
           go' = [go EXCEPT ![r] = n],
           UNCHANGED <<answer, outVars>>,
           chan' = chan \/ \E c \in ChanType : chan' = [chan EXCEPT ![r] = c]
                                               /\ (c.kind = "ok" => n.pc = "put" /\ c.list = n.list)
    PROVE  ListInv'
<1>1. /\ chan[r].kind # "ok" /\ Exact(r, Listed(r))
  BY DEF ListInv
<1>2. chan \in [Callers -> ChanType]
  BY DEF TypeInv, AnsT
<1>3. /\ \A q \in Callers : q # r => chan'[q] = chan[q]
      /\ chan'[r].kind = "ok" => n.pc = "put" /\ chan'[r].list = n.list
  BY <1>1, <1>2
<1>4. Exact(r, IF n.pc = "status" THEN n.list \cup {n.ops} ELSE n.list)'
  BY <1>1 DEF Exact, outVars
<1> QED BY <1>3, <1>4, ListMove DEF outVars

LEMMA ListHandles ==
    ASSUME TypeInv, ListInv, NEW r \in Callers, Handles(r)
    PROVE  ListInv'
<1>0. answer \in [Callers -> AnswerType] /\ chan \in [Callers -> ChanType]
  BY DEF TypeInv, AnsT
<1>1. go' = go /\ published' = published /\ unsure' = unsure
  BY HandlesType DEF outVars
<1>2. ASSUME NEW a, Answered(r, a), a.ok => chan[r].kind = "ok" /\ a.list = chan[r].list
      PROVE  ListInv'
  <2>1. /\ \A q \in Callers : q # r => answer'[q] = answer[q] /\ chan'[q] = chan[q]
        /\ answer'[r] = a /\ chan'[r].kind = "none"
    BY <1>0, <1>2 DEF Answered, Empty
  <2>2. ASSUME NEW q \in Callers, q # r
        PROVE  /\ go'[q].pc # "done" => Exact(q, Listed(q))'
               /\ chan'[q].kind = "ok" => go'[q].pc \in {"put", "done"} /\ Exact(q, chan[q].list)'
               /\ answer'[q].ok => go'[q].pc \in {"put", "done"} /\ Exact(q, answer[q].list)'
    BY <1>1, <2>1, <2>2 DEF ListInv, Exact, Listed
  <2>3. /\ go'[r].pc # "done" => Exact(r, Listed(r))'
        /\ answer'[r].ok => go'[r].pc \in {"put", "done"} /\ Exact(r, answer[r].list)'
    BY <1>1, <1>2, <2>1 DEF ListInv, Exact, Listed
  <2> QED BY <2>1, <2>2, <2>3 DEF ListInv
<1>3. ASSUME UNCHANGED <<answer, chan>> PROVE ListInv'
  BY <1>1, <1>3 DEF ListInv, Exact, Listed
<1>4. ASSUME NEW n \in Names, NEW cred \in Creds, Lookup(r, n, cred) PROVE ListInv'
  BY <1>2, <1>3, <1>4, Records DEF Lookup
<1>5. CASE BodyFails(r) \/ AnswerTimeout(r)
  BY <1>2, <1>5, Records DEF BodyFails, AnswerTimeout
<1>6. CASE Answer(r)
  <2>1. PICK a : a = [ok |-> chan[r].kind = "ok", list |-> chan[r].list]
    OBVIOUS
  <2>2. a.ok => chan[r].kind = "ok" /\ a.list = chan[r].list
    BY <2>1
  <2> QED BY <1>2, <1>6, <2>1, <2>2 DEF Answer
<1> QED BY <1>4, <1>5, <1>6 DEF Handles

LEMMA ListRunning ==
    ASSUME TypeInv, ListInv, NEW r \in Callers, Running(r)
    PROVE  ListInv'
<1>0. go[r] \in GoType /\ chan \in [Callers -> ChanType] /\ go[r].list \in SUBSET Calls
  BY DEF TypeInv, GoT, AnsT, GoType
<1>1. ASSUME NEW p \in ScriptPC \ {"status"}, go[r].pc \in {"run", "loop", "kv", "publish"},
             go' = [go EXCEPT ![r].pc = p], UNCHANGED <<answer, outVars>>,
             chan' = chan \/ \E c \in ChanType : chan' = [chan EXCEPT ![r] = c]
                                                 /\ (c.kind = "ok" => p = "put" /\ c.list = go[r].list)
      PROVE  ListInv'
  <2>1. PICK n : n = [go[r] EXCEPT !.pc = p]
    OBVIOUS
  <2>2. n.pc = p /\ n.list = go[r].list /\ go' = [go EXCEPT ![r] = n]
    BY <1>0, <1>1, <2>1 DEF GoType
  <2>3. n.list = Listed(r)
    BY <1>1, <2>2 DEF Listed
  <2>4. chan' = chan \/ \E c \in ChanType : chan' = [chan EXCEPT ![r] = c]
                                             /\ (c.kind = "ok" => n.pc = "put" /\ c.list = n.list)
    BY <1>1, <2>2
  <2>5. go[r].pc \notin {"put", "done"} /\ n.pc \notin {"done", "status"}
    BY <1>1, <2>2 DEF ScriptPC
  <2>6. UNCHANGED <<answer, outVars>>
    BY <1>1
  <2> QED BY <2>2, <2>3, <2>4, <2>5, <2>6, ListSilent
<1>2. ASSUME NEW p \in {"run", "kv", "publish"}, NEW o, go[r].pc = "run",
             go' = [go EXCEPT ![r].ops = o, ![r].pc = p], UNCHANGED <<answer, chan, outVars>>
      PROVE  ListInv'
  <2>1. PICK n : n = [go[r] EXCEPT !.ops = o, !.pc = p]
    OBVIOUS
  <2>2. n.pc = p /\ n.list = go[r].list /\ go' = [go EXCEPT ![r] = n]
    BY <1>0, <1>2, <2>1 DEF GoType
  <2>3. n.list = Listed(r)
    BY <1>2, <2>2 DEF Listed
  <2> QED BY <1>2, <2>2, <2>3, ListSilent
<1>3. ASSUME NEW fn, Invokes(r, fn), Counted(r), UNCHANGED <<answer, chan, outVars>> PROVE ListInv'
  <2>1. PICK n : n = [go[r] EXCEPT !.ops = @ + 1]
    OBVIOUS
  <2>2. go[r].pc = "run"
    BY <1>3 DEF Invokes, InLua
  <2>3. n.pc = "run" /\ n.list = go[r].list /\ go' = [go EXCEPT ![r] = n]
    BY <1>0, <1>3, <2>1, <2>2 DEF GoType, Counted
  <2>4. n.list = Listed(r)
    BY <2>2, <2>3 DEF Listed
  <2> QED BY <1>3, <2>2, <2>3, <2>4, ListSilent
<1>4. CASE KvCall(r)
  BY <1>2, <1>4 DEF KvCall, Invokes, InLua
<1>5. CASE KvReturns(r)
  BY <1>1, <1>5 DEF KvReturns, ScriptPC
<1>6. ASSUME NEW g \in Gets, HttpMutate(r, g) PROVE ListInv'
  BY <1>3, <1>6 DEF HttpMutate
<1>7. ASSUME NEW g \in Gets, NEW ttl \in {0, 1}, HttpGet(r, g, ttl) PROVE ListInv'
  BY <1>3, <1>7 DEF HttpGet
<1>8. ASSUME NEW host \in Hosts, Post(r, host) PROVE ListInv'
  BY <1>2, <1>8 DEF Post, Invokes, InLua
<1>9. CASE Loop(r)
  BY <1>1, <1>9 DEF Loop, InLua, ScriptPC
<1>10. ASSUME NEW outcome \in {"ok", "error"}, go[r].pc \in {"run", "loop"}, Ends(r, outcome) PROVE ListInv'
  <2>1. PICK c \in ChanType : /\ c = [kind |-> outcome, list |-> IF outcome = "ok" THEN go[r].list ELSE {}]
                              /\ c.kind = "ok" => c.list = go[r].list
    <3>1. [kind |-> outcome, list |-> IF outcome = "ok" THEN go[r].list ELSE {}] \in ChanType
      BY <1>0 DEF ChanType
    <3> QED BY <3>1
  <2>2. chan' = chan \/ chan' = [chan EXCEPT ![r] = c]
    BY <1>10, <2>1 DEF Ends
  <2> QED BY <1>1, <1>10, <2>1, <2>2 DEF Ends, ScriptPC
<1>11. CASE Returns(r) \/ Interrupt(r)
  BY <1>10, <1>11 DEF Returns, Interrupt, InLua
<1>12. CASE SetStatus(r)
  <2>1. PICK n : n = [go[r] EXCEPT !.pc = "run", !.list = @ \cup {go[r].ops}]
    OBVIOUS
  <2>2. go[r].pc = "status"
    BY <1>12 DEF SetStatus
  <2>3. n.pc = "run" /\ n.list = go[r].list \cup {go[r].ops} /\ go' = [go EXCEPT ![r] = n]
    BY <1>0, <1>12, <2>1 DEF GoType, SetStatus
  <2>4. n.list = Listed(r)
    BY <2>2, <2>3 DEF Listed
  <2> QED BY <1>12, <2>2, <2>3, <2>4, ListSilent DEF SetStatus
<1>13. CASE PublishWebhook(r)
  <2>1. PICK n : n = [go[r] EXCEPT !.pc = "status"]
    OBVIOUS
  <2>2. go[r].pc = "publish" /\ published' = published \cup {<<r, go[r].ops>>} /\ unsure' = unsure
    BY <1>13 DEF PublishWebhook
  <2>3. n.pc = "status" /\ n.list = go[r].list /\ n.ops = go[r].ops /\ go' = [go EXCEPT ![r] = n]
    BY <1>0, <1>13, <2>1 DEF GoType, PublishWebhook
  <2>4. Exact(r, go[r].list) /\ chan[r].kind # "ok"
    BY <2>2 DEF ListInv, Listed
  <2>5. Exact(r, IF n.pc = "status" THEN n.list \cup {n.ops} ELSE n.list)'
    BY <2>2, <2>3, <2>4 DEF Exact
  <2>6. \A q \in Callers : q # r => \A i : /\ <<q, i>> \in published' <=> <<q, i>> \in published
                                           /\ <<q, i>> \in unsure' <=> <<q, i>> \in unsure
    BY <2>2
  <2> QED BY <1>13, <2>2, <2>3, <2>4, <2>5, <2>6, ListMove DEF PublishWebhook
<1>14. CASE PublishFails(r)
  <2>1. PICK n : n = [go[r] EXCEPT !.pc = "run"]
    OBVIOUS
  <2>2. PICK w \in SUBSET {<<r, go[r].ops>>} : published' = published \cup w /\ unsure' = unsure \cup w
    BY <1>14 DEF PublishFails
  <2>3. n.pc = "run" /\ n.list = go[r].list /\ go' = [go EXCEPT ![r] = n] /\ go[r].pc = "publish"
    BY <1>0, <1>14, <2>1 DEF GoType, PublishFails
  <2>4. Exact(r, go[r].list) /\ chan[r].kind # "ok"
    BY <2>3 DEF ListInv, Listed
  <2>5. Exact(r, IF n.pc = "status" THEN n.list \cup {n.ops} ELSE n.list)'
    BY <2>2, <2>3, <2>4 DEF Exact
  <2>6. \A q \in Callers : q # r => \A i : /\ <<q, i>> \in published' <=> <<q, i>> \in published
                                           /\ <<q, i>> \in unsure' <=> <<q, i>> \in unsure
    BY <2>2
  <2> QED BY <1>14, <2>3, <2>4, <2>5, <2>6, ListMove DEF PublishFails
<1> QED BY <1>4, <1>5, <1>6, <1>7, <1>8, <1>9, <1>11, <1>12, <1>13, <1>14 DEF Running

LEMMA ListKept == TypeInv /\ ListInv /\ [Next]_vars => ListInv'
<1> SUFFICES ASSUME TypeInv, ListInv, [Next]_vars PROVE ListInv'
  OBVIOUS
<1>1. CASE Quiet
  BY <1>1 DEF Quiet, outVars, ListInv, Exact, Listed
<1>2. ASSUME NEW r \in Callers, Execute(r) PROVE ListInv'
  <2>1. PICK n \in GoType : go' = [go EXCEPT ![r] = n] /\ n.pc = "start" /\ n.list = {} /\ go[r] = NotRunning
    BY <1>2, ExecuteType
  <2>2. go[r].pc = "off" /\ Listed(r) = {}
    BY <2>1, Records DEF Listed
  <2> QED BY <1>2, <2>1, <2>2, ListSilent DEF Execute
<1>3. ASSUME NEW r \in Callers, Acquire(r) PROVE ListInv'
  <2>1. PICK n \in GoType : go' = [go EXCEPT ![r] = n] /\ n.pc \in {"put", "run"} /\ n.list = go[r].list
    BY <1>3, Acquires
  <2>2. go[r].pc = "start" /\ n.list = Listed(r)
    BY <1>3, <2>1 DEF Acquire, Listed
  <2>3. PICK c : c = [chan[r] EXCEPT !.kind = "error"]
    OBVIOUS
  <2>4. c \in ChanType /\ c.kind = "error"
    BY <2>3 DEF TypeInv, AnsT, ChanType
  <2>5. chan' = chan \/ chan' = [chan EXCEPT ![r] = c]
    BY <1>3, <2>3 DEF Acquire
  <2> QED BY <1>3, <2>1, <2>2, <2>4, <2>5, ListSilent DEF Acquire
<1>4. ASSUME NEW r \in Callers, Put(r) PROVE ListInv'
  <2>1. /\ go'[r].pc = "done" /\ go[r].pc = "put" /\ \A q \in Callers : q # r => go'[q] = go[q]
        /\ UNCHANGED <<answer, chan, published, unsure>>
    BY <1>4 DEF Put, NotRunning, outVars, TypeInv, GoT
  <2> QED BY <2>1 DEF ListInv, Exact, Listed
<1> QED BY <1>1, <1>2, <1>3, <1>4, ListHandles, ListRunning, Kinds

\* A 200 lists exactly what its script published, but for publishes that reported
\* an error, whatever other requests do and however long the goroutine goes on.
THEOREM AnswersExact == Spec => []ListedExact
<1>1. Init => ListInv
  BY DEF Init, ListInv, Exact, Listed, NotRunning, Empty, Failure
<1>2. ListInv => ListedExact
  BY DEF ListInv, Exact, ListedExact
<1> QED BY <1>1, <1>2, InitType, TypeStep, ListKept, PTL DEF Spec
==============================================================================
