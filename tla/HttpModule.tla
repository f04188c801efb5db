------------------------------ MODULE HttpModule ------------------------------
(***************************************************************************)
(* The http module of the Lua scripts (internal/script/modules/http.go):   *)
(* host allowlists, the response cache and the single-flight group that    *)
(* the scripts of one process share.                                       *)
(*                                                                         *)
(* A response is the version of the resource it was read from; 0 stands    *)
(* for "none".  A cache key is the namespace, the request and the order in *)
(* which buildCacheKey met its headers: Go ranges over a map in any order, *)
(* so a request with two headers has two keys.  Every access to the cache, *)
(* to the single-flight group or to the server is a step of its own.       *)
(***************************************************************************)
EXTENDS Integers, FiniteSets

CONSTANTS
    Callers,       \* goroutines that run scripts
    Namespaces,    \* namespaces of the scripts
    Gets,          \* GET requests: a URL and headers
    HostOf,        \* the host of each
    Orders,        \* the number of orders its headers may be met in
    GlobalHosts,   \* hosts that config.AllowedHosts matches
    NsHosts,       \* per namespace, hosts its own list matches ({}: no list)
    CacheEnabled,  \* config.HTTPCacheEnabled
    VersionBound   \* bound: versions of the resource

Keys     == UNION {{<<ns, g, o>> : ns \in Namespaces, o \in 1 .. Orders[g]} : g \in Gets}
Versions == 1 .. VersionBound
NoKey    == <<>>
Nobody   == "nobody"

ASSUME HttpAssumption ==
    /\ Orders \in [Gets -> Nat \ {0}]
    /\ NsHosts \in [Namespaces -> SUBSET (GlobalHosts \cup {HostOf[g] : g \in Gets})]
    /\ CacheEnabled \in BOOLEAN /\ VersionBound \in Nat \ {0}
    /\ Nobody \notin Callers

VARIABLES
    upstream,   \* the version the server has
    cache,      \* HTTPModule.cache: the response of each key, if not expired
    flight,     \* HTTPModule.singleflight: who runs each key's request, and the
                \* response on its way back
    call,       \* each caller's call
    seen,       \* history: newest version an uncached call of a request returned
    regressed   \* history: requests an uncached call of which returned an older
                \* version than was seen when it began

httpVars == <<upstream, cache, flight, call, seen, regressed>>

\* floor: the newest version seen when the call began.
NoCall   == [pc |-> "idle", key |-> NoKey, ttl |-> 0, ver |-> 0, floor |-> 0]
NoFlight == [leader |-> Nobody, ver |-> 0]

HttpTypeOK ==
    /\ upstream \in Versions
    /\ cache \in [Keys -> 0 .. VersionBound]
    /\ flight \in [Keys -> [leader : Callers \cup {Nobody}, ver : 0 .. VersionBound]]
    /\ call \in [Callers -> [pc : {"idle", "join", "request", "wait", "store", "mutate"},
                             key : Keys \cup {NoKey}, ttl : {0, 1}, ver : 0 .. VersionBound,
                             floor : 0 .. VersionBound]]
    /\ \A k \in Keys : flight[k].leader # Nobody =>
          call[flight[k].leader].pc = "request" /\ call[flight[k].leader].key = k
    /\ seen \in [Namespaces \X Gets -> 0 .. VersionBound]
    /\ regressed \subseteq Namespaces \X Gets

HttpInit ==
    /\ upstream = 1
    /\ cache = [k \in Keys |-> 0]
    /\ flight = [k \in Keys |-> NoFlight]
    /\ call = [c \in Callers |-> NoCall]
    /\ seen = [r \in Namespaces \X Gets |-> 0]
    /\ regressed = {}

------------------------------------------------------------------------------
\* A namespace with a list of its own does not use the global one.
validateHost(ns, g) ==
    IF NsHosts[ns] # {} THEN HostOf[g] \in NsHosts[ns] ELSE HostOf[g] \in GlobalHosts

Cached(ttl) == CacheEnabled /\ ttl > 0

\* Mutant: the cache answers calls that did not ask for it.
getCachedAlways(key, ttl) == IF CacheEnabled THEN cache[key] ELSE 0

\* getCached, for a call with a cache_ttl only.
getCached(key, ttl) == IF Cached(ttl) THEN cache[key] ELSE 0

Newer(a, b) == IF a > b THEN a ELSE b

\* Uncached calls that began when floors were seen return ver.
Report(ns, g, ver, floors) ==
    /\ seen' = IF floors = {} THEN seen ELSE [seen EXCEPT ![<<ns, g>>] = Newer(@, ver)]
    /\ regressed' = IF \E f \in floors : ver < f THEN regressed \cup {<<ns, g>>} ELSE regressed

\* http.get: the host is allowed, the key built and the cache consulted, which
\* may answer the call.  A refused call returns an error and touches nothing.
Get(c, ns, g, ttl) ==
    /\ call[c].pc = "idle"
    /\ IF validateHost(ns, g)
         THEN \E key \in {<<ns, g, o>> : o \in 1 .. Orders[g]} :
                IF getCached(key, ttl) # 0
                  THEN /\ call' = call
                       /\ Report(ns, g, getCached(key, ttl), IF Cached(ttl) THEN {} ELSE {seen[<<ns, g>>]})
                  ELSE /\ call' = [call EXCEPT ![c] = [pc |-> "join", key |-> key, ttl |-> ttl, ver |-> 0,
                                                       floor |-> IF Cached(ttl) THEN 0 ELSE seen[<<ns, g>>]]]
                       /\ UNCHANGED <<seen, regressed>>
         ELSE UNCHANGED <<call, seen, regressed>>
    /\ UNCHANGED <<upstream, cache, flight>>

\* singleflight.Do: the first caller of a key runs the request, the others wait
\* for its result.
Do(c) ==
    /\ call[c].pc = "join"
    /\ LET leads == flight[call[c].key].leader = Nobody
       IN  /\ call' = [call EXCEPT ![c].pc = IF leads THEN "request" ELSE "wait"]
           /\ flight' = IF leads THEN [flight EXCEPT ![call[c].key].leader = c] ELSE flight
    /\ UNCHANGED <<upstream, cache, seen, regressed>>

\* The server answers the request; the response is on its way.
Serve(c) ==
    /\ call[c].pc = "request" /\ flight[call[c].key].ver = 0
    /\ flight' = [flight EXCEPT ![call[c].key].ver = upstream]
    /\ UNCHANGED <<upstream, cache, call, seen, regressed>>

Sharers(k) == {c \in Callers : call[c].key = k /\ call[c].pc \in {"request", "wait"}}

\* doRequest returns and Do hands its response to every caller that shared it;
\* those that do not cache it return.
doRequest(c) ==
    LET k   == call[c].key
        ver == flight[k].ver
    IN  /\ call[c].pc = "request" /\ ver # 0
        /\ call' = [d \in Callers |->
                      IF d \notin Sharers(k) THEN call[d]
                      ELSE IF Cached(call[d].ttl) THEN [call[d] EXCEPT !.pc = "store", !.ver = ver]
                      ELSE NoCall]
        /\ Report(k[1], k[2], ver, {call[d].floor : d \in {d \in Sharers(k) : ~Cached(call[d].ttl)}})
        /\ flight' = [flight EXCEPT ![k] = NoFlight]
        /\ UNCHANGED <<upstream, cache>>

\* Mutant: a failed request stays in the single-flight group.
RequestFailsHeld(c) ==
    /\ call[c].pc = "request"
    /\ call' = [d \in Callers |-> IF d \in Sharers(call[c].key) THEN NoCall ELSE call[d]]
    /\ UNCHANGED <<upstream, cache, flight, seen, regressed>>

\* The request fails or runs into the client's timeout, also when the server has
\* answered it: every caller gets the error.
RequestFails(c) ==
    /\ call[c].pc = "request"
    /\ call' = [d \in Callers |-> IF d \in Sharers(call[c].key) THEN NoCall ELSE call[d]]
    /\ flight' = [flight EXCEPT ![call[c].key] = NoFlight]
    /\ UNCHANGED <<upstream, cache, seen, regressed>>

\* setCached by each caller that asked for it.
setCached(c) ==
    /\ call[c].pc = "store"
    /\ cache' = [cache EXCEPT ![call[c].key] = call[c].ver]
    /\ call' = [call EXCEPT ![c] = NoCall]
    /\ UNCHANGED <<upstream, flight, seen, regressed>>

\* http.post, put and delete: neither the cache nor the single-flight group.
Mutate(c, ns, g) ==
    /\ call[c].pc = "idle"
    /\ call' = IF validateHost(ns, g) THEN [call EXCEPT ![c].pc = "mutate"] ELSE call
    /\ UNCHANGED <<upstream, cache, flight, seen, regressed>>

\* Its request is answered or fails; a failed one may have changed the resource.
MutateReturns(c) ==
    /\ call[c].pc = "mutate"
    /\ call' = [call EXCEPT ![c] = NoCall]
    /\ upstream' \in {upstream, upstream + 1} \cap Versions
    /\ UNCHANGED <<cache, flight, seen, regressed>>

\* The time to live of an entry is over; cleanupExpired removes nothing else.
CacheExpires(k) ==
    /\ cache[k] # 0
    /\ cache' = [cache EXCEPT ![k] = 0]
    /\ UNCHANGED <<upstream, flight, call, seen, regressed>>

\* The resource changes.
Upstream ==
    /\ upstream < VersionBound
    /\ upstream' = upstream + 1
    /\ UNCHANGED <<cache, flight, call, seen, regressed>>

\* A step inside a call.
CallStep(c) ==
    \/ Do(c) \/ Serve(c) \/ doRequest(c) \/ RequestFails(c) \/ setCached(c) \/ MutateReturns(c)

------------------------------------------------------------------------------
\* Versions do not go back: an uncached http.get that begins after another one of
\* the same request returned does not return an older response, however calls
\* share requests ("accurate deduplication").
MonotonicReads == regressed = {}
==============================================================================
