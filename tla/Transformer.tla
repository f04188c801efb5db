------------------------------ MODULE Transformer ------------------------------
(***************************************************************************)
(* Incoming webhooks turned into deliveries by Lua scripts: the registry   *)
(* of script files with its hot reload (internal/transformer/registry.go), *)
(* the handler of POST /incoming/:script_name (internal/api/h_incoming.go) *)
(* and the engine that runs a script in a goroutine of its own with a      *)
(* pooled Lua state (internal/transformer/engine.go).  The scripts' http   *)
(* calls are those of HttpModule; a caller there is a request's goroutine. *)
(*                                                                         *)
(* What a script does is a choice at each step: call a module, post, fail, *)
(* loop for ever or return.  The files may change at any time, so that a   *)
(* Load finds any files in a directory and is one step, the one in which   *)
(* it swaps the map; only the files of one directory are read together.    *)
(***************************************************************************)
EXTENDS HttpModule, Sequences, SequencesExt

CONSTANTS
    ScriptDirs,    \* TransformerConfig.ScriptDirs, a sequence
    PasswdDirs,    \* TransformerConfig.PasswdDirs, empty for ScriptDirs
    LuaStates,     \* names for Lua states
    Hosts,         \* hosts a script may post to
    Creds,         \* what a request may present, NoCred for nothing
    NoCred,
    Files,         \* per directory and script, the files an operator may leave
    Faults,        \* subset of AllFaults
    Uses,          \* bound, per request: the functions its script may call
    OpBound        \* bound, per request: how many calls it makes

\* dir: a directory cannot be read.  publish: a publish fails.  ambiguous: a
\* publish that reports an error has taken place.
AllFaults == {"dir", "publish", "ambiguous"}

LuaFunctions == {"http.get", "http.get with cache_ttl", "http.put", "kv", "howk.post"}

Names == Namespaces     \* a script's name is its namespace
Dirs  == {ScriptDirs[i] : i \in DOMAIN ScriptDirs} \cup {PasswdDirs[i] : i \in DOMAIN PasswdDirs}

NoFile == "no file"

\* The contents of an optional file: none if it is absent or does not parse, which
\* the code treats alike.
Optional(S) == {{}} \cup {{x} : x \in SUBSET S}

\* bad: Lua that does not compile.  json: the hosts that allowed_domains matches.
File   == [lua : {"good", "bad", NoFile}, json : Optional(Hosts), passwd : Optional(Creds)]
Script == [lua : {"good", "bad"}, hosts : SUBSET Hosts, creds : SUBSET Creds]
Calls    == UNION {1 .. OpBound[r] : r \in Callers}
NoScript == [lua |-> NoFile, hosts |-> {}, creds |-> {}]
NoState  == "no state"

ASSUME TransformerAssumption ==
    /\ ScriptDirs \in Seq(Dirs) /\ PasswdDirs \in Seq(Dirs)
    /\ Files \in [Dirs -> [Names -> SUBSET File]]
    /\ Uses \in [Callers -> SUBSET LuaFunctions]
    /\ NoCred \in Creds
    /\ NoState \notin LuaStates
    /\ IsFiniteSet(Callers) /\ IsFiniteSet(LuaStates)
    /\ Cardinality(LuaStates) >= Cardinality(Callers)
    /\ Faults \subseteq AllFaults
    /\ OpBound \in [Callers -> Nat]

VARIABLES
    scripts,    \* Registry.scripts
    pool,       \* Engine.pool
    loaded,     \* each Lua state's package.loaded: the script kv and http serve
    req,        \* each request's handler
    answer,     \* its answer: an error status, or 200 and a list of webhooks
    done,       \* requests whose time is over
    go,         \* each request's goroutine
    chan,       \* resultCh and errCh: what the goroutine has sent, and its list
    published,  \* webhooks published: request and number
    unsure      \* history: those whose publish reported an error

engineVars   == <<pool, loaded, done, go, chan>>
outVars      == <<published, unsure>>
tvars == <<scripts, engineVars, outVars, req, answer>>
vars  == <<tvars, httpVars>>

Empty      == [kind |-> "none", list |-> {}]
Failure    == [ok |-> FALSE, list |-> {}]
NewRequest == [pc |-> "new", name |-> NoFile, cred |-> NoCred, script |-> NoScript]
NotRunning == [pc |-> "off", name |-> NoFile, cred |-> NoCred, script |-> NoScript, state |-> NoState, ops |-> 0, list |-> {}]

TypeOK ==
    /\ HttpTypeOK
    /\ scripts \in [Names -> Script \cup {NoScript}]
    /\ pool \subseteq LuaStates
    /\ loaded \in [LuaStates -> [kv : Names \cup {NoFile}, http : Names \cup {NoFile}]]
    /\ req \in [Callers -> [pc : {"new", "body", "wait", "answered"}, name : Names \cup {NoFile}, cred : Creds,
                            script : Script \cup {NoScript}]]
    /\ answer \in [Callers -> [ok : BOOLEAN, list : SUBSET Calls]]
    /\ done \subseteq Callers
    /\ go \in [Callers -> [pc : {"off", "start", "run", "loop", "publish", "status", "kv", "put", "done"},
                           name : Names \cup {NoFile}, cred : Creds, script : Script \cup {NoScript},
                           state : LuaStates \cup {NoState}, ops : Calls \cup {0}, list : SUBSET Calls]]
    /\ chan \in [Callers -> [kind : {"none", "ok", "error"}, list : SUBSET Calls]]
    /\ published \subseteq Callers \X Calls
    /\ unsure \subseteq published

------------------------------------------------------------------------------
(* Registry.                                                               *)

\* What the directories may hold.
Disks == {disk \in [Dirs -> [Names -> UNION {Files[d][n] : d \in Dirs, n \in Names}]] :
             \A d \in Dirs, n \in Names : disk[d][n] \in Files[d][n]}

\* loadPasswd: the first directory whose file parses; open without one.
loadPasswd(disk, n) ==
    LET dirs   == IF PasswdDirs = <<>> THEN ScriptDirs ELSE PasswdDirs
        parsed == {i \in DOMAIN dirs : disk[dirs[i]][n].passwd # {}}
    IN  IF parsed = {} THEN Creds ELSE UNION disk[dirs[Min(parsed)]][n].passwd

\* loadScript: a config that does not parse counts as none, and then any host
\* is allowed.
loadScript(disk, d, n) ==
    [lua   |-> disk[d][n].lua,
     hosts |-> IF disk[d][n].json = {} THEN Hosts ELSE UNION disk[d][n].json,
     creds |-> loadPasswd(disk, n)]

\* loadFromDir: the scripts that a directory has.
loadFromDir(disk, d) == {n \in Names : disk[d][n].lua # NoFile}

\* Load, when disks[i] is found at the i-th directory and those of failed cannot
\* be read, which it passes over.  A later directory overwrites an earlier one.
Load(disks, failed) ==
    [n \in Names |->
        LET having == {i \in DOMAIN ScriptDirs \ failed : n \in loadFromDir(disks[i], ScriptDirs[i])}
        IN  IF having = {} THEN NoScript ELSE loadScript(disks[Max(having)], ScriptDirs[Max(having)], n)]

\* What a Load may give the registry: a first one without errors, and any.
FirstLoads == {Load(disks, {}) : disks \in [DOMAIN ScriptDirs -> Disks]}
Loads      == {Load(disks, failed) : disks \in [DOMAIN ScriptDirs -> Disks],
                  failed \in (IF "dir" \in Faults THEN SUBSET DOMAIN ScriptDirs ELSE {{}})}

\* The API serves after a first Load without errors.
Init ==
    /\ HttpInit
    /\ scripts \in FirstLoads
    /\ pool = {}
    /\ loaded = [s \in LuaStates |-> [kv |-> NoFile, http |-> NoFile]]
    /\ req = [r \in Callers |-> NewRequest]
    /\ answer = [r \in Callers |-> Failure]
    /\ done = {}
    /\ go = [r \in Callers |-> NotRunning]
    /\ chan = [r \in Callers |-> Empty]
    /\ published = {} /\ unsure = {}

\* SIGHUP: Reload swaps the map, also after errors.  One that finds what is there
\* already changes nothing.
Reload ==
    /\ scripts' \in Loads \ {scripts}
    /\ UNCHANGED <<engineVars, outVars, req, answer, httpVars>>

------------------------------------------------------------------------------
(* The handler of POST /incoming/:script_name.                             *)

\* The handler returns; its deferred cancel ends the context.
Answered(r, a) ==
    /\ req' = [req EXCEPT ![r] = [NewRequest EXCEPT !.pc = "answered"]]
    /\ answer' = [answer EXCEPT ![r] = a]
    /\ done' = done \ {r}
    /\ chan' = [chan EXCEPT ![r] = Empty]

Cancelled(r) == r \in done \/ req[r].pc = "answered"

\* AuthConfig.Check, which a script without a passwd file does not ask for.
Check(script, cred) == cred \in script.creds

\* Registry.Get (404) and Auth.Check (401).
Lookup(r, n, cred) ==
    /\ req[r].pc = "new"
    /\ IF scripts[n] = NoScript \/ ~Check(scripts[n], cred)
         THEN Answered(r, Failure)
         ELSE /\ req' = [req EXCEPT ![r] = [pc |-> "body", name |-> n, cred |-> cred, script |-> scripts[n]]]
              /\ UNCHANGED <<answer, done, chan>>
    /\ UNCHANGED <<scripts, pool, loaded, go, outVars, httpVars>>

\* The body is too large (413) or cannot be read (400).
BodyFails(r) ==
    /\ req[r].pc = "body"
    /\ Answered(r, Failure)
    /\ UNCHANGED <<scripts, pool, loaded, go, outVars, httpVars>>

\* Mutant: the script is looked up again when it is run.
ExecuteLookedUpAgain(r) ==
    /\ req[r].pc = "body"
    /\ req' = [req EXCEPT ![r] = [NewRequest EXCEPT !.pc = "wait"]]
    /\ go' = [go EXCEPT ![r] = [NotRunning EXCEPT !.pc = "start", !.name = req[r].name,
                                                  !.cred = req[r].cred, !.script = scripts[req[r].name]]]
    /\ UNCHANGED <<scripts, pool, loaded, done, chan, outVars, answer, httpVars>>

\* Engine.Execute starts its goroutine and waits.
Execute(r) ==
    /\ req[r].pc = "body"
    /\ req' = [req EXCEPT ![r] = [NewRequest EXCEPT !.pc = "wait"]]
    /\ go' = [go EXCEPT ![r] = [NotRunning EXCEPT !.pc = "start", !.name = req[r].name,
                                                  !.cred = req[r].cred, !.script = req[r].script]]
    /\ UNCHANGED <<scripts, pool, loaded, done, chan, outVars, answer, httpVars>>

\* The timeout is over or the client has gone.
ContextDone(r) ==
    /\ req[r].pc = "wait" /\ r \notin done
    /\ done' = done \cup {r}
    /\ UNCHANGED <<scripts, pool, loaded, go, chan, outVars, req, answer, httpVars>>

\* Mutant: the caller takes the Lua state back when it gives up.
AnswerTimeoutPuts(r) ==
    /\ req[r].pc = "wait" /\ r \in done
    /\ Answered(r, Failure)
    /\ pool' = pool \cup ({go[r].state} \ {NoState})
    /\ UNCHANGED <<scripts, loaded, go, outVars, httpVars>>

\* Execute's select takes timeoutCtx.Done() (504).  The goroutine goes on, and
\* nobody reads what it sends.
AnswerTimeout(r) ==
    /\ req[r].pc = "wait" /\ r \in done
    /\ Answered(r, Failure)
    /\ UNCHANGED <<scripts, pool, loaded, go, outVars, httpVars>>

\* It takes the outcome: an error (422 or 504, transformerErrToHTTP), or the list
\* of webhooks (200).
Answer(r) ==
    /\ req[r].pc = "wait" /\ chan[r] # Empty
    /\ Answered(r, [ok |-> chan[r].kind = "ok", list |-> chan[r].list])
    /\ UNCHANGED <<scripts, pool, loaded, go, outVars, httpVars>>

------------------------------------------------------------------------------
(* The goroutine that runs the script.                                     *)

\* The script runs Lua code: it is in no call and its context is not done, which
\* the Lua machine checks at every instruction.
InLua(r) == go[r].pc = "run" /\ call[r].pc = "idle" /\ ~Cancelled(r)

\* The script calls a function of a module.
Invokes(r, fn) == InLua(r) /\ fn \in Uses[r] /\ go[r].ops < OpBound[r]

InUse == {go[r].state : r \in Callers} \ {NoState}

\* A new Lua state has required nothing.
NewState == [kv |-> NoFile, http |-> NoFile]

\* pool.Get: a pooled state, or a new one.  executeScript sets the context and
\* the globals and compiles the script.
Acquire(r) ==
    /\ go[r].pc = "start"
    /\ \E s \in pool \cup {CHOOSE new \in LuaStates : new \notin pool \cup InUse} :
          /\ pool' = pool \ {s}
          /\ loaded' = IF s \in pool THEN loaded ELSE [loaded EXCEPT ![s] = NewState]
          /\ go' = [go EXCEPT ![r].state = s, ![r].pc = IF go[r].script.lua = "bad" THEN "put" ELSE "run"]
    /\ chan' = IF go[r].script.lua = "bad" /\ req[r].pc = "wait"
                 THEN [chan EXCEPT ![r].kind = "error"] ELSE chan
    /\ UNCHANGED <<scripts, done, outVars, req, answer, httpVars>>

\* require: a module that package.loaded of the state holds is used as it is,
\* otherwise the one that loadModules has just preloaded for this script.
Required(r, mod) == IF loaded[go[r].state][mod] = NoFile THEN go[r].name ELSE loaded[go[r].state][mod]

Require(r, mod) == loaded' = [loaded EXCEPT ![go[r].state][mod] = Required(r, mod)]

Counted(r) == go' = [go EXCEPT ![r].ops = @ + 1]

\* http.get with or without a cache_ttl.
HttpGet(r, g, ttl) ==
    /\ Invokes(r, IF ttl = 0 THEN "http.get" ELSE "http.get with cache_ttl")
    /\ Get(r, Required(r, "http"), g, ttl)
    /\ Require(r, "http") /\ Counted(r)
    /\ UNCHANGED <<scripts, pool, done, chan, outVars, req, answer>>

\* http.post, http.put or http.delete.
HttpMutate(r, g) ==
    /\ Invokes(r, "http.put")
    /\ Mutate(r, Required(r, "http"), g)
    /\ Require(r, "http") /\ Counted(r)
    /\ UNCHANGED <<scripts, pool, done, chan, outVars, req, answer>>

\* A step inside an http call; the script goes on when it returns.
HttpStep(r) ==
    /\ CallStep(r)
    /\ UNCHANGED tvars

\* kv.get, kv.set or kv.del: Redis has three seconds for it.
KvCall(r) ==
    /\ Invokes(r, "kv")
    /\ Require(r, "kv")
    /\ go' = [go EXCEPT ![r].ops = @ + 1, ![r].pc = "kv"]
    /\ UNCHANGED <<scripts, pool, done, chan, outVars, req, answer, httpVars>>

KvReturns(r) ==
    /\ go[r].pc = "kv"
    /\ go' = [go EXCEPT ![r].pc = "run"]
    /\ UNCHANGED <<scripts, pool, loaded, done, chan, outVars, req, answer, httpVars>>

\* Without allowed_domains any host will do (see loadScript).
validateDomain(script, host) == host \in script.hosts

\* howk.post: a host that is not allowed is an error for the script.
Post(r, host) ==
    /\ Invokes(r, "howk.post")
    /\ go' = [go EXCEPT ![r].ops = @ + 1,
                        ![r].pc = IF validateDomain(go[r].script, host) THEN "publish" ELSE "run"]
    /\ UNCHANGED <<scripts, pool, loaded, done, chan, outVars, req, answer, httpVars>>

\* Mutant: the error of a publish is only logged.
PublishFailsLogged(r) ==
    /\ go[r].pc = "publish"
    /\ {"publish", "ambiguous"} \cap Faults # {}
    /\ go' = [go EXCEPT ![r].pc = "status"]
    /\ UNCHANGED <<scripts, pool, loaded, done, chan, outVars, req, answer, httpVars>>

\* PublishWebhook returns an error, which the script gets.
PublishFails(r) ==
    /\ go[r].pc = "publish"
    /\ {"publish", "ambiguous"} \cap Faults # {}
    /\ \E took \in {f \in BOOLEAN : f => "ambiguous" \in Faults} :
          LET w == IF took THEN {<<r, go[r].ops>>} ELSE {}
          IN  published' = published \cup w /\ unsure' = unsure \cup w
    /\ go' = [go EXCEPT ![r].pc = "run"]
    /\ UNCHANGED <<scripts, pool, loaded, done, chan, req, answer, httpVars>>

PublishWebhook(r) ==
    /\ go[r].pc = "publish"
    /\ published' = published \cup {<<r, go[r].ops>>}
    /\ go' = [go EXCEPT ![r].pc = "status"]
    /\ UNCHANGED <<scripts, pool, loaded, done, chan, unsure, req, answer, httpVars>>

\* SetStatus, whose failure is only logged; then the webhook is listed.
SetStatus(r) ==
    /\ go[r].pc = "status"
    /\ go' = [go EXCEPT ![r].pc = "run", ![r].list = @ \cup {go[r].ops}]
    /\ UNCHANGED <<scripts, pool, loaded, done, chan, outVars, req, answer, httpVars>>

\* The script does not come to an end by itself.
Loop(r) ==
    /\ InLua(r)
    /\ go' = [go EXCEPT ![r].pc = "loop"]
    /\ UNCHANGED <<scripts, pool, loaded, done, chan, outVars, req, answer, httpVars>>

Ends(r, outcome) ==
    /\ chan' = IF req[r].pc # "wait" THEN chan
               ELSE [chan EXCEPT ![r] = [kind |-> outcome, list |-> IF outcome = "ok" THEN go[r].list ELSE {}]]
    /\ go' = [go EXCEPT ![r].pc = "put"]
    /\ UNCHANGED <<scripts, pool, loaded, done, outVars, req, answer, httpVars>>

\* The script returns or raises an error.
Returns(r) == InLua(r) /\ \E outcome \in {"ok", "error"} : Ends(r, outcome)

\* Mutant: the Lua state was not given the context.
InterruptMissed(r) ==
    /\ go[r].pc = "run" /\ call[r].pc = "idle" /\ Cancelled(r)
    /\ Ends(r, "error")

\* The Lua machine finds the context done.  A call under way returns first.
Interrupt(r) ==
    /\ go[r].pc \in {"run", "loop"} /\ call[r].pc = "idle" /\ Cancelled(r)
    /\ Ends(r, "error")

\* The deferred pool.Put, after the outcome was sent.
Put(r) ==
    /\ go[r].pc = "put"
    /\ pool' = pool \cup {go[r].state}
    /\ go' = [go EXCEPT ![r] = [NotRunning EXCEPT !.pc = "done"]]
    /\ UNCHANGED <<scripts, loaded, done, chan, outVars, req, answer, httpVars>>

GoStep(r) ==
    \/ Acquire(r) \/ HttpStep(r) \/ KvCall(r) \/ KvReturns(r)
    \/ \E g \in Gets : HttpMutate(r, g) \/ \E ttl \in {0, 1} : HttpGet(r, g, ttl)
    \/ \E host \in Hosts : Post(r, host)
    \/ PublishWebhook(r) \/ PublishFails(r) \/ SetStatus(r)
    \/ Loop(r) \/ Returns(r) \/ Interrupt(r) \/ Put(r)

\* Execute's caller waits: its time runs out, or the select has a case to take.
WaitStep(r) == ContextDone(r) \/ AnswerTimeout(r) \/ Answer(r)

Environment ==
    /\ Upstream \/ \E k \in Keys : CacheExpires(k)
    /\ UNCHANGED tvars

Next ==
    \/ Reload
    \/ \E r \in Callers :
          \/ \E n \in Names, cred \in Creds : Lookup(r, n, cred)
          \/ BodyFails(r) \/ Execute(r) \/ WaitStep(r) \/ GoStep(r)
    \/ Environment

Spec == Init /\ [][Next]_vars

\* Timers fire, a ready select is taken, and a goroutine that can take a step
\* takes one: the calls on Kafka, Redis and HTTP servers return.  A script need
\* not come to an end, and nobody need send a request or a body.
Fairness == \A r \in Callers : WF_vars(WaitStep(r)) /\ WF_vars(GoStep(r))

FairSpec == Spec /\ Fairness

------------------------------------------------------------------------------
(* Properties.                                                             *)

\* No two goroutines run scripts in one Lua state, and none is in the pool while
\* it is used, also when the request that started it was answered 504 long ago.
StateExclusive ==
    \A r \in Callers : go[r].state # NoState =>
        /\ go[r].state \notin pool
        /\ \A q \in Callers \ {r} : go[q].state # go[r].state

\* A 200 lists exactly what its script published: nothing that was not, and
\* everything but a publish that reported an error.
ListedExact ==
    \A r \in Callers : answer[r].ok =>
        /\ \A n \in answer[r].list : <<r, n>> \in published
        /\ \A n \in Calls : <<r, n>> \in published \ unsure => n \in answer[r].list

\* A request runs only a script whose own credentials it presented: a reload
\* between the check and the execution changes neither.
AuthorisedRun ==
    \A r \in Callers : go[r].pc \notin {"off", "done"} => go[r].cred \in go[r].script.creds

\* Every request is answered whatever its script does, and its goroutine "will
\* clean itself up": it stops and gives its Lua state back.
Settled ==
    \A r \in Callers : (req[r].pc = "wait") ~> (req[r].pc = "answered" /\ go[r].pc = "done")

\* What is not published by the time a request is answered is never published
\* for it: a caller that repeats a request answered 504 knows what it repeats.
SilentAfterAnswer ==
    [][\A r \in Callers, n \in Calls :
        req[r].pc = "answered" /\ <<r, n>> \in published' => <<r, n>> \in published]_vars

\* "Load modules for this specific webhook": a script's kv operations are in its
\* own namespace.
OwnModules == \A r \in Callers : go[r].pc = "kv" => loaded[go[r].state].kv = go[r].name
==============================================================================
