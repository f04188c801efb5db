----------------------------- MODULE MCScriptSync -----------------------------
(* Small instances of ScriptSync for TLC.                                  *)
EXTENDS ScriptSync

\* A namespace and a config id in it.
MCKeys == {"wh", "wh:1"}
MCNsOf == [k \in MCKeys |-> IF k = "wh:1" THEN "wh" ELSE NoKey]

\* Requests at the API process and one message at the worker.
MCHandlers == {"r1", "r2", "m1"}
MCHandlers2 == {"r1", "m1"}
MCProcOf == [r \in MCHandlers |-> IF r = "m1" THEN "worker" ELSE "api"]
MCProcOf2 == [r \in MCHandlers2 |-> IF r = "m1" THEN "worker" ELSE "api"]
==============================================================================
