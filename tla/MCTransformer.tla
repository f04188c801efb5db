----------------------------- MODULE MCTransformer -----------------------------
EXTENDS Transformer

CONSTANTS r1, r2, s1, s2, l1, l2

MCHostOf      == [get |-> "api"]
MCOneOrder    == [get |-> 1]
MCTwoOrders   == [get |-> 2]
MCNsHosts     == [n \in Namespaces |-> {}]
MCOneDir      == <<"d1">>
MCPasswdDirs  == <<>>
AliceFile     == [lua |-> "good", json |-> {{"out"}}, passwd |-> {{"alice"}}]
BrokenFile    == [lua |-> "bad", json |-> {}, passwd |-> {}]
AbsentFile    == [lua |-> NoFile, json |-> {}, passwd |-> {}]
MCFiles       == [d \in {"d1"} |-> (s1 :> {AliceFile, BrokenFile}) @@ (s2 :> {AbsentFile})]
MCOneFile     == [d \in {"d1"} |-> [n \in Namespaces |-> {AliceFile}]]
MCKvUses      == [r \in Callers |-> {"kv"}]
MCGetUses     == [r \in Callers |-> {"http.get"}]
MCUses        == (r1 :> LuaFunctions \ {"http.get"}) @@ (r2 :> {"http.get"})
MCOpBound     == (r1 :> 1) @@ (r2 :> 2)
==============================================================================
