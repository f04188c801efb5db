SPECIFICATION Spec
CONSTANTS
    Workers = {w1, w2, w3}
    Endpoints = {e1, e2}
    MaxDomain = 2
    MaxInflight = 1
    InflightTTL = 1
    Faults = {"decr", "crash"}
    FaultBound = 2
SYMMETRY Symmetry
INVARIANTS LimitRespected NeverUndercounts
