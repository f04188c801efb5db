SPECIFICATION FairSpec
CONSTANTS
    Workers = {w1, w2}
    Endpoints = {e1}
    MaxDomain = 1
    MaxInflight = 1
    InflightTTL = 1
    Faults = {"incr", "decr", "repeat", "kafka", "crash", "slow"}
    FaultBound = 2
PROPERTY QuietLeakCorrected
INVARIANTS TypeOK CountsExact
