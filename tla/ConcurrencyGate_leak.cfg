SPECIFICATION FairSpec
CONSTANTS
    Workers = {w1}
    Endpoints = {e1}
    MaxDomain = 0
    MaxInflight = 1
    InflightTTL = 2
    Faults = {"crash"}
    FaultBound = 1
PROPERTY LeakCorrected
