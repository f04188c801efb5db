SPECIFICATION Spec
CONSTANTS
    Webhooks = {h1, h2}
    Workers = {w1, w2}
    Partitions = {"p1"}
    PartitionOf <- MCShared
    MaxAttempts = 2
    ClockBound = 8
    RunBound = 2
    Faults = {"die", "flush"}
SYMMETRY Symmetry
INVARIANTS TypeOK NothingLost Reconstructible StatusAgrees
PROPERTY NothingReplayed
CHECK_DEADLOCK FALSE
