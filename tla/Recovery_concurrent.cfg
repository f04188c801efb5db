SPECIFICATION Spec
CONSTANTS
    Webhooks = {"h1"}
    Workers = {w1}
    Partitions = {"p1"}
    PartitionOf <- MCShared
    MaxAttempts = 1
    ClockBound = 6
    RunBound = 1
    Faults = {"concurrent"}
INVARIANT NothingLost
CHECK_DEADLOCK FALSE
