SPECIFICATION Spec
CONSTANTS
    Webhooks = {"h1", "h2"}
    Workers = {w1}
    Partitions = {"p1"}
    PartitionOf <- MCShared
    MaxAttempts = 1
    ClockBound = 8
    RunBound = 1
    Faults = {"lag"}
PROPERTY NothingReplayed
CHECK_DEADLOCK FALSE
