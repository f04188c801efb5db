SPECIFICATION FairSpec
CONSTANTS
    Webhooks = {"h1"}
    Workers = {w1}
    Partitions = {"p1"}
    PartitionOf <- MCShared
    MaxAttempts = 1
    ClockBound = 5
    RunBound = 1
    Faults = {}
PROPERTY Completes
CHECK_DEADLOCK FALSE
