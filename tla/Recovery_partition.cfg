SPECIFICATION Spec
CONSTANTS
    Webhooks = {"h1", "h2"}
    Workers = {w1}
    Partitions = {"p1", "p2"}
    PartitionOf <- MCSplit
    MaxAttempts = 1
    ClockBound = 6
    RunBound = 1
    Faults = {"partition"}
INVARIANT NothingLost
CHECK_DEADLOCK FALSE
