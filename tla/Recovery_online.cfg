SPECIFICATION Spec
CONSTANTS
    Webhooks = {"h1"}
    Workers = {w1, w2}
    Partitions = {"p1"}
    PartitionOf <- MCShared
    MaxAttempts = 1
    ClockBound = 6
    RunBound = 1
    Faults = {"die", "canary", "flush", "scan", "partition", "restore", "schedule", "circuit", "publish", "lag", "lateapi", "concurrent"}
PROPERTY ReplayKeepsNewer
CHECK_DEADLOCK FALSE
