\* The worker may die in a handler.
SPECIFICATION Spec
CONSTANTS
    Webhooks = {h1}
    Workers = {w1}
    Schedulers = {s1}
    MaxAttempts = 1
    AttemptBound = 1
    PublishBound = 6
    BatchSize = 2
    RetryDataTTL = 1
    Faults = {"crash"}
INVARIANT NoLoss
CHECK_DEADLOCK FALSE
