\* Liveness without faults.
SPECIFICATION FairSpec
CONSTANTS
    Webhooks = {h1}
    Workers = {w1}
    Schedulers = {s1}
    MaxAttempts = 2
    AttemptBound = 2
    PublishBound = 4
    BatchSize = 2
    RetryDataTTL = 1
    Faults = {}

PROPERTY EventuallySettled
CHECK_DEADLOCK FALSE
