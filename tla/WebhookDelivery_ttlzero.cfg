\* The default configuration: RetryDataTTL is 0.
SPECIFICATION FairSpec
CONSTANTS
    Webhooks = {h1}
    Workers = {w1}
    Schedulers = {s1}
    MaxAttempts = 2
    AttemptBound = 2
    PublishBound = 6
    BatchSize = 2
    RetryDataTTL = 0
    Faults = {}
PROPERTY EventuallySettled
CHECK_DEADLOCK FALSE
