\* The circuit may deny an attempt.
SPECIFICATION FairSpec
CONSTANTS
    Webhooks = {h1}
    Workers = {w1}
    Schedulers = {s1}
    MaxAttempts = 1
    AttemptBound = 1
    PublishBound = 6
    BatchSize = 2
    RetryDataTTL = 1
    Faults = {"circuit"}
PROPERTY EventuallySettled
CHECK_DEADLOCK FALSE
