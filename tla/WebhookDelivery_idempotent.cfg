\* Everything may fail except the idempotency key itself.
SPECIFICATION Spec
CONSTANTS
    Webhooks = {h1}
    Workers = {w1, w2}
    Schedulers = {s1, s2}
    MaxAttempts = 1
    AttemptBound = 1
    PublishBound = 3
    BatchSize = 2
    RetryDataTTL = 1
    Faults = {"crash", "circuit", "capacity", "kafka", "dlq", "redis", "getdata", "ack", "cleanup", "schedcrash", "script"}
SYMMETRY Symmetry
INVARIANTS TypeOK AttemptSentOnce
PROPERTY NothingAfterDelivery
CHECK_DEADLOCK FALSE
