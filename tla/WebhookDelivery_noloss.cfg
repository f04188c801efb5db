\* What must not lose a webhook: the idempotency key fails open or expires, and
\* publishing, acknowledging or the scheduler fails.
SPECIFICATION Spec
CONSTANTS
    Webhooks = {h1}
    Workers = {w1, w2}
    Schedulers = {s1}
    MaxAttempts = 1
    AttemptBound = 1
    PublishBound = 3
    BatchSize = 2
    RetryDataTTL = 1
    Faults = {"kafka", "ack", "schedcrash", "idem", "expire"}
SYMMETRY Symmetry
INVARIANTS NoLoss NoOrphanData
CHECK_DEADLOCK FALSE
