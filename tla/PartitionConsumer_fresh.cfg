\* A group without a committed offset.
SPECIFICATION Spec
CONSTANTS
    LogBound = 2
    Keys <- MCKeys
    KeyOf <- MCKeyOf
    PerKeyParallelism = 1
    ChanCap = 1
    InitialCommitted <- NoOffset
    MaxSessions = 2
    FailBound = 0
INVARIANT NoMessageSkipped
CHECK_DEADLOCK FALSE
