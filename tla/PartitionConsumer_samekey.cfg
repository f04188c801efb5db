\* Handlers of one key while the session shuts down.
SPECIFICATION Spec
CONSTANTS
    LogBound = 3
    Keys <- MCKeys
    KeyOf <- MCKeyOf
    PerKeyParallelism = 1
    ChanCap = 1
    InitialCommitted = 0
    MaxSessions = 2
    FailBound = 0
INVARIANT SameKeySequential
CHECK_DEADLOCK FALSE
