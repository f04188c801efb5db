\* A group with a committed offset: two keys, three messages, two sessions.
SPECIFICATION FairSpec
CONSTANTS
    LogBound = 3
    Keys <- MCKeys
    KeyOf <- MCKeyOf
    PerKeyParallelism = 1
    ChanCap = 2
    InitialCommitted = 0
    MaxSessions = 2
    FailBound = 1
INVARIANTS TypeOK NoMessageSkipped KeyOrder
PROPERTIES ImplementsAtLeastOnce CommitNeverRegresses EventuallyCommitted
CHECK_DEADLOCK FALSE
