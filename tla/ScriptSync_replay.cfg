SPECIFICATION FairSpec
CONSTANTS
    APIs = {"api"}
    Workers = {"worker"}
    Keys <- MCKeys
    NsOf <- MCNsOf
    NoKey = NoKey
    Handlers <- MCHandlers2
    ProcOf <- MCProcOf2
    RecordBound = 2
    HookBound = 1
    MaxAttempts = 1
    FaultBound = 1
    Faults = {"redis", "flush", "replay", "crash", "compact", "fail"}
INVARIANTS TypeOK ReplayExact AckedScriptApplied
PROPERTY EventuallyLearned
CHECK_DEADLOCK FALSE
