SPECIFICATION Spec
CONSTANTS
    APIs = {"api"}
    Workers = {"worker"}
    Keys <- MCKeys
    NsOf <- MCNsOf
    NoKey = NoKey
    Handlers <- MCHandlers2
    ProcOf <- MCProcOf2
    RecordBound = 2
    HookBound = 1
    MaxAttempts = 1
    FaultBound = 0
    Faults = {}
CHECK_DEADLOCK FALSE
INVARIANT LoaderComplete
