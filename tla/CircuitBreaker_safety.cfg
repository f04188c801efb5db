SPECIFICATION FairSpec
CONSTANTS
    Workers = {w1, w2}
    FailureThreshold = 2
    SuccessThreshold = 2
    FailureWindow = 1
    RecoveryTimeout = 1
    ProbeInterval = 1
    CircuitStateTTL = 0
    Responses = {"5xx"}
    RedisFaults = {"get", "write"}
INVARIANTS TypeOK CountsConsistent
PROPERTY ProbeSent
