SPECIFICATION FairSpec
CONSTANTS
    Workers = {w1, w2}
    FailureThreshold = 2
    SuccessThreshold = 2
    FailureWindow = 2
    RecoveryTimeout = 2
    ProbeInterval = 1
    CircuitStateTTL = 0
    Responses = {"5xx"}
    RedisFaults = {}
PROPERTY EndpointRecovers
