\* A worker and a script consumer; channels of two messages, a history of two.
SPECIFICATION FairSpec
CONSTANTS
    Kinds <- MCKinds
    Followers = {"worker"}
    Replayers = {"consumer"}
    TopicOf <- MCTopicOf
    ChannelBuffer = 2
    HistoryLimit = 2
    PublishBound = 4
INVARIANTS TypeOK NoneMissed
PROPERTIES ImplementsFanOut AcceptedIsHandled
CHECK_DEADLOCK FALSE
