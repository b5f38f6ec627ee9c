SPECIFICATION Spec
CONSTANTS
    A = A
    B = B
    Node <- MCNode
    Exchanges <- CrossExchanges
    MaxRetrans = 1
    MaxMsgs = 2
    PoolSize <- SmallPool
    TableSize = 1
    Outcomes = {"sent"}
    Reactions = {"none", "reply", "replyExpect", "willSend", "refuse", "notPermitted", "abortOthers"}
    MayEvict = TRUE
INVARIANTS
    LifetimeIsSound
    AcksAreTrue
PROPERTIES
    AcksLatest
CHECK_DEADLOCK FALSE
