SPECIFICATION FairSpec
CONSTANTS
    A = A
    B = B
    Node <- MCNode
    Exchanges <- OneExchange
    MaxRetrans = 1
    MaxMsgs = 1
    PoolSize <- AmplePool
    TableSize = 2
    Outcomes = {"sent", "failed", "noncritical", "nobuf"}
    Reactions = {"none", "reply", "replyExpect", "willSend", "refuse", "notPermitted"}
    MayEvict = TRUE
INVARIANTS
    LifetimeIsSound
PROPERTIES
    ContextIsReleased
CHECK_DEADLOCK FALSE
