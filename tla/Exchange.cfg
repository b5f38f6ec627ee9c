SPECIFICATION Spec
CONSTANTS
    A = A
    B = B
    Node <- MCNode
    Exchanges <- OneExchange
    MaxRetrans = 1
    MaxMsgs = 3
    PoolSize <- AmplePool
    TableSize = 2
    Outcomes = {"sent", "failed"}
    Reactions = {"none", "reply", "replyExpect", "willSend", "abortOthers"}
    MayEvict = TRUE
INVARIANTS
    NoUnackedDrop
    DeliveredOnce
    RetransHasSession
    OpenerAckedIsDelivered
CHECK_DEADLOCK FALSE
