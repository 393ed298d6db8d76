\* Two inbound messages over two request IDs, commands channel of one place.
CONSTANTS
    o1 = o1  o2 = o2  i1 = i1  i2 = i2
    Ops = {o1, o2}
    Ids = {i1, i2}
    None = None
    HasTimeout = TRUE
    CommandBound = 1
SPECIFICATION FairSpec
INVARIANTS
    MapsAgree
    LiveRequestIdsUnique
    EveryRequestAnswered
PROPERTIES
    AnsweredOnce
    AbortIsLastResort
    KeepsLoopContract
    FinishedWorkIsSent
    ShutdownCompletes
    CancelReachesHandler
CHECK_DEADLOCK FALSE
