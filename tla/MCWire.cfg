\* Both ends call, over pipes that hold a message and a half; one end may die or stall.
CONSTANTS
    a = a  b = b  c1 = c1  c2 = c2  c3 = c3
    Ends = {a, b}
    Calls = {c1, c2, c3}
    Caller <- BothCall
    Room = 3
    HasTimeout = TRUE
    MayDie = {b}
    MayStall = {b}
SPECIFICATION FairSpec
INVARIANTS
    LockFollowsLoop
PROPERTIES
    StreamsStayWhole
    SendsEnd
    ShutdownHeldOnlyBySend
CHECK_DEADLOCK FALSE
