\* One inbound message is enough: a batch of requests under its own token.
CONSTANTS
    o1 = o1  o2 = o2  i1 = i1  i2 = i2
    Ops = {o1}
    Ids = {i1, i2}
    None = None
    HasTimeout = TRUE
    CommandBound = 1
SPECIFICATION Spec
INVARIANTS
    ShutdownSignalsEveryRequest
CHECK_DEADLOCK FALSE
