\* Two inbound messages of a peer that uses its IDs again, one of them a batch.
CONSTANTS
    o1 = o1  o2 = o2  i1 = i1  i2 = i2
    Ops = {o1, o2}
    Ids = {i1, i2}
    None = None
    HasTimeout = TRUE
    CommandBound = 1
SPECIFICATION Spec
INVARIANTS
    PendingIdsUnique
CHECK_DEADLOCK FALSE
