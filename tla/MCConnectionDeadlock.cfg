\* One handler that calls back, and no graceful timeout.
CONSTANTS
    c1 = c1  h1 = h1  o1 = o1  i1 = i1
    Methods = {c1, h1}
    Notes = {}
    Batches = {}
    BatchReqs <- NoBatches
    BatchNotes = {}
    ChannelBound = 1
    Ops = {o1}
    Ids = {i1}
    None = None
    HasTimeout = FALSE
    MadeBy <- HandlerCalls
SPECIFICATION FairSpec
PROPERTIES
    ShutdownSettlesPendingCalls
CHECK_DEADLOCK FALSE
