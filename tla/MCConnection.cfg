\* A caller outside and a handler that calls the peer back, over channels of one place.
CONSTANTS
    c1 = c1  h1 = h1  o1 = o1  i1 = i1
    Methods = {c1, h1}
    Notes = {}
    Batches = {}
    BatchReqs <- NoBatches
    BatchNotes = {}
    ChannelBound = 1
    Ops = {o1}
    Ids = {i1}
    None = None
    HasTimeout = TRUE
    MadeBy <- HandlerCalls
SPECIFICATION FairSpec
PROPERTIES
    ShutdownSettlesPendingCalls
CHECK_DEADLOCK FALSE
