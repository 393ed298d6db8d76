\* The failure to send a batch, as the caller of send() and the holders of its futures see it.
SPECIFICATION FuturesSpec
CONSTANTS
    m1 = m1
    n1 = n1
    b1 = b1
    r1 = r1
    r2 = r2
    x1 = x1
    Methods = {m1}
    Notes = {}
    Batches = {b1}
    BatchReqs <- TwoCalls
    BatchNotes = {}
    BadCalls = {x1}
    BatchOfBad <- MCBatchOfBad
    ChannelBound = 1
INVARIANT SendFailureIsShared
CHECK_DEADLOCK FALSE
