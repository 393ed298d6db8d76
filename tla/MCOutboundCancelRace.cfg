\* One call and its cancel(): the smallest instance in which the cancel command overtakes the call.
CONSTANTS
    c1 = c1  c2 = c2  n1 = n1  b1 = b1  b2 = b2  r1 = r1  r2 = r2
    Methods = {c1}
    Notes = {}
    Batches = {}
    BatchReqs <- NoBatches
    BatchNotes = {}
    ChannelBound = 1
SPECIFICATION FairSpec
PROPERTIES
    CancelReturnsEventually
CHECK_DEADLOCK FALSE
