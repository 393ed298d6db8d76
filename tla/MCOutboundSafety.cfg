\* Two interchangeable single calls, a notification and a batch of two calls, over channels of two places.
CONSTANTS
    c1 = c1  c2 = c2  n1 = n1  b1 = b1  b2 = b2  r1 = r1  r2 = r2
    Methods = {c1, c2}
    Notes = {n1}
    Batches = {b1}
    BatchReqs <- BatchOfTwo
    BatchNotes = {}
    ChannelBound = 2
SPECIFICATION Spec
SYMMETRY Interchangeable
INVARIANTS
    SenderHeldOnce
    SendReportIsTrue
    ExitLeavesNobodyWaiting
PROPERTIES
    KeepsCallContract
CHECK_DEADLOCK FALSE
