\* A builder, its futures in the hands of other tasks, a call and a notification next to it.
SPECIFICATION FuturesFairSpec
CONSTANTS
    m1 = m1
    n1 = n1
    b1 = b1
    r1 = r1
    r2 = r2
    x1 = x1
    Methods = {m1}
    Notes = {n1}
    Batches = {b1}
    BatchReqs <- OneCall
    BatchNotes = {}
    BadCalls = {x1}
    BatchOfBad <- MCBatchOfBad
    ChannelBound = 1
INVARIANTS
    FuturesTypeOK
    FuturesAgreeWithSend
PROPERTIES
    NotSentIsTrue
    UnsentCallsAreTold
    SubmissionIsDecided
    ConfirmationArrives
CHECK_DEADLOCK FALSE
