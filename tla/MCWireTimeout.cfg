\* One end calls and shuts nothing down; the other is shut down while both send.
CONSTANTS
    a = a  b = b  c1 = c1  c2 = c2  c3 = c3
    Ends = {a, b}
    Calls = {c1, c2, c3}
    Caller <- OneCaller
    Room = 1
    HasTimeout = TRUE
    MayDie = {}
    MayStall = {}
SPECIFICATION FairSpec
PROPERTY TimeoutAbortsHandlers
CHECK_DEADLOCK FALSE
