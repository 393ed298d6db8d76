\* A server's connection and a client, whose handlers shut each other down; a caller outside.
CONSTANTS
    s1 = s1  k1 = k1  c1 = c1  c2 = c2  h1 = h1  h2 = h2  w1 = w1  w2 = w2  w3 = w3
    Servers = {s1}
    Clients = {k1}
    Conns = {c1, c2}
    OwnerOf <- EachOwns
    Handlers = {h1, h2}
    ConnOf <- EachRuns
    Waiters = {w1, w2, w3}
    Target <- CrossTargets
    CalledBy <- CrossCallers
    None = None
    HasTimeout = TRUE
    CopyBound = 2
SPECIFICATION FairSpec
INVARIANTS
    AfterShutdownNothingRuns
    OnlyShutdownCancels
PROPERTIES
    KeepsLoopContract
    ShutdownEnds
    DropCloses
CHECK_DEADLOCK FALSE
