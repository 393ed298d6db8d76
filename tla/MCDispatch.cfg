\* A batch of three kinds of parts and a single call, with handlers registered while they are served.
SPECIFICATION FairSpec
CONSTANTS
    b1 = b1  m1 = m1  p1 = p1  p2 = p2  p3 = p3  p4 = p4
    known = known  other = other
    Messages = {b1, m1}
    Batches = {b1}
    Parts = {p1, p2, p3, p4}
    MessageOf <- MCMessageOf
    Calls = {p1, p4}
    Invalid = {p3}
    Names = {known, other}
    NameOf <- MCNameOf
INVARIANTS
    AnswersAreWhole
PROPERTIES
    PanicsAreContained
    EndedMessagesAreAnswered
CHECK_DEADLOCK FALSE
