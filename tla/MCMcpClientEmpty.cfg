\* A call of a method that returns nothing.
CONSTANTS
    v1 = v1  v2 = v2  v3 = v3  k1 = k1  k2 = k2  q1 = q1  q2 = q2  l1 = l1  l2 = l2
    Versions = {v1, v2, v3}
    Supported = {v1, v2}
    Calls = {k1, k2}
    EmptyCalls = {k2}
    Requests = {q1, q2}
    Pings = {q1}
    Lines = {l1, l2}
    Garbled = {l2}
SPECIFICATION Spec
INVARIANT CarriedOutCallsSucceed
CHECK_DEADLOCK FALSE
