SPECIFICATION Spec
CONSTANTS
    p = p
    q = q
    r = r
    a = a
    b = b
    Node = {p, q, r}
    Search = {a, b}
    PeerList <- Lists
    Relevant <- Names
    Alpha = 1
    Timeout = 2
    MaxReplies = 2
INVARIANTS ResultsMatch
PROPERTIES SearchEnds
CHECK_DEADLOCK FALSE
