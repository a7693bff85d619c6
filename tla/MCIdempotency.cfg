SPECIFICATION FairSpec
CONSTANTS
    Procs = {p1, p2}
    Requests = {q1, q2, q3}
    Keys = {k1, k2}
    None = None
    MaxChunks = 1
    MaxInterrupts = 2
CHECK_DEADLOCK FALSE
INVARIANTS
    BoundaryCoherent
    SameAnswer
PROPERTIES
    AnsweredUnlessLost
