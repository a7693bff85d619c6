SPECIFICATION FairSpec
CONSTANTS
    Procs = {p1}
    Requests = {q1, q2}
    Keys = {k1}
    None = None
    MaxChunks = 1
    MaxInterrupts = 1
CHECK_DEADLOCK FALSE
PROPERTIES
    DuplicatesAnswered
