SPECIFICATION Spec
CONSTANTS
    Writers = {w1}
    MaxQueue = 3
    Interval = 2
    MaxRetries = 2
    MerkleEnabled = TRUE
    AnchorsEnabled = TRUE
    BucketSet = FALSE
    MaxRequests = 2
    MaxFaults = 1
INVARIANTS
    OneIdPerEvent
CHECK_DEADLOCK FALSE
