SPECIFICATION FairSpec
CONSTANTS
    Writers = {w1}
    Workers = {k1}
    MaxQueue = 1
    Interval = 2
    MaxRetries = 2
    MaxAttempts = 2
    MerkleEnabled = TRUE
    AnchorsEnabled = TRUE
    BucketSet = FALSE
    DualControl = FALSE
    MaxRequests = 4
    MaxFaults = 0
INVARIANTS
    BacklogBound
PROPERTIES
    EverySettled
CHECK_DEADLOCK FALSE
