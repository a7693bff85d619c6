SPECIFICATION FairSpec
CONSTANTS
    Writers = {w1}
    Workers = {}
    MaxQueue = 2
    Interval = 2
    MaxRetries = 2
    MaxAttempts = 2
    MerkleEnabled = TRUE
    AnchorsEnabled = TRUE
    BucketSet = FALSE
    DualControl = FALSE
    MaxRequests = 2
    MaxFaults = 0
PROPERTIES
    EverySettled
CHECK_DEADLOCK FALSE
