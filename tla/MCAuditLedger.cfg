SPECIFICATION Spec
CONSTANTS
    Writers = {w1, w2}
    MaxQueue = 3
    Interval = 2
    MaxRetries = 2
    MerkleEnabled = TRUE
    AnchorsEnabled = TRUE
    BucketSet = TRUE
    MaxRequests = 5
    MaxFaults = 1
INVARIANTS
    LedgerInv
    ChainIntact
    RepeatsOnlyUnanswered
    DerivedDataFaithful
PROPERTIES
    ImplementsLog
SYMMETRY Symmetry
CHECK_DEADLOCK FALSE
