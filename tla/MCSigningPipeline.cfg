SPECIFICATION SSpec
CONSTANTS
    Writers = {w1}
    Workers = {k1, k2}
    MaxQueue = 2
    Interval = 1
    MaxRetries = 2
    MaxAttempts = 2
    MerkleEnabled = TRUE
    AnchorsEnabled = TRUE
    BucketSet = FALSE
    DualControl = TRUE
    MaxRequests = 2
    MaxFaults = 2
SYMMETRY Symmetry
INVARIANTS
    SigningInv
    VerdictsSound
    ForgottenOnlyByFaults
    BufferFaithful
PROPERTIES
    ImplementsLog
CHECK_DEADLOCK FALSE
