SPECIFICATION Spec
CONSTANTS
    Shippers = {s1, s2}
    ShipEntries = 3
    ShipDays = 2
    MaxShipMishaps = 1
    MaxAlerts = 3
    MaxExpiries = 1
    MaxIncFaults = 1
    MaxStreams = 3
    PromptTokens = {0, 2}
    CompletionTokens = {0, 1}
    QuotaBaseline <- Baseline
    QuotaPolicies <- Policies
    Unset = Unset
    MinutesPerDay = 2
    DaysPerMonth = 2
    MaxMinutes = 4
    FeedProcs = {1, 2}
    CallAt <- Alternating
    IngestKinds <- Kinds
    MaxFeedCalls = 3
    MaxAtOnce = 2
    Versions = {v1, v2}
    NoVersion = NoVersion
    CacheAge = 1
    MaxFeedTime = 1
    MaxFeedFaults = 1
    Intervals = {3, 5}
    MaxBook = 6
    SearchLimit = 4
    MaxDamage = 2
SYMMETRY Symmetric
CHECK_DEADLOCK FALSE
INVARIANTS
    ReplicaFaithful
    IncidentsAgree
    QuotasHold
    FeedsInForce
    CertificatesSound
