SPECIFICATION GovSpec
CONSTANTS
    MaxCalls = 3
    Admins = {a1, a2}
    Proposals = {p1}
    Versions = {v1, v2}
    None = None
    MaxMishaps = 1
    MaxEnvCalls = 4
    EnvAdmins = {e1, e2}
    EnvProposals = {n1, n2}
    NoOne = NoOne
    HistoryLimit = 2
    MaxEnvMishaps = 1
    KeyModes <- Modes
    OkTtl = 2
    FailTtl = 1
    MaxBacklog = 1
    MaxKeyTime = 3
    MaxKeyFaults = 1
    SigningKeys = {1, 2}
    Tokens <- MCTokens
    NoTenant = 0
    Ttl = 1
    CallTime = 1
    MaxRequests = 3
    MaxIdpTime = 4
    MaxRotation = 1
SYMMETRY Symmetric
CHECK_DEADLOCK FALSE
INVARIANTS
    NoLoneAdmin
    HistoryIsChronicle
    ProposalsFollow
    EnvRecordsAgree
    KeyUseApproved
    GateCanReopen
PROPERTIES
    RotationsTakeEffect
