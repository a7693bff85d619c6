SPECIFICATION FairSpec
CONSTANTS
    Requests = {q1, q2, q3}
    Slots = 2
    Providers = 2
    Threshold = 3
    HalfOpenMax = 2
    MaxFailures = 4
INVARIANTS
    BreakerCoherent
PROPERTIES
    ProbeDecides
    SlotsReturn
    Recovers
