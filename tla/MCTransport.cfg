CONSTANTS
    Commitment = {c1}
    Worker = {w1}
    Guard = {g1, g2}
    Scope = {k1}
    Action = {a1, a2}
    Goal = {goal1}
    Digest = {d1}
    None = None
    LeaseDurations = {1}
    GuardTtls = {1}
    NewParents = {}
    MaxDeps = 0
    MaxEpoch = 1
    MaxBoot = 1
    MaxTime = 1
SPECIFICATION FairBridgeSpec
INVARIANTS
    BridgeTypeOK
    AdmissionStandsUntilOutcome
    OutcomeAlwaysDeliverable
    NoIntegrityFailure
PROPERTIES
    
    DurableOutcomeAcknowledged
CHECK_DEADLOCK FALSE
