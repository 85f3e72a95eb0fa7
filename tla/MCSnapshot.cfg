CONSTANTS
    Commitment = {c1}
    Worker = {w1}
    Guard = {g1}
    Scope = {k1}
    Action = {a1}
    Goal = {goal1}
    Digest = {}
    None = None
    LeaseDurations = {1}
    GuardTtls = {1}
    NewParents = {}
    MaxDeps = 0
    MaxEpoch = 2
    MaxBoot = 1
    MaxTime = 1
    Client = {p1}
    MaxVersion = 7
SPECIFICATION SnapshotSpec
SYMMETRY Symmetry
INVARIANTS
    SnapshotTypeOK
    VersionIdentifiesRow
PROPERTIES
    NoLostUpdate
    ImplementsFencedStore
CHECK_DEADLOCK FALSE
