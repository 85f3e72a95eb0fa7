CONSTANTS
    Commitment = {c1, c2}
    Worker = {w1}
    Guard = {}
    Scope = {}
    Action = {}
    Goal = {goal1}
    Digest = {}
    None = None
    LeaseDurations = {1}
    GuardTtls = {1}
    NewParents = {}
    MaxDeps = 0
    MaxEpoch = 1
    MaxBoot = 0
    MaxTime = 0
    Client = {p1}
    MaxVersion = 6
SPECIFICATION SnapshotSpec
SYMMETRY Symmetry
INVARIANT
    VersionIdentifiesRow
PROPERTY
    ImplementsFencedStore
CHECK_DEADLOCK FALSE
