CONSTANTS
    Commitment = {c1}
    Worker = {w1}
    Guard = {g1}
    Scope = {k1}
    Action = {a1}
    Goal = {goal1}
    Digest = {}
    None = None
    LeaseDurations = {2}
    GuardTtls = {1}
    NewParents = {}
    MaxDeps = 0
    MaxEpoch = 1
    MaxBoot = 1
    MaxTime = 1
SPECIFICATION Spec
INVARIANT ReopenAlwaysPossible
CHECK_DEADLOCK FALSE
