CONSTANTS
    Commitment = {c1, c2}
    Worker = {w1}
    Guard = {g1, g2}
    Scope = {k1, k2}
    Action = {a1, a2}
    Goal = {goal1}
    Digest = {}
    None = None
    LeaseDurations = {2}
    GuardTtls = {1}
    NewParents = {}
    MaxDeps = 0
    MaxEpoch = 1
    MaxBoot = 1
    MaxTime = 1
SPECIFICATION Spec
SYMMETRY Symmetry
INVARIANT
    FenceInvariant
PROPERTY
    ImplementsScopeFence
CHECK_DEADLOCK FALSE
