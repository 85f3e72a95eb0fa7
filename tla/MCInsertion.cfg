CONSTANTS
    Commitment = {c1, c2}
    Worker = {w1}
    Guard = {}
    Scope = {}
    Action = {}
    Goal = {goal1, goal2}
    Digest = {}
    None = None
    LeaseDurations = {2}
    GuardTtls = {1}
    NewParents = {c1}
    MaxDeps = 1
    MaxEpoch = 1
    MaxBoot = 1
    MaxTime = 1
SPECIFICATION Spec
INVARIANT TopologyStaysValid
CHECK_DEADLOCK FALSE
