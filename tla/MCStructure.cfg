CONSTANTS
    Commitment = {c1, c2, c3}
    Worker = {w1}
    Guard = {}
    Scope = {}
    Action = {}
    Goal = {goal1}
    Digest = {}
    None = None
    LeaseDurations = {1}
    GuardTtls = {1}
    NewParents = {}
    MaxDeps = 1
    MaxEpoch = 1
    MaxBoot = 1
    MaxTime = 1
SPECIFICATION Spec
SYMMETRY Symmetry
INVARIANTS
    BarrierHoldsParent
    BarrierReleasesParent
    CascadeNeverAborts
    NoDependencyCycle
PROPERTIES
    TerminalIsFinal
CHECK_DEADLOCK FALSE
