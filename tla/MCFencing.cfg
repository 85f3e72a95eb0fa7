CONSTANTS
    Commitment = {c1}
    Worker = {w1, w2}
    Guard = {g1, g2}
    Scope = {k1, k2}
    Action = {a1, a2}
    Goal = {goal1}
    Digest = {d1}
    None = None
    LeaseDurations = {2}
    GuardTtls = {1, 3}
    NewParents = {}
    MaxDeps = 0
    MaxEpoch = 2
    MaxBoot = 2
    MaxTime = 3
SPECIFICATION Spec
SYMMETRY Symmetry
INVARIANTS
    TypeOK
    LocksMirrorGuards
    CrashIsRecoverable
    NoReassignmentUnderAction
    ReservationWithinLease
    TerminalOwnsNothing
PROPERTIES
    UncertainStaysFenced
    HeldUntilSafeOutcome
    GuardLifecycle
CHECK_DEADLOCK FALSE
