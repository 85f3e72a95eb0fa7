-------------------------- MODULE FencedStoreSteps --------------------------
(***************************************************************************)
(* What the steps of the store do and never do, from the inductive         *)
(* invariant of FencedStoreFencing: the action properties of the fence,    *)
(* the finality of terminal states, the refinement of the scope fence and  *)
(* the deadline that stands for the lease.                                 *)
(***************************************************************************)
EXTENDS FencedStoreFencing, FenceRefinement

\* A guard that is neither absent nor issued is moved by its own outcome only.
LEMMA SettledGuards ==
    ASSUME FenceInvariant, [Next]_vars, NEW h \in Guard,
           guard[h].st \notin {"absent", "issued"}
    PROVE  \/ guard'[h] = guard[h]
           \/ \E a \in Action, outcome \in SafeOutcomes, d \in Digest \cup {None} :
                 RecordSafeOutcome(h, a, outcome, d)
           \/ \E a \in Action, d \in Digest \cup {None} : RecordUncertainOutcome(h, a, d)
<1>1. TypeOK
  BY DEF FenceInvariant
<1>2. CASE QuietChange
  BY <1>2 DEF QuietChange, GuardsStayOrDrop
<1>3. ASSUME NEW g \in Guard, NEW a \in Action, NEW d \in Digest \cup {None},
             NEW t \in Instants, AdmitGuard(g, a, d, t)
      PROVE  guard'[h] = guard[h]
  <2> DEFINE dead == ExpiredOn(guard[g].scopes, t)
             row == [guard[g] EXCEPT !.st = "admitted", !.action = a,
                                     !.digest = d, !.expires = 0]
  <2>1. guard' = [Invalidated(dead) EXCEPT ![g] = row] /\ h # g
    BY <1>3 DEF AdmitGuard
  <2>2. dead \in SUBSET Issued /\ Invalidated(dead) \in [Guard -> GuardRow]
    BY <1>1, ExpiredIsIssued, InvalidatedType
  <2> HIDE DEF dead, row
  <2>3. guard'[h] = Invalidated(dead)[h]
    BY <2>1, <2>2
  <2>4. QED
    BY <1>1, <2>2, <2>3, InvalidatedColumns
<1>4. ASSUME NEW g \in Guard, g # h, NEW a \in Action, NEW outcome \in SafeOutcomes,
             NEW d \in Digest \cup {None}, RecordSafeOutcome(g, a, outcome, d)
      PROVE  guard'[h] = guard[h]
  BY <1>1, <1>4 DEF RecordSafeOutcome, TypeOK
<1>5. ASSUME NEW g \in Guard, g # h, NEW a \in Action,
             NEW d \in Digest \cup {None}, RecordUncertainOutcome(g, a, d)
      PROVE  guard'[h] = guard[h]
  BY <1>1, <1>5 DEF RecordUncertainOutcome, TypeOK
<1>6. QED
  BY <1>2, <1>3, <1>4, <1>5, StepKinds

\* The lock on a scope of an active guard that a step leaves as it is stays too.
LEMMA KeptGuardKeepsLocks ==
    ASSUME LocksMirrorGuards, LocksMirrorGuards', NEW h \in Guard,
           guard[h].st \in ActiveGuard, guard'[h] = guard[h],
           NEW k \in guard[h].scopes
    PROVE  lock'[k] = lock[k]
<1> DEFINE held == [mode |-> "held", guard |-> h, commitment |-> guard[h].commitment,
                    action |-> guard[h].action, expires |-> 0]
<1>1. lock[k] = held
  BY DEF LocksMirrorGuards, Mirrors
<1>2. lock'[k] = held
  BY DEF LocksMirrorGuards, Mirrors
<1>3. QED
  BY <1>1, <1>2

\* The guard of a held lock is active and carries the scope.
LEMMA HeldLockHasGuard ==
    ASSUME LocksMirrorGuards, NEW k \in Scope, lock[k].mode = "held"
    PROVE  /\ lock[k].guard \in Guard
           /\ guard[lock[k].guard].st \in ActiveGuard
           /\ k \in guard[lock[k].guard].scopes
<1>1. /\ lock[k].guard \in Guard /\ guard[lock[k].guard].st \in Live
      /\ k \in guard[lock[k].guard].scopes
  BY DEF LocksMirrorGuards, Mirrors, Live
<1>2. guard[lock[k].guard].st # "issued"
  BY <1>1, LiveScopeLocked
<1>3. QED
  BY <1>1, <1>2 DEF Live

\* A guard that is resolved, invalidated or uncertain never changes again, and an
\* admitted one leaves that state through an outcome only.
THEOREM GuardsFollowLifecycle == Spec => GuardLifecycle
<1>1. ASSUME FenceInvariant, [Next]_vars, NEW g \in Guard, guard'[g] # guard[g]
      PROVE  /\ guard[g].st \notin {"resolved", "invalidated", "uncertain"}
             /\ guard[g].st = "admitted" => guard'[g].st \in {"resolved", "uncertain"}
  <2>1. TypeOK
    BY <1>1 DEF FenceInvariant
  <2>2. CASE guard[g].st \in {"absent", "issued"}
    BY <2>2
  <2>3. ASSUME NEW a, NEW outcome, NEW d, RecordSafeOutcome(g, a, outcome, d)
        PROVE  guard[g].st = "admitted" /\ guard'[g].st = "resolved"
    BY <2>1, <2>3 DEF RecordSafeOutcome, TypeOK, GuardRow
  <2>4. ASSUME NEW a, NEW d, RecordUncertainOutcome(g, a, d)
        PROVE  guard[g].st = "admitted" /\ guard'[g].st = "uncertain"
    BY <2>1, <2>4 DEF RecordUncertainOutcome, TypeOK, GuardRow
  <2>5. QED
    BY <1>1, <2>2, <2>3, <2>4, SettledGuards
<1>2. FenceInvariant /\ [Next]_vars =>
        [\A g \in Guard : guard'[g] # guard[g] =>
          /\ guard[g].st \notin {"resolved", "invalidated", "uncertain"}
          /\ guard[g].st = "admitted" => guard'[g].st \in {"resolved", "uncertain"}]_vars
  BY <1>1
<1>3. QED
  BY <1>2, FenceIsInvariant, PTL DEF Spec, GuardLifecycle

\* A held scope is freed by the safe outcome of its own action and changed by
\* nothing else: lease expiry, reservation expiry, proposals and restarts
\* leave it alone.
THEOREM HeldScopesStayHeld == Spec => HeldUntilSafeOutcome
<1>1. ASSUME FenceInvariant, [Next]_vars, NEW k \in Scope, lock[k].mode = "held",
             lock'[k] # lock[k]
      PROVE  /\ guard[lock[k].guard].st = "admitted"
             /\ guard'[lock[k].guard].st = "resolved"
             /\ lock'[k] = FreeLock
  <2> DEFINE g == lock[k].guard
  <2>1. TypeOK /\ LocksMirrorGuards /\ LocksMirrorGuards'
    BY <1>1, StepKinds DEF FenceInvariant
  <2>2. g \in Guard /\ guard[g].st \in ActiveGuard /\ k \in guard[g].scopes
    BY <1>1, <2>1, HeldLockHasGuard
  <2>3. guard'[g] # guard[g]
    BY <1>1, <2>1, <2>2, KeptGuardKeepsLocks
  <2>4. ASSUME NEW a, NEW d, RecordUncertainOutcome(g, a, d)
        PROVE  FALSE
    BY <1>1, <2>4 DEF RecordUncertainOutcome
  <2>5. PICK a \in Action, outcome \in SafeOutcomes, d \in Digest \cup {None} :
            RecordSafeOutcome(g, a, outcome, d)
    BY <1>1, <2>2, <2>3, <2>4, SettledGuards DEF ActiveGuard
  <2>6. guard[g].st = "admitted" /\ guard'[g].st = "resolved"
    BY <2>1, <2>2, <2>5 DEF RecordSafeOutcome, TypeOK, GuardRow
  <2>7. lock'[k] = FreeLock
    BY <1>1, <2>5 DEF RecordSafeOutcome
  <2>8. QED
    BY <2>6, <2>7
<1>2. FenceInvariant /\ [Next]_vars =>
        [\A k \in Scope : lock[k].mode = "held" /\ lock'[k] # lock[k] =>
          /\ guard[lock[k].guard].st = "admitted"
          /\ guard'[lock[k].guard].st = "resolved"
          /\ lock'[k] = FreeLock]_vars
  BY <1>1
<1>3. QED
  BY <1>2, FenceIsInvariant, PTL DEF Spec, HeldUntilSafeOutcome

\* An uncertain outcome is never collapsed: guard, locks, action, state and
\* waiting reason stay as record_tethers_outcome(UNCERTAIN) left them.
THEOREM UncertainIsNeverCollapsed == Spec => UncertainStaysFenced
<1>1. ASSUME FenceInvariant, [Next]_vars, NEW g \in Guard, guard[g].st = "uncertain",
             NEW c, c = guard[g].commitment
      PROVE  /\ guard'[g] = guard[g]
             /\ \A k \in guard[g].scopes : lock'[k] = lock[k]
             /\ action'[c] = action[c]
             /\ state'[c] = "Uncertain" /\ reason'[c] = reason[c]
  <2>1. /\ TypeOK /\ LocksMirrorGuards /\ LocksMirrorGuards'
        /\ ActiveGuardsConsistent /\ ActiveGuardsConsistent'
    BY <1>1, StepKinds DEF FenceInvariant, CrashIsRecoverable, Recoverable
  <2>2. guard'[g] = guard[g]
    BY <1>1, SettledGuards DEF RecordSafeOutcome, RecordUncertainOutcome
  <2>3. \A k \in guard[g].scopes : lock'[k] = lock[k]
    BY <1>1, <2>1, <2>2, KeptGuardKeepsLocks DEF ActiveGuard
  <2>4. action[c] = guard[g].action /\ reason[c] = guard[g].action
    BY <1>1, <2>1 DEF ActiveGuardsConsistent, ActiveGuard
  <2>5. action'[c] = guard'[g].action /\ reason'[c] = guard'[g].action
        /\ state'[c] = "Uncertain"
    BY <1>1, <2>1, <2>2 DEF ActiveGuardsConsistent, ActiveGuard
  <2>6. QED
    BY <2>2, <2>3, <2>4, <2>5
<1>2. FenceInvariant /\ [Next]_vars => [UncertainIsFrozen]_vars
  BY <1>1 DEF UncertainIsFrozen
<1>3. QED
  BY <1>2, FenceIsInvariant, PTL DEF Spec, UncertainStaysFenced

-----------------------------------------------------------------------------
(* Terminal states *)

\* The cascade passes terminal parents over: the commitments that are not
\* terminal are a set it never leaves.
LEMMA CascadeSkipsTerminal ==
    ASSUME NEW c, NEW p \in Cascade(c)
    PROVE  p \in Commitment /\ state[p] \notin TerminalStates
<1> DEFINE Unfinished == {q \in Commitment : state[q] \notin TerminalStates}
<1>1. \A q \in Commitment : (/\ replacement[q] \in Unfinished \cup {c}
                             /\ ParentFate(q) # "skip") => q \in Unfinished
  BY DEF ParentFate
<1>2. Unfinished \in SUBSET Commitment
  OBVIOUS
<1> HIDE DEF Unfinished
<1>3. p \in Unfinished
  BY <1>1, <1>2 DEF Cascade
<1>4. QED
  BY <1>3 DEF Unfinished

\* Nothing but an explicit path of validate_transition leads on, and none leads
\* out of a terminal state.
LEMMA NoExitFromTerminal ==
    ASSUME NEW c, NEW s, Persistable(c, s)
    PROVE  state[c] \notin TerminalStates
  BY DEF Persistable, ValidTransition, TerminalStates, WaitingStates, RowStates

\* Completed, cancelled and abandoned commitments keep their state for good,
\* whatever is written, swept, proposed, cascaded or recovered.
THEOREM TerminalStatesAreFinal == Spec => TerminalIsFinal
<1>1. ASSUME FenceInvariant, [Next]_vars, NEW c \in Commitment,
             state[c] \in TerminalStates
      PROVE  state'[c] = state[c]
  <2>1. TypeOK /\ ClaimConsistent(c)
    BY <1>1 DEF FenceInvariant, CrashIsRecoverable, Recoverable, ClaimsConsistent
  <2>2. ~HasClaim(c) /\ state[c] \notin ClaimBearing \cup {"Absent", "RecoveryPending"}
    BY <1>1, <2>1 DEF ClaimConsistent, TerminalStates, ClaimBearing
  <2>3. CASE CommitmentNext
    <3>1. ASSUME NEW d \in Commitment, NEW gl, NEW p, NEW deps,
                 InsertCommitment(d, gl, p, deps)
          PROVE  state'[c] = state[c]
      BY <2>1, <2>2, <3>1 DEF InsertCommitment, Exists, TypeOK
    <3>2. ASSUME NEW d \in Commitment, NEW w, NEW t, PersistClaim(d, w, t)
          PROVE  state'[c] = state[c]
      <4>1. d # c
        BY <1>1, <3>2, NoExitFromTerminal DEF PersistClaim
      <4>2. QED
        BY <2>1, <3>2, <4>1 DEF PersistClaim, TypeOK
    <3>3. ASSUME NEW d \in Commitment, NEW s, NEW r, PersistChange(d, s, r)
          PROVE  state'[c] = state[c]
      <4>1. d # c
        BY <1>1, <3>3, NoExitFromTerminal DEF PersistChange
      <4>2. c \notin Cascade(d)
        BY <1>1, CascadeSkipsTerminal
      <4>3. QED
        BY <3>3, <4>1, <4>2 DEF PersistChange
    <3>4. QED
      BY <2>3, <3>1, <3>2, <3>3 DEF CommitmentNext
  <2>4. CASE ClaimNext
    <3>1. ASSUME NEW d, NEW w, NEW e, NEW t, NEW lease, RecordHeartbeat(d, w, e, t, lease)
          PROVE  state'[c] = state[c]
      BY <3>1 DEF RecordHeartbeat
    <3>2. ASSUME NEW t, NEW lease, ProcessExpiredClaims(t, lease)
          PROVE  state'[c] = state[c]
      BY <2>2, <3>2 DEF ProcessExpiredClaims
    <3>3. ASSUME NEW d \in Commitment, RecoverWithoutAction(d)
          PROVE  state'[c] = state[c]
      <4>1. d # c
        BY <2>2, <3>3 DEF RecoverWithoutAction
      <4>2. c \notin Cascade(replacement[d])
        BY <1>1, CascadeSkipsTerminal
      <4>3. QED
        BY <3>3, <4>1, <4>2 DEF RecoverWithoutAction
    <3>4. QED
      BY <2>4, <3>1, <3>2, <3>3 DEF ClaimNext
  <2>5. CASE GuardNext
    <3>1. ASSUME NEW g, NEW a, NEW outcome, NEW d, RecordSafeOutcome(g, a, outcome, d)
          PROVE  state'[c] = state[c]
      <4>1. state[guard[g].commitment] \in {"Working", "RecoveryPending"}
        BY <3>1 DEF RecordSafeOutcome
      <4>2. guard[g].commitment # c
        BY <2>2, <4>1 DEF ClaimBearing
      <4>3. QED
        BY <2>1, <3>1, <4>2 DEF RecordSafeOutcome, TypeOK
    <3>2. ASSUME NEW g, NEW a, NEW d, RecordUncertainOutcome(g, a, d)
          PROVE  state'[c] = state[c]
      <4>1. state[guard[g].commitment] \in {"Working", "RecoveryPending"}
        BY <3>2 DEF RecordUncertainOutcome
      <4>2. guard[g].commitment # c
        BY <2>2, <4>1 DEF ClaimBearing
      <4>3. QED
        BY <2>1, <3>2, <4>2 DEF RecordUncertainOutcome, TypeOK
    <3>3. ASSUME NEW g, NEW d, NEW w, NEW e, NEW ks, NEW b, NEW t, NEW ttl, NEW lease,
                 IssueGuard(g, d, w, e, ks, b, t, ttl, lease)
          PROVE  state'[c] = state[c]
      BY <3>3 DEF IssueGuard, commitmentVars
    <3>4. ASSUME NEW g, NEW a, NEW d, NEW t, AdmitGuard(g, a, d, t)
          PROVE  state'[c] = state[c]
      BY <3>4 DEF AdmitGuard
    <3>5. ASSUME NEW g, NEW w, NEW e, NEW t, NEW lease, InvalidateGuard(g, w, e, t, lease)
          PROVE  state'[c] = state[c]
      BY <3>5 DEF InvalidateGuard, commitmentVars
    <3>6. QED
      BY <2>5, <3>1, <3>2, <3>3, <3>4, <3>5 DEF GuardNext
  <2>6. CASE StructuralNext
    <3>1. ASSUME NEW d \in Commitment, NEW w, NEW e, NEW b, NEW t, NEW lease,
                 NEW deps, NEW r, Decompose(d, w, e, b, t, lease, deps, r)
          PROVE  state'[c] = state[c]
      <4>1. d # c /\ c \notin DOMAIN deps
        BY <2>2, <3>1 DEF Decompose, Exists, ClaimBearing
      <4>2. QED
        BY <3>1, <4>1 DEF Decompose
    <3>2. ASSUME NEW d \in Commitment, NEW w, NEW e, NEW b, NEW t, NEW lease,
                 AbandonTarget(d, w, e, b, t, lease)
          PROVE  state'[c] = state[c]
      <4>1. d # c
        BY <2>2, <3>2 DEF AbandonTarget, StructuralFence
      <4>2. QED
        BY <2>1, <3>2, <4>1 DEF AbandonTarget, TypeOK
    <3>3. ASSUME NEW d, NEW w, NEW e, NEW b, NEW t, NEW lease, NEW p,
                 AddPrerequisite(d, w, e, b, t, lease, p)
          PROVE  state'[c] = state[c]
      BY <3>3 DEF AddPrerequisite
    <3>4. QED
      BY <2>6, <3>1, <3>2, <3>3 DEF StructuralNext
  <2>7. CASE Open
    BY <2>2, <2>7 DEF Open
  <2>8. CASE UNCHANGED vars
    BY <2>8 DEF vars, commitmentVars
  <2>9. QED
    BY <1>1, <2>3, <2>4, <2>5, <2>6, <2>7, <2>8 DEF Next
<1>2. FenceInvariant /\ [Next]_vars =>
        [\A c \in Commitment : state[c] \in TerminalStates => state'[c] = state[c]]_vars
  BY <1>1
<1>3. QED
  BY <1>2, FenceIsInvariant, PTL DEF Spec, TerminalIsFinal

-----------------------------------------------------------------------------
(* The scope fence.  Of all the operations, five kinds of steps matter to   *)
(* the scopes: some reservations end, a guard is issued, admitted, resolved *)
(* or frozen.                                                               *)

\* What the null values of the two tables stand for: a free scope has a blank
\* row, and a guard carries an action from its admission on only.
BlankRows ==
    /\ \A k \in Scope : lock[k].mode = "free" => lock[k] = FreeLock
    /\ \A g \in Guard : guard[g].st \in {"absent", "issued"} => guard[g].action = None
    /\ \A g \in Guard : guard[g].st = "issued" => guard[g].scopes # {}

\* The reservations of some issued guards end, and nothing else happens.
Drop(D) == guard' = Invalidated(D) /\ lock' = Released(D)

-----------------------------------------------------------------------------
(* The kinds of steps *)

\* Dropping no reservation leaves both tables as they are.
LEMMA DropNothing ==
    ASSUME TypeOK, UNCHANGED <<guard, lock>>
    PROVE  {} \in SUBSET Issued /\ Drop({})
<1>1. Invalidated({}) = guard
  BY DEF TypeOK, Invalidated
<1>2. Released({}) = lock
  BY DEF TypeOK, Released, ReservedBy
<1>3. QED
  BY <1>1, <1>2 DEF Drop

\* The lock table that startup_recovery rebuilds from the active guards is the
\* one it deleted, without its reservations.
LEMMA RebuiltIsReleased ==
    ASSUME TypeOK, LocksMirrorGuards, BlankRows
    PROVE  RebuiltLocks = Released(Issued)
<1> DEFINE owner(k) == {g \in Guard : guard[g].st \in ActiveGuard /\ k \in guard[g].scopes}
           held(g) == [mode |-> "held", guard |-> g, commitment |-> guard[g].commitment,
                       action |-> guard[g].action, expires |-> 0]
<1>1. RebuiltLocks = [k \in Scope |-> IF owner(k) = {} THEN FreeLock
                                      ELSE held(CHOOSE g \in owner(k) : TRUE)]
  BY DEF RebuiltLocks
<1>2. Released(Issued) =
        [k \in Scope |-> IF k \in ReservedBy(Issued) THEN FreeLock ELSE lock[k]]
  BY DEF Released
<1>3. ASSUME NEW k \in Scope
      PROVE  (IF owner(k) = {} THEN FreeLock ELSE held(CHOOSE g \in owner(k) : TRUE))
               = IF k \in ReservedBy(Issued) THEN FreeLock ELSE lock[k]
  <2>1. ASSUME NEW g \in owner(k)
        PROVE  lock[k] = held(g) /\ k \notin ReservedBy(Issued)
    <3>1. lock[k] = held(g)
      BY <2>1 DEF LocksMirrorGuards, Mirrors
    <3>2. held(g).mode = "held"
      OBVIOUS
    <3>3. QED
      BY <3>1, <3>2 DEF ReservedBy
  <2>2. CASE owner(k) = {}
    <3>1. CASE lock[k].mode = "free"
      BY <2>2, <3>1 DEF BlankRows
    <3>2. CASE lock[k].mode # "free"
      <4> DEFINE g == lock[k].guard
      <4>1. g \in Guard /\ guard[g].st \in Live /\ k \in guard[g].scopes
        BY <3>2 DEF LocksMirrorGuards, Mirrors, Live
      <4>2. guard[g].st = "issued"
        BY <2>2, <4>1 DEF Live
      <4>3. k \in ReservedBy(Issued)
        BY <4>1, <4>2, LiveScopeLocked DEF ReservedBy, Issued
      <4>4. QED
        BY <2>2, <4>3
    <3>3. QED
      BY <3>1, <3>2
  <2>3. CASE owner(k) # {}
    <3>1. PICK g \in owner(k) : g = CHOOSE h \in owner(k) : TRUE
      BY <2>3
    <3>2. lock[k] = held(g) /\ k \notin ReservedBy(Issued)
      BY <2>1
    <3> HIDE DEF owner, held
    <3>3. QED
      BY <2>3, <3>1, <3>2
  <2>4. QED
    BY <2>2, <2>3
<1> HIDE DEF owner, held
<1>4. QED
  BY <1>1, <1>2, <1>3

\* What a step does to guards and scopes, whatever else the operation does.
LEMMA FenceSteps ==
    ASSUME FenceInvariant, BlankRows, [Next]_vars
    PROVE  \/ \E D \in SUBSET Issued : Drop(D)
           \/ \E g \in Guard, c \in Commitment, w \in Worker, e \in 1 .. MaxEpoch,
                 ks \in SUBSET Scope, b \in 0 .. MaxBoot, t \in Instants,
                 ttl \in GuardTtls, lease \in LeaseDurations :
                 IssueGuard(g, c, w, e, ks, b, t, ttl, lease)
           \/ \E g \in Guard, a \in Action, d \in Digest \cup {None}, t \in Instants :
                 AdmitGuard(g, a, d, t)
           \/ \E g \in Guard, a \in Action, outcome \in SafeOutcomes,
                 d \in Digest \cup {None} : RecordSafeOutcome(g, a, outcome, d)
           \/ \E g \in Guard, a \in Action, d \in Digest \cup {None} :
                 RecordUncertainOutcome(g, a, d)
<1>1. TypeOK /\ LocksMirrorGuards
  BY DEF FenceInvariant
<1>2. ASSUME UNCHANGED <<guard, lock>>
      PROVE  \E D \in SUBSET Issued : Drop(D)
  BY <1>1, <1>2, DropNothing
<1>3. CASE CommitmentNext
  BY <1>2, <1>3 DEF CommitmentNext, InsertCommitment, PersistClaim, PersistChange, fenceVars
<1>4. CASE ClaimNext
  <2>1. ASSUME NEW t, NEW lease, ProcessExpiredClaims(t, lease)
        PROVE  \E D \in SUBSET Issued : Drop(D)
    <3> DEFINE expired == {c \in Commitment : HasClaim(c) /\ ~LeaseLive(c, lease, t)}
    <3>1. Drop(ReservationsUnder(expired))
      BY <2>1 DEF ProcessExpiredClaims, Drop
    <3>2. ReservationsUnder(expired) \in SUBSET Issued
      BY DEF ReservationsUnder, Issued
    <3>3. QED
      BY <3>1, <3>2
  <2>2. QED
    BY <1>2, <1>4, <2>1 DEF ClaimNext, RecordHeartbeat, RecoverWithoutAction, fenceVars
<1>5. CASE GuardNext
  <2>1. ASSUME NEW g \in Guard, NEW w, NEW e, NEW t, NEW lease,
               InvalidateGuard(g, w, e, t, lease)
        PROVE  \E D \in SUBSET Issued : Drop(D)
    <3> DEFINE D == ExpiredOn(guard[g].scopes, t) \cup {g}
    <3>1. D \in SUBSET Issued
      BY <2>1, ExpiredIsIssued DEF InvalidateGuard, Issued
    <3>2. Drop(D)
      BY <2>1 DEF InvalidateGuard, Drop
    <3>3. QED
      BY <3>1, <3>2
  <2>2. QED
    BY <1>5, <2>1 DEF GuardNext
<1>6. CASE StructuralNext
  <2>1. ASSUME NEW c, NEW w, NEW e, NEW b, NEW t, NEW lease,
               StructuralFence(c, w, e, b, t, lease)
        PROVE  \E D \in SUBSET Issued : Drop(D)
    BY <2>1, ExpiredForIsIssued DEF StructuralFence, Drop
  <2>2. ASSUME NEW c, NEW w, NEW e, NEW b, NEW t, NEW lease, NEW deps, NEW r,
               Decompose(c, w, e, b, t, lease, deps, r)
        PROVE  \E D \in SUBSET Issued : Drop(D)
    BY <2>1, <2>2 DEF Decompose
  <2>3. ASSUME NEW c, NEW w, NEW e, NEW b, NEW t, NEW lease, NEW p,
               AddPrerequisite(c, w, e, b, t, lease, p)
        PROVE  \E D \in SUBSET Issued : Drop(D)
    BY <2>1, <2>3 DEF AddPrerequisite
  <2>4. ASSUME NEW c, NEW w, NEW e, NEW b, NEW t, NEW lease,
               AbandonTarget(c, w, e, b, t, lease)
        PROVE  \E D \in SUBSET Issued : Drop(D)
    BY <2>1, <2>4 DEF AbandonTarget
  <2>5. QED
    BY <1>6, <2>2, <2>3, <2>4 DEF StructuralNext
<1>7. CASE Open
  <2>1. Drop(Issued)
    BY <1>1, <1>7, RebuiltIsReleased DEF Open, Issued, Drop
  <2>2. QED
    BY <2>1
<1>8. CASE UNCHANGED vars
  BY <1>2, <1>8 DEF vars
<1>9. QED
  BY <1>3, <1>4, <1>5, <1>6, <1>7, <1>8 DEF Next
-----------------------------------------------------------------------------
(* Blank rows *)

\* Ending reservations blanks the rows it frees.
LEMMA DropKeepsBlank ==
    ASSUME TypeOK, BlankRows, NEW D \in SUBSET Issued
    PROVE  /\ \A k \in Scope : Released(D)[k].mode = "free" => Released(D)[k] = FreeLock
           /\ \A g \in Guard : /\ Invalidated(D)[g].action = guard[g].action
                               /\ Invalidated(D)[g].scopes = guard[g].scopes
                               /\ Invalidated(D)[g].st \in {"absent", "issued", "uncertain"} =>
                                     Invalidated(D)[g].st = guard[g].st
                               /\ guard[g].st \in {"absent", "uncertain"} =>
                                     Invalidated(D)[g].st = guard[g].st
<1>1. \A k \in Scope : Released(D)[k].mode = "free" => Released(D)[k] = FreeLock
  BY DEF Released, BlankRows
<1>2. ASSUME NEW g \in Guard
      PROVE  /\ Invalidated(D)[g].action = guard[g].action
             /\ Invalidated(D)[g].scopes = guard[g].scopes
             /\ Invalidated(D)[g].st \in {"absent", "issued", "uncertain"} =>
                   Invalidated(D)[g].st = guard[g].st
             /\ guard[g].st \in {"absent", "uncertain"} =>
                   Invalidated(D)[g].st = guard[g].st
  <2>1. guard[g] \in GuardRow /\ (g \in D => guard[g].st = "issued")
    BY DEF TypeOK, Issued
  <2>2. QED
    BY <2>1 DEF Invalidated, GuardRow
<1>3. QED
  BY <1>1, <1>2

\* Blank rows stay blank.
LEMMA StepKeepsBlank ==
    ASSUME FenceInvariant, BlankRows, [Next]_vars
    PROVE  BlankRows'
<1>1. TypeOK /\ LocksMirrorGuards
  BY DEF FenceInvariant
<1>2. ASSUME NEW D \in SUBSET Issued, Drop(D)
      PROVE  BlankRows'
  BY <1>1, <1>2, DropKeepsBlank DEF Drop, BlankRows
<1>3. ASSUME NEW g \in Guard, NEW c \in Commitment, NEW w \in Worker,
             NEW e \in 1 .. MaxEpoch, NEW ks \in SUBSET Scope, NEW b \in 0 .. MaxBoot,
             NEW t \in Instants, NEW ttl \in GuardTtls, NEW lease \in LeaseDurations,
             IssueGuard(g, c, w, e, ks, b, t, ttl, lease)
      PROVE  BlankRows'
  <2> DEFINE dead == ExpiredOn(ks, t)
             expires == Earlier(t + ttl, claim[c].beat + lease)
             row == [st |-> "issued", commitment |-> c, epoch |-> e, boot |-> b,
                     scopes |-> ks, action |-> None, digest |-> None,
                     outcome |-> "none", expires |-> expires, issuer |-> w]
             reserved == [mode |-> "reserved", guard |-> g, commitment |-> c,
                          action |-> None, expires |-> expires]
  <2>1. /\ guard' = [Invalidated(dead) EXCEPT ![g] = row] /\ ks # {}
        /\ lock' = [k \in Scope |-> IF k \in ks THEN reserved ELSE Released(dead)[k]]
    BY <1>3 DEF IssueGuard
  <2>2. dead \in SUBSET Issued /\ Invalidated(dead) \in [Guard -> GuardRow]
    BY <1>1, ExpiredIsIssued, InvalidatedType
  <2>3. row.action = None /\ row.scopes = ks /\ reserved.mode = "reserved"
    OBVIOUS
  <2> HIDE DEF dead, row, reserved
  <2>4. guard'[g] = row /\ \A h \in Guard \ {g} : guard'[h] = Invalidated(dead)[h]
    BY <2>1, <2>2
  <2>5. QED
    BY <1>1, <2>1, <2>2, <2>3, <2>4, DropKeepsBlank DEF BlankRows
<1>4. ASSUME NEW g \in Guard, NEW a \in Action, NEW d \in Digest \cup {None},
             NEW t \in Instants, AdmitGuard(g, a, d, t)
      PROVE  BlankRows'
  <2> DEFINE dead == ExpiredOn(guard[g].scopes, t)
             row == [guard[g] EXCEPT !.st = "admitted", !.action = a,
                                     !.digest = d, !.expires = 0]
             held(k) == [mode |-> "held", guard |-> g, commitment |-> lock[k].commitment,
                         action |-> a, expires |-> 0]
  <2>1. /\ guard' = [Invalidated(dead) EXCEPT ![g] = row]
        /\ lock' = [k \in Scope |-> IF k \in ReservedBy({g}) THEN held(k)
                                    ELSE Released(dead)[k]]
    BY <1>4 DEF AdmitGuard
  <2>2. dead \in SUBSET Issued /\ Invalidated(dead) \in [Guard -> GuardRow]
    BY <1>1, ExpiredIsIssued, InvalidatedType
  <2>3. row.st = "admitted" /\ \A k : held(k).mode = "held"
    BY <1>1 DEF TypeOK, GuardRow
  <2> HIDE DEF dead, row, held
  <2>4. guard'[g] = row /\ \A h \in Guard \ {g} : guard'[h] = Invalidated(dead)[h]
    BY <2>1, <2>2
  <2>5. QED
    BY <1>1, <2>1, <2>2, <2>3, <2>4, DropKeepsBlank DEF BlankRows
<1>5. ASSUME NEW g \in Guard, NEW a \in Action, NEW outcome \in SafeOutcomes,
             NEW d \in Digest \cup {None}, RecordSafeOutcome(g, a, outcome, d)
      PROVE  BlankRows'
  <2>1. guard'[g].st = "resolved" /\ \A h \in Guard \ {g} : guard'[h] = guard[h]
    BY <1>1, <1>5 DEF RecordSafeOutcome, TypeOK, GuardRow
  <2>2. \A k \in Scope : lock'[k] = FreeLock \/ lock'[k] = lock[k]
    BY <1>5 DEF RecordSafeOutcome
  <2>3. QED
    BY <2>1, <2>2 DEF BlankRows
<1>6. ASSUME NEW g \in Guard, NEW a \in Action, NEW d \in Digest \cup {None},
             RecordUncertainOutcome(g, a, d)
      PROVE  BlankRows'
  <2>1. /\ guard'[g].st = "uncertain" /\ \A h \in Guard \ {g} : guard'[h] = guard[h]
        /\ lock' = lock
    BY <1>1, <1>6 DEF RecordUncertainOutcome, TypeOK, GuardRow
  <2>2. QED
    BY <2>1 DEF BlankRows
<1>7. QED
  BY <1>2, <1>3, <1>4, <1>5, <1>6, FenceSteps

-----------------------------------------------------------------------------
(* The fence that the rows show *)

\* The row of a scope and what it shows, read in both directions.
LEMMA Shown ==
    ASSUME TypeOK, LocksMirrorGuards, BlankRows, NEW k \in Scope
    PROVE  /\ lock[k].mode = "free" <=> ShownOwner(k) = Fence!Free
           /\ lock[k].mode = "free" <=> ShownOwner(k).mode = "free"
           /\ \A g : lock[k].mode = "reserved" /\ lock[k].guard = g <=>
                        ShownOwner(k) = Fence!Reserved(g)
           /\ \A g \in Guard : lock[k].mode = "held" /\ lock[k].guard = g =>
                 /\ lock[k].action = guard[g].action
                 /\ guard[g].st \in ActiveGuard
                 /\ ShownOwner(k) = IF guard[g].st = "uncertain"
                                    THEN Fence!Frozen(g, guard[g].action)
                                    ELSE Fence!Held(g, guard[g].action)
           /\ \A g, a : ShownOwner(k) = Fence!Held(g, a) =>
                 lock[k].mode = "held" /\ lock[k].guard = g
<1>1. lock[k] \in LockRow
  BY DEF TypeOK
<1>2. lock[k].mode = "free" => lock[k].guard = None /\ lock[k].action = None
  BY DEF BlankRows, FreeLock
<1>3. lock[k].mode = "reserved" => lock[k].action = None
  <2>1. SUFFICES ASSUME lock[k].mode = "reserved" PROVE lock[k].action = None
    OBVIOUS
  <2> DEFINE g == lock[k].guard
  <2>2. g \in Guard /\ guard[g].st \in Live /\ k \in guard[g].scopes
    BY <2>1 DEF LocksMirrorGuards, Mirrors, Live
  <2>3. guard[g].st = "issued"
    BY <2>1, <2>2, LiveScopeLocked DEF Live
  <2>4. lock[k] = [mode |-> "reserved", guard |-> g, commitment |-> guard[g].commitment,
                   action |-> None, expires |-> guard[g].expires]
    BY <2>2, <2>3 DEF LocksMirrorGuards, Mirrors
  <2>5. QED
    BY <2>4
<1>4. lock[k].mode = "held" =>
        /\ lock[k].guard \in Guard /\ guard[lock[k].guard].st \in ActiveGuard
        /\ lock[k].action = guard[lock[k].guard].action
  BY HeldLockHasGuard, LiveScopeLocked
<1>5. lock[k].mode \in {"free", "reserved", "held"}
  BY <1>1 DEF LockRow
<1>6. /\ ShownOwner(k).mode = IF lock[k].mode = "held" /\ guard[lock[k].guard].st = "uncertain"
                              THEN "frozen" ELSE lock[k].mode
      /\ ShownOwner(k).guard = lock[k].guard
      /\ ShownOwner(k).action = lock[k].action
  BY DEF ShownOwner
<1>7. /\ lock[k].mode = "free" <=> ShownOwner(k) = Fence!Free
      /\ lock[k].mode = "free" <=> ShownOwner(k).mode = "free"
  BY <1>2, <1>5 DEF ShownOwner, Fence!Free
<1>8. \A g : lock[k].mode = "reserved" /\ lock[k].guard = g <=>
                 ShownOwner(k) = Fence!Reserved(g)
  BY <1>3, <1>5 DEF ShownOwner, Fence!Reserved
<1>9. \A g \in Guard : lock[k].mode = "held" /\ lock[k].guard = g =>
         /\ lock[k].action = guard[g].action
         /\ guard[g].st \in ActiveGuard
         /\ ShownOwner(k) = IF guard[g].st = "uncertain"
                            THEN Fence!Frozen(g, guard[g].action)
                            ELSE Fence!Held(g, guard[g].action)
  BY <1>4 DEF ShownOwner, Fence!Frozen, Fence!Held
<1>10. \A g, a : ShownOwner(k) = Fence!Held(g, a) =>
          lock[k].mode = "held" /\ lock[k].guard = g
  BY <1>5 DEF ShownOwner, Fence!Held
<1>11. QED
  BY <1>7, <1>8, <1>9, <1>10

\* What the rows show of the scopes once the reservations of D have ended.
LEMMA ShownWithout ==
    ASSUME TypeOK, LocksMirrorGuards, BlankRows, NEW D \in SUBSET Issued, NEW k \in Scope
    PROVE  Fence!Without(D)[k] = IF k \in ReservedBy(D) THEN Fence!Free ELSE ShownOwner(k)
<1>1. Fence!Without(D)[k] =
        IF \E g \in D : ShownOwner(k) = Fence!Reserved(g) THEN Fence!Free ELSE ShownOwner(k)
  BY DEF Fence!Without
<1>2. (\E g \in D : ShownOwner(k) = Fence!Reserved(g)) <=> k \in ReservedBy(D)
  BY Shown DEF ReservedBy
<1>3. QED
  BY <1>1, <1>2

\* A scope whose row does not change shows the same as before, unless the guard
\* that holds it becomes uncertain.
LEMMA ShownStays ==
    ASSUME NEW k \in Scope, lock'[k] = lock[k],
           lock[k].mode = "held" =>
              (guard'[lock[k].guard].st = "uncertain" <=> guard[lock[k].guard].st = "uncertain")
    PROVE  ShownOwner(k)' = ShownOwner(k)
  BY DEF ShownOwner

\* A free row shows a free scope, in the next state too.
LEMMA ShownFree ==
    ASSUME NEW k \in Scope, lock'[k] = FreeLock
    PROVE  ShownOwner(k)' = Fence!Free
  BY DEF ShownOwner, Fence!Free, FreeLock

\* The guards that were issued and the actions that were admitted.
Known == {g \in Guard : guard[g].st # "absent"}
Used == {guard[g].action : g \in Guard} \ {None}

\* A sweep, an expiry, a withdrawal or a restart ends reservations.
LEMMA DropRefines ==
    ASSUME TypeOK, LocksMirrorGuards, BlankRows, NEW D \in SUBSET Issued, Drop(D)
    PROVE  Fence!EndReservations(D)
<1>1. ASSUME NEW k \in Scope
      PROVE  ShownOwner(k)' = Fence!Without(D)[k]
  <2>1. lock'[k] = IF k \in ReservedBy(D) THEN FreeLock ELSE lock[k]
    BY DEF Drop, Released
  <2>2. lock[k].mode = "held" =>
           (guard'[lock[k].guard].st = "uncertain" <=> guard[lock[k].guard].st = "uncertain")
    BY HeldLockHasGuard, DropKeepsBlank DEF Drop
  <2>3. QED
    BY <2>1, <2>2, ShownWithout, ShownStays, ShownFree
<1>2. Known' = Known
  BY DropKeepsBlank DEF Known, Drop
<1>3. Used' = Used
  BY DropKeepsBlank DEF Used, Drop
<1>4. Fence!Without(D) = [k \in Scope |-> Fence!Without(D)[k]]
  BY DEF Fence!Without
<1>5. [k \in Scope |-> ShownOwner(k)]' = Fence!Without(D)
  <2> HIDE DEF ShownOwner, Fence!Without
  <2>1. [k \in Scope |-> ShownOwner(k)]' = [k \in Scope |-> ShownOwner(k)']
    OBVIOUS
  <2>2. QED
    BY <1>1, <1>4, <2>1
<1>6. QED
  BY <1>2, <1>3, <1>5 DEF Fence!EndReservations, Known, Used

\* issue_guard reserves scopes that are free once the expired reservations ended.
LEMMA IssueRefines ==
    ASSUME TypeOK, LocksMirrorGuards, BlankRows, NEW g \in Guard, NEW c, NEW w, NEW e,
           NEW ks \in SUBSET Scope, NEW b, NEW t, NEW ttl, NEW lease,
           IssueGuard(g, c, w, e, ks, b, t, ttl, lease),
           NEW dead, dead = ExpiredOn(ks, t)
    PROVE  Fence!Reserve(g, ks, dead)
<1> DEFINE expires == Earlier(t + ttl, claim[c].beat + lease)
           row == [st |-> "issued", commitment |-> c, epoch |-> e, boot |-> b,
                   scopes |-> ks, action |-> None, digest |-> None,
                   outcome |-> "none", expires |-> expires, issuer |-> w]
           reserved == [mode |-> "reserved", guard |-> g, commitment |-> c,
                        action |-> None, expires |-> expires]
<1>1. /\ guard[g].st = "absent" /\ ks # {}
      /\ guard' = [Invalidated(dead) EXCEPT ![g] = row]
      /\ lock' = [k \in Scope |-> IF k \in ks THEN reserved ELSE Released(dead)[k]]
      /\ \A k \in ks : Released(dead)[k].mode = "free"
  BY DEF IssueGuard, GuardIdFree, AllFree
<1>2. dead \in SUBSET Issued /\ Invalidated(dead) \in [Guard -> GuardRow]
  BY ExpiredIsIssued, InvalidatedType
<1>3. /\ row.st = "issued" /\ row.action = None
      /\ reserved.mode = "reserved" /\ reserved.guard = g /\ reserved.action = None
  OBVIOUS
<1> HIDE DEF row, reserved
<1>4. guard'[g] = row /\ \A h \in Guard \ {g} : guard'[h] = Invalidated(dead)[h]
  BY <1>1, <1>2
<1>5. \A k \in Scope : Released(dead)[k] = IF k \in ReservedBy(dead) THEN FreeLock ELSE lock[k]
  BY DEF Released
<1>6. ASSUME NEW k \in ks PROVE Fence!Without(dead)[k] = Fence!Free
  BY <1>1, <1>2, <1>5, ShownWithout, Shown
<1>7. ASSUME NEW k \in Scope
      PROVE  ShownOwner(k)' = IF k \in ks THEN Fence!Reserved(g) ELSE Fence!Without(dead)[k]
  <2>1. CASE k \in ks
    <3>1. lock'[k] = reserved
      BY <1>1, <2>1
    <3>2. QED
      BY <1>3, <2>1, <3>1 DEF ShownOwner, Fence!Reserved
  <2>2. CASE k \notin ks
    <3>1. lock'[k] = IF k \in ReservedBy(dead) THEN FreeLock ELSE lock[k]
      BY <1>1, <1>5, <2>2
    <3>2. lock[k].mode = "held" =>
             (guard'[lock[k].guard].st = "uncertain" <=> guard[lock[k].guard].st = "uncertain")
      BY <1>1, <1>2, <1>4, HeldLockHasGuard, DropKeepsBlank DEF ActiveGuard
    <3>3. QED
      BY <1>2, <2>2, <3>1, <3>2, ShownWithout, ShownStays, ShownFree
  <2>3. QED
    BY <2>1, <2>2
<1>8. g \notin Known /\ Known' = Known \cup {g}
  BY <1>1, <1>2, <1>3, <1>4, DropKeepsBlank DEF Known
<1>9. Used' = Used
  <2>1. \A h \in Guard : guard'[h].action = guard[h].action
    BY <1>1, <1>2, <1>3, <1>4, DropKeepsBlank DEF BlankRows
  <2>2. QED
    BY <2>1 DEF Used
<1>10. [k \in Scope |-> ShownOwner(k)]' =
          [k \in Scope |-> IF k \in ks THEN Fence!Reserved(g) ELSE Fence!Without(dead)[k]]
  BY <1>7
<1>11. QED
  BY <1>1, <1>6, <1>8, <1>9, <1>10 DEF Fence!Reserve, Known, Used

\* admit_guard turns the reservation of the guard into a held scope.
LEMMA AdmitRefines ==
    ASSUME TypeOK, LocksMirrorGuards, BlankRows, NEW g \in Guard, NEW a \in Action,
           NEW d, NEW t, AdmitGuard(g, a, d, t),
           NEW dead, dead = ExpiredOn(guard[g].scopes, t)
    PROVE  Fence!Admit(g, a, dead)
<1> DEFINE row == [guard[g] EXCEPT !.st = "admitted", !.action = a,
                                   !.digest = d, !.expires = 0]
           held(k) == [mode |-> "held", guard |-> g, commitment |-> lock[k].commitment,
                       action |-> a, expires |-> 0]
<1>1. /\ guard[g].st = "issued" /\ g \notin dead /\ ActionUnused(a)
      /\ guard' = [Invalidated(dead) EXCEPT ![g] = row]
      /\ lock' = [k \in Scope |-> IF k \in ReservedBy({g}) THEN held(k) ELSE Released(dead)[k]]
  BY DEF AdmitGuard
<1>2. dead \in SUBSET Issued /\ Invalidated(dead) \in [Guard -> GuardRow]
  BY ExpiredIsIssued, InvalidatedType
<1>3. /\ row.st = "admitted" /\ row.action = a
      /\ \A k : held(k).mode = "held" /\ held(k).guard = g /\ held(k).action = a
  BY DEF TypeOK, GuardRow
<1> HIDE DEF row, held
<1>4. guard'[g] = row /\ \A h \in Guard \ {g} : guard'[h] = Invalidated(dead)[h]
  BY <1>1, <1>2
<1>5. \A k \in Scope : k \in ReservedBy({g}) <=> ShownOwner(k) = Fence!Reserved(g)
  BY Shown DEF ReservedBy
<1>6. \E k \in Scope : ShownOwner(k) = Fence!Reserved(g)
  <2>1. PICK k \in guard[g].scopes : TRUE
    BY <1>1 DEF BlankRows
  <2>2. k \in Scope
    BY <2>1 DEF TypeOK, GuardRow
  <2>3. QED
    BY <1>1, <2>1, <2>2, LiveScopeLocked, Shown
<1>7. ASSUME NEW k \in Scope
      PROVE  ShownOwner(k)' = IF Fence!Without(dead)[k] = Fence!Reserved(g)
                              THEN Fence!Held(g, a) ELSE Fence!Without(dead)[k]
  <2>1. CASE k \in ReservedBy({g})
    <3>1. lock'[k] = held(k)
      BY <1>1, <2>1
    <3>2. k \notin ReservedBy(dead)
      BY <1>1, <2>1 DEF ReservedBy
    <3>3. Fence!Without(dead)[k] = Fence!Reserved(g)
      BY <1>2, <1>5, <2>1, <3>2, ShownWithout
    <3>4. guard'[g].st # "uncertain"
      BY <1>3, <1>4
    <3>5. ShownOwner(k)' = Fence!Held(g, a)
      BY <1>3, <3>1, <3>4 DEF ShownOwner, Fence!Held
    <3>6. QED
      BY <3>3, <3>5
  <2>2. CASE k \notin ReservedBy({g})
    <3>1. lock'[k] = IF k \in ReservedBy(dead) THEN FreeLock ELSE lock[k]
      BY <1>1, <2>2 DEF Released
    <3>2. lock[k].mode = "held" =>
             (guard'[lock[k].guard].st = "uncertain" <=> guard[lock[k].guard].st = "uncertain")
      BY <1>1, <1>2, <1>4, HeldLockHasGuard, DropKeepsBlank DEF ActiveGuard
    <3>3. ShownOwner(k)' = Fence!Without(dead)[k]
      BY <1>2, <3>1, <3>2, ShownWithout, ShownStays, ShownFree
    <3>4. Fence!Free # Fence!Reserved(g)
      BY DEF Fence!Free, Fence!Reserved
    <3>5. Fence!Without(dead)[k] # Fence!Reserved(g)
      BY <1>2, <1>5, <2>2, <3>4, ShownWithout
    <3>6. QED
      BY <3>3, <3>5
  <2>3. QED
    BY <2>1, <2>2
<1>8. Known' = Known
  BY <1>1, <1>2, <1>3, <1>4, DropKeepsBlank DEF Known
<1>9. a \notin Used /\ Used' = Used \cup {a}
  <2>1. \A h \in Guard \ {g} : guard'[h].action = guard[h].action
    BY <1>2, <1>4, DropKeepsBlank
  <2>2. guard[g].action = None /\ guard'[g].action = a /\ a # None
    BY <1>1, <1>3, <1>4, IdentifiersAssumption DEF BlankRows
  <2>3. a \notin Used
    BY <1>1 DEF Used, ActionUnused
  <2>4. QED
    BY <2>1, <2>2, <2>3 DEF Used
<1>10. [k \in Scope |-> ShownOwner(k)]' =
          Fence!Moved(Fence!Without(dead), Fence!Reserved(g), Fence!Held(g, a))
  BY <1>7 DEF Fence!Moved
<1>11. QED
  BY <1>1, <1>6, <1>8, <1>9, <1>10 DEF Fence!Admit, Known, Used

\* A safe outcome frees the scopes of its action.
LEMMA SafeOutcomeRefines ==
    ASSUME TypeOK, LocksMirrorGuards, BlankRows, NEW g \in Guard, NEW a, NEW outcome,
           NEW d, RecordSafeOutcome(g, a, outcome, d)
    PROVE  Fence!Resolve(g, a)
<1>1. /\ guard[g].st = "admitted" /\ guard[g].action = a
      /\ guard'[g].st = "resolved" /\ guard'[g].action = a
      /\ \A h \in Guard \ {g} : guard'[h] = guard[h]
      /\ \A k \in Scope : lock'[k] = IF lock[k].mode = "held" /\ lock[k].guard = g
                                     THEN FreeLock ELSE lock[k]
  BY DEF RecordSafeOutcome, TypeOK, GuardRow
<1>2. ASSUME NEW k \in Scope
      PROVE  ShownOwner(k)' = IF ShownOwner(k) = Fence!Held(g, a) THEN Fence!Free
                              ELSE ShownOwner(k)
  <2>1. CASE lock[k].mode = "held" /\ lock[k].guard = g
    BY <1>1, <2>1, Shown, ShownFree
  <2>2. CASE ~(lock[k].mode = "held" /\ lock[k].guard = g)
    BY <1>1, <2>2, Shown, ShownStays, HeldLockHasGuard
  <2>3. QED
    BY <2>1, <2>2
<1>3. Known' = Known /\ Used' = Used
  BY <1>1 DEF Known, Used
<1>4. [k \in Scope |-> ShownOwner(k)]' =
        Fence!Moved([k \in Scope |-> ShownOwner(k)], Fence!Held(g, a), Fence!Free)
  BY <1>2 DEF Fence!Moved
<1>5. QED
  BY <1>3, <1>4 DEF Fence!Resolve, Known, Used

\* An uncertain outcome freezes them.
LEMMA UncertainOutcomeRefines ==
    ASSUME TypeOK, LocksMirrorGuards, BlankRows, NEW g \in Guard, NEW a, NEW d,
           RecordUncertainOutcome(g, a, d)
    PROVE  Fence!Freeze(g, a)
<1>1. /\ guard[g].st = "admitted" /\ guard[g].action = a
      /\ guard'[g].st = "uncertain" /\ guard'[g].action = a
      /\ \A h \in Guard \ {g} : guard'[h] = guard[h]
      /\ lock' = lock
  BY DEF RecordUncertainOutcome, TypeOK, GuardRow
<1>2. ASSUME NEW k \in Scope
      PROVE  ShownOwner(k)' = IF ShownOwner(k) = Fence!Held(g, a) THEN Fence!Frozen(g, a)
                              ELSE ShownOwner(k)
  <2>1. CASE lock[k].mode = "held" /\ lock[k].guard = g
    <3>1. ShownOwner(k) = Fence!Held(g, a) /\ lock[k].action = a
      BY <1>1, <2>1, Shown
    <3>2. ShownOwner(k)' = Fence!Frozen(g, a)
      BY <1>1, <2>1, <3>1 DEF ShownOwner, Fence!Frozen
    <3>3. QED
      BY <3>1, <3>2
  <2>2. CASE ~(lock[k].mode = "held" /\ lock[k].guard = g)
    BY <1>1, <2>2, Shown, ShownStays, HeldLockHasGuard
  <2>3. QED
    BY <2>1, <2>2
<1>3. Known' = Known /\ Used' = Used
  BY <1>1 DEF Known, Used
<1>4. [k \in Scope |-> ShownOwner(k)]' =
        Fence!Moved([k \in Scope |-> ShownOwner(k)], Fence!Held(g, a), Fence!Frozen(g, a))
  BY <1>2 DEF Fence!Moved
<1>5. QED
  BY <1>3, <1>4 DEF Fence!Freeze, Known, Used

-----------------------------------------------------------------------------
(* The refinement *)

\* Blank rows are an invariant of the store.
LEMMA BlankIsInvariant == Spec => []BlankRows
<1>1. Init => BlankRows
  BY DEF Init, BlankRows, FreeLock, NoGuard
<1>2. FenceInvariant /\ BlankRows /\ [Next]_vars => BlankRows'
  BY StepKeepsBlank
<1>3. QED
  BY <1>1, <1>2, FenceIsInvariant, PTL DEF Spec

\* An empty store shows an empty fence.
LEMMA InitRefines == Init => Fence!FenceInit
<1> SUFFICES ASSUME Init PROVE Fence!FenceInit
  OBVIOUS
<1>1. \A k \in Scope : ShownOwner(k) = Fence!Free
  BY DEF Init, FreeLock, ShownOwner, Fence!Free
<1>2. Known = {} /\ Used = {}
  BY DEF Init, NoGuard, Known, Used
<1>3. QED
  BY <1>1, <1>2 DEF Fence!FenceInit, Known, Used

\* Every operation of the store is a step of the scope fence, or leaves the
\* scopes, the guards issued and the actions admitted as they are.
THEOREM StoreImplementsFence == Spec => ImplementsScopeFence
<1>1. ASSUME FenceInvariant, BlankRows, [Next]_vars
      PROVE  Fence!FenceNext
  <2>1. TypeOK /\ LocksMirrorGuards
    BY <1>1 DEF FenceInvariant
  <2>2. ASSUME NEW D \in SUBSET Issued, Drop(D) PROVE Fence!FenceNext
    <3>1. D \in SUBSET Guard
      BY DEF Issued
    <3>2. QED
      BY <1>1, <2>1, <2>2, <3>1, DropRefines DEF Fence!FenceNext
  <2>3. ASSUME NEW g \in Guard, NEW c, NEW w, NEW e, NEW ks \in SUBSET Scope, NEW b,
               NEW t, NEW ttl, NEW lease, IssueGuard(g, c, w, e, ks, b, t, ttl, lease)
        PROVE  Fence!FenceNext
    <3>1. PICK dead \in SUBSET Guard : dead = ExpiredOn(ks, t)
      BY DEF ExpiredOn
    <3>2. Fence!Reserve(g, ks, dead)
      BY <1>1, <2>1, <2>3, <3>1, IssueRefines
    <3>3. QED
      BY <3>2 DEF Fence!FenceNext
  <2>4. ASSUME NEW g \in Guard, NEW a \in Action, NEW d, NEW t, AdmitGuard(g, a, d, t)
        PROVE  Fence!FenceNext
    <3>1. PICK dead \in SUBSET Guard : dead = ExpiredOn(guard[g].scopes, t)
      BY DEF ExpiredOn
    <3>2. Fence!Admit(g, a, dead)
      BY <1>1, <2>1, <2>4, <3>1, AdmitRefines
    <3>3. QED
      BY <3>2 DEF Fence!FenceNext
  <2>5. ASSUME NEW g \in Guard, NEW a \in Action, NEW outcome, NEW d,
               RecordSafeOutcome(g, a, outcome, d)
        PROVE  Fence!FenceNext
    BY <1>1, <2>1, <2>5, SafeOutcomeRefines DEF Fence!FenceNext
  <2>6. ASSUME NEW g \in Guard, NEW a \in Action, NEW d, RecordUncertainOutcome(g, a, d)
        PROVE  Fence!FenceNext
    BY <1>1, <2>1, <2>6, UncertainOutcomeRefines DEF Fence!FenceNext
  <2>7. QED
    BY <1>1, <2>2, <2>3, <2>4, <2>5, <2>6, FenceSteps
<1>2. FenceInvariant /\ BlankRows /\ [Next]_vars => [Fence!FenceNext]_(Fence!fence)
  BY <1>1
<1>3. QED
  BY <1>2, InitRefines, FenceIsInvariant, BlankIsInvariant, PTL
     DEF Spec, ImplementsScopeFence, Fence!FenceSpec

-----------------------------------------------------------------------------
(* Reservations and leases *)

\* A claim that is there after a step is the one that was there, with its last
\* heartbeat or a later one, or a new claim above the epoch high-water mark.
ClaimsRenewed ==
    \A c \in Commitment : claim'[c].worker # None =>
        \/ /\ claim[c].worker # None
           /\ claim'[c].epoch = claim[c].epoch
           /\ claim'[c].beat >= claim[c].beat
        \/ claim'[c].epoch > epoch[c]

\* No operation but record_heartbeat and a new claim moves a heartbeat.
LEMMA StepRenewsClaims ==
    ASSUME TypeOK, [Next]_vars
    PROVE  ClaimsRenewed
<1>1. \A c \in Commitment : /\ claim[c] \in ClaimRow /\ claim[c].beat \in Nat
                            /\ claim[c].epoch \in Nat /\ epoch[c] \in Nat
  BY BoundsAssumption DEF TypeOK, ClaimRow
<1>2. NoClaim.worker = None
  BY DEF NoClaim
<1>3. ASSUME \A c \in Commitment : claim'[c] = claim[c] \/ claim'[c] = NoClaim
      PROVE  ClaimsRenewed
  BY <1>1, <1>2, <1>3 DEF ClaimsRenewed
<1>4. CASE CommitmentNext
  <2>1. ASSUME NEW c \in Commitment, NEW gl, NEW p, NEW deps, InsertCommitment(c, gl, p, deps)
        PROVE  ClaimsRenewed
    BY <1>3, <2>1 DEF InsertCommitment
  <2>2. ASSUME NEW c \in Commitment, NEW w, NEW t, PersistClaim(c, w, t)
        PROVE  ClaimsRenewed
    <3>1. claim'[c].epoch = epoch[c] + 1 /\ \A d \in Commitment \ {c} : claim'[d] = claim[d]
      BY <2>2 DEF PersistClaim, TypeOK
    <3>2. QED
      BY <1>1, <3>1 DEF ClaimsRenewed
  <2>3. ASSUME NEW c \in Commitment, NEW s, NEW r, PersistChange(c, s, r)
        PROVE  ClaimsRenewed
    <3>1. \A d \in Commitment : \/ claim'[d] = NoClaim \/ claim'[d] = claim[d]
                                \/ claim'[d] = [claim[d] EXCEPT !.boot = boot]
      BY <2>3 DEF PersistChange
    <3>2. \A d \in Commitment : /\ [claim[d] EXCEPT !.boot = boot].worker = claim[d].worker
                                /\ [claim[d] EXCEPT !.boot = boot].epoch = claim[d].epoch
                                /\ [claim[d] EXCEPT !.boot = boot].beat = claim[d].beat
      BY <1>1 DEF ClaimRow
    <3>3. ASSUME NEW d \in Commitment, claim'[d].worker # None
          PROVE  /\ claim[d].worker # None /\ claim'[d].epoch = claim[d].epoch
                 /\ claim'[d].beat = claim[d].beat
      BY <1>2, <3>1, <3>2, <3>3
    <3>4. QED
      BY <1>1, <3>3 DEF ClaimsRenewed
  <2>4. QED
    BY <1>4, <2>1, <2>2, <2>3 DEF CommitmentNext
<1>5. CASE ClaimNext
  <2>1. ASSUME NEW c \in Commitment, NEW w, NEW e, NEW t \in Instants, NEW lease,
               RecordHeartbeat(c, w, e, t, lease)
        PROVE  ClaimsRenewed
    <3>1. /\ claim'[c].worker = claim[c].worker /\ claim'[c].epoch = claim[c].epoch
          /\ claim'[c].beat = t /\ t > claim[c].beat /\ t \in Nat
          /\ \A d \in Commitment \ {c} : claim'[d] = claim[d]
      BY <1>1, <2>1, BoundsAssumption DEF RecordHeartbeat, TypeOK, ClaimRow, Instants
    <3>2. QED
      BY <1>1, <3>1 DEF ClaimsRenewed
  <2>2. ASSUME NEW t, NEW lease, ProcessExpiredClaims(t, lease)
        PROVE  ClaimsRenewed
    BY <1>3, <2>2 DEF ProcessExpiredClaims
  <2>3. ASSUME NEW c, RecoverWithoutAction(c)
        PROVE  ClaimsRenewed
    BY <1>3, <2>3 DEF RecoverWithoutAction
  <2>4. QED
    BY <1>5, <2>1, <2>2, <2>3 DEF ClaimNext
<1>6. CASE GuardNext
  <2>1. ASSUME NEW g \in Guard, NEW a, NEW d, RecordUncertainOutcome(g, a, d)
        PROVE  ClaimsRenewed
    BY <1>3, <2>1 DEF RecordUncertainOutcome, TypeOK
  <2>2. ASSUME claim' = claim PROVE ClaimsRenewed
    BY <1>3, <2>2
  <2>3. ASSUME NEW g, NEW c, NEW w, NEW e, NEW ks, NEW b, NEW t, NEW ttl, NEW lease,
               IssueGuard(g, c, w, e, ks, b, t, ttl, lease)
        PROVE  ClaimsRenewed
    BY <2>2, <2>3 DEF IssueGuard, commitmentVars
  <2>4. ASSUME NEW g, NEW a, NEW d, NEW t, AdmitGuard(g, a, d, t)
        PROVE  ClaimsRenewed
    BY <2>2, <2>4 DEF AdmitGuard
  <2>5. ASSUME NEW g, NEW w, NEW e, NEW t, NEW lease, InvalidateGuard(g, w, e, t, lease)
        PROVE  ClaimsRenewed
    BY <2>2, <2>5 DEF InvalidateGuard, commitmentVars
  <2>6. ASSUME NEW g, NEW a, NEW outcome, NEW d, RecordSafeOutcome(g, a, outcome, d)
        PROVE  ClaimsRenewed
    BY <2>2, <2>6 DEF RecordSafeOutcome
  <2>7. QED
    BY <1>6, <2>1, <2>3, <2>4, <2>5, <2>6 DEF GuardNext
<1>7. CASE StructuralNext
  <2>1. ASSUME NEW c, NEW w, NEW e, NEW b, NEW t, NEW lease, NEW deps, NEW r,
               Decompose(c, w, e, b, t, lease, deps, r)
        PROVE  ClaimsRenewed
    BY <1>3, <2>1 DEF Decompose
  <2>2. ASSUME NEW c, NEW w, NEW e, NEW b, NEW t, NEW lease, NEW p,
               AddPrerequisite(c, w, e, b, t, lease, p)
        PROVE  ClaimsRenewed
    BY <1>3, <2>2 DEF AddPrerequisite
  <2>3. ASSUME NEW c, NEW w, NEW e, NEW b, NEW t, NEW lease,
               AbandonTarget(c, w, e, b, t, lease)
        PROVE  ClaimsRenewed
    BY <1>3, <2>3 DEF AbandonTarget, TypeOK
  <2>4. QED
    BY <1>7, <2>1, <2>2, <2>3 DEF StructuralNext
<1>8. CASE Open
  BY <1>3, <1>8 DEF Open
<1>9. CASE UNCHANGED vars
  BY <1>3, <1>9 DEF vars
<1>10. QED
  BY <1>4, <1>5, <1>6, <1>7, <1>8, <1>9 DEF Next

\* A guard that is issued after a step was so before, or was issued by it.
LEMMA IssuedOrKept ==
    ASSUME FenceInvariant, BlankRows, [Next]_vars, NEW h \in Guard, guard'[h].st = "issued"
    PROVE  \/ guard[h].st = "issued" /\ guard'[h] = guard[h]
           \/ \E c \in Commitment, w \in Worker, e \in 1 .. MaxEpoch,
                 ks \in SUBSET Scope, b \in 0 .. MaxBoot, t \in Instants,
                 ttl \in GuardTtls, lease \in LeaseDurations :
                 IssueGuard(h, c, w, e, ks, b, t, ttl, lease)
<1>1. TypeOK
  BY DEF FenceInvariant
<1>2. ASSUME NEW D \in SUBSET Issued, guard'[h] = Invalidated(D)[h]
      PROVE  guard[h].st = "issued" /\ guard'[h] = guard[h]
  <2>1. h \notin D
    BY <1>1, <1>2, InvalidatedColumns
  <2>2. QED
    BY <1>1, <1>2, <2>1, InvalidatedColumns
<1>3. ASSUME NEW g \in Guard \ {h}, NEW c, NEW w, NEW e, NEW ks, NEW b, NEW t, NEW ttl,
             NEW lease, IssueGuard(g, c, w, e, ks, b, t, ttl, lease)
      PROVE  guard[h].st = "issued" /\ guard'[h] = guard[h]
  <2> DEFINE dead == ExpiredOn(ks, t)
  <2>1. dead \in SUBSET Issued /\ Invalidated(dead) \in [Guard -> GuardRow]
    BY <1>1, ExpiredIsIssued, InvalidatedType
  <2>2. guard'[h] = Invalidated(dead)[h]
    BY <1>3, <2>1 DEF IssueGuard
  <2>3. QED
    BY <1>2, <2>1, <2>2
<1>4. ASSUME NEW g \in Guard, NEW a, NEW d, NEW t, AdmitGuard(g, a, d, t)
      PROVE  guard[h].st = "issued" /\ guard'[h] = guard[h]
  <2> DEFINE dead == ExpiredOn(guard[g].scopes, t)
             row == [guard[g] EXCEPT !.st = "admitted", !.action = a,
                                     !.digest = d, !.expires = 0]
  <2>1. dead \in SUBSET Issued /\ Invalidated(dead) \in [Guard -> GuardRow]
    BY <1>1, ExpiredIsIssued, InvalidatedType
  <2>2. guard' = [Invalidated(dead) EXCEPT ![g] = row]
    BY <1>4 DEF AdmitGuard
  <2>3. row.st = "admitted"
    BY <1>1 DEF TypeOK, GuardRow
  <2> HIDE DEF dead, row
  <2>4. guard'[h] = Invalidated(dead)[h]
    BY <2>1, <2>2, <2>3
  <2>5. QED
    BY <1>2, <2>1, <2>4
<1>5. ASSUME NEW g \in Guard, NEW a, NEW outcome, NEW d, RecordSafeOutcome(g, a, outcome, d)
      PROVE  guard[h].st = "issued" /\ guard'[h] = guard[h]
  BY <1>1, <1>5 DEF RecordSafeOutcome, TypeOK, GuardRow
<1>6. ASSUME NEW g \in Guard, NEW a, NEW d, RecordUncertainOutcome(g, a, d)
      PROVE  guard[h].st = "issued" /\ guard'[h] = guard[h]
  BY <1>1, <1>6 DEF RecordUncertainOutcome, TypeOK, GuardRow
<1>7. QED
  BY <1>2, <1>3, <1>4, <1>5, <1>6, FenceSteps DEF Drop

\* The deadline of a reservation lies within the lease of the claim it was
\* issued under for as long as that claim stands, so admit_guard may test the
\* deadline in place of the lease.
THEOREM DeadlineStandsForLease == Spec => []ReservationWithinLease
<1>1. Init => ReservationWithinLease
  BY DEF Init, ReservationWithinLease, NoGuard
<1>2. ASSUME FenceInvariant, FenceInvariant', BlankRows, ReservationWithinLease, [Next]_vars
      PROVE  ReservationWithinLease'
  <2>1. TypeOK /\ TypeOK' /\ GuardRowsWellFormed
    BY <1>2 DEF FenceInvariant
  <2>2. SUFFICES ASSUME NEW g \in Guard, NEW c, c = guard'[g].commitment,
                        guard'[g].st = "issued", claim'[c].worker # None,
                        claim'[c].epoch = guard'[g].epoch
                 PROVE  \E lease \in LeaseDurations :
                           guard'[g].expires <= claim'[c].beat + lease
    BY DEF ReservationWithinLease, HasClaim
  <2>3. CASE guard[g].st = "issued" /\ guard'[g] = guard[g]
    <3>1. c \in Commitment /\ guard[g].epoch <= epoch[c]
      BY <2>1, <2>2, <2>3 DEF GuardRowsWellFormed
    <3>2. guard[g].epoch \in Nat /\ epoch[c] \in Nat /\ guard[g].expires \in Nat
      BY <2>1, <3>1, BoundsAssumption DEF TypeOK, GuardRow
    <3>3. /\ claim[c].worker # None /\ claim'[c].epoch = claim[c].epoch
          /\ claim'[c].beat >= claim[c].beat
      BY <1>2, <2>1, <2>2, <2>3, <3>1, <3>2, StepRenewsClaims DEF ClaimsRenewed
    <3>4. PICK lease \in LeaseDurations : guard[g].expires <= claim[c].beat + lease
      BY <1>2, <2>2, <2>3, <3>3 DEF ReservationWithinLease, HasClaim
    <3>5. claim[c].beat \in Nat /\ claim'[c].beat \in Nat /\ lease \in Nat
      BY <2>1, <3>1, DurationsAssumption DEF TypeOK, ClaimRow
    <3>6. QED
      BY <2>3, <3>2, <3>3, <3>4, <3>5
  <2>4. ASSUME NEW d \in Commitment, NEW w \in Worker, NEW e \in 1 .. MaxEpoch,
               NEW ks \in SUBSET Scope, NEW b \in 0 .. MaxBoot, NEW t \in Instants,
               NEW ttl \in GuardTtls, NEW lease \in LeaseDurations,
               IssueGuard(g, d, w, e, ks, b, t, ttl, lease)
        PROVE  guard'[g].expires <= claim'[c].beat + lease
    <3> DEFINE dead == ExpiredOn(ks, t)
               expires == Earlier(t + ttl, claim[d].beat + lease)
    <3>1. Invalidated(dead) \in [Guard -> GuardRow]
      BY <2>1, InvalidatedType
    <3> HIDE DEF dead
    <3>2. guard'[g].commitment = d /\ guard'[g].expires = expires /\ claim' = claim
      BY <2>4, <3>1 DEF IssueGuard, dead, commitmentVars
    <3>3. /\ claim[d].beat \in Nat /\ lease \in Nat /\ ttl \in Nat /\ t \in Nat
      BY <2>1, DurationsAssumption, BoundsAssumption DEF TypeOK, ClaimRow, Instants
    <3>4. QED
      BY <2>2, <3>2, <3>3 DEF Earlier
  <2>5. QED
    BY <1>2, <2>2, <2>3, <2>4, IssuedOrKept
<1>3. FenceInvariant /\ FenceInvariant' /\ BlankRows /\ ReservationWithinLease /\ [Next]_vars
        => ReservationWithinLease'
  BY <1>2
<1>4. QED
  BY <1>1, <1>3, FenceIsInvariant, BlankIsInvariant, PTL DEF Spec
=============================================================================
