------------------------- MODULE FencedStoreFencing -------------------------
(***************************************************************************)
(* The fence of an action in flight: type correctness of the store, the    *)
(* proof that FenceInvariant is inductive, and what follows from it.  The  *)
(* tables guard and lock change together, so their agreement is proved     *)
(* first, action by action; the consistency of claims, actions and guards  *)
(* rests on it.                                                            *)
(***************************************************************************)
EXTENDS FencedStore, TLAPS

-----------------------------------------------------------------------------
(* Type correctness *)

\* The rows that stand for an absent claim, guard and lock are rows.
LEMMA NullRows ==
    /\ NoClaim \in ClaimRow
    /\ NoGuard \in GuardRow
    /\ FreeLock \in LockRow
  BY DEF NoClaim, ClaimRow, NoGuard, GuardRow, GuardState, FreeLock, LockRow

\* Invalidating guards and deleting their locks keeps both tables well typed.
LEMMA InvalidatedType ==
    ASSUME TypeOK, NEW gs
    PROVE  Invalidated(gs) \in [Guard -> GuardRow]
<1>1. SUFFICES ASSUME NEW g \in Guard
               PROVE  [guard[g] EXCEPT !.st = "invalidated", !.expires = 0] \in GuardRow
  BY DEF Invalidated, TypeOK
<1>2. guard[g] \in GuardRow
  BY DEF TypeOK
<1>3. QED
  BY <1>2 DEF GuardRow, GuardState

\* Deleting reservations leaves lock rows.
LEMMA ReleasedType ==
    ASSUME TypeOK, NEW gs
    PROVE  Released(gs) \in [Scope -> LockRow]
  BY NullRows DEF Released, TypeOK

\* Init satisfies the type invariant.
LEMMA InitType == Init => TypeOK
  BY NullRows, BoundsAssumption DEF Init, TypeOK, CommitmentState

\* insert_commitment writes well-typed rows.
LEMMA InsertCommitmentType ==
    ASSUME TypeOK, NEW c \in Commitment, NEW gl \in Goal,
           NEW p \in NewParents \cup {None}, NEW deps \in Dependencies,
           InsertCommitment(c, gl, p, deps)
    PROVE  TypeOK'
<1>1. p \in Commitment \cup {None} /\ deps \in SUBSET Commitment
  BY BoundsAssumption DEF Dependencies
<1>2. QED
  BY <1>1 DEF TypeOK, InsertCommitment, CommitmentState, RowStates, fenceVars

\* A claim, at an epoch within its bound, writes well-typed rows.
LEMMA PersistClaimType ==
    ASSUME TypeOK, NEW c \in Commitment, NEW w \in Worker, NEW t \in Instants,
           PersistClaim(c, w, t)
    PROVE  TypeOK'
<1>1. [worker |-> w, epoch |-> epoch[c] + 1, beat |-> t, boot |-> boot] \in ClaimRow
  BY BoundsAssumption DEF TypeOK, ClaimRow, Instants
<1>2. epoch[c] + 1 \in 0 .. MaxEpoch
  BY BoundsAssumption DEF TypeOK, PersistClaim, EpochAvailable
<1>3. QED
  BY <1>1, <1>2 DEF TypeOK, PersistClaim, CommitmentState, RowStates, ClaimBearing,
        topologyVars, fenceVars

\* persist_commitment_change writes well-typed rows.
LEMMA PersistChangeType ==
    ASSUME TypeOK, NEW c \in Commitment, NEW s \in RowStates,
           NEW r \in Action \cup {None}, PersistChange(c, s, r)
    PROVE  TypeOK'
<1> DEFINE done == IF s = "Completed" THEN Cascade(c) ELSE {}
<1>1. [claim[c] EXCEPT !.boot = boot] \in ClaimRow
  <2>1. claim[c] \in ClaimRow /\ boot \in Nat
    BY BoundsAssumption DEF TypeOK
  <2>2. QED
    BY <2>1 DEF ClaimRow
<1>2. state' \in [Commitment -> CommitmentState]
  BY DEF TypeOK, PersistChange, CommitmentState, RowStates, TerminalStates
<1>3. reason' \in [Commitment -> Action \cup Commitment \cup {None}]
  BY DEF TypeOK, PersistChange
<1>4. claim' \in [Commitment -> ClaimRow]
  <2>1. claim' = [d \in Commitment |->
                    IF d \in done \/ (d = c /\ s \notin ClaimBearing) THEN NoClaim
                    ELSE IF d = c THEN [claim[c] EXCEPT !.boot = boot]
                    ELSE claim[d]]
    BY DEF PersistChange
  <2>2. QED
    BY <1>1, <2>1, NullRows DEF TypeOK
<1>5. QED
  BY <1>2, <1>3, <1>4 DEF TypeOK, PersistChange, topologyVars, fenceVars

\* record_heartbeat writes well-typed rows.
LEMMA RecordHeartbeatType ==
    ASSUME TypeOK, NEW c \in Commitment, NEW w \in Worker, NEW e \in 1 .. MaxEpoch,
           NEW t \in Instants, NEW lease \in LeaseDurations,
           RecordHeartbeat(c, w, e, t, lease)
    PROVE  TypeOK'
<1>1. claim[c] \in ClaimRow /\ t \in Nat
  BY BoundsAssumption DEF TypeOK, Instants
<1>2. [claim[c] EXCEPT !.beat = t] \in ClaimRow
  BY <1>1 DEF ClaimRow
<1>3. claim' = [claim EXCEPT ![c] = [claim[c] EXCEPT !.beat = t]]
  BY DEF RecordHeartbeat, TypeOK
<1>4. QED
  BY <1>2, <1>3 DEF TypeOK, RecordHeartbeat, topologyVars, fenceVars

\* process_expired_claims writes well-typed rows.
LEMMA ProcessExpiredClaimsType ==
    ASSUME TypeOK, NEW t \in Instants, NEW lease \in LeaseDurations,
           ProcessExpiredClaims(t, lease)
    PROVE  TypeOK'
<1>1. guard' \in [Guard -> GuardRow] /\ lock' \in [Scope -> LockRow]
  BY InvalidatedType, ReleasedType DEF ProcessExpiredClaims
<1>2. QED
  BY <1>1, NullRows DEF TypeOK, ProcessExpiredClaims, CommitmentState, RowStates,
        topologyVars

\* recover_without_action writes well-typed rows.
LEMMA RecoverWithoutActionType ==
    ASSUME TypeOK, NEW c \in Commitment, RecoverWithoutAction(c)
    PROVE  TypeOK'
  BY NullRows DEF TypeOK, RecoverWithoutAction, CommitmentState, RowStates,
        TerminalStates, topologyVars, fenceVars

\* issue_guard writes well-typed rows.
LEMMA IssueGuardType ==
    ASSUME TypeOK, NEW g \in Guard, NEW c \in Commitment, NEW w \in Worker,
           NEW e \in 1 .. MaxEpoch, NEW ks \in SUBSET Scope, NEW b \in 0 .. MaxBoot,
           NEW t \in Instants, NEW ttl \in GuardTtls, NEW lease \in LeaseDurations,
           IssueGuard(g, c, w, e, ks, b, t, ttl, lease)
    PROVE  TypeOK'
<1> DEFINE dead == ExpiredOn(ks, t)
           expires == Earlier(t + ttl, claim[c].beat + lease)
           row == [st |-> "issued", commitment |-> c, epoch |-> e, boot |-> b,
                   scopes |-> ks, action |-> None, digest |-> None,
                   outcome |-> "none", expires |-> expires, issuer |-> w]
           reserved == [mode |-> "reserved", guard |-> g, commitment |-> c,
                        action |-> None, expires |-> expires]
<1>1. expires \in Nat
  <2>1. t \in Nat /\ ttl \in Nat /\ lease \in Nat /\ claim[c].beat \in Nat
    BY BoundsAssumption, DurationsAssumption DEF TypeOK, Instants, ClaimRow
  <2>2. QED
    BY <2>1 DEF Earlier
<1>2. row \in GuardRow
  <2>1. e \in Nat /\ b \in Nat
    BY BoundsAssumption
  <2>2. QED
    BY <1>1, <2>1 DEF GuardRow, GuardState
<1>3. reserved \in LockRow
  BY <1>1 DEF LockRow
<1>4. guard' = [Invalidated(dead) EXCEPT ![g] = row]
  BY DEF IssueGuard
<1>5. lock' = [k \in Scope |-> IF k \in ks THEN reserved ELSE Released(dead)[k]]
  BY DEF IssueGuard
<1>6. Invalidated(dead) \in [Guard -> GuardRow] /\ Released(dead) \in [Scope -> LockRow]
  BY InvalidatedType, ReleasedType
<1> HIDE DEF row, reserved, dead, expires
<1>7. guard' \in [Guard -> GuardRow] /\ lock' \in [Scope -> LockRow]
  BY <1>2, <1>3, <1>4, <1>5, <1>6
<1>8. QED
  BY <1>7 DEF TypeOK, IssueGuard, commitmentVars, topologyVars

\* admit_guard writes well-typed rows.
LEMMA AdmitGuardType ==
    ASSUME TypeOK, NEW g \in Guard, NEW a \in Action, NEW d \in Digest \cup {None},
           NEW t \in Instants, AdmitGuard(g, a, d, t)
    PROVE  TypeOK'
<1> DEFINE dead == ExpiredOn(guard[g].scopes, t)
           row == [guard[g] EXCEPT !.st = "admitted", !.action = a,
                                   !.digest = d, !.expires = 0]
           held(k) == [mode |-> "held", guard |-> g, commitment |-> lock[k].commitment,
                       action |-> a, expires |-> 0]
<1>1. row \in GuardRow
  <2>1. guard[g] \in GuardRow
    BY DEF TypeOK
  <2>2. QED
    BY <2>1 DEF GuardRow, GuardState, ActiveGuard
<1>2. \A k \in Scope : held(k) \in LockRow
  <2>1. \A k \in Scope : lock[k] \in LockRow
    BY DEF TypeOK
  <2>2. QED
    BY <2>1 DEF LockRow
<1>3. guard' = [Invalidated(dead) EXCEPT ![g] = row]
  BY DEF AdmitGuard
<1>4. lock' = [k \in Scope |-> IF k \in ReservedBy({g}) THEN held(k)
                               ELSE Released(dead)[k]]
  BY DEF AdmitGuard
<1>5. Invalidated(dead) \in [Guard -> GuardRow] /\ Released(dead) \in [Scope -> LockRow]
  BY InvalidatedType, ReleasedType
<1>6. action' \in [Commitment -> Action \cup {None}]
  BY DEF AdmitGuard, TypeOK
<1> HIDE DEF row, held, dead
<1>7. guard' \in [Guard -> GuardRow] /\ lock' \in [Scope -> LockRow]
  BY <1>1, <1>2, <1>3, <1>4, <1>5
<1>8. QED
  BY <1>6, <1>7 DEF TypeOK, AdmitGuard, topologyVars

\* invalidate_guard writes well-typed rows.
LEMMA InvalidateGuardType ==
    ASSUME TypeOK, NEW g \in Guard, NEW w \in Worker, NEW e \in 1 .. MaxEpoch,
           NEW t \in Instants, NEW lease \in LeaseDurations,
           InvalidateGuard(g, w, e, t, lease)
    PROVE  TypeOK'
<1>1. guard' \in [Guard -> GuardRow] /\ lock' \in [Scope -> LockRow]
  BY InvalidatedType, ReleasedType DEF InvalidateGuard
<1>2. QED
  BY <1>1 DEF TypeOK, InvalidateGuard, commitmentVars, topologyVars

\* A safe outcome writes well-typed rows.
LEMMA RecordSafeOutcomeType ==
    ASSUME TypeOK, NEW g \in Guard, NEW a \in Action, NEW outcome \in SafeOutcomes,
           NEW d \in Digest \cup {None}, RecordSafeOutcome(g, a, outcome, d)
    PROVE  TypeOK'
<1>1. [guard[g] EXCEPT !.st = "resolved", !.outcome = outcome] \in GuardRow
  <2>1. guard[g] \in GuardRow
    BY DEF TypeOK
  <2>2. QED
    BY <2>1 DEF GuardRow, GuardState
<1>2. guard' = [guard EXCEPT ![g] = [guard[g] EXCEPT !.st = "resolved",
                                                     !.outcome = outcome]]
  BY DEF RecordSafeOutcome, TypeOK
<1>3. guard' \in [Guard -> GuardRow]
  BY <1>1, <1>2 DEF TypeOK
<1>4. lock' \in [Scope -> LockRow]
  BY NullRows DEF RecordSafeOutcome, TypeOK
<1>5. state' \in [Commitment -> CommitmentState]
  BY DEF RecordSafeOutcome, TypeOK, CommitmentState, RowStates
<1>6. action' \in [Commitment -> Action \cup {None}]
  BY DEF RecordSafeOutcome, TypeOK
<1>7. QED
  BY <1>3, <1>4, <1>5, <1>6 DEF TypeOK, RecordSafeOutcome, topologyVars

\* An uncertain outcome writes well-typed rows.
LEMMA RecordUncertainOutcomeType ==
    ASSUME TypeOK, NEW g \in Guard, NEW a \in Action,
           NEW d \in Digest \cup {None}, RecordUncertainOutcome(g, a, d)
    PROVE  TypeOK'
<1>1. [guard[g] EXCEPT !.st = "uncertain"] \in GuardRow
  <2>1. guard[g] \in GuardRow
    BY DEF TypeOK
  <2>2. QED
    BY <2>1 DEF GuardRow, GuardState, ActiveGuard
<1>2. guard' = [guard EXCEPT ![g] = [guard[g] EXCEPT !.st = "uncertain"]]
  BY DEF RecordUncertainOutcome, TypeOK
<1>3. guard' \in [Guard -> GuardRow]
  BY <1>1, <1>2 DEF TypeOK
<1>4. state' \in [Commitment -> CommitmentState]
  BY DEF RecordUncertainOutcome, TypeOK, CommitmentState, RowStates, WaitingStates
<1>5. reason' \in [Commitment -> Action \cup Commitment \cup {None}]
  BY DEF RecordUncertainOutcome, TypeOK
<1>6. claim' \in [Commitment -> ClaimRow]
  BY NullRows DEF RecordUncertainOutcome, TypeOK
<1>7. QED
  BY <1>3, <1>4, <1>5, <1>6 DEF TypeOK, RecordUncertainOutcome, topologyVars

\* What the fence of a structural proposal leaves for the proposal to type.
LEMMA StructuralFenceType ==
    ASSUME TypeOK, NEW c, NEW w, NEW e, NEW b, NEW t, NEW lease,
           StructuralFence(c, w, e, b, t, lease)
    PROVE  /\ guard' \in [Guard -> GuardRow]
           /\ lock' \in [Scope -> LockRow]
           /\ epoch' = epoch /\ action' = action /\ boot' = boot
  BY InvalidatedType, ReleasedType DEF StructuralFence

\* apply_decomposition writes well-typed rows.
LEMMA DecomposeType ==
    ASSUME TypeOK, NEW c \in Commitment, NEW w, NEW e, NEW b, NEW t, NEW lease,
           NEW children \in SUBSET Commitment, NEW deps \in [children -> Dependencies],
           NEW r \in children, Decompose(c, w, e, b, t, lease, deps, r)
    PROVE  TypeOK'
<1> DEFINE edges == [d \in Commitment |->
                       IF d \in DOMAIN deps THEN deps[d]
                       ELSE IF d = c THEN prereq[c] \cup {r} ELSE prereq[d]]
<1>1. StructuralFence(c, w, e, b, t, lease)
  BY DEF Decompose
<1>2. DOMAIN deps = children /\ r \in Commitment
  OBVIOUS
<1>3. \A d \in children : deps[d] \in SUBSET Commitment
  BY DEF Dependencies
<1>4. prereq' \in [Commitment -> SUBSET Commitment]
  <2>1. prereq' = edges
    BY DEF Decompose
  <2>2. QED
    BY <1>2, <1>3, <2>1 DEF TypeOK
<1>5. state' \in [Commitment -> CommitmentState]
  BY DEF Decompose, TypeOK, CommitmentState, RowStates, WaitingStates
<1>6. /\ reason' \in [Commitment -> Action \cup Commitment \cup {None}]
      /\ replacement' \in [Commitment -> Commitment \cup {None}]
  BY <1>2 DEF Decompose, TypeOK
<1>7. /\ goal' \in [Commitment -> Goal \cup {None}]
      /\ parent' \in [Commitment -> Commitment \cup {None}]
  BY DEF Decompose, TypeOK
<1>8. claim' = claim
  BY DEF Decompose
<1>9. QED
  BY <1>1, <1>4, <1>5, <1>6, <1>7, <1>8, StructuralFenceType DEF TypeOK

\* apply_add_prerequisite writes well-typed rows.
LEMMA AddPrerequisiteType ==
    ASSUME TypeOK, NEW c \in Commitment, NEW w, NEW e, NEW b, NEW t, NEW lease,
           NEW p \in Commitment \cup {None}, AddPrerequisite(c, w, e, b, t, lease, p)
    PROVE  TypeOK'
<1>1. StructuralFence(c, w, e, b, t, lease)
  BY DEF AddPrerequisite
<1>2. prereq' = [prereq EXCEPT ![c] = prereq[c] \cup ({p} \ {None})]
  BY DEF AddPrerequisite, TypeOK
<1>3. prereq' \in [Commitment -> SUBSET Commitment]
  BY <1>2 DEF TypeOK
<1>4. UNCHANGED <<state, reason, claim, goal, parent, replacement>>
  BY DEF AddPrerequisite
<1>5. QED
  BY <1>1, <1>3, <1>4, StructuralFenceType DEF TypeOK

\* apply_abandon writes well-typed rows.
LEMMA AbandonTargetType ==
    ASSUME TypeOK, NEW c \in Commitment, NEW w, NEW e, NEW b, NEW t, NEW lease,
           AbandonTarget(c, w, e, b, t, lease)
    PROVE  TypeOK'
<1>1. StructuralFence(c, w, e, b, t, lease)
  BY DEF AbandonTarget
<1>2. /\ state' \in [Commitment -> CommitmentState]
      /\ reason' \in [Commitment -> Action \cup Commitment \cup {None}]
      /\ claim' \in [Commitment -> ClaimRow]
  BY NullRows DEF AbandonTarget, TypeOK, CommitmentState, RowStates, TerminalStates
<1>3. UNCHANGED topologyVars
  BY DEF AbandonTarget
<1>4. QED
  BY <1>1, <1>2, <1>3, StructuralFenceType DEF TypeOK, topologyVars

\* A rebuilt lock is the held lock of some active guard that lists its key.
LEMMA RebuiltLocksType ==
    ASSUME TypeOK
    PROVE  RebuiltLocks \in [Scope -> LockRow]
<1> DEFINE owner(k) == {g \in Guard : guard[g].st \in ActiveGuard /\ k \in guard[g].scopes}
           held(g) == [mode |-> "held", guard |-> g, commitment |-> guard[g].commitment,
                       action |-> guard[g].action, expires |-> 0]
<1>1. \A g \in Guard : held(g) \in LockRow
  BY DEF TypeOK, GuardRow, LockRow
<1>2. \A k \in Scope : owner(k) # {} => (CHOOSE g \in owner(k) : TRUE) \in Guard
  OBVIOUS
<1>3. RebuiltLocks = [k \in Scope |-> IF owner(k) = {} THEN FreeLock
                                      ELSE held(CHOOSE g \in owner(k) : TRUE)]
  BY DEF RebuiltLocks
<1> HIDE DEF owner, held
<1>4. QED
  BY <1>1, <1>2, <1>3, NullRows

\* A restart writes well-typed rows: rebuilt locks are lock rows.
LEMMA OpenType == ASSUME TypeOK, Open PROVE TypeOK'
<1>1. guard' \in [Guard -> GuardRow] /\ lock' \in [Scope -> LockRow]
  BY InvalidatedType, RebuiltLocksType DEF Open
<1>2. /\ state' \in [Commitment -> CommitmentState]
      /\ reason' \in [Commitment -> Action \cup Commitment \cup {None}]
      /\ claim' \in [Commitment -> ClaimRow]
  BY NullRows DEF Open, TypeOK, CommitmentState, RowStates
<1>3. boot' \in 0 .. MaxBoot
  BY BoundsAssumption DEF Open, TypeOK
<1>4. QED
  BY <1>1, <1>2, <1>3 DEF TypeOK, Open, topologyVars

\* Stuttering keeps types.
LEMMA StutterType == ASSUME TypeOK, UNCHANGED vars PROVE TypeOK'
  BY DEF TypeOK, vars

\* Every step keeps types.
LEMMA NextType == ASSUME TypeOK, Next PROVE TypeOK'
<1>1. CASE CommitmentNext
  BY <1>1, InsertCommitmentType, PersistClaimType, PersistChangeType DEF CommitmentNext
<1>2. CASE ClaimNext
  BY <1>2, RecordHeartbeatType, ProcessExpiredClaimsType, RecoverWithoutActionType
     DEF ClaimNext
<1>3. CASE GuardNext
  BY <1>3, IssueGuardType, AdmitGuardType, InvalidateGuardType, RecordSafeOutcomeType,
     RecordUncertainOutcomeType DEF GuardNext
<1>4. CASE StructuralNext
  BY <1>4, DecomposeType, AddPrerequisiteType, AbandonTargetType DEF StructuralNext
<1>5. QED
  BY <1>1, <1>2, <1>3, <1>4, OpenType DEF Next

\* Every column keeps its type in every behaviour, for any number of
\* identifiers; the claim epoch and the boot generation stop at their limits
\* and never wrap (ClaimEpoch::next, the checked_add of startup_recovery).
THEOREM TypeCorrectness == Spec => []TypeOK
<1>1. TypeOK /\ [Next]_vars => TypeOK'
  BY NextType, StutterType
<1>2. QED
  BY <1>1, InitType, PTL DEF Spec

-----------------------------------------------------------------------------
(* The tables of guards and locks *)


Live == ActiveGuard \cup {"issued"}
Issued == {g \in Guard : guard[g].st = "issued"}

\* The columns of the guards table after some issued guards were invalidated.
LEMMA InvalidatedColumns ==
    ASSUME TypeOK, NEW D \in SUBSET Issued, NEW g \in Guard
    PROVE  /\ g \in D => Invalidated(D)[g].st = "invalidated"
           /\ g \notin D => Invalidated(D)[g] = guard[g]
           /\ Invalidated(D)[g].st \in Live => g \notin D /\ guard[g].st \in Live
           /\ guard[g].st # "issued" => Invalidated(D)[g] = guard[g]
<1>1. guard[g] \in GuardRow
  BY DEF TypeOK
<1>2. Invalidated(D)[g] = IF g \in D
                          THEN [guard[g] EXCEPT !.st = "invalidated", !.expires = 0]
                          ELSE guard[g]
  BY DEF Invalidated
<1>3. g \in D => guard[g].st = "issued" /\ Invalidated(D)[g].st = "invalidated"
  BY <1>1, <1>2 DEF Issued, GuardRow
<1>4. QED
  BY <1>2, <1>3 DEF Live, ActiveGuard

\* Under the mirror, a scope of a live guard is locked for that guard.
LEMMA LiveScopeLocked ==
    ASSUME LocksMirrorGuards, NEW g \in Guard, NEW k \in guard[g].scopes
    PROVE  /\ guard[g].st = "issued" => lock[k].mode = "reserved" /\ lock[k].guard = g
           /\ guard[g].st \in ActiveGuard => /\ lock[k].mode = "held"
                                             /\ lock[k].guard = g
                                             /\ lock[k].action = guard[g].action
                                             /\ lock[k].commitment = guard[g].commitment
<1>1. CASE guard[g].st = "issued"
  <2>1. lock[k] = [mode |-> "reserved", guard |-> g, commitment |-> guard[g].commitment,
                   action |-> None, expires |-> guard[g].expires]
    BY <1>1 DEF LocksMirrorGuards, Mirrors
  <2>2. QED
    BY <1>1, <2>1 DEF ActiveGuard
<1>2. CASE guard[g].st \in ActiveGuard
  <2>1. lock[k] = [mode |-> "held", guard |-> g, commitment |-> guard[g].commitment,
                   action |-> guard[g].action, expires |-> 0]
    BY <1>2 DEF LocksMirrorGuards, Mirrors
  <2>2. QED
    BY <1>2, <2>1 DEF ActiveGuard
<1>3. QED
  BY <1>1, <1>2

\* Under the mirror, releasing the reservations of D frees exactly the scopes of
\* the guards in D.
LEMMA ReleasedScopes ==
    ASSUME TypeOK, LocksMirrorGuards, NEW D \in SUBSET Issued, NEW k \in Scope
    PROVE  /\ (\E g \in D : k \in guard[g].scopes) => Released(D)[k] = FreeLock
           /\ (\A g \in D : k \notin guard[g].scopes) => Released(D)[k] = lock[k]
           /\ Released(D)[k].mode # "free" =>
                 Released(D)[k] = lock[k] /\ lock[k].guard \notin D
<1>1. Released(D)[k] = IF k \in ReservedBy(D) THEN FreeLock ELSE lock[k]
  BY DEF Released
<1>2. ASSUME NEW g \in D, k \in guard[g].scopes
      PROVE  k \in ReservedBy(D)
  BY <1>2, LiveScopeLocked DEF ReservedBy, Issued
<1>3. ASSUME k \in ReservedBy(D)
      PROVE  \E g \in D : k \in guard[g].scopes
  BY <1>3 DEF ReservedBy, LocksMirrorGuards, Mirrors
<1>4. ASSUME lock[k].guard \in D, lock[k].mode # "free"
      PROVE  k \in ReservedBy(D)
  BY <1>2, <1>4 DEF LocksMirrorGuards, Mirrors
<1>5. FreeLock.mode = "free"
  BY DEF FreeLock
<1>6. QED
  BY <1>1, <1>2, <1>3, <1>4, <1>5

\* Two guards that are both live share no scope key.
LEMMA LiveScopesDisjoint ==
    ASSUME TypeOK, LocksMirrorGuards, NEW g \in Guard, NEW h \in Guard, g # h,
           guard[g].st \in Live, guard[h].st \in Live
    PROVE  guard[g].scopes \cap guard[h].scopes = {}
<1>1. SUFFICES ASSUME NEW k \in guard[g].scopes, k \in guard[h].scopes PROVE FALSE
  OBVIOUS
<1>2. lock[k].guard = g /\ lock[k].guard = h
  BY <1>1, LiveScopeLocked DEF Live
<1>3. QED
  BY <1>2

\* Reservations end in both tables at once.
LEMMA DropKeepsMirror ==
    ASSUME TypeOK, LocksMirrorGuards, NEW D \in SUBSET Issued
    PROVE  Mirrors(Invalidated(D), Released(D))
<1>1. ASSUME NEW g \in Guard, Invalidated(D)[g].st \in Live,
             NEW k \in Invalidated(D)[g].scopes
      PROVE  Invalidated(D)[g] = guard[g] /\ Released(D)[k] = lock[k]
  <2>1. g \notin D /\ guard[g].st \in Live /\ Invalidated(D)[g] = guard[g]
    BY <1>1, InvalidatedColumns
  <2>2. k \in Scope
    BY <1>1, <2>1 DEF TypeOK, GuardRow
  <2>3. \A h \in D : k \notin guard[h].scopes
    <3>1. SUFFICES ASSUME NEW h \in D PROVE k \notin guard[h].scopes
      OBVIOUS
    <3>2. h \in Guard /\ h # g /\ guard[h].st \in Live
      BY <2>1 DEF Issued, Live
    <3>3. QED
      BY <1>1, <2>1, <3>2, LiveScopesDisjoint
  <2>4. QED
    BY <2>1, <2>2, <2>3, ReleasedScopes
<1>2. ASSUME NEW k \in Scope, Released(D)[k].mode # "free"
      PROVE  /\ Released(D)[k].guard \in Guard
             /\ Invalidated(D)[Released(D)[k].guard].st \in Live
             /\ k \in Invalidated(D)[Released(D)[k].guard].scopes
  <2>1. Released(D)[k] = lock[k] /\ lock[k].guard \notin D
    BY <1>2, ReleasedScopes
  <2>2. /\ lock[k].guard \in Guard /\ guard[lock[k].guard].st \in Live
        /\ k \in guard[lock[k].guard].scopes
    BY <1>2, <2>1 DEF LocksMirrorGuards, Mirrors, Live
  <2>3. Invalidated(D)[lock[k].guard] = guard[lock[k].guard]
    BY <2>1, <2>2, InvalidatedColumns
  <2>4. QED
    BY <2>1, <2>2, <2>3
<1>3. QED
  BY <1>1, <1>2 DEF LocksMirrorGuards, Mirrors, Live

\* Only reservations expire: expire_relevant_reservations touches issued guards.
LEMMA ExpiredIsIssued ==
    ASSUME NEW ks, NEW t
    PROVE  ExpiredOn(ks, t) \in SUBSET Issued
  BY DEF ExpiredOn, Issued

\* So does expire_target_reservations, which calls it.
LEMMA ExpiredForIsIssued ==
    ASSUME NEW c, NEW t
    PROVE  ExpiredFor(c, t) \in SUBSET Issued
  BY DEF ExpiredFor, ExpiredOn, Issued

\* issue_guard writes the row and its reservations over keys that are free.
LEMMA IssueKeepsMirror ==
    ASSUME TypeOK, LocksMirrorGuards, NEW g \in Guard, NEW c, NEW w, NEW e,
           NEW ks \in SUBSET Scope, NEW b, NEW t, NEW ttl, NEW lease,
           IssueGuard(g, c, w, e, ks, b, t, ttl, lease)
    PROVE  LocksMirrorGuards'
<1> DEFINE dead == ExpiredOn(ks, t)
           expires == Earlier(t + ttl, claim[c].beat + lease)
           row == [st |-> "issued", commitment |-> c, epoch |-> e, boot |-> b,
                   scopes |-> ks, action |-> None, digest |-> None,
                   outcome |-> "none", expires |-> expires, issuer |-> w]
           reserved == [mode |-> "reserved", guard |-> g, commitment |-> c,
                        action |-> None, expires |-> expires]
<1>1. guard' = [Invalidated(dead) EXCEPT ![g] = row]
  BY DEF IssueGuard
<1>2. lock' = [k \in Scope |-> IF k \in ks THEN reserved ELSE Released(dead)[k]]
  BY DEF IssueGuard
<1>3. \A k \in ks : Released(dead)[k].mode = "free"
  BY DEF IssueGuard, AllFree
<1>4. dead \in SUBSET Issued
  BY ExpiredIsIssued
<1>5. Mirrors(Invalidated(dead), Released(dead))
  BY <1>4, DropKeepsMirror
<1>6. Invalidated(dead) \in [Guard -> GuardRow]
  BY InvalidatedType
<1>7. guard'[g] = row /\ \A h \in Guard \ {g} : guard'[h] = Invalidated(dead)[h]
  BY <1>1, <1>6
<1>8. /\ row.st = "issued" /\ row.scopes = ks /\ row.commitment = c /\ row.expires = expires
      /\ reserved.mode = "reserved" /\ reserved.guard = g
  OBVIOUS
<1> HIDE DEF dead, row
<1>9. ASSUME NEW h \in Guard \ {g}, guard'[h].st \in Live, NEW k \in guard'[h].scopes
      PROVE  k \in Scope \ ks
  <2>1. k \in Scope
    BY <1>6, <1>7, <1>9 DEF GuardRow
  <2>2. Released(dead)[k].mode # "free"
    <3>1. CASE guard'[h].st = "issued"
      <4>1. Released(dead)[k] = [mode |-> "reserved", guard |-> h,
                        commitment |-> Invalidated(dead)[h].commitment,
                        action |-> None, expires |-> Invalidated(dead)[h].expires]
        BY <1>5, <1>7, <1>9, <3>1 DEF Mirrors
      <4>2. QED
        BY <4>1
    <3>2. CASE guard'[h].st \in ActiveGuard
      <4>1. Released(dead)[k] = [mode |-> "held", guard |-> h,
                        commitment |-> Invalidated(dead)[h].commitment,
                        action |-> Invalidated(dead)[h].action, expires |-> 0]
        BY <1>5, <1>7, <1>9, <3>2 DEF Mirrors
      <4>2. QED
        BY <4>1
    <3>3. QED
      BY <1>9, <3>1, <3>2 DEF Live
  <2>3. QED
    BY <1>3, <2>1, <2>2
<1>10. ASSUME NEW h \in Guard, guard'[h].st = "issued", NEW k \in guard'[h].scopes
       PROVE  lock'[k] = [mode |-> "reserved", guard |-> h,
                          commitment |-> guard'[h].commitment,
                          action |-> None, expires |-> guard'[h].expires]
  <2>1. CASE h = g
    BY <1>2, <1>7, <1>8, <1>10, <2>1
  <2>2. CASE h # g
    <3>1. k \in Scope \ ks
      BY <1>9, <1>10, <2>2 DEF Live
    <3>2. QED
      BY <1>2, <1>5, <1>7, <1>10, <2>2, <3>1 DEF Mirrors
  <2>3. QED
    BY <2>1, <2>2
<1>11. ASSUME NEW h \in Guard, guard'[h].st \in ActiveGuard, NEW k \in guard'[h].scopes
       PROVE  lock'[k] = [mode |-> "held", guard |-> h,
                          commitment |-> guard'[h].commitment,
                          action |-> guard'[h].action, expires |-> 0]
  <2>1. h # g
    BY <1>7, <1>8, <1>11 DEF ActiveGuard
  <2>2. k \in Scope \ ks
    BY <1>9, <1>11, <2>1 DEF Live
  <2>3. QED
    BY <1>2, <1>5, <1>7, <1>11, <2>1, <2>2 DEF Mirrors
<1>12. ASSUME NEW k \in Scope, lock'[k].mode # "free"
       PROVE  /\ lock'[k].guard \in Guard
              /\ guard'[lock'[k].guard].st \in Live
              /\ k \in guard'[lock'[k].guard].scopes
  <2>1. CASE k \in ks
    BY <1>2, <1>7, <1>8, <2>1 DEF Live
  <2>2. CASE k \notin ks
    <3> DEFINE h == Released(dead)[k].guard
    <3>1. lock'[k] = Released(dead)[k]
      BY <1>2, <2>2
    <3>2. h \in Guard /\ Invalidated(dead)[h].st \in Live /\ k \in Invalidated(dead)[h].scopes
      BY <1>5, <1>12, <3>1 DEF Mirrors, Live
    <3>3. h # g
      <4>1. guard[g].st = "absent"
        BY DEF IssueGuard, GuardIdFree
      <4>2. QED
        BY <1>4, <3>2, <4>1, InvalidatedColumns DEF Live, ActiveGuard
    <3>4. QED
      BY <1>7, <3>1, <3>2, <3>3
  <2>3. QED
    BY <2>1, <2>2
<1>13. QED
  BY <1>10, <1>11, <1>12 DEF LocksMirrorGuards, Mirrors, Live

\* admit_guard turns exactly the reservations of the guard into held locks.
LEMMA AdmitKeepsMirror ==
    ASSUME TypeOK, LocksMirrorGuards, NEW g \in Guard, NEW a, NEW d, NEW t,
           AdmitGuard(g, a, d, t)
    PROVE  LocksMirrorGuards'
<1> DEFINE dead == ExpiredOn(guard[g].scopes, t)
           row == [guard[g] EXCEPT !.st = "admitted", !.action = a,
                                   !.digest = d, !.expires = 0]
           held(k) == [mode |-> "held", guard |-> g, commitment |-> lock[k].commitment,
                       action |-> a, expires |-> 0]
<1>1. guard' = [Invalidated(dead) EXCEPT ![g] = row]
  BY DEF AdmitGuard
<1>2. lock' = [k \in Scope |-> IF k \in ReservedBy({g}) THEN held(k)
                               ELSE Released(dead)[k]]
  BY DEF AdmitGuard
<1>3. guard[g].st = "issued" /\ g \notin dead
  BY DEF AdmitGuard
<1>4. dead \in SUBSET Issued
  BY ExpiredIsIssued
<1>5. Mirrors(Invalidated(dead), Released(dead))
  BY <1>4, DropKeepsMirror
<1>6. Invalidated(dead) \in [Guard -> GuardRow] /\ guard[g] \in GuardRow
  BY InvalidatedType DEF TypeOK
<1>7. guard'[g] = row /\ \A h \in Guard \ {g} : guard'[h] = Invalidated(dead)[h]
  BY <1>1, <1>6
<1>8. /\ row.st = "admitted" /\ row.scopes = guard[g].scopes
      /\ row.commitment = guard[g].commitment /\ row.action = a
  BY <1>6 DEF GuardRow
<1>9. \A k \in Scope : k \in ReservedBy({g}) <=> k \in guard[g].scopes
  BY <1>3, LiveScopeLocked DEF ReservedBy, LocksMirrorGuards, Mirrors
<1>10. ASSUME NEW k \in guard[g].scopes
       PROVE  held(k) = [mode |-> "held", guard |-> g,
                         commitment |-> guard[g].commitment,
                         action |-> a, expires |-> 0]
  <2>1. lock[k] = [mode |-> "reserved", guard |-> g, commitment |-> guard[g].commitment,
                   action |-> None, expires |-> guard[g].expires]
    BY <1>3, <1>10 DEF LocksMirrorGuards, Mirrors
  <2>2. lock[k].commitment = guard[g].commitment
    BY <2>1
  <2>3. QED
    BY <2>2
<1>11. guard[g].scopes \in SUBSET Scope
  BY <1>6 DEF GuardRow
<1> HIDE DEF dead, row, held
<1>12. ASSUME NEW h \in Guard \ {g}, guard'[h].st \in Live, NEW k \in guard'[h].scopes
       PROVE  k \in Scope /\ lock'[k] = Released(dead)[k]
  <2>1. k \in Scope
    BY <1>6, <1>7, <1>12 DEF GuardRow
  <2>2. guard[h].st \in Live /\ guard'[h] = guard[h]
    BY <1>4, <1>7, <1>12, InvalidatedColumns
  <2>3. k \notin guard[g].scopes
    BY <1>3, <1>12, <2>2, LiveScopesDisjoint DEF Live
  <2>4. QED
    BY <1>2, <1>9, <2>1, <2>3
<1>13. ASSUME NEW h \in Guard, guard'[h].st = "issued", NEW k \in guard'[h].scopes
       PROVE  lock'[k] = [mode |-> "reserved", guard |-> h,
                          commitment |-> guard'[h].commitment,
                          action |-> None, expires |-> guard'[h].expires]
  <2>1. h # g
    BY <1>7, <1>8, <1>13
  <2>2. QED
    BY <1>5, <1>7, <1>12, <1>13, <2>1 DEF Mirrors, Live
<1>14. ASSUME NEW h \in Guard, guard'[h].st \in ActiveGuard, NEW k \in guard'[h].scopes
       PROVE  lock'[k] = [mode |-> "held", guard |-> h,
                          commitment |-> guard'[h].commitment,
                          action |-> guard'[h].action, expires |-> 0]
  <2>1. CASE h = g
    BY <1>2, <1>7, <1>8, <1>9, <1>10, <1>11, <1>14, <2>1
  <2>2. CASE h # g
    BY <1>5, <1>7, <1>12, <1>14, <2>2 DEF Mirrors, Live
  <2>3. QED
    BY <2>1, <2>2
<1>15. ASSUME NEW k \in Scope, lock'[k].mode # "free"
       PROVE  /\ lock'[k].guard \in Guard
              /\ guard'[lock'[k].guard].st \in Live
              /\ k \in guard'[lock'[k].guard].scopes
  <2>1. CASE k \in guard[g].scopes
    <3>1. lock'[k].guard = g
      BY <1>2, <1>9, <1>10, <2>1
    <3>2. guard'[g].st \in Live /\ guard'[g].scopes = guard[g].scopes
      BY <1>7, <1>8 DEF Live, ActiveGuard
    <3>3. QED
      BY <2>1, <3>1, <3>2
  <2>2. CASE k \notin guard[g].scopes
    <3> DEFINE h == Released(dead)[k].guard
    <3>1. lock'[k] = Released(dead)[k]
      BY <1>2, <1>9, <2>2
    <3>2. h \in Guard /\ Invalidated(dead)[h].st \in Live /\ k \in Invalidated(dead)[h].scopes
      BY <1>5, <1>15, <3>1 DEF Mirrors, Live
    <3>3. Invalidated(dead)[h] = guard[h]
      BY <1>4, <3>2, InvalidatedColumns
    <3>4. h # g
      BY <2>2, <3>2, <3>3
    <3>5. QED
      BY <1>7, <3>1, <3>2, <3>4
  <2>3. QED
    BY <2>1, <2>2
<1>16. QED
  BY <1>13, <1>14, <1>15 DEF LocksMirrorGuards, Mirrors, Live

\* A safe outcome deletes the held locks of its guard and no others.
LEMMA SafeOutcomeKeepsMirror ==
    ASSUME TypeOK, LocksMirrorGuards, NEW g \in Guard, NEW a, NEW outcome, NEW d,
           RecordSafeOutcome(g, a, outcome, d)
    PROVE  LocksMirrorGuards'
<1>1. /\ \A h \in Guard \ {g} : guard'[h] = guard[h]
      /\ guard'[g].st = "resolved"
  BY DEF RecordSafeOutcome, TypeOK, GuardRow
<1>2. \A k \in Scope : lock'[k] = IF lock[k].mode = "held" /\ lock[k].guard = g
                                  THEN FreeLock ELSE lock[k]
  BY DEF RecordSafeOutcome
<1>3. FreeLock.mode = "free" /\ guard[g].st = "admitted"
  BY DEF FreeLock, RecordSafeOutcome
<1>4. ASSUME NEW h \in Guard, guard'[h].st \in Live, NEW k \in guard'[h].scopes
      PROVE  guard'[h] = guard[h] /\ lock'[k] = lock[k]
  <2>1. h # g /\ guard'[h] = guard[h]
    BY <1>1, <1>4 DEF Live, ActiveGuard
  <2>2. k \in Scope /\ lock[k].guard = h
    BY <1>4, <2>1, LiveScopeLocked DEF Live, TypeOK, GuardRow
  <2>3. QED
    BY <1>2, <2>1, <2>2
<1>5. ASSUME NEW k \in Scope, lock'[k].mode # "free"
      PROVE  /\ lock'[k].guard \in Guard
             /\ guard'[lock'[k].guard].st \in Live
             /\ k \in guard'[lock'[k].guard].scopes
  <2>1. lock'[k] = lock[k] /\ ~(lock[k].mode = "held" /\ lock[k].guard = g)
    BY <1>2, <1>3, <1>5
  <2>2. /\ lock[k].guard \in Guard /\ guard[lock[k].guard].st \in Live
        /\ k \in guard[lock[k].guard].scopes
    BY <1>5, <2>1 DEF LocksMirrorGuards, Mirrors, Live
  <2>3. lock[k].guard # g
    BY <1>3, <2>1, <2>2, LiveScopeLocked DEF ActiveGuard
  <2>4. QED
    BY <1>1, <2>1, <2>2, <2>3
<1>6. QED
  BY <1>4, <1>5 DEF LocksMirrorGuards, Mirrors, Live

\* An uncertain outcome leaves the locks of its guard as they are.
LEMMA UncertainOutcomeKeepsMirror ==
    ASSUME TypeOK, LocksMirrorGuards, NEW g \in Guard, NEW a, NEW d,
           RecordUncertainOutcome(g, a, d)
    PROVE  LocksMirrorGuards'
<1>1. /\ \A h \in Guard \ {g} : guard'[h] = guard[h]
      /\ guard[g].st = "admitted" /\ guard'[g].st = "uncertain"
      /\ guard'[g].scopes = guard[g].scopes
      /\ guard'[g].commitment = guard[g].commitment
      /\ guard'[g].action = guard[g].action
      /\ lock' = lock
  BY DEF RecordUncertainOutcome, TypeOK, GuardRow
<1>2. QED
  BY <1>1 DEF LocksMirrorGuards, Mirrors, ActiveGuard

\* startup_recovery rebuilds from the active guards what the table held.
LEMMA OpenKeepsMirror ==
    ASSUME TypeOK, LocksMirrorGuards, Open
    PROVE  LocksMirrorGuards'
<1> DEFINE owner(k) == {g \in Guard : guard[g].st \in ActiveGuard /\ k \in guard[g].scopes}
           held(g) == [mode |-> "held", guard |-> g, commitment |-> guard[g].commitment,
                       action |-> guard[g].action, expires |-> 0]
<1>1. guard' = Invalidated(Issued)
  BY DEF Open, Issued
<1>2. lock' = [k \in Scope |-> IF owner(k) = {} THEN FreeLock
                               ELSE held(CHOOSE g \in owner(k) : TRUE)]
  BY DEF Open, RebuiltLocks
<1>3. ASSUME NEW g \in Guard
      PROVE  /\ guard'[g].st # "issued"
             /\ guard'[g].st \in ActiveGuard <=> guard[g].st \in ActiveGuard
             /\ guard[g].st \in ActiveGuard => guard'[g] = guard[g]
  <2>1. Issued \in SUBSET Issued
    OBVIOUS
  <2>2. g \notin Issued => guard'[g] = guard[g] /\ guard[g].st # "issued"
    BY <1>1, <2>1, InvalidatedColumns DEF Issued
  <2>3. g \in Issued => guard'[g].st = "invalidated" /\ guard[g].st = "issued"
    BY <1>1, <2>1, InvalidatedColumns DEF Issued
  <2>4. QED
    BY <2>2, <2>3 DEF ActiveGuard
<1>4. ASSUME NEW g \in Guard, guard[g].st \in ActiveGuard, NEW k \in guard[g].scopes
      PROVE  k \in Scope /\ lock'[k] = held(g)
  <2>1. k \in Scope
    BY DEF TypeOK, GuardRow
  <2>2. \A h \in owner(k) : h = g
    BY <1>4, LiveScopesDisjoint DEF Live
  <2>3. g \in owner(k)
    BY <1>4
  <2> HIDE DEF owner
  <2>4. (CHOOSE h \in owner(k) : TRUE) = g
    BY <2>2, <2>3
  <2>5. QED
    BY <1>2, <2>1, <2>3, <2>4
<1>5. ASSUME NEW k \in Scope, lock'[k].mode # "free"
      PROVE  /\ lock'[k].guard \in Guard
             /\ guard'[lock'[k].guard].st \in ActiveGuard
             /\ k \in guard'[lock'[k].guard].scopes
  <2>1. owner(k) # {}
    BY <1>2, <1>5 DEF FreeLock
  <2>2. PICK g \in Guard : guard[g].st \in ActiveGuard /\ k \in guard[g].scopes
    BY <2>1
  <2>3. lock'[k] = held(g) /\ held(g).guard = g
    BY <1>4, <2>2
  <2>4. QED
    BY <1>3, <2>2, <2>3
<1>6. QED
  BY <1>3, <1>4, <1>5 DEF LocksMirrorGuards, Mirrors

-----------------------------------------------------------------------------
(* Steps that admit nothing and record no outcome *)

\* Guards stay as they are, are dropped while they are only issued, or are
\* issued for the current claim.
GuardsStayOrDrop ==
    \A g \in Guard :
        /\ guard[g].st \notin {"absent", "issued"} => guard'[g] = guard[g]
        /\ guard'[g].st \in Live =>
              \/ guard'[g] = guard[g]
              \/ /\ guard'[g].st = "issued"
                 /\ guard'[g].commitment \in Commitment
                 /\ guard'[g].epoch = epoch'[guard'[g].commitment]
                 /\ guard'[g].issuer = claim'[guard'[g].commitment].worker

\* A commitment with an action in flight keeps its row, or loses its claim and
\* waits for recovery.
ActionsLeftAlone ==
    \A c \in Commitment :
        /\ action'[c] = action[c]
        /\ epoch[c] <= epoch'[c]
        /\ action[c] # None =>
              /\ epoch'[c] = epoch[c]
              /\ \/ /\ state'[c] = state[c] /\ reason'[c] = reason[c]
                    /\ claim'[c].worker = claim[c].worker
                 \/ HasClaim(c) /\ state'[c] = "RecoveryPending"

\* A claim is the one that was there, or a new one above the high-water mark.
ClaimsInherited ==
    \A c \in Commitment : claim'[c].worker # None =>
        \/ /\ claim'[c].worker = claim[c].worker
           /\ claim'[c].epoch = claim[c].epoch
        \/ action[c] = None /\ claim'[c].epoch > epoch[c]

QuietChange == GuardsStayOrDrop /\ ActionsLeftAlone /\ ClaimsInherited

\* An active guard is the guard of a commitment whose action is outstanding.
LEMMA ActiveHasAction ==
    ASSUME FenceInvariant, NEW g \in Guard, guard[g].st \in ActiveGuard
    PROVE  /\ guard[g].commitment \in Commitment
           /\ action[guard[g].commitment] = guard[g].action
           /\ guard[g].action # None
<1>1. guard[g].commitment \in Commitment /\ guard[g].action \in Action
  BY DEF FenceInvariant, GuardRowsWellFormed
<1>2. action[guard[g].commitment] = guard[g].action
  BY DEF FenceInvariant, CrashIsRecoverable, Recoverable, ActiveGuardsConsistent
<1>3. QED
  BY <1>1, <1>2, IdentifiersAssumption

\* A step that adds no live guard, moves no action and gives no claim away keeps
\* what relates guards, actions and claims.
LEMMA QuietStep ==
    ASSUME FenceInvariant, TypeOK', GuardsStayOrDrop, ActionsLeftAlone, ClaimsInherited
    PROVE  /\ GuardRowsWellFormed'
           /\ ActiveGuardsConsistent'
           /\ NoOrphanAction'
           /\ NoReassignmentUnderAction'
<1>1. /\ TypeOK /\ GuardRowsWellFormed /\ ClaimsConsistent /\ ActiveGuardsConsistent
      /\ NoOrphanAction /\ NoReassignmentUnderAction
  BY DEF FenceInvariant, CrashIsRecoverable, Recoverable
<1>2. \A g \in Guard : guard'[g].st \in ActiveGuard =>
          guard'[g] = guard[g] /\ guard[g].st \in ActiveGuard
  BY DEF GuardsStayOrDrop, Live, ActiveGuard
<1>3. \A g \in Guard : guard[g].st \in ActiveGuard => guard'[g] = guard[g]
  BY DEF GuardsStayOrDrop, ActiveGuard
<1>4. \A c \in Commitment : /\ epoch[c] \in Int /\ epoch'[c] \in Int
                           /\ epoch'[c] >= epoch[c] /\ action'[c] = action[c]
  BY <1>1, BoundsAssumption DEF ActionsLeftAlone, TypeOK
<1>5. GuardRowsWellFormed'
  <2>1. SUFFICES ASSUME NEW g \in Guard, guard'[g].st \in Live
                 PROVE  /\ guard'[g].commitment \in Commitment
                        /\ guard'[g].epoch <= epoch'[guard'[g].commitment]
                        /\ guard'[g].st \in ActiveGuard => guard'[g].action \in Action
    BY DEF GuardRowsWellFormed, Live
  <2>2. CASE guard'[g] = guard[g]
    <3>1. /\ guard[g].commitment \in Commitment
          /\ guard[g].epoch <= epoch[guard[g].commitment]
          /\ guard[g].st \in ActiveGuard => guard[g].action \in Action
      BY <1>1, <2>1, <2>2 DEF GuardRowsWellFormed, Live
    <3>2. guard[g].epoch \in Int /\ epoch'[guard[g].commitment] \in Int
      <4>1. guard[g].epoch \in Nat
        BY <1>1 DEF TypeOK, GuardRow
      <4>2. QED
        BY <1>4, <3>1, <4>1
    <3>3. QED
      BY <1>4, <2>2, <3>1, <3>2
  <2>3. CASE guard'[g] # guard[g]
    <3>1. /\ guard'[g].st = "issued" /\ guard'[g].commitment \in Commitment
          /\ guard'[g].epoch = epoch'[guard'[g].commitment]
      BY <2>1, <2>3 DEF GuardsStayOrDrop
    <3>2. QED
      BY <1>4, <3>1 DEF ActiveGuard
  <2>4. QED
    BY <2>2, <2>3
<1>6. ActiveGuardsConsistent'
  <2>1. SUFFICES ASSUME NEW g \in Guard, guard'[g].st \in ActiveGuard,
                        NEW c, c = guard'[g].commitment
                 PROVE  /\ epoch'[c] = guard'[g].epoch
                        /\ action'[c] = guard'[g].action
                        /\ IF guard'[g].st = "admitted"
                           THEN HasClaim(c)' \/ state'[c] = "RecoveryPending"
                           ELSE state'[c] = "Uncertain" /\ reason'[c] = guard'[g].action
                        /\ \A h \in Guard \ {g} : guard'[h].st \in ActiveGuard =>
                              /\ guard'[h].commitment # c
                              /\ guard'[h].scopes \cap guard'[g].scopes = {}
    BY DEF ActiveGuardsConsistent, HasClaim
  <2>2. guard'[g] = guard[g] /\ guard[g].st \in ActiveGuard
    BY <1>2, <2>1
  <2>3. c \in Commitment /\ action[c] = guard[g].action /\ action[c] # None
    BY <2>1, <2>2, ActiveHasAction
  <2>4. /\ epoch[c] = guard[g].epoch
        /\ IF guard[g].st = "admitted" THEN HasClaim(c) \/ state[c] = "RecoveryPending"
           ELSE state[c] = "Uncertain" /\ reason[c] = guard[g].action
        /\ \A h \in Guard \ {g} : guard[h].st \in ActiveGuard =>
              guard[h].commitment # c /\ guard[h].scopes \cap guard[g].scopes = {}
    BY <1>1, <2>1, <2>2 DEF ActiveGuardsConsistent
  <2>5. HasClaim(c) => state[c] \in ClaimBearing
    BY <1>1, <2>3 DEF ClaimsConsistent, ClaimConsistent
  <2>6. epoch'[c] = epoch[c] /\ action'[c] = action[c]
    BY <2>3 DEF ActionsLeftAlone
  <2>7. IF guard'[g].st = "admitted" THEN HasClaim(c)' \/ state'[c] = "RecoveryPending"
        ELSE state'[c] = "Uncertain" /\ reason'[c] = guard'[g].action
    BY <2>2, <2>3, <2>4, <2>5 DEF ActionsLeftAlone, HasClaim, ClaimBearing
  <2>8. QED
    BY <1>2, <2>2, <2>3, <2>4, <2>6, <2>7
<1>7. NoOrphanAction'
  BY <1>1, <1>3, <1>4 DEF NoOrphanAction
<1>8. NoReassignmentUnderAction'
  <2>1. SUFFICES ASSUME NEW g \in Guard, NEW c, c = guard'[g].commitment, HasClaim(c)'
                 PROVE  /\ guard'[g].st = "admitted" => claim'[c].worker = guard'[g].issuer
                        /\ guard'[g].st = "issued" =>
                              \/ guard'[g].epoch < claim'[c].epoch
                              \/ claim'[c].worker = guard'[g].issuer
    BY DEF NoReassignmentUnderAction, HasClaim
  <2>2. CASE guard'[g].st = "admitted"
    <3>1. guard'[g] = guard[g] /\ guard[g].st = "admitted"
      BY <1>2, <2>2 DEF ActiveGuard
    <3>2. c \in Commitment /\ action[c] # None
      BY <2>1, <3>1, ActiveHasAction DEF ActiveGuard
    <3>3. claim'[c].worker = claim[c].worker /\ HasClaim(c)
      BY <2>1, <3>2 DEF ClaimsInherited, HasClaim
    <3>4. claim[c].worker = guard[g].issuer
      BY <1>1, <2>1, <3>1, <3>3 DEF NoReassignmentUnderAction
    <3>5. QED
      BY <2>2, <3>1, <3>3, <3>4
  <2>3. CASE guard'[g].st = "issued" /\ guard'[g] = guard[g]
    <3>1. c \in Commitment /\ guard[g].epoch <= epoch[c]
      BY <1>1, <2>1, <2>3 DEF GuardRowsWellFormed
    <3>2. CASE claim'[c].worker = claim[c].worker /\ claim'[c].epoch = claim[c].epoch
      <4>1. HasClaim(c)
        BY <2>1, <3>2 DEF HasClaim
      <4>2. QED
        BY <1>1, <2>1, <2>3, <3>2, <4>1 DEF NoReassignmentUnderAction
    <3>3. CASE claim'[c].epoch > epoch[c]
      <4>1. guard[g].epoch \in Nat /\ claim'[c].epoch \in Nat
        BY <1>1, <3>1 DEF TypeOK, GuardRow, ClaimRow
      <4>2. guard'[g].epoch < claim'[c].epoch
        BY <1>4, <2>3, <3>1, <3>3, <4>1
      <4>3. QED
        BY <2>3, <4>2
    <3>4. QED
      BY <2>1, <3>1, <3>2, <3>3 DEF ClaimsInherited, HasClaim
  <2>4. CASE guard'[g].st = "issued" /\ guard'[g] # guard[g]
    BY <2>1, <2>4 DEF GuardsStayOrDrop, Live
  <2>5. QED
    BY <2>2, <2>3, <2>4
<1>9. QED
  BY <1>5, <1>6, <1>7, <1>8

\* The obligations that are left for a step of this kind.
LEMMA QuietStepKeepsFence ==
    ASSUME FenceInvariant, TypeOK', LocksMirrorGuards', ClaimsConsistent',
           GuardsStayOrDrop, ActionsLeftAlone, ClaimsInherited
    PROVE  FenceInvariant' /\ QuietChange
  BY QuietStep DEF FenceInvariant, CrashIsRecoverable, Recoverable, QuietChange

\* An operation that writes neither guards nor locks is quiet on both.
LEMMA UnchangedFence ==
    ASSUME LocksMirrorGuards, UNCHANGED fenceVars
    PROVE  LocksMirrorGuards' /\ GuardsStayOrDrop
  BY DEF LocksMirrorGuards, Mirrors, GuardsStayOrDrop, fenceVars, Live

\* An operation that only invalidates issued guards is quiet on both.
LEMMA DroppedFence ==
    ASSUME TypeOK, LocksMirrorGuards, NEW D \in SUBSET Issued,
           guard' = Invalidated(D), lock' = Released(D)
    PROVE  LocksMirrorGuards' /\ GuardsStayOrDrop
<1>1. Mirrors(guard', lock')
  BY DropKeepsMirror
<1>2. GuardsStayOrDrop
  BY InvalidatedColumns DEF GuardsStayOrDrop
<1>3. QED
  BY <1>1, <1>2 DEF LocksMirrorGuards, Mirrors

\* An identifier without a row has neither a claim nor an action.
LEMMA AbsentIsBare ==
    ASSUME FenceInvariant, NEW c \in Commitment, ~Exists(c)
    PROVE  ~HasClaim(c) /\ action[c] = None
  BY DEF FenceInvariant, CrashIsRecoverable, Recoverable, ClaimsConsistent,
         ClaimConsistent, Exists, ClaimBearing

\* insert_commitment: a new row bears no claim and no action.
LEMMA InsertCommitmentFence ==
    ASSUME FenceInvariant, TypeOK', NEW c \in Commitment, NEW gl, NEW p, NEW deps,
           InsertCommitment(c, gl, p, deps)
    PROVE  FenceInvariant' /\ QuietChange
<1>1. TypeOK /\ LocksMirrorGuards /\ ClaimsConsistent
  BY DEF FenceInvariant, CrashIsRecoverable, Recoverable
<1>2. ~HasClaim(c) /\ action[c] = None
  BY AbsentIsBare DEF InsertCommitment
<1>3. /\ state' = [state EXCEPT ![c] = "Proposed"]
      /\ UNCHANGED <<reason, epoch, action, claim, boot>> /\ UNCHANGED fenceVars
  BY DEF InsertCommitment
<1>4. ClaimsConsistent'
  BY <1>1, <1>2, <1>3 DEF ClaimsConsistent, ClaimConsistent, HasClaim, ClaimBearing, TypeOK
<1>5. ActionsLeftAlone
  BY <1>1, <1>2, <1>3, BoundsAssumption DEF ActionsLeftAlone, TypeOK
<1>6. ClaimsInherited
  BY <1>3 DEF ClaimsInherited
<1>7. QED
  BY <1>1, <1>3, <1>4, <1>5, <1>6, UnchangedFence, QuietStepKeepsFence

\* A claim is taken only where no action is outstanding, at a fresh epoch.
LEMMA PersistClaimFence ==
    ASSUME FenceInvariant, TypeOK', NEW c \in Commitment, NEW w \in Worker, NEW t,
           PersistClaim(c, w, t)
    PROVE  FenceInvariant' /\ QuietChange
<1>1. TypeOK /\ LocksMirrorGuards /\ ClaimsConsistent
  BY DEF FenceInvariant, CrashIsRecoverable, Recoverable
<1>2. action[c] = None /\ w # None
  BY IdentifiersAssumption DEF PersistClaim, Persistable
<1>3. /\ state' = [state EXCEPT ![c] = "Claimed"]
      /\ epoch' = [epoch EXCEPT ![c] = epoch[c] + 1]
      /\ claim' = [claim EXCEPT ![c] = [worker |-> w, epoch |-> epoch[c] + 1,
                                        beat |-> t, boot |-> boot]]
      /\ UNCHANGED <<reason, action, boot>> /\ UNCHANGED fenceVars
  BY DEF PersistClaim
<1>4. /\ claim'[c].worker = w /\ claim'[c].epoch = epoch[c] + 1 /\ claim'[c].boot = boot
      /\ \A d \in Commitment \ {c} : claim'[d] = claim[d] /\ state'[d] = state[d]
      /\ \A d \in Commitment \ {c} : epoch'[d] = epoch[d]
      /\ state'[c] = "Claimed" /\ epoch'[c] = epoch[c] + 1
  BY <1>1, <1>3 DEF TypeOK
<1>5. \A d \in Commitment : epoch[d] \in Nat
  BY <1>1, BoundsAssumption DEF TypeOK
<1>6. ClaimsConsistent'
  BY <1>1, <1>2, <1>3, <1>4 DEF ClaimsConsistent, ClaimConsistent, HasClaim, ClaimBearing
<1>7. ActionsLeftAlone
  BY <1>2, <1>3, <1>4, <1>5 DEF ActionsLeftAlone
<1>8. ClaimsInherited
  BY <1>2, <1>4, <1>5 DEF ClaimsInherited
<1>9. QED
  BY <1>1, <1>3, <1>6, <1>7, <1>8, UnchangedFence, QuietStepKeepsFence

\* record_heartbeat moves nothing but the time of the last heartbeat.
LEMMA RecordHeartbeatFence ==
    ASSUME FenceInvariant, TypeOK', NEW c \in Commitment, NEW w, NEW e, NEW t, NEW lease,
           RecordHeartbeat(c, w, e, t, lease)
    PROVE  FenceInvariant' /\ QuietChange
<1>1. TypeOK /\ LocksMirrorGuards /\ ClaimsConsistent
  BY DEF FenceInvariant, CrashIsRecoverable, Recoverable
<1>2. \A d \in Commitment : /\ claim'[d].worker = claim[d].worker
                            /\ claim'[d].epoch = claim[d].epoch
                            /\ claim'[d].boot = claim[d].boot
  BY <1>1 DEF RecordHeartbeat, TypeOK, ClaimRow
<1>3. UNCHANGED <<state, reason, epoch, action, boot>> /\ UNCHANGED fenceVars
  BY DEF RecordHeartbeat
<1>4. ClaimsConsistent'
  BY <1>1, <1>2, <1>3 DEF ClaimsConsistent, ClaimConsistent, HasClaim
<1>5. ActionsLeftAlone
  BY <1>1, <1>2, <1>3, BoundsAssumption DEF ActionsLeftAlone, TypeOK
<1>6. ClaimsInherited
  BY <1>2 DEF ClaimsInherited
<1>7. QED
  BY <1>1, <1>3, <1>4, <1>5, <1>6, UnchangedFence, QuietStepKeepsFence

\* A step that writes no row of the fence, such as a failed call.
LEMMA StutterFence ==
    ASSUME FenceInvariant, TypeOK', UNCHANGED <<commitmentVars, fenceVars, boot>>
    PROVE  FenceInvariant' /\ QuietChange
<1>1. TypeOK /\ LocksMirrorGuards /\ ClaimsConsistent
  BY DEF FenceInvariant, CrashIsRecoverable, Recoverable
<1>2. UNCHANGED <<state, reason, epoch, action, claim, boot>> /\ UNCHANGED fenceVars
  BY DEF commitmentVars
<1>3. ClaimsConsistent'
  BY <1>1, <1>2 DEF ClaimsConsistent, ClaimConsistent, HasClaim
<1>4. ActionsLeftAlone /\ ClaimsInherited
  BY <1>1, <1>2, BoundsAssumption DEF ActionsLeftAlone, ClaimsInherited, TypeOK
<1>5. QED
  BY <1>1, <1>2, <1>3, <1>4, UnchangedFence, QuietStepKeepsFence

\* Whatever a step completes through a barrier had no action in flight.
LEMMA CascadeIsBare ==
    ASSUME NEW c, CascadeSucceeds(c), NEW p \in Cascade(c)
    PROVE  p \in Commitment /\ action[p] = None
  BY DEF CascadeSucceeds, Cascade, ParentFate

\* The snapshot write, with the cascade it may trigger.
LEMMA PersistChangeFence ==
    ASSUME FenceInvariant, TypeOK', NEW c \in Commitment, NEW s \in RowStates, NEW r,
           PersistChange(c, s, r)
    PROVE  FenceInvariant' /\ QuietChange
<1> DEFINE done == IF s = "Completed" THEN Cascade(c) ELSE {}
<1>1. TypeOK /\ LocksMirrorGuards /\ ClaimsConsistent
  BY DEF FenceInvariant, CrashIsRecoverable, Recoverable
<1>2. action[c] = None /\ \A d \in done : action[d] = None
  BY CascadeIsBare DEF PersistChange, Persistable
<1>3. s \in ClaimBearing => HasClaim(c) /\ claim[c].epoch = epoch[c]
  BY DEF PersistChange
<1>4. /\ state' = [d \in Commitment |-> IF d \in done THEN "Completed"
                                        ELSE IF d = c THEN s ELSE state[d]]
      /\ reason' = [d \in Commitment |-> IF d \in done THEN None
                                         ELSE IF d = c THEN r ELSE reason[d]]
      /\ claim' = [d \in Commitment |->
                     IF d \in done \/ (d = c /\ s \notin ClaimBearing) THEN NoClaim
                     ELSE IF d = c THEN [claim[c] EXCEPT !.boot = boot] ELSE claim[d]]
      /\ UNCHANGED <<epoch, action, boot>> /\ UNCHANGED fenceVars
  BY DEF PersistChange
<1>5. /\ [claim[c] EXCEPT !.boot = boot].worker = claim[c].worker
      /\ [claim[c] EXCEPT !.boot = boot].epoch = claim[c].epoch
      /\ [claim[c] EXCEPT !.boot = boot].boot = boot
      /\ NoClaim.worker = None
  BY <1>1 DEF TypeOK, ClaimRow, NoClaim
<1> HIDE DEF done
<1>6. ClaimsConsistent'
  <2>1. SUFFICES ASSUME NEW d \in Commitment PROVE ClaimConsistent(d)'
    BY DEF ClaimsConsistent
  <2>2. ClaimConsistent(d)
    BY <1>1 DEF ClaimsConsistent
  <2>3. CASE d \in done
    BY <1>2, <1>4, <1>5, <2>3 DEF ClaimConsistent, HasClaim, ClaimBearing
  <2>4. CASE d \notin done /\ d = c
    <3>1. CASE s \in ClaimBearing
      BY <1>2, <1>3, <1>4, <1>5, <2>4, <3>1 DEF ClaimConsistent, HasClaim
    <3>2. CASE s \notin ClaimBearing
      BY <1>2, <1>4, <1>5, <2>4, <3>2 DEF ClaimConsistent, HasClaim
    <3>3. QED
      BY <3>1, <3>2
  <2>5. CASE d \notin done /\ d # c
    BY <1>4, <2>2, <2>5 DEF ClaimConsistent, HasClaim
  <2>6. QED
    BY <2>3, <2>4, <2>5
<1>7. ActionsLeftAlone
  BY <1>1, <1>2, <1>4, BoundsAssumption DEF ActionsLeftAlone, TypeOK
<1>8. ClaimsInherited
  BY <1>4, <1>5 DEF ClaimsInherited
<1>9. QED
  BY <1>1, <1>4, <1>6, <1>7, <1>8, UnchangedFence, QuietStepKeepsFence

\* recover_without_action, with the cascade it may trigger.
LEMMA RecoverWithoutActionFence ==
    ASSUME FenceInvariant, TypeOK', NEW c \in Commitment, RecoverWithoutAction(c)
    PROVE  FenceInvariant' /\ QuietChange
<1> DEFINE done == IF replacement[c] # None THEN Cascade(replacement[c]) ELSE {}
<1>1. TypeOK /\ LocksMirrorGuards /\ ClaimsConsistent
  BY DEF FenceInvariant, CrashIsRecoverable, Recoverable
<1>2. action[c] = None /\ ~HasClaim(c) /\ \A d \in done : action[d] = None
  BY CascadeIsBare DEF RecoverWithoutAction
<1>3. /\ state' = [d \in Commitment |-> IF d \in done THEN "Completed"
                                        ELSE IF d = c THEN "Ready" ELSE state[d]]
      /\ reason' = [d \in Commitment |-> IF d \in done THEN None ELSE reason[d]]
      /\ claim' = [d \in Commitment |-> IF d \in done THEN NoClaim ELSE claim[d]]
      /\ UNCHANGED <<epoch, action, boot>> /\ UNCHANGED fenceVars
  BY DEF RecoverWithoutAction
<1>4. NoClaim.worker = None
  BY DEF NoClaim
<1> HIDE DEF done
<1>5. ClaimsConsistent'
  <2>1. SUFFICES ASSUME NEW d \in Commitment PROVE ClaimConsistent(d)'
    BY DEF ClaimsConsistent
  <2>2. ClaimConsistent(d)
    BY <1>1 DEF ClaimsConsistent
  <2>3. QED
    BY <1>2, <1>3, <1>4, <2>2 DEF ClaimConsistent, HasClaim, ClaimBearing
<1>6. ActionsLeftAlone
  BY <1>1, <1>2, <1>3, BoundsAssumption DEF ActionsLeftAlone, TypeOK
<1>7. ClaimsInherited
  BY <1>3, <1>4 DEF ClaimsInherited
<1>8. QED
  BY <1>1, <1>3, <1>5, <1>6, <1>7, UnchangedFence, QuietStepKeepsFence

\* The lease sweep takes claims and reservations and leaves actions alone.
LEMMA ProcessExpiredClaimsFence ==
    ASSUME FenceInvariant, TypeOK', NEW t, NEW lease, ProcessExpiredClaims(t, lease)
    PROVE  FenceInvariant' /\ QuietChange
<1> DEFINE expired == {c \in Commitment : HasClaim(c) /\ ~LeaseLive(c, lease, t)}
<1>1. TypeOK /\ LocksMirrorGuards /\ ClaimsConsistent
  BY DEF FenceInvariant, CrashIsRecoverable, Recoverable
<1>2. ReservationsUnder(expired) \in SUBSET Issued
  BY DEF ReservationsUnder, Issued
<1>3. /\ state' = [c \in Commitment |->
                     IF c \in expired THEN "RecoveryPending" ELSE state[c]]
      /\ reason' = [c \in Commitment |-> IF c \in expired THEN None ELSE reason[c]]
      /\ claim' = [c \in Commitment |-> IF c \in expired THEN NoClaim ELSE claim[c]]
      /\ guard' = Invalidated(ReservationsUnder(expired))
      /\ lock' = Released(ReservationsUnder(expired))
      /\ UNCHANGED <<epoch, action, boot>>
  BY DEF ProcessExpiredClaims
<1>4. NoClaim.worker = None /\ \A c \in expired : HasClaim(c)
  BY DEF NoClaim
<1> HIDE DEF expired
<1>5. ClaimsConsistent'
  <2>1. SUFFICES ASSUME NEW d \in Commitment PROVE ClaimConsistent(d)'
    BY DEF ClaimsConsistent
  <2>2. ClaimConsistent(d)
    BY <1>1 DEF ClaimsConsistent
  <2>3. QED
    BY <1>3, <1>4, <2>2 DEF ClaimConsistent, HasClaim, ClaimBearing
<1>6. ActionsLeftAlone
  BY <1>1, <1>3, <1>4, BoundsAssumption DEF ActionsLeftAlone, TypeOK
<1>7. ClaimsInherited
  BY <1>3, <1>4 DEF ClaimsInherited
<1>8. LocksMirrorGuards' /\ GuardsStayOrDrop
  BY <1>1, <1>2, <1>3, DroppedFence
<1>9. QED
  BY <1>5, <1>6, <1>7, <1>8, QuietStepKeepsFence

\* invalidate_guard withdraws a reservation with its locks.
LEMMA InvalidateGuardFence ==
    ASSUME FenceInvariant, TypeOK', NEW g \in Guard, NEW w, NEW e, NEW t, NEW lease,
           InvalidateGuard(g, w, e, t, lease)
    PROVE  FenceInvariant' /\ QuietChange
<1> DEFINE dropped == ExpiredOn(guard[g].scopes, t) \cup {g}
<1>1. TypeOK /\ LocksMirrorGuards /\ ClaimsConsistent
  BY DEF FenceInvariant, CrashIsRecoverable, Recoverable
<1>2. dropped \in SUBSET Issued
  BY ExpiredIsIssued DEF InvalidateGuard, Issued
<1>3. /\ guard' = Invalidated(dropped) /\ lock' = Released(dropped)
      /\ UNCHANGED <<state, reason, epoch, action, claim, boot>>
  BY DEF InvalidateGuard, commitmentVars
<1> HIDE DEF dropped
<1>4. ClaimsConsistent'
  BY <1>1, <1>3 DEF ClaimsConsistent, ClaimConsistent, HasClaim
<1>5. ActionsLeftAlone /\ ClaimsInherited
  BY <1>1, <1>3, BoundsAssumption DEF ActionsLeftAlone, ClaimsInherited, TypeOK
<1>6. LocksMirrorGuards' /\ GuardsStayOrDrop
  BY <1>1, <1>2, <1>3, DroppedFence
<1>7. QED
  BY <1>4, <1>5, <1>6, QuietStepKeepsFence

\* issue_guard adds a reservation for the current claimant.
LEMMA IssueGuardFence ==
    ASSUME FenceInvariant, TypeOK', NEW g \in Guard, NEW c \in Commitment, NEW w, NEW e,
           NEW ks \in SUBSET Scope, NEW b, NEW t, NEW ttl, NEW lease,
           IssueGuard(g, c, w, e, ks, b, t, ttl, lease)
    PROVE  FenceInvariant' /\ QuietChange
<1> DEFINE dead == ExpiredOn(ks, t)
           row == [st |-> "issued", commitment |-> c, epoch |-> e, boot |-> b,
                   scopes |-> ks, action |-> None, digest |-> None, outcome |-> "none",
                   expires |-> Earlier(t + ttl, claim[c].beat + lease), issuer |-> w]
<1>1. TypeOK /\ LocksMirrorGuards /\ ClaimsConsistent
  BY DEF FenceInvariant, CrashIsRecoverable, Recoverable
<1>2. /\ guard' = [Invalidated(dead) EXCEPT ![g] = row]
      /\ guard[g].st = "absent" /\ claim[c].worker = w /\ epoch[c] = e
      /\ UNCHANGED <<state, reason, epoch, action, claim, boot>>
  BY DEF IssueGuard, GuardIdFree, OwnsClaim, commitmentVars
<1>3. /\ row.st = "issued" /\ row.commitment = c /\ row.epoch = e /\ row.issuer = w
      /\ dead \in SUBSET Issued
  BY ExpiredIsIssued
<1>4. Invalidated(dead) \in [Guard -> GuardRow]
  BY <1>1, InvalidatedType
<1> HIDE DEF dead, row
<1>5. GuardsStayOrDrop
  <2>1. SUFFICES ASSUME NEW h \in Guard
                 PROVE  /\ guard[h].st \notin {"absent", "issued"} => guard'[h] = guard[h]
                        /\ guard'[h].st \in Live =>
                             \/ guard'[h] = guard[h]
                             \/ /\ guard'[h].st = "issued"
                                /\ guard'[h].commitment \in Commitment
                                /\ guard'[h].epoch = epoch'[guard'[h].commitment]
                                /\ guard'[h].issuer = claim'[guard'[h].commitment].worker
    BY DEF GuardsStayOrDrop
  <2>2. CASE h = g
    BY <1>2, <1>3, <1>4, <2>2 DEF ActiveGuard
  <2>3. CASE h # g
    <3>1. guard'[h] = Invalidated(dead)[h]
      BY <1>2, <1>4, <2>3
    <3>2. QED
      BY <1>1, <1>3, <3>1, InvalidatedColumns
  <2>4. QED
    BY <2>2, <2>3
<1>6. LocksMirrorGuards'
  BY <1>1, IssueKeepsMirror
<1>7. ClaimsConsistent'
  BY <1>1, <1>2 DEF ClaimsConsistent, ClaimConsistent, HasClaim
<1>8. ActionsLeftAlone /\ ClaimsInherited
  BY <1>1, <1>2, BoundsAssumption DEF ActionsLeftAlone, ClaimsInherited, TypeOK
<1>9. QED
  BY <1>5, <1>6, <1>7, <1>8, QuietStepKeepsFence

\* A structural proposal runs under a live claim without an action, after the
\* expired reservations of its target are gone.
LEMMA StructuralFenceHolds ==
    ASSUME FenceInvariant, NEW c, NEW w, NEW e, NEW b, NEW t, NEW lease,
           StructuralFence(c, w, e, b, t, lease)
    PROVE  /\ LocksMirrorGuards' /\ GuardsStayOrDrop
           /\ UNCHANGED <<epoch, action, boot>>
           /\ action[c] = None
<1>1. TypeOK /\ LocksMirrorGuards
  BY DEF FenceInvariant
<1>2. /\ guard' = Invalidated(ExpiredFor(c, t)) /\ lock' = Released(ExpiredFor(c, t))
      /\ UNCHANGED <<epoch, action, boot>> /\ action[c] = None
  BY DEF StructuralFence
<1>3. QED
  BY <1>1, <1>2, ExpiredForIsIssued, DroppedFence

\* apply_decomposition: new children are bare and the target keeps its claim.
LEMMA DecomposeFence ==
    ASSUME FenceInvariant, TypeOK', NEW c \in Commitment, NEW w, NEW e, NEW b, NEW t,
           NEW lease, NEW deps, NEW r, Decompose(c, w, e, b, t, lease, deps, r)
    PROVE  FenceInvariant' /\ QuietChange
<1>1. TypeOK /\ ClaimsConsistent
  BY DEF FenceInvariant, CrashIsRecoverable, Recoverable
<1>2. StructuralFence(c, w, e, b, t, lease)
  BY DEF Decompose
<1>3. \A d \in DOMAIN deps : d \in Commitment => ~HasClaim(d) /\ action[d] = None
  BY AbsentIsBare DEF Decompose
<1>4. /\ state' = [d \in Commitment |-> IF d \in DOMAIN deps THEN "Proposed"
                                        ELSE IF d = c THEN "Waiting" ELSE state[d]]
      /\ reason' = [reason EXCEPT ![c] = r]
      /\ claim' = claim /\ state[c] = "Working"
  BY DEF Decompose
<1>5. /\ LocksMirrorGuards' /\ GuardsStayOrDrop /\ action[c] = None
      /\ UNCHANGED <<epoch, action, boot>>
  BY <1>2, StructuralFenceHolds
<1>6. ClaimsConsistent'
  <2>1. SUFFICES ASSUME NEW d \in Commitment PROVE ClaimConsistent(d)'
    BY DEF ClaimsConsistent
  <2>2. ClaimConsistent(d)
    BY <1>1 DEF ClaimsConsistent
  <2>3. QED
    BY <1>3, <1>4, <1>5, <2>2 DEF ClaimConsistent, HasClaim, ClaimBearing
<1>7. \A d \in Commitment : action[d] # None => state'[d] = state[d] /\ reason'[d] = reason[d]
  BY <1>1, <1>3, <1>4, <1>5 DEF TypeOK
<1>8. ActionsLeftAlone /\ ClaimsInherited
  BY <1>1, <1>4, <1>5, <1>7, BoundsAssumption DEF ActionsLeftAlone, ClaimsInherited, TypeOK
<1>9. QED
  BY <1>5, <1>6, <1>8, QuietStepKeepsFence

\* apply_add_prerequisite changes the topology only.
LEMMA AddPrerequisiteFence ==
    ASSUME FenceInvariant, TypeOK', NEW c \in Commitment, NEW w, NEW e, NEW b, NEW t,
           NEW lease, NEW p, AddPrerequisite(c, w, e, b, t, lease, p)
    PROVE  FenceInvariant' /\ QuietChange
<1>1. TypeOK /\ ClaimsConsistent
  BY DEF FenceInvariant, CrashIsRecoverable, Recoverable
<1>2. StructuralFence(c, w, e, b, t, lease) /\ UNCHANGED <<state, reason, claim>>
  BY DEF AddPrerequisite
<1>3. LocksMirrorGuards' /\ GuardsStayOrDrop /\ UNCHANGED <<epoch, action, boot>>
  BY <1>2, StructuralFenceHolds
<1>4. ClaimsConsistent'
  BY <1>1, <1>2, <1>3 DEF ClaimsConsistent, ClaimConsistent, HasClaim
<1>5. ActionsLeftAlone /\ ClaimsInherited
  BY <1>1, <1>2, <1>3, BoundsAssumption DEF ActionsLeftAlone, ClaimsInherited, TypeOK
<1>6. QED
  BY <1>3, <1>4, <1>5, QuietStepKeepsFence

\* apply_abandon releases a claim under which no guard is live.
LEMMA AbandonTargetFence ==
    ASSUME FenceInvariant, TypeOK', NEW c \in Commitment, NEW w, NEW e, NEW b, NEW t,
           NEW lease, AbandonTarget(c, w, e, b, t, lease)
    PROVE  FenceInvariant' /\ QuietChange
<1>1. TypeOK /\ ClaimsConsistent
  BY DEF FenceInvariant, CrashIsRecoverable, Recoverable
<1>2. /\ StructuralFence(c, w, e, b, t, lease)
      /\ state' = [state EXCEPT ![c] = "Abandoned"]
      /\ reason' = [reason EXCEPT ![c] = None]
      /\ claim' = [claim EXCEPT ![c] = NoClaim]
  BY DEF AbandonTarget
<1>3. /\ LocksMirrorGuards' /\ GuardsStayOrDrop /\ action[c] = None
      /\ UNCHANGED <<epoch, action, boot>>
  BY <1>2, StructuralFenceHolds
<1>4. /\ state'[c] = "Abandoned" /\ claim'[c].worker = None
      /\ \A d \in Commitment \ {c} : /\ state'[d] = state[d] /\ reason'[d] = reason[d]
                                     /\ claim'[d] = claim[d]
  BY <1>1, <1>2 DEF TypeOK, NoClaim
<1>5. ClaimsConsistent'
  <2>1. SUFFICES ASSUME NEW d \in Commitment PROVE ClaimConsistent(d)'
    BY DEF ClaimsConsistent
  <2>2. ClaimConsistent(d)
    BY <1>1 DEF ClaimsConsistent
  <2>3. QED
    BY <1>3, <1>4, <2>2 DEF ClaimConsistent, HasClaim, ClaimBearing
<1>6. ActionsLeftAlone /\ ClaimsInherited
  BY <1>1, <1>3, <1>4, BoundsAssumption DEF ActionsLeftAlone, ClaimsInherited, TypeOK
<1>7. QED
  BY <1>3, <1>5, <1>6, QuietStepKeepsFence

\* A restart: claims and reservations end, active guards keep their locks.
LEMMA OpenFence ==
    ASSUME FenceInvariant, TypeOK', Open
    PROVE  FenceInvariant' /\ QuietChange
<1>1. TypeOK /\ LocksMirrorGuards /\ ClaimsConsistent
  BY DEF FenceInvariant, CrashIsRecoverable, Recoverable
<1>2. /\ state' = [c \in Commitment |-> IF HasClaim(c) THEN "RecoveryPending" ELSE state[c]]
      /\ reason' = [c \in Commitment |-> IF HasClaim(c) THEN None ELSE reason[c]]
      /\ claim' = [c \in Commitment |-> NoClaim]
      /\ guard' = Invalidated(Issued)
      /\ UNCHANGED <<epoch, action>>
  BY DEF Open, Issued
<1>3. NoClaim.worker = None /\ Issued \in SUBSET Issued
  BY DEF NoClaim
<1>4. GuardsStayOrDrop
  BY <1>1, <1>2, <1>3, InvalidatedColumns DEF GuardsStayOrDrop
<1>5. LocksMirrorGuards'
  BY <1>1, OpenKeepsMirror
<1>6. ClaimsConsistent'
  <2>1. SUFFICES ASSUME NEW d \in Commitment PROVE ClaimConsistent(d)'
    BY DEF ClaimsConsistent
  <2>2. ClaimConsistent(d)
    BY <1>1 DEF ClaimsConsistent
  <2>3. QED
    BY <1>2, <1>3, <2>2 DEF ClaimConsistent, HasClaim, ClaimBearing
<1>7. ActionsLeftAlone
  BY <1>1, <1>2, <1>3, BoundsAssumption DEF ActionsLeftAlone, TypeOK, HasClaim
<1>8. ClaimsInherited
  BY <1>2, <1>3 DEF ClaimsInherited
<1>9. QED
  BY <1>4, <1>5, <1>6, <1>7, <1>8, QuietStepKeepsFence

-----------------------------------------------------------------------------
(* Admission and outcomes *)

\* admit_guard makes a reservation the fence of a new action.
LEMMA AdmitGuardFence ==
    ASSUME FenceInvariant, TypeOK', NEW g \in Guard, NEW a \in Action, NEW d, NEW t,
           AdmitGuard(g, a, d, t)
    PROVE  FenceInvariant'
<1> DEFINE c == guard[g].commitment
           dead == ExpiredOn(guard[g].scopes, t)
<1>1. /\ TypeOK /\ GuardRowsWellFormed /\ LocksMirrorGuards /\ ClaimsConsistent
      /\ ActiveGuardsConsistent /\ NoOrphanAction /\ NoReassignmentUnderAction
  BY DEF FenceInvariant, CrashIsRecoverable, Recoverable
<1>2. /\ guard[g].st = "issued" /\ g \notin dead
      /\ state[c] = "Working" /\ action[c] = None /\ HasClaim(c)
      /\ claim[c].epoch = guard[g].epoch /\ epoch[c] = guard[g].epoch
      /\ UNCHANGED <<state, reason, epoch, claim, boot>>
      /\ action' = [action EXCEPT ![c] = a]
      /\ guard' = [Invalidated(dead) EXCEPT ![g] =
                     [guard[g] EXCEPT !.st = "admitted", !.action = a,
                                      !.digest = d, !.expires = 0]]
  BY DEF AdmitGuard
<1>3. c \in Commitment /\ a # None
  BY <1>1, <1>2, IdentifiersAssumption DEF GuardRowsWellFormed
<1>4. action'[c] = a /\ \A e \in Commitment \ {c} : action'[e] = action[e]
  BY <1>1, <1>2, <1>3 DEF TypeOK
<1>5. /\ guard'[g].st = "admitted" /\ guard'[g].action = a
      /\ guard'[g].commitment = c /\ guard'[g].epoch = guard[g].epoch
      /\ guard'[g].scopes = guard[g].scopes /\ guard'[g].issuer = guard[g].issuer
      /\ \A h \in Guard \ {g} : guard'[h] = Invalidated(dead)[h]
  <2>1. guard[g] \in GuardRow /\ Invalidated(dead) \in [Guard -> GuardRow]
    BY <1>1, InvalidatedType DEF TypeOK
  <2> HIDE DEF dead
  <2>2. QED
    BY <1>2, <2>1 DEF GuardRow
<1>6. dead \in SUBSET Issued
  BY ExpiredIsIssued
<1> HIDE DEF dead, c
<1>7. \A h \in Guard \ {g} :
          /\ guard'[h].st \in Live => guard'[h] = guard[h] /\ guard[h].st \in Live
          /\ guard[h].st \in ActiveGuard => guard'[h] = guard[h]
  BY <1>1, <1>5, <1>6, InvalidatedColumns DEF ActiveGuard
<1>8. \A h \in Guard : guard[h].st \in ActiveGuard => guard[h].commitment # c
  BY <1>2, ActiveHasAction
<1>9. LocksMirrorGuards'
  BY <1>1, AdmitKeepsMirror
<1>10. ClaimsConsistent'
  <2>1. SUFFICES ASSUME NEW e \in Commitment PROVE ClaimConsistent(e)'
    BY DEF ClaimsConsistent
  <2>2. ClaimConsistent(e)
    BY <1>1 DEF ClaimsConsistent
  <2>3. QED
    BY <1>2, <1>4, <2>2 DEF ClaimConsistent, HasClaim
<1>11. GuardRowsWellFormed'
  <2>1. SUFFICES ASSUME NEW h \in Guard, guard'[h].st \in Live
                 PROVE  /\ guard'[h].commitment \in Commitment
                        /\ guard'[h].epoch <= epoch'[guard'[h].commitment]
                        /\ guard'[h].st \in ActiveGuard => guard'[h].action \in Action
    BY DEF GuardRowsWellFormed, Live
  <2>2. CASE h = g
    <3>1. guard[g].epoch <= epoch[c]
      BY <1>1, <1>2 DEF GuardRowsWellFormed, c
    <3>2. QED
      BY <1>2, <1>3, <1>5, <2>2, <3>1
  <2>3. CASE h # g
    BY <1>1, <1>2, <1>7, <2>1, <2>3 DEF GuardRowsWellFormed, Live
  <2>4. QED
    BY <2>2, <2>3
<1>12. ActiveGuardsConsistent'
  <2>1. SUFFICES ASSUME NEW h \in Guard, guard'[h].st \in ActiveGuard,
                        NEW e, e = guard'[h].commitment
                 PROVE  /\ epoch'[e] = guard'[h].epoch
                        /\ action'[e] = guard'[h].action
                        /\ IF guard'[h].st = "admitted"
                           THEN HasClaim(e)' \/ state'[e] = "RecoveryPending"
                           ELSE state'[e] = "Uncertain" /\ reason'[e] = guard'[h].action
                        /\ \A f \in Guard \ {h} : guard'[f].st \in ActiveGuard =>
                              /\ guard'[f].commitment # e
                              /\ guard'[f].scopes \cap guard'[h].scopes = {}
    BY DEF ActiveGuardsConsistent, HasClaim
  <2>2. CASE h = g
    <3>1. \A f \in Guard \ {g} : guard'[f].st \in ActiveGuard =>
              /\ guard'[f].commitment # c
              /\ guard'[f].scopes \cap guard[g].scopes = {}
      BY <1>1, <1>2, <1>7, <1>8, LiveScopesDisjoint DEF Live
    <3>2. e = c /\ HasClaim(e)'
      BY <1>2, <1>5, <2>1, <2>2 DEF HasClaim
    <3>3. QED
      BY <1>2, <1>4, <1>5, <2>1, <2>2, <3>1, <3>2
  <2>3. CASE h # g
    <3>1. guard'[h] = guard[h] /\ guard[h].st \in ActiveGuard
      BY <1>7, <2>1, <2>3 DEF Live
    <3>2. e \in Commitment /\ e # c
      BY <1>8, <2>1, <3>1, ActiveHasAction
    <3>3. /\ epoch[e] = guard[h].epoch /\ action[e] = guard[h].action
          /\ IF guard[h].st = "admitted" THEN HasClaim(e) \/ state[e] = "RecoveryPending"
             ELSE state[e] = "Uncertain" /\ reason[e] = guard[h].action
          /\ \A f \in Guard \ {h} : guard[f].st \in ActiveGuard =>
                guard[f].commitment # e /\ guard[f].scopes \cap guard[h].scopes = {}
      BY <1>1, <2>1, <3>1 DEF ActiveGuardsConsistent
    <3>4. guard[g].scopes \cap guard[h].scopes = {}
      BY <1>1, <1>2, <2>3, <3>1, LiveScopesDisjoint DEF Live
    <3>5. ASSUME NEW f \in Guard \ {h}, guard'[f].st \in ActiveGuard
          PROVE  guard'[f].commitment # e /\ guard'[f].scopes \cap guard'[h].scopes = {}
      <4>1. CASE f = g
        BY <1>5, <3>1, <3>2, <3>4, <4>1
      <4>2. CASE f # g
        BY <1>7, <3>1, <3>3, <3>5, <4>2 DEF Live
      <4>3. QED
        BY <4>1, <4>2
    <3>6. HasClaim(e)' <=> HasClaim(e)
      BY <1>2 DEF HasClaim
    <3>7. QED
      BY <1>2, <1>4, <3>1, <3>2, <3>3, <3>5, <3>6
  <2>4. QED
    BY <2>2, <2>3
<1>13. NoOrphanAction'
  <2>1. SUFFICES ASSUME NEW e \in Commitment, action'[e] # None
                 PROVE  \E h \in Guard : /\ guard'[h].st \in ActiveGuard
                                         /\ guard'[h].commitment = e
                                         /\ guard'[h].action = action'[e]
    BY DEF NoOrphanAction
  <2>2. CASE e = c
    BY <1>4, <1>5, <2>2 DEF ActiveGuard
  <2>3. CASE e # c
    <3>1. PICK h \in Guard : /\ guard[h].st \in ActiveGuard /\ guard[h].commitment = e
                             /\ guard[h].action = action[e]
      BY <1>1, <1>4, <2>1, <2>3 DEF NoOrphanAction
    <3>2. h # g
      BY <1>2, <3>1 DEF ActiveGuard
    <3>3. QED
      BY <1>4, <1>7, <2>3, <3>1, <3>2
  <2>4. QED
    BY <2>2, <2>3
<1>14. NoReassignmentUnderAction'
  <2>1. \A h \in Guard \ {g} : guard'[h].st \in {"admitted", "issued"} => guard'[h] = guard[h]
    BY <1>7 DEF Live, ActiveGuard
  <2>2. claim[c].worker = guard[g].issuer
    <3>1. \/ guard[g].epoch < claim[c].epoch
          \/ claim[c].worker = guard[g].issuer
      BY <1>1, <1>2 DEF NoReassignmentUnderAction, c
    <3>2. guard[g].epoch \in Nat
      BY <1>1 DEF TypeOK, GuardRow
    <3>3. QED
      BY <1>2, <3>1, <3>2
  <2>3. SUFFICES ASSUME NEW h \in Guard, NEW e, e = guard'[h].commitment, HasClaim(e)'
                 PROVE  /\ guard'[h].st = "admitted" => claim'[e].worker = guard'[h].issuer
                        /\ guard'[h].st = "issued" =>
                              \/ guard'[h].epoch < claim'[e].epoch
                              \/ claim'[e].worker = guard'[h].issuer
    BY DEF NoReassignmentUnderAction, HasClaim
  <2>4. CASE h = g
    BY <1>2, <1>5, <2>2, <2>3, <2>4
  <2>5. CASE h # g
    <3>1. HasClaim(e)
      BY <1>2, <2>3 DEF HasClaim
    <3>2. QED
      BY <1>1, <1>2, <2>1, <2>3, <2>5, <3>1 DEF NoReassignmentUnderAction
  <2>6. QED
    BY <2>4, <2>5
<1>15. QED
  BY <1>9, <1>10, <1>11, <1>12, <1>13, <1>14
     DEF FenceInvariant, CrashIsRecoverable, Recoverable

\* A safe outcome takes the guard, its locks and the action away together.
LEMMA RecordSafeOutcomeFence ==
    ASSUME FenceInvariant, TypeOK', NEW g \in Guard, NEW a, NEW outcome, NEW d,
           RecordSafeOutcome(g, a, outcome, d)
    PROVE  FenceInvariant'
<1> DEFINE c == guard[g].commitment
<1>1. /\ TypeOK /\ GuardRowsWellFormed /\ LocksMirrorGuards /\ ClaimsConsistent
      /\ ActiveGuardsConsistent /\ NoOrphanAction /\ NoReassignmentUnderAction
  BY DEF FenceInvariant, CrashIsRecoverable, Recoverable
<1>2. /\ guard[g].st = "admitted" /\ state[c] \in {"Working", "RecoveryPending"}
      /\ action' = [action EXCEPT ![c] = None]
      /\ state' = [state EXCEPT ![c] =
                     IF state[c] = "RecoveryPending" THEN "Ready" ELSE state[c]]
      /\ UNCHANGED <<reason, epoch, claim, boot>>
  BY DEF RecordSafeOutcome
<1>3. c \in Commitment
  BY <1>2, ActiveHasAction DEF ActiveGuard
<1>4. /\ action'[c] = None
      /\ state'[c] = IF state[c] = "RecoveryPending" THEN "Ready" ELSE state[c]
      /\ \A e \in Commitment \ {c} : action'[e] = action[e] /\ state'[e] = state[e]
  BY <1>1, <1>2, <1>3 DEF TypeOK
<1>5. guard'[g].st = "resolved" /\ \A h \in Guard \ {g} : guard'[h] = guard[h]
  BY <1>1 DEF RecordSafeOutcome, TypeOK, GuardRow
<1>6. \A h \in Guard \ {g} : guard[h].st \in ActiveGuard => guard[h].commitment # c
  BY <1>1, <1>2 DEF ActiveGuardsConsistent, ActiveGuard
<1>7. \A h \in Guard : guard'[h].st \in Live => h # g /\ guard'[h] = guard[h]
  BY <1>5 DEF Live, ActiveGuard
<1> HIDE DEF c
<1>8. LocksMirrorGuards'
  BY <1>1, SafeOutcomeKeepsMirror
<1>9. ClaimsConsistent'
  <2>1. SUFFICES ASSUME NEW e \in Commitment PROVE ClaimConsistent(e)'
    BY DEF ClaimsConsistent
  <2>2. ClaimConsistent(e)
    BY <1>1 DEF ClaimsConsistent
  <2>3. QED
    BY <1>2, <1>4, <2>2 DEF ClaimConsistent, HasClaim, ClaimBearing
<1>10. GuardRowsWellFormed'
  BY <1>1, <1>2, <1>7 DEF GuardRowsWellFormed, Live
<1>11. ActiveGuardsConsistent'
  <2>1. SUFFICES ASSUME NEW h \in Guard, guard'[h].st \in ActiveGuard,
                        NEW e, e = guard'[h].commitment
                 PROVE  /\ epoch'[e] = guard'[h].epoch
                        /\ action'[e] = guard'[h].action
                        /\ IF guard'[h].st = "admitted"
                           THEN HasClaim(e)' \/ state'[e] = "RecoveryPending"
                           ELSE state'[e] = "Uncertain" /\ reason'[e] = guard'[h].action
                        /\ \A f \in Guard \ {h} : guard'[f].st \in ActiveGuard =>
                              /\ guard'[f].commitment # e
                              /\ guard'[f].scopes \cap guard'[h].scopes = {}
    BY DEF ActiveGuardsConsistent, HasClaim
  <2>2. h # g /\ guard'[h] = guard[h] /\ guard[h].st \in ActiveGuard
    BY <1>7, <2>1 DEF Live
  <2>3. e \in Commitment /\ e # c
    BY <1>6, <2>1, <2>2, ActiveHasAction
  <2>4. /\ epoch[e] = guard[h].epoch /\ action[e] = guard[h].action
        /\ IF guard[h].st = "admitted" THEN HasClaim(e) \/ state[e] = "RecoveryPending"
           ELSE state[e] = "Uncertain" /\ reason[e] = guard[h].action
        /\ \A f \in Guard \ {h} : guard[f].st \in ActiveGuard =>
              guard[f].commitment # e /\ guard[f].scopes \cap guard[h].scopes = {}
    BY <1>1, <2>1, <2>2 DEF ActiveGuardsConsistent
  <2>5. HasClaim(e)' <=> HasClaim(e)
    BY <1>2 DEF HasClaim
  <2>6. \A f \in Guard \ {h} : guard'[f].st \in ActiveGuard => guard'[f] = guard[f]
    BY <1>7 DEF Live
  <2>7. QED
    BY <1>2, <1>4, <2>2, <2>3, <2>4, <2>5, <2>6
<1>12. NoOrphanAction'
  <2>1. SUFFICES ASSUME NEW e \in Commitment, action'[e] # None
                 PROVE  \E h \in Guard : /\ guard'[h].st \in ActiveGuard
                                         /\ guard'[h].commitment = e
                                         /\ guard'[h].action = action'[e]
    BY DEF NoOrphanAction
  <2>2. e # c /\ action'[e] = action[e]
    BY <1>4, <2>1
  <2>3. PICK h \in Guard : /\ guard[h].st \in ActiveGuard /\ guard[h].commitment = e
                           /\ guard[h].action = action[e]
    BY <1>1, <2>1, <2>2 DEF NoOrphanAction
  <2>4. h # g
    BY <2>2, <2>3 DEF c
  <2>5. QED
    BY <1>5, <2>2, <2>3, <2>4
<1>13. NoReassignmentUnderAction'
  <2>1. \A h \in Guard : guard'[h].st \in {"admitted", "issued"} => guard'[h] = guard[h]
    BY <1>7 DEF Live, ActiveGuard
  <2>2. QED
    BY <1>1, <1>2, <2>1 DEF NoReassignmentUnderAction, HasClaim
<1>14. QED
  BY <1>8, <1>9, <1>10, <1>11, <1>12, <1>13
     DEF FenceInvariant, CrashIsRecoverable, Recoverable

\* An uncertain outcome releases the claim and keeps the fence.
LEMMA RecordUncertainOutcomeFence ==
    ASSUME FenceInvariant, TypeOK', NEW g \in Guard, NEW a, NEW d,
           RecordUncertainOutcome(g, a, d)
    PROVE  FenceInvariant'
<1> DEFINE c == guard[g].commitment
<1>1. /\ TypeOK /\ GuardRowsWellFormed /\ LocksMirrorGuards /\ ClaimsConsistent
      /\ ActiveGuardsConsistent /\ NoOrphanAction /\ NoReassignmentUnderAction
  BY DEF FenceInvariant, CrashIsRecoverable, Recoverable
<1>2. /\ guard[g].st = "admitted" /\ guard[g].action = a
      /\ state' = [state EXCEPT ![c] = "Uncertain"]
      /\ reason' = [reason EXCEPT ![c] = a]
      /\ claim' = [claim EXCEPT ![c] = NoClaim]
      /\ UNCHANGED <<epoch, action, boot>>
  BY DEF RecordUncertainOutcome
<1>3. c \in Commitment
  BY <1>2, ActiveHasAction DEF ActiveGuard
<1>4. /\ state'[c] = "Uncertain" /\ reason'[c] = a /\ claim'[c].worker = None
      /\ \A e \in Commitment \ {c} : /\ state'[e] = state[e] /\ reason'[e] = reason[e]
                                     /\ claim'[e] = claim[e]
  BY <1>1, <1>2, <1>3 DEF TypeOK, NoClaim
<1>5. /\ guard'[g].st = "uncertain" /\ guard'[g].commitment = c
      /\ guard'[g].epoch = guard[g].epoch /\ guard'[g].action = a
      /\ guard'[g].scopes = guard[g].scopes
      /\ \A h \in Guard \ {g} : guard'[h] = guard[h]
  BY <1>1, <1>2 DEF RecordUncertainOutcome, TypeOK, GuardRow
<1>6. \A h \in Guard \ {g} : guard[h].st \in ActiveGuard => guard[h].commitment # c
  BY <1>1, <1>2 DEF ActiveGuardsConsistent, ActiveGuard
<1> HIDE DEF c
<1>7. LocksMirrorGuards'
  BY <1>1, UncertainOutcomeKeepsMirror
<1>8. ClaimsConsistent'
  <2>1. SUFFICES ASSUME NEW e \in Commitment PROVE ClaimConsistent(e)'
    BY DEF ClaimsConsistent
  <2>2. ClaimConsistent(e)
    BY <1>1 DEF ClaimsConsistent
  <2>3. QED
    BY <1>2, <1>4, <2>2 DEF ClaimConsistent, HasClaim, ClaimBearing
<1>9. GuardRowsWellFormed'
  <2>1. \A h \in Guard : /\ guard'[h].commitment = guard[h].commitment
                         /\ guard'[h].epoch = guard[h].epoch
                         /\ guard'[h].action = guard[h].action
                         /\ guard'[h].st \in ActiveGuard <=> guard[h].st \in ActiveGuard
                         /\ guard'[h].st = "issued" <=> guard[h].st = "issued"
    BY <1>2, <1>5 DEF ActiveGuard, c
  <2>2. QED
    BY <1>1, <1>2, <2>1 DEF GuardRowsWellFormed
<1>10. ActiveGuardsConsistent'
  <2>1. SUFFICES ASSUME NEW h \in Guard, guard'[h].st \in ActiveGuard,
                        NEW e, e = guard'[h].commitment
                 PROVE  /\ epoch'[e] = guard'[h].epoch
                        /\ action'[e] = guard'[h].action
                        /\ IF guard'[h].st = "admitted"
                           THEN HasClaim(e)' \/ state'[e] = "RecoveryPending"
                           ELSE state'[e] = "Uncertain" /\ reason'[e] = guard'[h].action
                        /\ \A f \in Guard \ {h} : guard'[f].st \in ActiveGuard =>
                              /\ guard'[f].commitment # e
                              /\ guard'[f].scopes \cap guard'[h].scopes = {}
    BY DEF ActiveGuardsConsistent, HasClaim
  <2>2. \A f \in Guard : /\ guard'[f].commitment = guard[f].commitment
                         /\ guard'[f].scopes = guard[f].scopes
                         /\ guard'[f].epoch = guard[f].epoch
                         /\ guard'[f].action = guard[f].action
                         /\ guard'[f].st \in ActiveGuard <=> guard[f].st \in ActiveGuard
    BY <1>2, <1>5 DEF ActiveGuard, c
  <2>3. /\ epoch[e] = guard[h].epoch /\ action[e] = guard[h].action
        /\ IF guard[h].st = "admitted" THEN HasClaim(e) \/ state[e] = "RecoveryPending"
           ELSE state[e] = "Uncertain" /\ reason[e] = guard[h].action
        /\ \A f \in Guard \ {h} : guard[f].st \in ActiveGuard =>
              guard[f].commitment # e /\ guard[f].scopes \cap guard[h].scopes = {}
    BY <1>1, <2>1, <2>2 DEF ActiveGuardsConsistent
  <2>4. IF guard'[h].st = "admitted" THEN HasClaim(e)' \/ state'[e] = "RecoveryPending"
        ELSE state'[e] = "Uncertain" /\ reason'[e] = guard'[h].action
    <3>1. CASE h = g
      BY <1>4, <1>5, <2>1, <3>1
    <3>2. CASE h # g
      <4>1. e \in Commitment /\ e # c
        BY <1>6, <2>1, <2>2, <3>2, ActiveHasAction
      <4>2. HasClaim(e)' <=> HasClaim(e)
        BY <1>4, <4>1 DEF HasClaim
      <4>3. QED
        BY <1>4, <1>5, <2>3, <3>2, <4>1, <4>2
    <3>3. QED
      BY <3>1, <3>2
  <2>5. QED
    BY <1>2, <2>1, <2>2, <2>3, <2>4
<1>11. NoOrphanAction'
  <2>1. \A f \in Guard : /\ guard'[f].commitment = guard[f].commitment
                         /\ guard'[f].action = guard[f].action
                         /\ guard[f].st \in ActiveGuard => guard'[f].st \in ActiveGuard
    BY <1>2, <1>5 DEF ActiveGuard, c
  <2>2. QED
    BY <1>1, <1>2, <2>1 DEF NoOrphanAction
<1>12. NoReassignmentUnderAction'
  <2>1. SUFFICES ASSUME NEW h \in Guard, NEW e, e = guard'[h].commitment, HasClaim(e)',
                        guard'[h].st \in {"admitted", "issued"}
                 PROVE  /\ guard'[h].st = "admitted" => claim'[e].worker = guard'[h].issuer
                        /\ guard'[h].st = "issued" =>
                              \/ guard'[h].epoch < claim'[e].epoch
                              \/ claim'[e].worker = guard'[h].issuer
    BY DEF NoReassignmentUnderAction, HasClaim
  <2>2. guard'[h] = guard[h]
    BY <1>5, <2>1
  <2>3. e \in Commitment /\ e # c
    BY <1>1, <1>4, <2>1, <2>2 DEF GuardRowsWellFormed, HasClaim, ActiveGuard
  <2>4. claim'[e] = claim[e] /\ HasClaim(e)
    BY <1>4, <2>1, <2>3 DEF HasClaim
  <2>5. QED
    BY <1>1, <2>1, <2>2, <2>4 DEF NoReassignmentUnderAction
<1>13. QED
  BY <1>7, <1>8, <1>9, <1>10, <1>11, <1>12
     DEF FenceInvariant, CrashIsRecoverable, Recoverable

-----------------------------------------------------------------------------
(* The invariant and what follows from it *)

\* An empty store satisfies the invariant.
LEMMA InitFence == Init => FenceInvariant
<1> SUFFICES ASSUME Init PROVE FenceInvariant
  OBVIOUS
<1>1. TypeOK
  BY InitType
<1>2. \A g \in Guard : guard[g].st = "absent"
  BY DEF Init, NoGuard
<1>3. \A k \in Scope : lock[k].mode = "free"
  BY DEF Init, FreeLock
<1>4. \A c \in Commitment : claim[c].worker = None /\ action[c] = None /\ state[c] = "Absent"
  BY DEF Init, NoClaim
<1>5. LocksMirrorGuards /\ GuardRowsWellFormed /\ ActiveGuardsConsistent
      /\ NoReassignmentUnderAction
  BY <1>2, <1>3 DEF LocksMirrorGuards, Mirrors, GuardRowsWellFormed,
        ActiveGuardsConsistent, NoReassignmentUnderAction, ActiveGuard
<1>6. ClaimsConsistent /\ NoOrphanAction
  BY <1>4 DEF ClaimsConsistent, ClaimConsistent, NoOrphanAction, HasClaim, ClaimBearing
<1>7. QED
  BY <1>1, <1>5, <1>6 DEF FenceInvariant, CrashIsRecoverable, Recoverable

\* Every step keeps the fence, and is quiet, an admission or an outcome.
LEMMA StepKinds ==
    ASSUME FenceInvariant, [Next]_vars
    PROVE  /\ FenceInvariant'
           /\ \/ QuietChange
              \/ \E g \in Guard, a \in Action, d \in Digest \cup {None}, t \in Instants :
                    AdmitGuard(g, a, d, t)
              \/ \E g \in Guard, a \in Action, outcome \in SafeOutcomes,
                    d \in Digest \cup {None} : RecordSafeOutcome(g, a, outcome, d)
              \/ \E g \in Guard, a \in Action, d \in Digest \cup {None} :
                    RecordUncertainOutcome(g, a, d)
<1>1. TypeOK'
  BY NextType, StutterType DEF FenceInvariant
<1>2. CASE CommitmentNext
  BY <1>1, <1>2, InsertCommitmentFence, PersistClaimFence, PersistChangeFence
     DEF CommitmentNext
<1>3. CASE ClaimNext
  BY <1>1, <1>3, RecordHeartbeatFence, ProcessExpiredClaimsFence,
     RecoverWithoutActionFence DEF ClaimNext
<1>4. CASE GuardNext
  BY <1>1, <1>4, IssueGuardFence, AdmitGuardFence, InvalidateGuardFence,
     RecordSafeOutcomeFence, RecordUncertainOutcomeFence DEF GuardNext
<1>5. CASE StructuralNext
  BY <1>1, <1>5, DecomposeFence, AddPrerequisiteFence, AbandonTargetFence
     DEF StructuralNext
<1>6. CASE Open
  BY <1>1, <1>6, OpenFence
<1>7. CASE UNCHANGED vars
  <2>1. UNCHANGED <<commitmentVars, fenceVars, boot>>
    BY <1>7 DEF vars, commitmentVars, fenceVars
  <2>2. QED
    BY <1>1, <2>1, StutterFence
<1>8. QED
  BY <1>2, <1>3, <1>4, <1>5, <1>6, <1>7 DEF Next

\* The fence of an action in flight is intact in every reachable state.
THEOREM FenceIsInvariant == Spec => []FenceInvariant
<1>1. FenceInvariant /\ [Next]_vars => FenceInvariant'
  BY StepKinds
<1>2. QED
  BY <1>1, InitFence, PTL DEF Spec

\* scope_locks and execution_guards agree in every reachable state, whichever
\* operations, sweeps and restarts rewrote them.
THEOREM LocksAgree == Spec => []LocksMirrorGuards
<1>1. FenceInvariant => LocksMirrorGuards
  BY DEF FenceInvariant
<1>2. QED
  BY <1>1, FenceIsInvariant, PTL

\* None of the consistency checks of startup_recovery can fail after a crash
\* between two transactions.
THEOREM CrashRecovery == Spec => []CrashIsRecoverable
<1>1. FenceInvariant => CrashIsRecoverable
  BY DEF FenceInvariant
<1>2. QED
  BY <1>1, FenceIsInvariant, PTL

\* A commitment whose action is in flight is claimed by the worker that the
\* guard was issued to, or by nobody.
THEOREM SingleOwner == Spec => []NoReassignmentUnderAction
<1>1. FenceInvariant => NoReassignmentUnderAction
  BY DEF FenceInvariant
<1>2. QED
  BY <1>1, FenceIsInvariant, PTL

\* A terminal commitment has no claim, no outstanding action and no held scope.
THEOREM TerminalIsBare == Spec => []TerminalOwnsNothing
<1>1. ASSUME FenceInvariant PROVE TerminalOwnsNothing
  <2>1. SUFFICES ASSUME NEW c \in Commitment, state[c] \in TerminalStates
                 PROVE  ~HasClaim(c) /\ action[c] = None /\ ~HoldsLock(c)
    BY DEF TerminalOwnsNothing
  <2>2. ~HasClaim(c) /\ action[c] = None
    <3>1. ClaimConsistent(c)
      BY <1>1 DEF FenceInvariant, CrashIsRecoverable, Recoverable, ClaimsConsistent
    <3>2. QED
      BY <2>1, <3>1 DEF ClaimConsistent, TerminalStates, ClaimBearing
  <2>3. ASSUME NEW k \in Scope, lock[k].mode = "held", lock[k].commitment = c
        PROVE  FALSE
    <3> DEFINE g == lock[k].guard
    <3>1. LocksMirrorGuards
      BY <1>1 DEF FenceInvariant
    <3>2. g \in Guard /\ guard[g].st \in Live /\ k \in guard[g].scopes
      BY <2>3, <3>1 DEF LocksMirrorGuards, Mirrors, Live
    <3>3. guard[g].st \in ActiveGuard /\ guard[g].commitment = c
      BY <2>3, <3>1, <3>2, LiveScopeLocked DEF Live
    <3>4. QED
      BY <1>1, <2>2, <3>2, <3>3, ActiveHasAction
  <2>4. QED
    BY <2>2, <2>3 DEF HoldsLock
<1>2. QED
  BY <1>1, FenceIsInvariant, PTL
=============================================================================
