------------------------- MODULE SnapshotStoreProof -------------------------
(***************************************************************************)
(* Callers that work on copies write what FencedStore allows, and the      *)
(* version of a row tells which row it is.  A copy may be put together     *)
(* from several SELECTs and be as old as it likes: the invariant says what *)
(* is known of it all the same.                                            *)
(***************************************************************************)
EXTENDS FencedStorePlanning, SnapshotStore

\* A wait for an uncertain action names an action, and a reason outlives the
\* wait it belongs to nowhere: only a parent behind a barrier has another.
ReasonFits(st, why, rep) ==
    IF st = "Uncertain" THEN why \in Action
    ELSE why = None \/ (st = "Waiting" /\ rep # None)

\* What each row says on its own: a heartbeat is a clock reading, an absent
\* claim is blank, and the reason fits the state.
RowsTell ==
    \A c \in Commitment :
        /\ claim[c].beat \in Instants
        /\ claim[c].worker = None => claim[c] = NoClaim
        /\ ReasonFits(state[c], reason[c], replacement[c])

\* What is left to say of a copy that may be stale and torn: its version is not
\* ahead of the row's, its epoch and heartbeat can be written, its reason fits.
CopyFits(s, versions, barriers) ==
    s.stage # "none" =>
        /\ s.id \in Commitment
        /\ s.version <= versions[s.id]
        /\ s.epoch <= MaxEpoch
        /\ s.claim.beat \in Instants
        /\ ReasonFits(s.state, s.reason, barriers[s.id])

CopiesTell == \A cl \in Client : CopyFits(copy[cl], version, replacement)

\* The inductive invariant of the optimistic interface.
SnapshotInvariant ==
    /\ FenceInvariant
    /\ SnapshotTypeOK
    /\ RowsTell
    /\ CopiesTell
    /\ VersionIdentifiesRow

-----------------------------------------------------------------------------
(* Rows *)

\* How a step may leave the claim, the reason and the barrier of c.
ClaimMoves(c) ==
    \/ claim'[c] = claim[c]
    \/ claim'[c] = NoClaim
    \/ claim'[c].worker # None /\ claim'[c].beat \in Instants
ReasonMoves(c) ==
    \/ state'[c] = state[c] /\ reason'[c] = reason[c]
    \/ state'[c] # "Uncertain" /\ reason'[c] = None
    \/ state'[c] = "Uncertain" /\ reason'[c] \in Action
    \/ state'[c] = "Waiting" /\ replacement'[c] # None
BarrierStays(c) == replacement[c] # None => replacement'[c] # None

RowsMove == \A c \in Commitment : ClaimMoves(c) /\ ReasonMoves(c) /\ BarrierStays(c)

\* A write of a copy or of a claimed row.
LEMMA CommitmentRowsMove ==
    ASSUME TypeOK, RowsTell, CommitmentNext
    PROVE  RowsMove
<1>1. ASSUME NEW c \in Commitment, NEW gl, NEW p, NEW deps, InsertCommitment(c, gl, p, deps)
      PROVE  RowsMove
  <2>1. /\ state' = [state EXCEPT ![c] = "Proposed"] /\ state[c] = "Absent"
        /\ reason' = reason /\ claim' = claim /\ replacement' = replacement
    BY <1>1 DEF InsertCommitment, Exists
  <2>2. reason[c] = None
    BY <2>1 DEF RowsTell, ReasonFits
  <2>3. QED
    BY <2>1, <2>2 DEF RowsMove, ClaimMoves, ReasonMoves, BarrierStays, TypeOK
<1>2. ASSUME NEW c \in Commitment, NEW w \in Worker, NEW t \in Instants, PersistClaim(c, w, t)
      PROVE  RowsMove
  <2>1. PICK row : row = [worker |-> w, epoch |-> epoch[c] + 1, beat |-> t, boot |-> boot]
    OBVIOUS
  <2>2. /\ state' = [state EXCEPT ![c] = "Claimed"] /\ claim' = [claim EXCEPT ![c] = row]
        /\ reason' = reason /\ replacement' = replacement
        /\ ValidTransition(state[c], "Claimed")
    BY <1>2, <2>1 DEF PersistClaim, Persistable, topologyVars
  <2>3. state[c] = "Ready"
    BY <2>2 DEF ValidTransition, WaitingStates, Exits
  <2>4. reason[c] = None
    BY <2>3 DEF RowsTell, ReasonFits
  <2>5. row.worker # None /\ row.beat \in Instants
    BY <2>1, IdentifiersAssumption
  <2>6. QED
    BY <2>2, <2>4, <2>5 DEF RowsMove, ClaimMoves, ReasonMoves, BarrierStays, TypeOK
<1>3. ASSUME NEW c \in Commitment, NEW s \in RowStates, NEW r, PersistChange(c, s, r)
      PROVE  RowsMove
  <2>1. PICK done : done = IF s = "Completed" THEN Cascade(c) ELSE {}
    OBVIOUS
  <2>2. PICK row : row = [claim[c] EXCEPT !.boot = boot]
    OBVIOUS
  <2>3. /\ state' = [d \in Commitment |-> IF d \in done THEN "Completed"
                                          ELSE IF d = c THEN s ELSE state[d]]
        /\ reason' = [d \in Commitment |-> IF d \in done THEN None
                                           ELSE IF d = c THEN r ELSE reason[d]]
        /\ claim' = [d \in Commitment |->
                        IF d \in done \/ (d = c /\ s \notin ClaimBearing) THEN NoClaim
                        ELSE IF d = c THEN row ELSE claim[d]]
        /\ replacement' = replacement
        /\ s \in ClaimBearing => HasClaim(c)
        /\ r \in IF s = "Uncertain" THEN Action ELSE {None}
    BY <1>3, <2>1, <2>2 DEF PersistChange, topologyVars
  <2>4. row.worker = claim[c].worker /\ row.beat \in Instants
    BY <2>2 DEF RowsTell, TypeOK, ClaimRow
  <2>5. \A d \in Commitment : ClaimMoves(d)
    BY <2>3, <2>4 DEF ClaimMoves, HasClaim
  <2>6. \A d \in Commitment : ReasonMoves(d)
    BY <2>3 DEF ReasonMoves
  <2>7. QED
    BY <2>3, <2>5, <2>6 DEF RowsMove, BarrierStays
<1>4. QED
  BY <1>1, <1>2, <1>3 DEF CommitmentNext

\* A heartbeat, the lease sweep and a recovery.
LEMMA ClaimRowsMove ==
    ASSUME TypeOK, RowsTell, ClaimNext
    PROVE  RowsMove
<1>1. ASSUME NEW c \in Commitment, NEW w \in Worker, NEW e, NEW t \in Instants, NEW lease,
             RecordHeartbeat(c, w, e, t, lease)
      PROVE  RowsMove
  <2>1. /\ claim' = [claim EXCEPT ![c].beat = t] /\ claim[c].worker = w
        /\ state' = state /\ reason' = reason /\ replacement' = replacement
    BY <1>1 DEF RecordHeartbeat, OwnsClaim, topologyVars
  <2>2. claim'[c].worker # None /\ claim'[c].beat = t
    BY <2>1, IdentifiersAssumption DEF TypeOK, ClaimRow
  <2>3. QED
    BY <2>1, <2>2 DEF RowsMove, ClaimMoves, ReasonMoves, BarrierStays, TypeOK
<1>2. ASSUME NEW t, NEW lease, ProcessExpiredClaims(t, lease)
      PROVE  RowsMove
  BY <1>2 DEF ProcessExpiredClaims, RowsMove, ClaimMoves, ReasonMoves, BarrierStays, topologyVars
<1>3. ASSUME NEW c \in Commitment, RecoverWithoutAction(c)
      PROVE  RowsMove
  <2>1. PICK done : done = IF replacement[c] # None THEN Cascade(replacement[c]) ELSE {}
    OBVIOUS
  <2>2. /\ state' = [d \in Commitment |-> IF d \in done THEN "Completed"
                                          ELSE IF d = c THEN "Ready" ELSE state[d]]
        /\ reason' = [d \in Commitment |-> IF d \in done THEN None ELSE reason[d]]
        /\ claim' = [d \in Commitment |-> IF d \in done THEN NoClaim ELSE claim[d]]
        /\ replacement' = replacement /\ state[c] = "RecoveryPending"
    BY <1>3, <2>1 DEF RecoverWithoutAction, topologyVars
  <2>3. reason[c] = None
    BY <2>2 DEF RowsTell, ReasonFits
  <2>4. QED
    BY <2>2, <2>3 DEF RowsMove, ClaimMoves, ReasonMoves, BarrierStays
<1>4. QED
  BY <1>1, <1>2, <1>3 DEF ClaimNext

\* The operations on guards.
LEMMA GuardRowsMove ==
    ASSUME TypeOK, RowsTell, GuardNext
    PROVE  RowsMove
<1>1. ASSUME UNCHANGED <<state, reason, claim, replacement>>
      PROVE  RowsMove
  BY <1>1 DEF RowsMove, ClaimMoves, ReasonMoves, BarrierStays
<1>2. ASSUME NEW g, NEW c, NEW w, NEW e, NEW ks, NEW b, NEW t, NEW ttl, NEW lease,
             IssueGuard(g, c, w, e, ks, b, t, ttl, lease)
      PROVE  RowsMove
  BY <1>1, <1>2 DEF IssueGuard, commitmentVars, topologyVars
<1>3. ASSUME NEW g, NEW a, NEW d, NEW t, AdmitGuard(g, a, d, t)
      PROVE  RowsMove
  BY <1>1, <1>3 DEF AdmitGuard, topologyVars
<1>4. ASSUME NEW g, NEW w, NEW e, NEW t, NEW lease, InvalidateGuard(g, w, e, t, lease)
      PROVE  RowsMove
  BY <1>1, <1>4 DEF InvalidateGuard, commitmentVars, topologyVars
<1>5. ASSUME NEW g, NEW a, NEW o, NEW d, RecordSafeOutcome(g, a, o, d)
      PROVE  RowsMove
  <2>1. PICK c, st : /\ c = guard[g].commitment
                     /\ st = IF state[c] = "RecoveryPending" THEN "Ready" ELSE state[c]
    OBVIOUS
  <2>2. /\ state' = [state EXCEPT ![c] = st] /\ state[c] \in {"Working", "RecoveryPending"}
        /\ reason' = reason /\ claim' = claim /\ replacement' = replacement
    BY <1>5, <2>1 DEF RecordSafeOutcome, topologyVars
  <2>3. c \in Commitment => reason[c] = None /\ st \in {"Working", "Ready"}
    BY <2>1, <2>2 DEF RowsTell, ReasonFits
  <2>4. QED
    BY <2>2, <2>3 DEF RowsMove, ClaimMoves, ReasonMoves, BarrierStays, TypeOK
<1>6. ASSUME NEW g, NEW a \in Action, NEW d, RecordUncertainOutcome(g, a, d)
      PROVE  RowsMove
  <2>1. PICK c : c = guard[g].commitment
    OBVIOUS
  <2>2. /\ state' = [state EXCEPT ![c] = "Uncertain"] /\ reason' = [reason EXCEPT ![c] = a]
        /\ claim' = [claim EXCEPT ![c] = NoClaim] /\ replacement' = replacement
    BY <1>6, <2>1 DEF RecordUncertainOutcome, topologyVars
  <2>3. QED
    BY <2>2 DEF RowsMove, ClaimMoves, ReasonMoves, BarrierStays, TypeOK
<1>7. QED
  BY <1>2, <1>3, <1>4, <1>5, <1>6 DEF GuardNext

\* The structural proposals.
LEMMA StructuralRowsMove ==
    ASSUME TypeOK, RowsTell, StructuralNext
    PROVE  RowsMove
<1>1. ASSUME NEW c \in Commitment, NEW w, NEW e, NEW b, NEW t, NEW lease,
             NEW children \in SUBSET {d \in Commitment : ~Exists(d)},
             NEW deps \in [children -> Dependencies], NEW r \in children,
             Decompose(c, w, e, b, t, lease, deps, r)
      PROVE  RowsMove
  <2>1. DOMAIN deps = children
    OBVIOUS
  <2>2. /\ state' = [d \in Commitment |-> IF d \in children THEN "Proposed"
                                          ELSE IF d = c THEN "Waiting" ELSE state[d]]
        /\ reason' = [reason EXCEPT ![c] = r]
        /\ replacement' = [replacement EXCEPT ![c] = r]
        /\ claim' = claim /\ state[c] = "Working"
    BY <1>1, <2>1 DEF Decompose
  <2>3. r # None /\ c \notin children
    BY <2>2, IdentifiersAssumption DEF Exists
  <2>4. \A d \in children : reason[d] = None
    BY DEF RowsTell, ReasonFits, Exists
  <2>5. QED
    BY <2>2, <2>3, <2>4 DEF RowsMove, ClaimMoves, ReasonMoves, BarrierStays, TypeOK
<1>2. ASSUME NEW c, NEW w, NEW e, NEW b, NEW t, NEW lease, NEW p,
             AddPrerequisite(c, w, e, b, t, lease, p)
      PROVE  RowsMove
  BY <1>2 DEF AddPrerequisite, RowsMove, ClaimMoves, ReasonMoves, BarrierStays
<1>3. ASSUME NEW c \in Commitment, NEW w, NEW e, NEW b, NEW t, NEW lease,
             AbandonTarget(c, w, e, b, t, lease)
      PROVE  RowsMove
  <2>1. /\ state' = [state EXCEPT ![c] = "Abandoned"] /\ reason' = [reason EXCEPT ![c] = None]
        /\ claim' = [claim EXCEPT ![c] = NoClaim] /\ replacement' = replacement
    BY <1>3 DEF AbandonTarget, topologyVars
  <2>2. QED
    BY <2>1 DEF RowsMove, ClaimMoves, ReasonMoves, BarrierStays, TypeOK
<1>4. QED
  BY <1>1, <1>2, <1>3 DEF StructuralNext

\* Every step moves every row in one of these ways.
LEMMA StepMovesRows ==
    ASSUME TypeOK, RowsTell, [Next]_vars
    PROVE  RowsMove
<1>1. CASE Open
  BY <1>1 DEF Open, RowsMove, ClaimMoves, ReasonMoves, BarrierStays, topologyVars
<1>2. CASE UNCHANGED vars
  BY <1>2 DEF vars, RowsMove, ClaimMoves, ReasonMoves, BarrierStays
<1>3. QED
  BY <1>1, <1>2, CommitmentRowsMove, ClaimRowsMove, GuardRowsMove, StructuralRowsMove DEF Next

\* So the rows go on saying what they said.
LEMMA StepKeepsRows ==
    ASSUME TypeOK, RowsTell, [Next]_vars
    PROVE  RowsTell'
<1>1. RowsMove
  BY StepMovesRows
<1>2. NoClaim.beat \in Instants
  BY BoundsAssumption DEF NoClaim, Instants
<1>3. ASSUME NEW c \in Commitment
      PROVE  /\ claim'[c].beat \in Instants
             /\ claim'[c].worker = None => claim'[c] = NoClaim
  BY <1>1, <1>2 DEF RowsMove, ClaimMoves, RowsTell
<1>4. ASSUME NEW c \in Commitment
      PROVE  ReasonFits(state'[c], reason'[c], replacement'[c])
  BY <1>1 DEF RowsMove, ReasonMoves, BarrierStays, RowsTell, ReasonFits
<1>5. QED
  BY <1>3, <1>4 DEF RowsTell

-----------------------------------------------------------------------------
(* persist_commitment_change from a copy *)

\* A commitment that is completed is not among the parents it completes.
LEMMA CascadeLeavesOut ==
    ASSUME NEW c \in Commitment, replacement[c] = None
    PROVE  c \notin Cascade(c)
<1>1. Cascade(c) \cup {c} \subseteq Commitment
  BY DEF Cascade
<1>2. QED
  BY <1>1, CascadeIsLeast, IdentifiersAssumption

\* Nobody returns to Absent, and a claim is taken in READY only.
LEMMA TransitionTargets ==
    ASSUME NEW from, NEW to, ValidTransition(from, to)
    PROVE  to \in RowStates /\ (to = "Claimed" => from = "Ready")
  BY DEF ValidTransition, RowStates, WaitingStates, TerminalStates, ClaimBearing, Exits

\* Whatever the age of the copy s, the reason it writes is the one that its
\* state calls for: the barrier stops the copy of a waiting parent.
LEMMA PersistedReason ==
    ASSUME NEW cl \in Client, CopiesTell, Persist(cl)
    PROVE  copy[cl].reason \in IF copy[cl].state = "Uncertain" THEN Action ELSE {None}
<1>1. /\ copy[cl].stage = "loaded"
      /\ replacement[copy[cl].id] # None => copy[cl].state \in Exits
  BY DEF Persist, BarrierAllows
<1>2. ReasonFits(copy[cl].state, copy[cl].reason, replacement[copy[cl].id])
  BY <1>1 DEF CopyFits, CopiesTell
<1>3. QED
  BY <1>1, <1>2 DEF ReasonFits, Exits

\* A copy that brings a new claim writes what PersistClaim writes.
LEMMA PersistTakesClaim ==
    ASSUME SnapshotInvariant, NEW cl \in Client, Persist(cl),
           copy[cl].claim.worker # None, claim[copy[cl].id].worker = None
    PROVE  \E c \in Commitment, w \in Worker, t \in Instants : PersistClaim(c, w, t)
<1>1. PICK s, c : s = copy[cl] /\ c = s.id
  OBVIOUS
<1>2. /\ s \in Copy /\ c \in Commitment /\ s.epoch <= MaxEpoch /\ s.claim.beat \in Instants
      /\ TypeOK /\ s.claim \in ClaimRow
  BY <1>1 DEF SnapshotInvariant, SnapshotTypeOK, CopyFits, CopiesTell, Persist, Copy
<1>3. /\ state[c] = "Ready" /\ s.state = "Claimed"
      /\ s.claim.epoch = epoch[c] + 1 /\ s.epoch = epoch[c] + 1
  BY <1>1 DEF Persist, ClaimAcceptable, HasClaim
<1>4. PICK row : row = [s.claim EXCEPT !.boot = boot]
  OBVIOUS
<1>5. /\ action[c] = None
      /\ replacement[c] # None => s.state \in Exits
      /\ ValidTransition(state[c], s.state)
      /\ state' = [d \in Commitment |-> IF d = c THEN s.state ELSE state[d]]
      /\ reason' = [d \in Commitment |-> IF d = c THEN s.reason ELSE reason[d]]
      /\ epoch' = [epoch EXCEPT ![c] = IF @ < s.epoch THEN s.epoch ELSE @]
      /\ action' = [action EXCEPT ![c] = s.action] /\ s.action = None
      /\ prereq' = [prereq EXCEPT ![c] = s.prereq] /\ s.prereq = prereq[c]
      /\ claim' = [d \in Commitment |-> IF d # c THEN claim[d] ELSE row]
      /\ UNCHANGED <<goal, parent, replacement, fenceVars, boot>>
  BY <1>1, <1>3, <1>4 DEF Persist, BarrierAllows
<1>6. reason[c] = None /\ s.reason = None
  BY <1>1, <1>2, <1>3, PersistedReason DEF SnapshotInvariant, RowsTell, ReasonFits
<1>7. PICK w \in Worker, t \in Instants : w = s.claim.worker /\ t = s.claim.beat
  BY <1>1, <1>2 DEF ClaimRow
<1>8. row = [worker |-> w, epoch |-> epoch[c] + 1, beat |-> t, boot |-> boot]
  BY <1>2, <1>3, <1>4, <1>7 DEF ClaimRow
<1>9. /\ Persistable(c, "Claimed") /\ EpochAvailable(c) /\ ~HasClaim(c)
  BY <1>1, <1>2, <1>3, <1>5, BoundsAssumption DEF Persistable, EpochAvailable, HasClaim, TypeOK
<1>10. /\ state' = [state EXCEPT ![c] = "Claimed"] /\ reason' = reason
       /\ claim' = [claim EXCEPT ![c] = row]
  BY <1>2, <1>3, <1>5, <1>6 DEF TypeOK
<1>11. /\ epoch' = [epoch EXCEPT ![c] = epoch[c] + 1]
       /\ action' = action /\ prereq' = prereq
  <2>1. epoch[c] \in Nat /\ epoch[c] < s.epoch
    BY <1>2, <1>3, BoundsAssumption DEF TypeOK
  <2>2. epoch' = [epoch EXCEPT ![c] = epoch[c] + 1]
    BY <1>3, <1>5, <2>1
  <2>3. action' = action /\ prereq' = prereq
    BY <1>2, <1>5 DEF TypeOK
  <2>4. QED
    BY <2>2, <2>3
<1>12. PersistClaim(c, w, t)
  BY <1>5, <1>8, <1>9, <1>10, <1>11 DEF PersistClaim, topologyVars
<1>13. QED
  BY <1>2, <1>7, <1>12

\* Every other copy writes what PersistChange writes: the claim that it carries
\* is the row's, or it carries none.
LEMMA PersistKeepsClaim ==
    ASSUME SnapshotInvariant, NEW cl \in Client, Persist(cl),
           copy[cl].claim.worker = None \/ claim[copy[cl].id].worker # None
    PROVE  \E c \in Commitment, s \in RowStates, r \in Action \cup {None} :
              PersistChange(c, s, r)
<1>1. PICK s, c : s = copy[cl] /\ c = s.id
  OBVIOUS
<1>2. /\ s \in Copy /\ c \in Commitment /\ TypeOK /\ ClaimConsistent(c)
  BY <1>1 DEF SnapshotInvariant, SnapshotTypeOK, CopyFits, CopiesTell, Persist, FenceInvariant,
              CrashIsRecoverable, Recoverable, ClaimsConsistent
<1>3. PICK done : done = IF s.state = "Completed" THEN Cascade(c) ELSE {}
  OBVIOUS
<1>4. PICK row : row = [s.claim EXCEPT !.boot = boot]
  OBVIOUS
<1>5. /\ action[c] = None
      /\ replacement[c] # None => s.state \in Exits
      /\ ValidTransition(state[c], s.state)
      /\ s.state = "Completed" => CascadeSucceeds(c)
      /\ state' = [d \in Commitment |-> IF d \in done THEN "Completed"
                                        ELSE IF d = c THEN s.state ELSE state[d]]
      /\ reason' = [d \in Commitment |-> IF d \in done THEN None
                                         ELSE IF d = c THEN s.reason ELSE reason[d]]
      /\ epoch' = [epoch EXCEPT ![c] = IF @ < s.epoch THEN s.epoch ELSE @]
      /\ action' = [action EXCEPT ![c] = s.action] /\ s.action = None
      /\ prereq' = [prereq EXCEPT ![c] = s.prereq] /\ s.prereq = prereq[c]
      /\ claim' = [d \in Commitment |->
                      IF d \in done THEN NoClaim
                      ELSE IF d # c THEN claim[d]
                      ELSE IF s.claim.worker = None THEN NoClaim ELSE row]
      /\ UNCHANGED <<goal, parent, replacement, fenceVars, boot>>
  BY <1>1, <1>3, <1>4 DEF Persist, BarrierAllows
<1>6. /\ (s.state \in ClaimBearing) <=> (s.claim.worker # None)
      /\ s.claim.worker # None => /\ s.claim = Lease(claim[c]) /\ claim[c].worker # None
                                  /\ claim[c].epoch = epoch[c] /\ s.epoch = epoch[c]
      /\ s.claim.worker = None => s.epoch = epoch[c]
  BY <1>1 DEF Persist, ClaimAcceptable, HasClaim
<1>7. PICK r \in Action \cup {None} :
        r = s.reason /\ r \in IF s.state = "Uncertain" THEN Action ELSE {None}
  BY <1>1, PersistedReason DEF SnapshotInvariant
<1>8. s.claim.worker # None => row = [claim[c] EXCEPT !.boot = boot]
  <2>1. SUFFICES ASSUME s.claim.worker # None PROVE row = [claim[c] EXCEPT !.boot = boot]
    OBVIOUS
  <2>2. claim[c] \in ClaimRow /\ s.claim = [claim[c] EXCEPT !.boot = 0]
    BY <1>2, <1>6, <2>1 DEF TypeOK, Lease
  <2>3. QED
    BY <1>4, <2>2 DEF ClaimRow
<1>9. s.state \in RowStates /\ s.state # "Claimed"
  BY <1>2, <1>5, <1>6, TransitionTargets DEF ClaimConsistent, HasClaim, ClaimBearing
<1>10. /\ Persistable(c, s.state)
       /\ s.state \in ClaimBearing => HasClaim(c)
       /\ HasClaim(c) /\ s.state \in ClaimBearing => claim[c].epoch = epoch[c]
  BY <1>5, <1>6 DEF Persistable, HasClaim
<1>11. epoch' = epoch /\ action' = action /\ prereq' = prereq
  <2>1. epoch[c] \in Int /\ s.epoch = epoch[c] /\ ~(epoch[c] < s.epoch)
    BY <1>2, <1>6, BoundsAssumption DEF TypeOK
  <2>2. epoch' = epoch
    BY <1>2, <1>5, <2>1 DEF TypeOK
  <2>3. action' = action /\ prereq' = prereq
    BY <1>2, <1>5 DEF TypeOK
  <2>4. QED
    BY <2>2, <2>3
<1>12. claim' = [d \in Commitment |->
                    IF d \in done \/ (d = c /\ s.state \notin ClaimBearing)
                    THEN NoClaim
                    ELSE IF d = c THEN [claim[c] EXCEPT !.boot = boot]
                    ELSE claim[d]]
  BY <1>5, <1>6, <1>8
<1>13. PICK to \in RowStates : to = s.state
  BY <1>9
<1>14. PersistChange(c, to, r)
  BY <1>3, <1>5, <1>7, <1>9, <1>10, <1>11, <1>12, <1>13 DEF PersistChange, topologyVars
<1>15. QED
  BY <1>2, <1>13, <1>14

\* Every step of the optimistic interface is a step of FencedStore, or none.
LEMMA SnapshotStepIsStoreStep ==
    ASSUME SnapshotInvariant, [SnapshotNext]_allVars
    PROVE  [Next]_vars
<1>1. ASSUME NEW cl \in Client, Persist(cl) PROVE Next
  BY <1>1, PersistTakesClaim, PersistKeepsClaim DEF Next, CommitmentNext
<1>2. ASSUME NEW cl, \/ \E c \in Commitment : LoadRow(cl, c)
                     \/ LoadClaim(cl) \/ LoadPrerequisites(cl)
                     \/ RereadVersion(cl) \/ Mutate(cl)
      PROVE  UNCHANGED vars
  BY <1>2 DEF LoadRow, LoadClaim, LoadPrerequisites, RereadVersion, Mutate
<1>3. ASSUME PersistVersioned \/ ClaimVersioned PROVE Next
  <2>1. PersistVersioned => CommitmentNext
    BY DEF PersistVersioned, CommitmentNext
  <2>2. ClaimVersioned => ClaimNext
    BY DEF ClaimVersioned, ClaimNext
  <2>3. QED
    BY <1>3, <2>1, <2>2 DEF Next
<1>4. ASSUME GuardVersioned PROVE Next
  BY <1>4 DEF GuardVersioned, OutcomeVersioned, Next, GuardNext
<1>5. ASSUME StructuralVersioned PROVE Next
  <2>1. PICK c \in Commitment, w \in Worker, e \in 1 .. MaxEpoch, b \in 0 .. MaxBoot,
             t \in Instants, lease \in LeaseDurations :
          \/ \E children \in SUBSET {d \in Commitment : ~Exists(d)} :
                \E deps \in [children -> Dependencies], r \in children :
                   Decompose(c, w, e, b, t, lease, deps, r) /\ Bump(children \cup {c})
          \/ \E p \in Commitment \cup {None} :
                AddPrerequisite(c, w, e, b, t, lease, p) /\ Bump({c})
          \/ AbandonTarget(c, w, e, b, t, lease) /\ Bump({c})
    BY <1>5, Zenon DEF StructuralVersioned
  <2>2. ASSUME NEW children \in SUBSET {d \in Commitment : ~Exists(d)},
               NEW deps \in [children -> Dependencies], NEW r \in children,
               Decompose(c, w, e, b, t, lease, deps, r)
        PROVE  StructuralNext
    BY <2>2, Zenon DEF StructuralNext
  <2>3. ASSUME NEW p \in Commitment \cup {None}, AddPrerequisite(c, w, e, b, t, lease, p)
        PROVE  StructuralNext
    BY <2>3, Zenon DEF StructuralNext
  <2>4. ASSUME AbandonTarget(c, w, e, b, t, lease)
        PROVE  StructuralNext
    BY <2>4, Zenon DEF StructuralNext
  <2>5. QED
    BY <2>1, <2>2, <2>3, <2>4, Zenon DEF Next
<1>6. ASSUME OtherOperation PROVE Next
  BY <1>3, <1>4, <1>5, <1>6 DEF OtherOperation, Next, CommitmentNext
<1>7. CASE UNCHANGED allVars
  BY <1>7 DEF allVars
<1>8. QED
  BY <1>1, <1>2, <1>6, <1>7 DEF SnapshotNext

-----------------------------------------------------------------------------
(* Versions *)

\* A row keeps its version only when its columns stay as they are.
RowVersioned(c) ==
    \/ version'[c] = version[c] + 1
    \/ /\ version'[c] = version[c]
       /\ state'[c] = state[c] /\ reason'[c] = reason[c]
       /\ epoch'[c] = epoch[c] /\ action'[c] = action[c]

RowsVersioned ==
    /\ version' \in [Commitment -> 0 .. MaxVersion]
    /\ \A c \in Commitment : RowVersioned(c)

\* An operation that raises the versions of the rows it writes.
LEMMA BumpVersions ==
    ASSUME SnapshotTypeOK, NEW cs, Bump(cs),
           \A c \in Commitment \ cs : /\ state'[c] = state[c] /\ reason'[c] = reason[c]
                                      /\ epoch'[c] = epoch[c] /\ action'[c] = action[c]
    PROVE  RowsVersioned
<1>1. /\ version' = [c \in Commitment |-> IF c \in cs THEN version[c] + 1 ELSE version[c]]
      /\ \A c \in cs : version[c] < MaxVersion
      /\ version \in [Commitment -> 0 .. MaxVersion]
  BY DEF Bump, SnapshotTypeOK
<1>2. version' \in [Commitment -> 0 .. MaxVersion]
  BY <1>1, VersionBoundAssumption
<1>3. QED
  BY <1>1, <1>2 DEF RowsVersioned, RowVersioned

\* One that writes no commitment row.
LEMMA NothingVersioned ==
    ASSUME SnapshotTypeOK, UNCHANGED <<state, reason, epoch, action, version>>
    PROVE  RowsVersioned
  BY DEF RowsVersioned, RowVersioned, SnapshotTypeOK

\* A completion writes the row and the parents that wait behind it.
LEMMA RewrittenRows ==
    ASSUME NEW c \in Commitment, NEW s, NEW done,
           done = IF s = "Completed" THEN Cascade(c) ELSE {}
    PROVE  Rewritten(c, s) = {c} \cup done
  BY DEF Rewritten

\* insert_commitment and the writes of other callers.
LEMMA WritesVersioned ==
    ASSUME SnapshotTypeOK,
           \/ \E c \in Commitment, gl \in Goal, p \in NewParents \cup {None},
                 deps \in Dependencies : InsertCommitment(c, gl, p, deps) /\ Bump({c})
           \/ PersistVersioned
    PROVE  RowsVersioned
<1>1. TypeOK
  BY DEF SnapshotTypeOK
<1>2. ASSUME NEW c \in Commitment, NEW gl, NEW p, NEW deps,
             InsertCommitment(c, gl, p, deps), Bump({c})
      PROVE  RowsVersioned
  BY <1>1, <1>2, BumpVersions DEF InsertCommitment, TypeOK
<1>3. ASSUME NEW c \in Commitment, NEW w, NEW t, PersistClaim(c, w, t), Bump({c})
      PROVE  RowsVersioned
  BY <1>1, <1>3, BumpVersions DEF PersistClaim, TypeOK
<1>4. ASSUME NEW c \in Commitment, NEW s, NEW r, PersistChange(c, s, r), Bump(Rewritten(c, s))
      PROVE  RowsVersioned
  <2>1. PICK done : done = IF s = "Completed" THEN Cascade(c) ELSE {}
    OBVIOUS
  <2>2. PICK cs : cs = {c} \cup done /\ cs = Rewritten(c, s)
    BY <2>1, RewrittenRows
  <2>3. Bump(cs)
    BY <1>4, <2>2 DEF Bump
  <2>4. \A d \in Commitment \ cs : /\ state'[d] = state[d] /\ reason'[d] = reason[d]
                                   /\ epoch'[d] = epoch[d] /\ action'[d] = action[d]
    BY <1>4, <2>1, <2>2 DEF PersistChange
  <2>5. QED
    BY <2>3, <2>4, BumpVersions
<1>5. QED
  BY <1>2, <1>3, <1>4 DEF PersistVersioned

\* Heartbeats, sweeps and recoveries.
LEMMA ClaimsVersioned ==
    ASSUME SnapshotTypeOK, ClaimVersioned
    PROVE  RowsVersioned
<1>1. ASSUME NEW c, NEW w, NEW e, NEW t, NEW lease, RecordHeartbeat(c, w, e, t, lease),
             UNCHANGED version
      PROVE  RowsVersioned
  BY <1>1, NothingVersioned DEF RecordHeartbeat
<1>2. ASSUME NEW t, NEW lease, ProcessExpiredClaims(t, lease),
             Bump({c \in Commitment : HasClaim(c) /\ ~LeaseLive(c, lease, t)})
      PROVE  RowsVersioned
  <2>1. PICK cs : cs = {c \in Commitment : HasClaim(c) /\ ~LeaseLive(c, lease, t)}
    OBVIOUS
  <2>2. Bump(cs)
    BY <1>2, <2>1 DEF Bump
  <2>3. \A d \in Commitment \ cs : /\ state'[d] = state[d] /\ reason'[d] = reason[d]
                                   /\ epoch'[d] = epoch[d] /\ action'[d] = action[d]
    BY <1>2, <2>1 DEF ProcessExpiredClaims
  <2>4. QED
    BY <2>2, <2>3, BumpVersions
<1>3. ASSUME NEW c \in Commitment, RecoverWithoutAction(c),
             Bump(IF replacement[c] = None THEN {c} ELSE Cascade(replacement[c]))
      PROVE  RowsVersioned
  <2>1. PICK done : done = IF replacement[c] # None THEN Cascade(replacement[c]) ELSE {}
    OBVIOUS
  <2>2. PICK cs : cs = IF replacement[c] = None THEN {c} ELSE Cascade(replacement[c])
    OBVIOUS
  <2>3. Bump(cs)
    BY <1>3, <2>2 DEF Bump
  <2>4. c \in cs
    <3>1. CASE replacement[c] = None
      BY <2>2, <3>1
    <3>2. CASE replacement[c] # None
      <4>1. state[c] \notin TerminalStates
        BY <1>3 DEF RecoverWithoutAction, TerminalStates
      <4>2. PICK r : r = replacement[c]
        OBVIOUS
      <4>3. c \in Cascade(r)
        BY <4>1, <4>2, CascadeIsClosed
      <4>4. QED
        BY <2>2, <3>2, <4>2, <4>3
    <3>3. QED
      BY <3>1, <3>2
  <2>5. done \subseteq cs
    BY <2>1, <2>2
  <2>6. /\ state' = [d \in Commitment |-> IF d \in done THEN "Completed"
                                          ELSE IF d = c THEN "Ready" ELSE state[d]]
        /\ reason' = [d \in Commitment |-> IF d \in done THEN None ELSE reason[d]]
        /\ epoch' = epoch /\ action' = action
    BY <1>3, <2>1 DEF RecoverWithoutAction
  <2>7. \A d \in Commitment \ cs : /\ state'[d] = state[d] /\ reason'[d] = reason[d]
                                   /\ epoch'[d] = epoch[d] /\ action'[d] = action[d]
    BY <2>4, <2>5, <2>6
  <2>8. QED
    BY <2>3, <2>7, BumpVersions
<1>4. QED
  BY <1>1, <1>2, <1>3 DEF ClaimVersioned

\* Guards and outcomes.
LEMMA GuardsVersioned ==
    ASSUME SnapshotTypeOK, GuardVersioned
    PROVE  RowsVersioned
<1>1. TypeOK
  BY DEF SnapshotTypeOK
<1>2. ASSUME NEW g, NEW c, NEW w, NEW e, NEW ks, NEW b, NEW t, NEW ttl, NEW lease,
             IssueGuard(g, c, w, e, ks, b, t, ttl, lease), UNCHANGED version
      PROVE  RowsVersioned
  BY <1>2, NothingVersioned DEF IssueGuard, commitmentVars
<1>3. ASSUME NEW g, NEW w, NEW e, NEW t, NEW lease, InvalidateGuard(g, w, e, t, lease),
             UNCHANGED version
      PROVE  RowsVersioned
  BY <1>3, NothingVersioned DEF InvalidateGuard, commitmentVars
<1>4. ASSUME NEW g, NEW a, NEW d, NEW t, AdmitGuard(g, a, d, t), Bump({guard[g].commitment})
      PROVE  RowsVersioned
  <2>1. PICK c, cs : c = guard[g].commitment /\ cs = {c}
    OBVIOUS
  <2>2. Bump(cs)
    BY <1>4, <2>1 DEF Bump
  <2>3. action' = [action EXCEPT ![c] = a] /\ UNCHANGED <<state, reason, epoch>>
    BY <1>4, <2>1 DEF AdmitGuard
  <2>4. QED
    BY <1>1, <2>1, <2>2, <2>3, BumpVersions DEF TypeOK
<1>5. ASSUME NEW g, NEW a, NEW o, NEW d, RecordSafeOutcome(g, a, o, d),
             Bump({guard[g].commitment})
      PROVE  RowsVersioned
  <2>1. PICK c, cs : c = guard[g].commitment /\ cs = {c}
    OBVIOUS
  <2>2. Bump(cs)
    BY <1>5, <2>1 DEF Bump
  <2>3. PICK st : st = IF state[c] = "RecoveryPending" THEN "Ready" ELSE state[c]
    OBVIOUS
  <2>4. /\ action' = [action EXCEPT ![c] = None] /\ state' = [state EXCEPT ![c] = st]
        /\ UNCHANGED <<reason, epoch>>
    BY <1>5, <2>1, <2>3 DEF RecordSafeOutcome
  <2>5. QED
    BY <1>1, <2>1, <2>2, <2>4, BumpVersions DEF TypeOK
<1>6. ASSUME NEW g, NEW a, NEW d, RecordUncertainOutcome(g, a, d), Bump({guard[g].commitment})
      PROVE  RowsVersioned
  <2>1. PICK c, cs : c = guard[g].commitment /\ cs = {c}
    OBVIOUS
  <2>2. Bump(cs)
    BY <1>6, <2>1 DEF Bump
  <2>3. /\ state' = [state EXCEPT ![c] = "Uncertain"] /\ reason' = [reason EXCEPT ![c] = a]
        /\ UNCHANGED <<epoch, action>>
    BY <1>6, <2>1 DEF RecordUncertainOutcome
  <2>4. QED
    BY <1>1, <2>1, <2>2, <2>3, BumpVersions DEF TypeOK
<1>7. OutcomeVersioned => RowsVersioned
  BY <1>5, <1>6 DEF OutcomeVersioned
<1>8. QED
  BY <1>2, <1>3, <1>4, <1>7 DEF GuardVersioned

\* Structural proposals.
LEMMA ProposalsVersioned ==
    ASSUME SnapshotTypeOK, StructuralVersioned
    PROVE  RowsVersioned
<1>1. TypeOK
  BY DEF SnapshotTypeOK
<1>2. ASSUME NEW c \in Commitment, NEW w, NEW e, NEW b, NEW t, NEW lease,
             NEW children, NEW deps \in [children -> Dependencies], NEW r,
             Decompose(c, w, e, b, t, lease, deps, r), Bump(children \cup {c})
      PROVE  RowsVersioned
  <2>1. DOMAIN deps = children
    OBVIOUS
  <2>2. /\ state' = [d \in Commitment |-> IF d \in children THEN "Proposed"
                                          ELSE IF d = c THEN "Waiting" ELSE state[d]]
        /\ reason' = [reason EXCEPT ![c] = r]
        /\ epoch' = epoch /\ action' = action
    BY <1>2, <2>1 DEF Decompose, StructuralFence
  <2>3. \A d \in Commitment \ (children \cup {c}) :
            /\ state'[d] = state[d] /\ reason'[d] = reason[d]
            /\ epoch'[d] = epoch[d] /\ action'[d] = action[d]
    BY <1>1, <2>2 DEF TypeOK
  <2>4. QED
    BY <1>2, <2>3, BumpVersions
<1>3. ASSUME NEW c \in Commitment, NEW w, NEW e, NEW b, NEW t, NEW lease, NEW p,
             AddPrerequisite(c, w, e, b, t, lease, p), Bump({c})
      PROVE  RowsVersioned
  <2>1. UNCHANGED <<state, reason, epoch, action>>
    BY <1>3 DEF AddPrerequisite, StructuralFence
  <2>2. QED
    BY <1>3, <2>1, BumpVersions
<1>4. ASSUME NEW c \in Commitment, NEW w, NEW e, NEW b, NEW t, NEW lease,
             AbandonTarget(c, w, e, b, t, lease), Bump({c})
      PROVE  RowsVersioned
  <2>1. /\ state' = [state EXCEPT ![c] = "Abandoned"] /\ reason' = [reason EXCEPT ![c] = None]
        /\ UNCHANGED <<epoch, action>>
    BY <1>4 DEF AbandonTarget, StructuralFence
  <2>2. QED
    BY <1>1, <1>4, <2>1, BumpVersions DEF TypeOK
<1>5. PICK c \in Commitment, w \in Worker, e \in 1 .. MaxEpoch, b \in 0 .. MaxBoot,
           t \in Instants, lease \in LeaseDurations :
        \/ \E children \in SUBSET {d \in Commitment : ~Exists(d)} :
              \E deps \in [children -> Dependencies], r \in children :
                 Decompose(c, w, e, b, t, lease, deps, r) /\ Bump(children \cup {c})
        \/ \E p \in Commitment \cup {None} :
              AddPrerequisite(c, w, e, b, t, lease, p) /\ Bump({c})
        \/ AbandonTarget(c, w, e, b, t, lease) /\ Bump({c})
  BY Zenon DEF StructuralVersioned
<1>6. QED
  BY <1>2, <1>3, <1>4, <1>5, Zenon

\* The write of a copy.
LEMMA PersistedVersion ==
    ASSUME SnapshotTypeOK, CopiesTell, NEW cl \in Client, Persist(cl)
    PROVE  /\ RowsVersioned
           /\ copy[cl].id \in Commitment
           /\ copy[cl].version = version[copy[cl].id]
           /\ version'[copy[cl].id] = copy[cl].version + 1
<1>1. PICK s, c : s = copy[cl] /\ c = s.id
  OBVIOUS
<1>2. c \in Commitment /\ TypeOK
  BY <1>1 DEF CopyFits, CopiesTell, Persist, SnapshotTypeOK
<1>3. PICK done : done = IF s.state = "Completed" THEN Cascade(c) ELSE {}
  OBVIOUS
<1>4. PICK cs : cs = {c} \cup done /\ cs = Rewritten(c, s.state)
  BY <1>2, <1>3, RewrittenRows
<1>5. /\ Bump(cs) /\ s.version = version[c]
  BY <1>1, <1>4 DEF Persist, Bump, VersionCurrent
<1>6. /\ state' = [d \in Commitment |-> IF d \in done THEN "Completed"
                                        ELSE IF d = c THEN s.state ELSE state[d]]
      /\ reason' = [d \in Commitment |-> IF d \in done THEN None
                                         ELSE IF d = c THEN s.reason ELSE reason[d]]
      /\ epoch' = [epoch EXCEPT ![c] = IF @ < s.epoch THEN s.epoch ELSE @]
      /\ action' = [action EXCEPT ![c] = s.action]
  BY <1>1, <1>3 DEF Persist
<1>7. \A d \in Commitment \ cs : /\ state'[d] = state[d] /\ reason'[d] = reason[d]
                                 /\ epoch'[d] = epoch[d] /\ action'[d] = action[d]
  BY <1>2, <1>4, <1>6 DEF TypeOK
<1>8. RowsVersioned
  BY <1>5, <1>7, BumpVersions
<1>9. version'[c] = version[c] + 1
  BY <1>2, <1>4, <1>5 DEF Bump
<1>10. QED
  BY <1>1, <1>2, <1>5, <1>8, <1>9

\* Every operation that changes a row raises its version.
LEMMA StepVersions ==
    ASSUME SnapshotTypeOK, CopiesTell, [SnapshotNext]_allVars
    PROVE  RowsVersioned
<1>1. ASSUME NEW cl, \/ \E c \in Commitment : LoadRow(cl, c)
                     \/ LoadClaim(cl) \/ LoadPrerequisites(cl)
                     \/ RereadVersion(cl) \/ Mutate(cl)
      PROVE  UNCHANGED <<vars, version>>
  BY <1>1 DEF LoadRow, LoadClaim, LoadPrerequisites, RereadVersion, Mutate
<1>2. ASSUME UNCHANGED <<vars, version>> PROVE RowsVersioned
  BY <1>2, NothingVersioned DEF vars
<1>3. ASSUME Open, Bump({c \in Commitment : HasClaim(c)}) PROVE RowsVersioned
  <2>1. PICK cs : cs = {c \in Commitment : HasClaim(c)}
    OBVIOUS
  <2>2. Bump(cs)
    BY <1>3, <2>1 DEF Bump
  <2>3. \A d \in Commitment \ cs : /\ state'[d] = state[d] /\ reason'[d] = reason[d]
                                   /\ epoch'[d] = epoch[d] /\ action'[d] = action[d]
    BY <1>3, <2>1 DEF Open
  <2>4. QED
    BY <2>2, <2>3, BumpVersions
<1>4. CASE OtherOperation
  BY <1>3, <1>4, WritesVersioned, ClaimsVersioned, GuardsVersioned, ProposalsVersioned
     DEF OtherOperation
<1>5. CASE UNCHANGED allVars
  BY <1>2, <1>5 DEF allVars
<1>6. QED
  BY <1>1, <1>2, <1>4, <1>5, PersistedVersion DEF SnapshotNext

-----------------------------------------------------------------------------
(* Copies *)

\* What is wanted of a copy after a step.
SeenNow(s) ==
    s.stage # "none" /\ s.paired /\ s.version = version'[s.id] =>
        s.seen = [state |-> state'[s.id], reason |-> reason'[s.id],
                  epoch |-> epoch'[s.id], action |-> action'[s.id]]
GoodCopy(s) == s \in Copy /\ CopyFits(s, version', replacement') /\ SeenNow(s)

\* Good copies are all that the invariant asks for.
LEMMA GoodCopiesKeep ==
    ASSUME copy' \in [Client -> Copy],
           \A cl \in Client : \E s : s = copy'[cl] /\ GoodCopy(s)
    PROVE  CopiesTell' /\ VersionIdentifiesRow'
<1>1. ASSUME NEW cl \in Client
      PROVE  /\ CopyFits(copy'[cl], version', replacement')
             /\ copy'[cl].stage # "none" /\ copy'[cl].paired
                /\ copy'[cl].version = version'[copy'[cl].id] =>
                  copy'[cl].seen = [state |-> state'[copy'[cl].id],
                                    reason |-> reason'[copy'[cl].id],
                                    epoch |-> epoch'[copy'[cl].id],
                                    action |-> action'[copy'[cl].id]]
  <2>1. PICK s : s = copy'[cl] /\ GoodCopy(s)
    OBVIOUS
  <2>2. QED
    BY <2>1 DEF GoodCopy, SeenNow
<1>2. CopiesTell'
  BY <1>1 DEF CopiesTell
<1>3. VersionIdentifiesRow'
  BY <1>1 DEF VersionIdentifiesRow, CurrentRow
<1>4. QED
  BY <1>2, <1>3

\* A copy nobody touches stays good while the store goes on.
LEMMA UntouchedCopy ==
    ASSUME SnapshotInvariant, RowsMove, RowsVersioned, NEW cl \in Client, NEW s, s = copy[cl]
    PROVE  GoodCopy(s)
<1>1. s \in Copy /\ version \in [Commitment -> 0 .. MaxVersion]
  BY DEF SnapshotInvariant, SnapshotTypeOK
<1>2. SUFFICES ASSUME s.stage # "none"
               PROVE  CopyFits(s, version', replacement') /\ SeenNow(s)
  BY <1>1 DEF GoodCopy, CopyFits, SeenNow
<1>3. PICK c \in Commitment : c = s.id
  BY <1>2 DEF SnapshotInvariant, CopiesTell, CopyFits
<1>4. /\ s.version <= version[c] /\ s.epoch <= MaxEpoch /\ s.claim.beat \in Instants
      /\ ReasonFits(s.state, s.reason, replacement[c])
      /\ s.paired /\ s.version = version[c] => s.seen = CurrentRow(c)
  BY <1>2, <1>3 DEF SnapshotInvariant, CopiesTell, CopyFits, VersionIdentifiesRow
<1>5. RowVersioned(c) /\ BarrierStays(c)
  BY DEF RowsVersioned, RowsMove
<1>6. version[c] \in Nat /\ s.version \in Nat
  BY <1>1, VersionBoundAssumption DEF Copy
<1>7. s.version <= version'[c] /\ (s.version = version'[c] => /\ s.version = version[c]
                                                              /\ state'[c] = state[c]
                                                              /\ reason'[c] = reason[c]
                                                              /\ epoch'[c] = epoch[c]
                                                              /\ action'[c] = action[c])
  BY <1>4, <1>5, <1>6 DEF RowVersioned
<1>8. ReasonFits(s.state, s.reason, replacement'[c])
  BY <1>4, <1>5 DEF ReasonFits, BarrierStays
<1>9. SeenNow(s)
  BY <1>3, <1>4, <1>7 DEF SeenNow, CurrentRow
<1>10. QED
  BY <1>3, <1>4, <1>7, <1>8, <1>9 DEF CopyFits

\* One client takes a new copy, the others keep theirs.
LEMMA OneCopyChanges ==
    ASSUME SnapshotInvariant, RowsMove, RowsVersioned, NEW cl \in Client, NEW s, GoodCopy(s),
           copy' = [copy EXCEPT ![cl] = s]
    PROVE  copy' \in [Client -> Copy] /\ CopiesTell' /\ VersionIdentifiesRow'
<1>1. copy \in [Client -> Copy] /\ s \in Copy
  BY DEF SnapshotInvariant, SnapshotTypeOK, GoodCopy
<1>2. copy' \in [Client -> Copy]
  BY <1>1
<1>3. ASSUME NEW d \in Client PROVE \E u : u = copy'[d] /\ GoodCopy(u)
  <2>1. CASE d = cl
    BY <1>1, <2>1
  <2>2. CASE d # cl
    <3>1. PICK u : u = copy[d]
      OBVIOUS
    <3>2. u = copy'[d] /\ GoodCopy(u)
      BY <1>1, <2>2, <3>1, UntouchedCopy
    <3>3. QED
      BY <3>2
  <2>3. QED
    BY <2>1, <2>2
<1>4. QED
  BY <1>2, <1>3, GoodCopiesKeep

\* Nobody takes a copy.
LEMMA NoCopyChanges ==
    ASSUME SnapshotInvariant, RowsMove, RowsVersioned, copy' = copy
    PROVE  copy' \in [Client -> Copy] /\ CopiesTell' /\ VersionIdentifiesRow'
<1>1. copy' \in [Client -> Copy]
  BY DEF SnapshotInvariant, SnapshotTypeOK
<1>2. ASSUME NEW d \in Client PROVE \E u : u = copy'[d] /\ GoodCopy(u)
  <2>1. PICK u : u = copy[d]
    OBVIOUS
  <2>2. QED
    BY <2>1, UntouchedCopy
<1>3. QED
  BY <1>1, <1>2, GoodCopiesKeep

\* A copy that one knows to be good, read again or worked on: its identity,
\* what was seen of it and its version stay, and what changed can be written.
LEMMA ReworkedCopy ==
    ASSUME NEW s, NEW u \in Copy, GoodCopy(s), s.stage # "none",
           u.id = s.id, u.seen = s.seen, u.version = s.version, u.paired = s.paired,
           u.epoch <= MaxEpoch, u.claim.beat \in Instants,
           \A rep : ReasonFits(s.state, s.reason, rep) => ReasonFits(u.state, u.reason, rep)
    PROVE  GoodCopy(u)
  BY DEF GoodCopy, CopyFits, SeenNow

\* The methods of Commitment change the state, the reason and the claim of a
\* copy, claim_for its epoch as well, and leave a reason that fits.
LEMMA MethodsKeepCopies ==
    ASSUME NEW s \in Copy, s.epoch <= MaxEpoch, s.claim.beat \in Instants,
           NEW u \in ByClaimant(s) \cup ByAnyone(s) \cup ClaimedFor(s)
    PROVE  /\ u \in Copy /\ u.id = s.id /\ u.seen = s.seen /\ u.version = s.version
           /\ u.paired = s.paired /\ u.epoch <= MaxEpoch /\ u.claim.beat \in Instants
           /\ \A rep : ReasonFits(u.state, u.reason, rep)
<1>1. /\ s.epoch \in Nat /\ s.claim \in ClaimRow /\ NoClaim \in ClaimRow
      /\ NoClaim.beat \in Instants /\ \A t \in Instants : t \in Nat
  BY BoundsAssumption DEF Copy, NoClaim, ClaimRow, Instants
<1>2. ASSUME NEW to \in CommitmentState \ {"Uncertain"}, NEW row \in {s.claim, NoClaim},
             u = [s EXCEPT !.state = to, !.reason = None, !.claim = row]
      PROVE  /\ u \in Copy /\ u.id = s.id /\ u.seen = s.seen /\ u.version = s.version
             /\ u.paired = s.paired /\ u.epoch <= MaxEpoch /\ u.claim.beat \in Instants
             /\ \A rep : ReasonFits(u.state, u.reason, rep)
  <2>1. row \in ClaimRow /\ row.beat \in Instants
    BY <1>1
  <2>2. QED
    BY <1>2, <2>1 DEF Copy, ReasonFits
<1>3. ASSUME NEW a \in Action,
             u = [s EXCEPT !.state = "Uncertain", !.reason = a, !.claim = NoClaim]
      PROVE  /\ u \in Copy /\ u.id = s.id /\ u.seen = s.seen /\ u.version = s.version
             /\ u.paired = s.paired /\ u.epoch <= MaxEpoch /\ u.claim.beat \in Instants
             /\ \A rep : ReasonFits(u.state, u.reason, rep)
  <2>1. "Uncertain" \in CommitmentState
    BY DEF CommitmentState, RowStates, WaitingStates
  <2>2. QED
    BY <1>1, <1>3, <2>1 DEF Copy, ReasonFits
<1>4. ASSUME NEW w \in Worker, NEW t \in Instants, s.epoch < MaxEpoch,
             u = [s EXCEPT !.state = "Claimed", !.reason = None, !.epoch = s.epoch + 1,
                           !.claim = [worker |-> w, epoch |-> s.epoch + 1, beat |-> t,
                                      boot |-> 0]]
      PROVE  /\ u \in Copy /\ u.id = s.id /\ u.seen = s.seen /\ u.version = s.version
             /\ u.paired = s.paired /\ u.epoch <= MaxEpoch /\ u.claim.beat \in Instants
             /\ \A rep : ReasonFits(u.state, u.reason, rep)
  <2>1. PICK row : row = [worker |-> w, epoch |-> s.epoch + 1, beat |-> t, boot |-> 0]
    OBVIOUS
  <2>2. row \in ClaimRow /\ row.beat = t
    BY <1>1, <2>1 DEF ClaimRow
  <2>3. "Claimed" \in CommitmentState
    BY DEF CommitmentState, RowStates, ClaimBearing
  <2>4. u = [s EXCEPT !.state = "Claimed", !.reason = None, !.epoch = s.epoch + 1, !.claim = row]
    BY <1>4, <2>1
  <2>5. s.epoch + 1 \in Nat /\ s.epoch + 1 <= MaxEpoch
    BY <1>1, <1>4, BoundsAssumption
  <2>6. QED
    BY <2>2, <2>3, <2>4, <2>5 DEF Copy, ReasonFits
<1>5. CASE u \in ByClaimant(s)
  <2>1. \/ \E to \in {"Working", "Waiting", "CompletionProposed"} :
              u = [s EXCEPT !.state = to, !.reason = None]
        \/ \E to \in {"Ready", "Completed"} :
              u = [s EXCEPT !.state = to, !.reason = None, !.claim = NoClaim]
        \/ \E a \in Action : u = [s EXCEPT !.state = "Uncertain", !.reason = a, !.claim = NoClaim]
    BY <1>5 DEF ByClaimant
  <2>2. \A to \in CommitmentState \ {"Uncertain"} :
          [s EXCEPT !.state = to, !.reason = None] =
              [s EXCEPT !.state = to, !.reason = None, !.claim = s.claim]
    BY DEF Copy
  <2>3. {"Working", "Waiting", "CompletionProposed", "Ready", "Completed"}
            \subseteq CommitmentState \ {"Uncertain"}
    BY DEF CommitmentState, RowStates, WaitingStates, TerminalStates, ClaimBearing
  <2>4. CASE \E to \in {"Working", "Waiting", "CompletionProposed"} :
                u = [s EXCEPT !.state = to, !.reason = None]
    <3>1. PICK to \in CommitmentState \ {"Uncertain"} :
            u = [s EXCEPT !.state = to, !.reason = None]
      BY <2>3, <2>4, Zenon
    <3>2. u = [s EXCEPT !.state = to, !.reason = None, !.claim = s.claim]
      BY <2>2, <3>1, Zenon
    <3>3. QED
      BY <1>2, <3>2, Zenon
  <2>5. CASE \E to \in {"Ready", "Completed"} :
                u = [s EXCEPT !.state = to, !.reason = None, !.claim = NoClaim]
    <3>1. PICK to \in CommitmentState \ {"Uncertain"} :
            u = [s EXCEPT !.state = to, !.reason = None, !.claim = NoClaim]
      BY <2>3, <2>5, Zenon
    <3>2. QED
      BY <1>2, <3>1, Zenon
  <2>6. QED
    BY <1>3, <2>1, <2>4, <2>5, Zenon
<1>6. CASE u \in ByAnyone(s)
  <2>1. PICK to \in {"Ready"} \cup Exits :
          u = [s EXCEPT !.state = to, !.reason = None,
                        !.claim = IF to = "Ready" THEN @ ELSE NoClaim]
    BY <1>6 DEF ByAnyone
  <2>2. PICK row \in {s.claim, NoClaim} : row = IF to = "Ready" THEN s.claim ELSE NoClaim
    OBVIOUS
  <2>3. u = [s EXCEPT !.state = to, !.reason = None, !.claim = row]
    BY <2>1, <2>2 DEF Copy
  <2>4. to \in CommitmentState \ {"Uncertain"}
    BY DEF CommitmentState, RowStates, WaitingStates, TerminalStates, ClaimBearing, Exits
  <2>5. QED
    BY <1>2, <2>3, <2>4
<1>7. CASE u \in ClaimedFor(s)
  <2>1. PICK w \in Worker, t \in Instants : s.epoch < MaxEpoch /\ u = ClaimFor(s, w, t)
    BY <1>7 DEF ClaimedFor
  <2>2. QED
    BY <1>4, <2>1 DEF ClaimFor
<1>8. QED
  BY <1>5, <1>6, <1>7

\* The first SELECT of load_commitment.
LEMMA LoadedRow ==
    ASSUME SnapshotInvariant, RowsMove, RowsVersioned, NEW cl \in Client, NEW c \in Commitment,
           LoadRow(cl, c)
    PROVE  copy' \in [Client -> Copy] /\ CopiesTell' /\ VersionIdentifiesRow'
<1>1. PICK seen : seen = CurrentRow(c)
  OBVIOUS
<1>2. PICK u : u = [stage |-> "row", id |-> c, version |-> version[c], paired |-> TRUE,
                    seen |-> seen, state |-> state[c], reason |-> reason[c],
                    epoch |-> epoch[c], action |-> action[c], claim |-> NoClaim,
                    prereq |-> {}]
  OBVIOUS
<1>3. copy' = [copy EXCEPT ![cl] = u] /\ UNCHANGED <<vars, version>>
  BY <1>1, <1>2 DEF LoadRow
<1>4. /\ state[c] \in CommitmentState /\ reason[c] \in Action \cup Commitment \cup {None}
      /\ epoch[c] \in 0 .. MaxEpoch /\ action[c] \in Action \cup {None}
      /\ version[c] \in 0 .. MaxVersion /\ ReasonFits(state[c], reason[c], replacement[c])
  BY DEF SnapshotInvariant, SnapshotTypeOK, TypeOK, RowsTell
<1>5. epoch[c] \in Nat /\ epoch[c] <= MaxEpoch /\ version[c] \in Nat
  BY <1>4, BoundsAssumption, VersionBoundAssumption
<1>6. seen \in SeenRow
  BY <1>1, <1>4, <1>5 DEF CurrentRow, SeenRow
<1>7. NoClaim \in ClaimRow /\ NoClaim.beat \in Instants
  BY BoundsAssumption DEF NoClaim, ClaimRow, Instants
<1>8. u \in Copy
  BY <1>2, <1>4, <1>5, <1>6, <1>7 DEF Copy
<1>9. CopyFits(u, version', replacement')
  BY <1>2, <1>3, <1>4, <1>5, <1>7 DEF CopyFits, vars
<1>10. SeenNow(u)
  BY <1>1, <1>2, <1>3 DEF SeenNow, CurrentRow, vars
<1>11. GoodCopy(u)
  BY <1>8, <1>9, <1>10 DEF GoodCopy
<1>12. QED
  BY <1>3, <1>11, OneCopyChanges

\* The other SELECTs, a second look at the version and the methods.
LEMMA ReworkedCopies ==
    ASSUME SnapshotInvariant, RowsMove, RowsVersioned, NEW cl \in Client,
           LoadClaim(cl) \/ LoadPrerequisites(cl) \/ RereadVersion(cl) \/ Mutate(cl)
    PROVE  copy' \in [Client -> Copy] /\ CopiesTell' /\ VersionIdentifiesRow'
<1>1. PICK s : s = copy[cl]
  OBVIOUS
<1>2. /\ s \in Copy /\ GoodCopy(s) /\ s.stage # "none"
  BY <1>1, UntouchedCopy DEF SnapshotInvariant, SnapshotTypeOK, LoadClaim, LoadPrerequisites,
                             RereadVersion, Mutate
<1>3. /\ copy \in [Client -> Copy] /\ s.id \in Commitment
      /\ s.epoch <= MaxEpoch /\ s.claim.beat \in Instants /\ s.claim \in ClaimRow
      /\ CopyFits(s, version, replacement)
  BY <1>1, <1>2 DEF SnapshotInvariant, SnapshotTypeOK, CopiesTell, CopyFits, Copy
<1>4. CASE LoadClaim(cl)
  <2>1. PICK row : row = Lease(claim[s.id])
    OBVIOUS
  <2>2. row \in ClaimRow /\ row.beat \in Instants
    <3>1. claim[s.id] \in ClaimRow /\ claim[s.id].beat \in Instants
      BY <1>3 DEF SnapshotInvariant, SnapshotTypeOK, TypeOK, RowsTell
    <3>2. QED
      BY <2>1, <3>1 DEF Lease, ClaimRow
  <2>3. PICK u : /\ u = [s EXCEPT !.stage = "claim", !.claim = row] \/ u = NoCopy
                 /\ copy' = [copy EXCEPT ![cl] = u]
    BY <1>1, <1>4, <2>1 DEF LoadClaim
  <2>4. CASE u = [s EXCEPT !.stage = "claim", !.claim = row]
    <3>1. /\ u \in Copy /\ u.id = s.id /\ u.seen = s.seen /\ u.version = s.version
          /\ u.paired = s.paired /\ u.epoch = s.epoch /\ u.claim = row
          /\ u.state = s.state /\ u.reason = s.reason
      BY <1>2, <2>2, <2>4 DEF Copy
    <3>2. GoodCopy(u)
      BY <1>2, <1>3, <2>2, <3>1, ReworkedCopy
    <3>3. QED
      BY <2>3, <3>2, OneCopyChanges
  <2>5. CASE u = NoCopy
    <3>1. u \in Copy /\ u.stage = "none"
      <4>1. NoClaim \in ClaimRow /\ "Absent" \in CommitmentState
        BY DEF NoClaim, ClaimRow, CommitmentState
      <4>2. [state |-> "Absent", reason |-> None, epoch |-> 0, action |-> None] \in SeenRow
        BY <4>1 DEF SeenRow
      <4>3. QED
        BY <2>5, <4>1, <4>2 DEF NoCopy, Copy
    <3>2. GoodCopy(u)
      BY <3>1 DEF GoodCopy, CopyFits, SeenNow
    <3>3. QED
      BY <2>3, <3>2, OneCopyChanges
  <2>6. QED
    BY <2>3, <2>4, <2>5
<1>5. CASE LoadPrerequisites(cl)
  <2>1. PICK ps : ps = prereq[s.id]
    OBVIOUS
  <2>2. PICK u : u = [s EXCEPT !.stage = "loaded", !.prereq = ps]
    OBVIOUS
  <2>3. ps \in SUBSET Commitment
    BY <1>3, <2>1 DEF SnapshotInvariant, SnapshotTypeOK, TypeOK
  <2>4. copy' = [copy EXCEPT ![cl] = u]
    BY <1>1, <1>2, <1>3, <1>5, <2>1, <2>2 DEF LoadPrerequisites, Copy
  <2>5. /\ u \in Copy /\ u.id = s.id /\ u.seen = s.seen /\ u.version = s.version
        /\ u.paired = s.paired /\ u.epoch = s.epoch /\ u.claim = s.claim
        /\ u.state = s.state /\ u.reason = s.reason
    BY <1>2, <2>2, <2>3 DEF Copy
  <2>6. GoodCopy(u)
    BY <1>2, <1>3, <2>5, ReworkedCopy
  <2>7. QED
    BY <2>4, <2>6, OneCopyChanges
<1>6. CASE RereadVersion(cl)
  <2>1. PICK v : v = version[s.id]
    OBVIOUS
  <2>2. PICK u : u = [s EXCEPT !.version = v, !.paired = FALSE]
    OBVIOUS
  <2>3. v \in Nat /\ v = version'[s.id] /\ v <= version'[s.id]
    BY <1>3, <1>6, <2>1, VersionBoundAssumption
       DEF SnapshotInvariant, SnapshotTypeOK, RereadVersion
  <2>4. copy' = [copy EXCEPT ![cl] = u]
    BY <1>1, <1>2, <1>3, <1>6, <2>1, <2>2 DEF RereadVersion, Copy
  <2>5. /\ u \in Copy /\ u.id = s.id /\ u.version = v /\ ~u.paired
        /\ u.epoch = s.epoch /\ u.claim = s.claim /\ u.state = s.state
        /\ u.reason = s.reason /\ u.stage = s.stage
    BY <1>2, <2>2, <2>3 DEF Copy
  <2>6. GoodCopy(u)
    BY <1>2, <2>3, <2>5 DEF GoodCopy, CopyFits, SeenNow
  <2>7. QED
    BY <2>4, <2>6, OneCopyChanges
<1>7. CASE Mutate(cl)
  <2>1. PICK u \in ByClaimant(s) \cup ByAnyone(s) \cup ClaimedFor(s) :
          copy' = [copy EXCEPT ![cl] = u]
    BY <1>1, <1>7 DEF Mutate
  <2>2. /\ u \in Copy /\ u.id = s.id /\ u.seen = s.seen /\ u.version = s.version
        /\ u.paired = s.paired /\ u.epoch <= MaxEpoch /\ u.claim.beat \in Instants
        /\ \A rep : ReasonFits(u.state, u.reason, rep)
    BY <1>2, <1>3, MethodsKeepCopies
  <2>3. GoodCopy(u)
    BY <1>2, <2>2, ReworkedCopy
  <2>4. QED
    BY <2>1, <2>3, OneCopyChanges
<1>8. QED
  BY <1>4, <1>5, <1>6, <1>7

\* After a write the client knows the row it wrote and its version.
LEMMA PersistedCopy ==
    ASSUME SnapshotInvariant, RowsMove, NEW cl \in Client, Persist(cl)
    PROVE  copy' \in [Client -> Copy] /\ CopiesTell' /\ VersionIdentifiesRow'
<1>1. PICK s, c : s = copy[cl] /\ c = s.id
  OBVIOUS
<1>2. /\ RowsVersioned /\ c \in Commitment /\ s.version = version[c]
      /\ version'[c] = s.version + 1
  BY <1>1, PersistedVersion DEF SnapshotInvariant
<1>3. /\ s \in Copy /\ GoodCopy(s) /\ copy \in [Client -> Copy] /\ TypeOK /\ s.stage = "loaded"
  BY <1>1, <1>2, UntouchedCopy DEF SnapshotInvariant, SnapshotTypeOK, Persist
<1>4. PICK seen : seen = [state |-> s.state, reason |-> s.reason, epoch |-> s.epoch,
                          action |-> s.action]
  OBVIOUS
<1>5. PICK u : u = [s EXCEPT !.version = s.version + 1, !.paired = TRUE, !.seen = seen]
  OBVIOUS
<1>6. copy' = [copy EXCEPT ![cl] = u]
  BY <1>1, <1>3, <1>4, <1>5 DEF Persist, Copy
<1>7. seen \in SeenRow
  BY <1>3, <1>4 DEF Copy, SeenRow
<1>8. /\ u \in Copy /\ u.id = c /\ u.version = version'[c] /\ u.seen = seen
      /\ u.epoch = s.epoch /\ u.claim = s.claim /\ u.state = s.state
      /\ u.reason = s.reason /\ u.stage = s.stage
  <2>1. s.version \in Nat /\ s.version + 1 \in Nat
    BY <1>3 DEF Copy
  <2>2. u \in Copy
    BY <1>3, <1>5, <1>7, <2>1 DEF Copy
  <2>3. /\ u.id = c /\ u.version = s.version + 1 /\ u.seen = seen
        /\ u.epoch = s.epoch /\ u.claim = s.claim /\ u.state = s.state
        /\ u.reason = s.reason /\ u.stage = s.stage
    BY <1>1, <1>3, <1>5 DEF Copy
  <2>4. QED
    BY <1>2, <2>2, <2>3
<1>9. u.version \in Nat /\ u.version <= version'[c]
  BY <1>8 DEF Copy
<1>10. CopyFits(u, version', replacement')
  BY <1>1, <1>3, <1>8, <1>9 DEF GoodCopy, CopyFits
<1>11. c \notin (IF s.state = "Completed" THEN Cascade(c) ELSE {})
  <2>1. replacement[c] # None => s.state \in Exits
    BY <1>1 DEF Persist, BarrierAllows
  <2>2. QED
    BY <1>2, <2>1, CascadeLeavesOut DEF Exits
<1>12. state'[c] = s.state /\ reason'[c] = s.reason /\ action'[c] = s.action
  <2>1. PICK done : done = IF s.state = "Completed" THEN Cascade(c) ELSE {}
    OBVIOUS
  <2>2. /\ state' = [d \in Commitment |-> IF d \in done THEN "Completed"
                                          ELSE IF d = c THEN s.state ELSE state[d]]
        /\ reason' = [d \in Commitment |-> IF d \in done THEN None
                                           ELSE IF d = c THEN s.reason ELSE reason[d]]
        /\ action' = [action EXCEPT ![c] = s.action]
    BY <1>1, <2>1 DEF Persist
  <2>3. QED
    BY <1>2, <1>3, <1>11, <2>1, <2>2 DEF TypeOK
<1>13. epoch'[c] = s.epoch
  <2>1. epoch[c] \in Nat /\ (s.epoch = epoch[c] \/ s.epoch = epoch[c] + 1)
    BY <1>1, <1>2, <1>3, BoundsAssumption DEF TypeOK, Persist, ClaimAcceptable
  <2>2. epoch' = [epoch EXCEPT ![c] = IF @ < s.epoch THEN s.epoch ELSE @]
    BY <1>1 DEF Persist
  <2>3. QED
    BY <1>2, <1>3, <2>1, <2>2 DEF TypeOK
<1>14. SeenNow(u)
  BY <1>4, <1>8, <1>12, <1>13 DEF SeenNow
<1>15. GoodCopy(u)
  BY <1>8, <1>10, <1>14 DEF GoodCopy
<1>16. QED
  BY <1>2, <1>6, <1>15, OneCopyChanges

-----------------------------------------------------------------------------
(* The theorems *)

\* The invariant of the optimistic interface is inductive.
LEMMA SnapshotStep ==
    ASSUME SnapshotInvariant, [SnapshotNext]_allVars
    PROVE  SnapshotInvariant'
<1>1. FenceInvariant /\ SnapshotTypeOK /\ TypeOK /\ RowsTell /\ CopiesTell
  BY DEF SnapshotInvariant, FenceInvariant
<1>2. [Next]_vars
  BY SnapshotStepIsStoreStep
<1>3. FenceInvariant' /\ RowsTell' /\ RowsMove /\ RowsVersioned
  BY <1>1, <1>2, StepKinds, StepKeepsRows, StepMovesRows, StepVersions
<1>4. copy' \in [Client -> Copy] /\ CopiesTell' /\ VersionIdentifiesRow'
  <2>1. ASSUME NEW cl \in Client, \/ \E c \in Commitment : LoadRow(cl, c)
                                  \/ LoadClaim(cl) \/ LoadPrerequisites(cl)
                                  \/ RereadVersion(cl) \/ Mutate(cl) \/ Persist(cl)
        PROVE  copy' \in [Client -> Copy] /\ CopiesTell' /\ VersionIdentifiesRow'
    BY <1>3, <2>1, LoadedRow, ReworkedCopies, PersistedCopy
  <2>2. ASSUME copy' = copy
        PROVE  copy' \in [Client -> Copy] /\ CopiesTell' /\ VersionIdentifiesRow'
    BY <1>3, <2>2, NoCopyChanges
  <2>3. OtherOperation => copy' = copy
    BY DEF OtherOperation
  <2>4. UNCHANGED allVars => copy' = copy
    BY DEF allVars
  <2>5. QED
    BY <2>1, <2>2, <2>3, <2>4 DEF SnapshotNext
<1>5. SnapshotTypeOK'
  BY <1>3, <1>4 DEF SnapshotTypeOK, FenceInvariant, RowsVersioned
<1>6. QED
  BY <1>3, <1>4, <1>5 DEF SnapshotInvariant

\* An empty file and clients without a copy.
LEMMA SnapshotInitially == SnapshotInit => SnapshotInvariant
<1> SUFFICES ASSUME SnapshotInit PROVE SnapshotInvariant
  OBVIOUS
<1>1. FenceInvariant /\ TypeOK
  BY InitFence DEF SnapshotInit, FenceInvariant
<1>2. NoClaim \in ClaimRow /\ NoClaim.beat \in Instants
  BY BoundsAssumption DEF NoClaim, ClaimRow, Instants
<1>3. NoCopy \in Copy /\ NoCopy.stage = "none"
  <2>1. "Absent" \in CommitmentState
    BY DEF CommitmentState
  <2>2. [state |-> "Absent", reason |-> None, epoch |-> 0, action |-> None] \in SeenRow
    BY <2>1 DEF SeenRow
  <2>3. QED
    BY <1>2, <2>1, <2>2 DEF NoCopy, Copy
<1>4. SnapshotTypeOK
  BY <1>1, <1>3, VersionBoundAssumption DEF SnapshotTypeOK, SnapshotInit
<1>5. RowsTell
  BY <1>2 DEF SnapshotInit, Init, RowsTell, ReasonFits
<1>6. CopiesTell /\ VersionIdentifiesRow
  BY <1>3 DEF SnapshotInit, CopiesTell, CopyFits, VersionIdentifiesRow
<1>7. QED
  BY <1>1, <1>4, <1>5, <1>6 DEF SnapshotInvariant

\* Whatever loads, methods, re-read versions and writes the clients interleave,
\* the rows and the copies say what the invariant says.
THEOREM SnapshotIsInvariant == SnapshotSpec => []SnapshotInvariant
<1>1. SnapshotInvariant /\ [SnapshotNext]_allVars => SnapshotInvariant'
  BY SnapshotStep
<1>2. QED
  BY <1>1, SnapshotInitially, PTL DEF SnapshotSpec

\* Every copy is a Commitment and every version one that can be stored.
THEOREM SnapshotTypeCorrectness == SnapshotSpec => []SnapshotTypeOK
<1>1. SnapshotInvariant => SnapshotTypeOK
  BY DEF SnapshotInvariant
<1>2. QED
  BY <1>1, SnapshotIsInvariant, PTL

\* As long as its version stands a row is the one the client has seen: no
\* operation of the store changes it without raising its version.
THEOREM VersionTellsRow == SnapshotSpec => []VersionIdentifiesRow
<1>1. SnapshotInvariant => VersionIdentifiesRow
  BY DEF SnapshotInvariant
<1>2. QED
  BY <1>1, SnapshotIsInvariant, PTL

\* Writes from stale and torn copies, under any version a caller quotes, are
\* writes of FencedStore: all that is proved of it holds for these callers too.
THEOREM CopiesImplementStore == SnapshotSpec => ImplementsFencedStore
<1>1. SnapshotInit => Init
  BY DEF SnapshotInit
<1>2. SnapshotInvariant /\ [SnapshotNext]_allVars => [Next]_vars
  BY SnapshotStepIsStoreStep
<1>3. QED
  BY <1>1, <1>2, SnapshotIsInvariant, PTL DEF SnapshotSpec, ImplementsFencedStore, Spec

\* A write under the version its copy was loaded with overwrites nothing the
\* client has not seen; a heartbeat that came in between survives, or ends with
\* the claim.
THEOREM NoUpdateIsLost == SnapshotSpec => NoLostUpdate
<1>1. ASSUME SnapshotInvariant, NEW cl \in Client, Persist(cl), copy[cl].paired
      PROVE  /\ copy[cl].seen = CurrentRow(copy[cl].id)
             /\ claim'[copy[cl].id].worker = claim[copy[cl].id].worker =>
                    claim'[copy[cl].id].beat = claim[copy[cl].id].beat
  <2>1. PICK s, c : s = copy[cl] /\ c = s.id
    OBVIOUS
  <2>2. s.version = version[c] /\ c \in Commitment /\ s.stage = "loaded" /\ TypeOK
    BY <1>1, <2>1, PersistedVersion DEF SnapshotInvariant, SnapshotTypeOK, Persist
  <2>3. s.seen = CurrentRow(c)
    BY <1>1, <2>1, <2>2 DEF SnapshotInvariant, VersionIdentifiesRow
  <2>4. claim[c].worker = None => claim[c] = NoClaim
    BY <1>1, <2>2 DEF SnapshotInvariant, RowsTell
  <2>5. \/ claim'[c] = NoClaim
        \/ /\ claim'[c] = [s.claim EXCEPT !.boot = boot]
           /\ s.claim.worker # None
    BY <1>1, <2>1, <2>2 DEF Persist
  <2>6. s.claim \in ClaimRow /\ claim[c] \in ClaimRow
    BY <1>1, <2>1, <2>2 DEF SnapshotInvariant, SnapshotTypeOK, TypeOK, Copy
  <2>7. s.claim.worker # None /\ claim[c].worker # None => s.claim = Lease(claim[c])
    BY <1>1, <2>1 DEF Persist, ClaimAcceptable, HasClaim
  <2>8. claim'[c].worker = claim[c].worker => claim'[c].beat = claim[c].beat
    BY <2>4, <2>5, <2>6, <2>7 DEF NoClaim, Lease, ClaimRow
  <2>9. QED
    BY <2>1, <2>3, <2>8
<1>2. ASSUME SnapshotInvariant
      PROVE  [\A cl \in Client :
                LET s == copy[cl]
                IN  Persist(cl) /\ s.paired =>
                      /\ s.seen = CurrentRow(s.id)
                      /\ claim'[s.id].worker = claim[s.id].worker =>
                              claim'[s.id].beat = claim[s.id].beat]_allVars
  BY <1>1, <1>2
<1>3. QED
  BY <1>2, SnapshotIsInvariant, PTL DEF SnapshotSpec, NoLostUpdate
=============================================================================
