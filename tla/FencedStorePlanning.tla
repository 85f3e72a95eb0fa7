------------------------- MODULE FencedStorePlanning -------------------------
(***************************************************************************)
(* The structural topology of the store for every value of the constants:  *)
(* prerequisites without cycles, and composite barriers that hold a parent *)
(* until its replacement is complete and release it then.                  *)
(***************************************************************************)
EXTENDS FencedStoreSteps, FiniteSetTheorems

\* Every set of commitments has a member that waits for no other member, and
\* nothing but the row itself names an identifier without a row.
PrerequisitesOrdered ==
    /\ \A C \in (SUBSET Commitment) \ {{}} : \E c \in C : prereq[c] \cap (C \ {c}) = {}
    /\ \A c \in Commitment : \A d \in prereq[c] \ {c} : Exists(d)

\* A parent behind a barrier: its replacement is its child and pursues its goal,
\* it has no action of its own, it waits for the replacement unless a lease
\* sweep or a restart took the wait away, and the two complete together.
BehindBarrier(p) ==
    LET q == replacement[p]
    IN  /\ Exists(p) /\ q \in Commitment /\ Exists(q)
        /\ parent[q] = p /\ goal[q] = goal[p]
        /\ action[p] = None
        /\ \/ state[p] \in TerminalStates \cup {"RecoveryPending"}
           \/ state[p] = "Waiting" /\ reason[p] = q
        /\ state[p] = "Completed" => state[q] = "Completed"
        /\ state[q] = "Completed" => state[p] \in TerminalStates

BarriersHold == \A p \in Commitment : replacement[p] # None => BehindBarrier(p)

-----------------------------------------------------------------------------
(* The cascade *)

\* The cascade takes in every unfinished parent of what it completes.
LEMMA CascadeIsClosed ==
    ASSUME NEW c, NEW p \in Commitment, replacement[p] \in Cascade(c) \cup {c},
           state[p] \notin TerminalStates
    PROVE  p \in Cascade(c)
<1> DEFINE closed(P) == \A q \in Commitment : (/\ replacement[q] \in P \cup {c}
                                               /\ ParentFate(q) # "skip") => q \in P
<1>1. Cascade(c) = {q \in Commitment : \A P \in SUBSET Commitment : closed(P) => q \in P}
  BY DEF Cascade
<1>2. SUFFICES ASSUME NEW P \in SUBSET Commitment, closed(P) PROVE p \in P
  BY <1>1
<1>3. Cascade(c) \subseteq P
  BY <1>1, <1>2
<1>4. ParentFate(p) # "skip"
  BY DEF ParentFate
<1>5. QED
  BY <1>2, <1>3, <1>4

\* It reaches nothing else: whatever it completes, it completes on account of a
\* replacement that is complete by then.
LEMMA CascadeIsLeast ==
    ASSUME NEW c, NEW p \in Cascade(c)
    PROVE  replacement[p] \in Cascade(c) \cup {c}
<1> DEFINE closed(P) == \A q \in Commitment : (/\ replacement[q] \in P \cup {c}
                                               /\ ParentFate(q) # "skip") => q \in P
           Justified == {q \in Cascade(c) : replacement[q] \in Cascade(c) \cup {c}}
<1>1. Cascade(c) = {q \in Commitment : \A P \in SUBSET Commitment : closed(P) => q \in P}
  BY DEF Cascade
<1>2. Justified \in SUBSET Commitment
  BY <1>1
<1>3. closed(Justified)
  BY CascadeIsClosed DEF ParentFate
<1> HIDE DEF Justified, closed
<1>4. p \in Justified
  BY <1>1, <1>2, <1>3
<1>5. QED
  BY <1>4 DEF Justified

-----------------------------------------------------------------------------
(* What a step does to the states of commitments *)

\* A commitment keeps its state and its wait, or moves on to a state that is
\* not COMPLETED, and from behind a barrier only out of it or into recovery.
MovesOn(c) ==
    \/ state'[c] = state[c] /\ reason'[c] = reason[c]
    \/ /\ state[c] \notin TerminalStates \cup {"Absent"}
       /\ state'[c] \notin {"Completed", "Absent"}
       /\ replacement[c] # None => state'[c] \in Exits \cup {"RecoveryPending"}

\* The step leaves the topology alone and completes nothing.
OrdinaryStep ==
    /\ UNCHANGED topologyVars
    /\ \A c \in Commitment : MovesOn(c) /\ (replacement[c] # None => action'[c] = None)

\* What is known of the states a candidate may have.
LEMMA PersistableStates ==
    ASSUME NEW c, NEW s, Persistable(c, s)
    PROVE  /\ state[c] \notin TerminalStates \cup {"Absent"}
           /\ s # "Absent"
           /\ replacement[c] # None => s \in Exits
  BY DEF Persistable, ValidTransition, TerminalStates, WaitingStates, RowStates,
         ClaimBearing, Exits

\* Every step that neither completes a commitment nor changes the topology.
LEMMA PlanSteps ==
    ASSUME FenceInvariant, BarriersHold, [Next]_vars
    PROVE  \/ OrdinaryStep
           \/ \E c \in Commitment, gl \in Goal, p \in NewParents \cup {None},
                 deps \in Dependencies : InsertCommitment(c, gl, p, deps)
           \/ \E c \in Commitment, r \in Action \cup {None} :
                 PersistChange(c, "Completed", r)
           \/ \E c \in Commitment, w \in Worker, e \in 1 .. MaxEpoch, b \in 0 .. MaxBoot,
                 t \in Instants, lease \in LeaseDurations :
                 \/ \E children \in SUBSET {d \in Commitment : ~Exists(d)} :
                       \E deps \in [children -> Dependencies], r \in children :
                          Decompose(c, w, e, b, t, lease, deps, r)
                 \/ \E p \in Commitment \cup {None} :
                       AddPrerequisite(c, w, e, b, t, lease, p)
<1>1. TypeOK /\ \A c \in Commitment : ClaimConsistent(c)
  BY DEF FenceInvariant, CrashIsRecoverable, Recoverable, ClaimsConsistent
<1>2. \A c \in Commitment : replacement[c] # None =>
         action[c] = None /\ state[c] \in TerminalStates \cup {"RecoveryPending", "Waiting"}
  BY DEF BarriersHold, BehindBarrier
<1>3. ASSUME UNCHANGED topologyVars, action' = action, \A c \in Commitment : MovesOn(c)
      PROVE  OrdinaryStep
  BY <1>2, <1>3 DEF OrdinaryStep
<1>4. ASSUME UNCHANGED topologyVars, action' = action, state' = state, reason' = reason
      PROVE  OrdinaryStep
  BY <1>3, <1>4 DEF MovesOn
<1>5. \A c \in Commitment : HasClaim(c) => state[c] \notin TerminalStates \cup {"Absent"}
  BY <1>1 DEF ClaimConsistent, ClaimBearing, TerminalStates
<1>6. CASE CommitmentNext
  <2>1. ASSUME NEW c \in Commitment, NEW w, NEW t, PersistClaim(c, w, t)
        PROVE  OrdinaryStep
    <3>1. /\ state' = [state EXCEPT ![c] = "Claimed"] /\ Persistable(c, "Claimed")
          /\ UNCHANGED <<reason, action>> /\ UNCHANGED topologyVars
      BY <2>1 DEF PersistClaim
    <3>2. \A d \in Commitment : MovesOn(d)
      BY <1>1, <3>1, PersistableStates DEF MovesOn, TypeOK, Exits
    <3>3. QED
      BY <1>3, <3>1, <3>2
  <2>2. ASSUME NEW c \in Commitment, NEW s \in RowStates \ {"Completed"}, NEW r,
               PersistChange(c, s, r)
        PROVE  OrdinaryStep
    <3>1. /\ \A d \in Commitment : d # c => state'[d] = state[d] /\ reason'[d] = reason[d]
          /\ state'[c] = s /\ Persistable(c, s) /\ action' = action /\ UNCHANGED topologyVars
      BY <2>2 DEF PersistChange
    <3>2. \A d \in Commitment : MovesOn(d)
      BY <3>1, PersistableStates DEF MovesOn
    <3>3. QED
      BY <1>3, <3>1, <3>2
  <2>3. QED
    BY <1>6, <2>1, <2>2 DEF CommitmentNext
<1>7. CASE ClaimNext
  <2>1. ASSUME NEW c, NEW w, NEW e, NEW t, NEW lease, RecordHeartbeat(c, w, e, t, lease)
        PROVE  OrdinaryStep
    BY <1>4, <2>1 DEF RecordHeartbeat
  <2>2. ASSUME NEW t, NEW lease, ProcessExpiredClaims(t, lease)
        PROVE  OrdinaryStep
    <3>1. /\ \A c \in Commitment : \/ state'[c] = state[c] /\ reason'[c] = reason[c]
                                   \/ HasClaim(c) /\ state'[c] = "RecoveryPending"
          /\ action' = action /\ UNCHANGED topologyVars
      BY <2>2 DEF ProcessExpiredClaims
    <3>2. \A c \in Commitment : MovesOn(c)
      BY <1>5, <3>1 DEF MovesOn
    <3>3. QED
      BY <1>3, <3>1, <3>2
  <2>3. ASSUME NEW c \in Commitment, RecoverWithoutAction(c)
        PROVE  OrdinaryStep
    <3>1. replacement[c] = None
      BY <2>3 DEF RecoverWithoutAction, BarriersHold, BehindBarrier, TerminalStates
    <3>2. /\ \A d \in Commitment : d # c => state'[d] = state[d]
          /\ state'[c] = "Ready" /\ state[c] = "RecoveryPending"
          /\ \A d \in Commitment : reason'[d] = reason[d]
          /\ action' = action /\ UNCHANGED topologyVars
      BY <2>3, <3>1 DEF RecoverWithoutAction
    <3>3. \A d \in Commitment : MovesOn(d)
      BY <3>1, <3>2 DEF MovesOn, TerminalStates
    <3>4. QED
      BY <1>3, <3>2, <3>3
  <2>4. QED
    BY <1>7, <2>1, <2>2, <2>3 DEF ClaimNext
<1>8. CASE GuardNext
  <2>1. ASSUME NEW g, NEW c, NEW w, NEW e, NEW ks, NEW b, NEW t, NEW ttl, NEW lease,
               IssueGuard(g, c, w, e, ks, b, t, ttl, lease)
        PROVE  OrdinaryStep
    BY <1>4, <2>1 DEF IssueGuard, commitmentVars
  <2>2. ASSUME NEW g \in Guard, NEW a, NEW d, NEW t, AdmitGuard(g, a, d, t)
        PROVE  OrdinaryStep
    <3> DEFINE c == guard[g].commitment
    <3>1. /\ state[c] = "Working" /\ action' = [action EXCEPT ![c] = a]
          /\ UNCHANGED <<state, reason>> /\ UNCHANGED topologyVars
      BY <2>2 DEF AdmitGuard
    <3>2. \A e \in Commitment : replacement[e] # None => e # c
      BY <1>2, <3>1 DEF TerminalStates
    <3> HIDE DEF c
    <3>3. \A e \in Commitment : replacement[e] # None => action'[e] = None
      BY <1>1, <1>2, <3>1, <3>2 DEF TypeOK
    <3>4. QED
      BY <3>1, <3>3 DEF OrdinaryStep, MovesOn
  <2>3. ASSUME NEW g, NEW w, NEW e, NEW t, NEW lease, InvalidateGuard(g, w, e, t, lease)
        PROVE  OrdinaryStep
    BY <1>4, <2>3 DEF InvalidateGuard, commitmentVars
  <2>4. ASSUME NEW g \in Guard, NEW a \in Action, NEW outcome, NEW d,
               RecordSafeOutcome(g, a, outcome, d)
        PROVE  OrdinaryStep
    <3> DEFINE c == guard[g].commitment
    <3>1. /\ state[c] \in {"Working", "RecoveryPending"} /\ action[c] = a
          /\ action' = [action EXCEPT ![c] = None]
          /\ state' = [state EXCEPT ![c] =
                          IF state[c] = "RecoveryPending" THEN "Ready" ELSE state[c]]
          /\ reason' = reason /\ UNCHANGED topologyVars
      BY <2>4 DEF RecordSafeOutcome
    <3>2. \A e \in Commitment : replacement[e] # None => e # c
      BY <1>2, <3>1, IdentifiersAssumption
    <3> HIDE DEF c
    <3>3. \A e \in Commitment : MovesOn(e)
      BY <1>1, <3>1, <3>2 DEF MovesOn, TerminalStates, TypeOK
    <3>4. \A e \in Commitment : replacement[e] # None => action'[e] = None
      BY <1>1, <1>2, <3>1, <3>2 DEF TypeOK
    <3>5. QED
      BY <3>1, <3>3, <3>4 DEF OrdinaryStep
  <2>5. ASSUME NEW g \in Guard, NEW a \in Action, NEW d, RecordUncertainOutcome(g, a, d)
        PROVE  OrdinaryStep
    <3> DEFINE c == guard[g].commitment
    <3>1. /\ state[c] \in {"Working", "RecoveryPending"} /\ action[c] = a
          /\ state' = [state EXCEPT ![c] = "Uncertain"]
          /\ reason' = [reason EXCEPT ![c] = a]
          /\ action' = action /\ UNCHANGED topologyVars
      BY <2>5 DEF RecordUncertainOutcome
    <3>2. \A e \in Commitment : replacement[e] # None => e # c
      BY <1>2, <3>1, IdentifiersAssumption
    <3> HIDE DEF c
    <3>3. \A e \in Commitment : MovesOn(e)
      BY <1>1, <3>1, <3>2 DEF MovesOn, TerminalStates, TypeOK
    <3>4. QED
      BY <1>3, <3>1, <3>3
  <2>6. QED
    BY <1>8, <2>1, <2>2, <2>3, <2>4, <2>5 DEF GuardNext
<1>9. CASE StructuralNext
  <2>1. ASSUME NEW c \in Commitment, NEW w, NEW e, NEW b, NEW t, NEW lease,
               AbandonTarget(c, w, e, b, t, lease)
        PROVE  OrdinaryStep
    <3>1. /\ state[c] \in ClaimBearing /\ state' = [state EXCEPT ![c] = "Abandoned"]
          /\ reason' = [reason EXCEPT ![c] = None]
          /\ action' = action /\ UNCHANGED topologyVars
      BY <2>1 DEF AbandonTarget, StructuralFence
    <3>2. \A d \in Commitment : MovesOn(d)
      BY <1>1, <3>1 DEF MovesOn, TerminalStates, ClaimBearing, Exits, TypeOK
    <3>3. QED
      BY <1>3, <3>1, <3>2
  <2>2. QED
    BY <1>9, <2>1 DEF StructuralNext
<1>10. CASE Open
  <2>1. /\ \A c \in Commitment : \/ state'[c] = state[c] /\ reason'[c] = reason[c]
                                 \/ HasClaim(c) /\ state'[c] = "RecoveryPending"
        /\ action' = action /\ UNCHANGED topologyVars
    BY <1>10 DEF Open
  <2>2. \A c \in Commitment : MovesOn(c)
    BY <1>5, <2>1 DEF MovesOn
  <2>3. QED
    BY <1>3, <2>1, <2>2
<1>11. CASE UNCHANGED vars
  BY <1>4, <1>11 DEF vars, topologyVars
<1>12. QED
  BY <1>6, <1>7, <1>8, <1>9, <1>10, <1>11 DEF Next

-----------------------------------------------------------------------------
(* Barriers *)

\* A step that completes nothing keeps the barriers.
LEMMA OrdinaryKeepsBarriers ==
    ASSUME BarriersHold, OrdinaryStep
    PROVE  BarriersHold'
<1>1. SUFFICES ASSUME NEW p \in Commitment, replacement'[p] # None
               PROVE  BehindBarrier(p)'
  BY DEF BarriersHold
<1>2. PICK q : q = replacement[p]
  OBVIOUS
<1>3. UNCHANGED topologyVars /\ UNCHANGED <<goal, parent, prereq, replacement>>
  BY DEF OrdinaryStep, topologyVars
<1>4. /\ Exists(p) /\ q \in Commitment /\ Exists(q)
      /\ parent[q] = p /\ goal[q] = goal[p] /\ action[p] = None
      /\ \/ state[p] \in TerminalStates \cup {"RecoveryPending"}
         \/ state[p] = "Waiting" /\ reason[p] = q
      /\ state[p] = "Completed" => state[q] = "Completed"
      /\ state[q] = "Completed" => state[p] \in TerminalStates
  BY <1>1, <1>2, <1>3 DEF BarriersHold, BehindBarrier
<1>5. MovesOn(p) /\ MovesOn(q) /\ action'[p] = None
  BY <1>1, <1>3, <1>4 DEF OrdinaryStep
<1>6. Exists(p)' /\ Exists(q)'
  BY <1>4, <1>5 DEF Exists, MovesOn
<1>7. \/ state'[p] \in TerminalStates \cup {"RecoveryPending"}
      \/ state'[p] = "Waiting" /\ reason'[p] = q
  BY <1>1, <1>3, <1>4, <1>5 DEF MovesOn, Exits, TerminalStates
<1>8. state'[p] = "Completed" => state'[q] = "Completed"
  BY <1>4, <1>5 DEF MovesOn, TerminalStates
<1>9. state'[q] = "Completed" => state'[p] \in TerminalStates
  BY <1>4, <1>5 DEF MovesOn, TerminalStates
<1>10. QED
  BY <1>2, <1>3, <1>4, <1>5, <1>6, <1>7, <1>8, <1>9 DEF BehindBarrier

\* A new row is nobody's replacement and is behind no barrier.
LEMMA InsertKeepsBarriers ==
    ASSUME TypeOK, BarriersHold, NEW c \in Commitment, NEW gl, NEW p0, NEW deps,
           InsertCommitment(c, gl, p0, deps)
    PROVE  BarriersHold'
<1>1. SUFFICES ASSUME NEW p \in Commitment, replacement'[p] # None
               PROVE  BehindBarrier(p)'
  BY DEF BarriersHold
<1>2. /\ ~Exists(c) /\ UNCHANGED <<reason, action, replacement>>
      /\ \A d \in Commitment \ {c} : /\ state'[d] = state[d] /\ goal'[d] = goal[d]
                                     /\ parent'[d] = parent[d]
  BY DEF InsertCommitment, TypeOK
<1>3. BehindBarrier(p)
  BY <1>1, <1>2 DEF BarriersHold
<1>4. p # c /\ replacement[p] # c
  BY <1>2, <1>3 DEF BehindBarrier
<1>5. QED
  BY <1>1, <1>2, <1>3, <1>4 DEF BehindBarrier, Exists

\* The completion of a commitment completes every ancestor that waits for it.
LEMMA CompletionKeepsBarriers ==
    ASSUME TypeOK, BarriersHold, NEW c \in Commitment, NEW r,
           PersistChange(c, "Completed", r)
    PROVE  BarriersHold'
<1> DEFINE done == Cascade(c)
<1>1. /\ Persistable(c, "Completed") /\ UNCHANGED action /\ UNCHANGED topologyVars
      /\ \A d \in Commitment :
            /\ state'[d] = IF d \in done THEN "Completed"
                           ELSE IF d = c THEN "Completed" ELSE state[d]
            /\ reason'[d] = IF d \in done THEN None ELSE IF d = c THEN r ELSE reason[d]
  BY DEF PersistChange
<1>2. state[c] \notin TerminalStates \cup {"Absent"} /\ replacement[c] = None
  BY <1>1, PersistableStates DEF Exits
<1>3. UNCHANGED <<goal, parent, replacement>>
  BY <1>1 DEF topologyVars
<1>4. SUFFICES ASSUME NEW p \in Commitment, replacement[p] # None
               PROVE  BehindBarrier(p)'
  BY <1>3 DEF BarriersHold
<1>5. PICK q : q = replacement[p]
  OBVIOUS
<1>6. /\ Exists(p) /\ q \in Commitment /\ Exists(q)
      /\ parent[q] = p /\ goal[q] = goal[p] /\ action[p] = None
      /\ \/ state[p] \in TerminalStates \cup {"RecoveryPending"}
         \/ state[p] = "Waiting" /\ reason[p] = q
      /\ state[p] = "Completed" => state[q] = "Completed"
      /\ state[q] = "Completed" => state[p] \in TerminalStates
  BY <1>4, <1>5 DEF BarriersHold, BehindBarrier
<1>7. /\ p \in done => q \in done \cup {c}
      /\ q \in done \cup {c} /\ state[p] \notin TerminalStates => p \in done
      /\ p \in done => state[p] \notin TerminalStates
      /\ q \in done => state[q] \notin TerminalStates
  BY <1>5, CascadeIsLeast, CascadeIsClosed, CascadeSkipsTerminal
<1>8. p # c
  BY <1>2, <1>4
<1> HIDE DEF done
<1>9. Exists(p)' /\ Exists(q)'
  BY <1>1, <1>6 DEF Exists
<1>10. \/ state'[p] \in TerminalStates \cup {"RecoveryPending"}
       \/ state'[p] = "Waiting" /\ reason'[p] = q
  BY <1>1, <1>6, <1>8 DEF TerminalStates
<1>11. state'[p] = "Completed" => state'[q] = "Completed"
  BY <1>1, <1>6, <1>7, <1>8
<1>12. state'[q] = "Completed" => state'[p] \in TerminalStates
  BY <1>1, <1>6, <1>7, <1>8 DEF TerminalStates
<1>13. QED
  BY <1>1, <1>3, <1>5, <1>6, <1>9, <1>10, <1>11, <1>12 DEF BehindBarrier

\* apply_decomposition raises one barrier, over rows that are new.
LEMMA DecomposeKeepsBarriers ==
    ASSUME TypeOK, BarriersHold, NEW c \in Commitment, NEW w, NEW e, NEW b, NEW t,
           NEW lease, NEW deps, DOMAIN deps \subseteq Commitment, NEW r,
           Decompose(c, w, e, b, t, lease, deps, r)
    PROVE  BarriersHold'
<1> DEFINE children == DOMAIN deps
<1>1. /\ r \in children /\ \A d \in children : ~Exists(d)
      /\ state[c] = "Working" /\ action[c] = None /\ action' = action
      /\ replacement[c] = None
  BY DEF Decompose, StructuralFence
<1>2. /\ replacement' = [replacement EXCEPT ![c] = r] /\ reason' = [reason EXCEPT ![c] = r]
      /\ \A d \in Commitment :
            /\ state'[d] = IF d \in children THEN "Proposed"
                           ELSE IF d = c THEN "Waiting" ELSE state[d]
            /\ goal'[d] = IF d \in children THEN goal[c] ELSE goal[d]
            /\ parent'[d] = IF d \in children THEN c ELSE parent[d]
  BY DEF Decompose
<1>3. Exists(c) /\ c \notin children /\ r # c
  BY <1>1 DEF Exists
<1>4. SUFFICES ASSUME NEW p \in Commitment, replacement'[p] # None
               PROVE  BehindBarrier(p)'
  BY DEF BarriersHold
<1> HIDE DEF children
<1>5. CASE p = c
  <2>1. replacement'[c] = r /\ reason'[c] = r /\ state'[c] = "Waiting" /\ state'[r] = "Proposed"
    BY <1>1, <1>2, <1>3 DEF TypeOK, children
  <2>2. parent'[r] = c /\ goal'[r] = goal'[c] /\ action'[c] = None
    BY <1>1, <1>2, <1>3 DEF children
  <2>3. QED
    BY <1>1, <1>5, <2>1, <2>2 DEF BehindBarrier, Exists, TerminalStates, children
<1>6. CASE p # c
  <2>1. PICK q : q = replacement[p]
    OBVIOUS
  <2>2. replacement'[p] = q /\ reason'[p] = reason[p]
    BY <1>2, <1>6, <2>1 DEF TypeOK
  <2>3. /\ Exists(p) /\ q \in Commitment /\ Exists(q)
        /\ parent[q] = p /\ goal[q] = goal[p] /\ action[p] = None
        /\ \/ state[p] \in TerminalStates \cup {"RecoveryPending"}
           \/ state[p] = "Waiting" /\ reason[p] = q
        /\ state[p] = "Completed" => state[q] = "Completed"
        /\ state[q] = "Completed" => state[p] \in TerminalStates
    BY <1>4, <2>1, <2>2 DEF BarriersHold, BehindBarrier
  <2>4. p \notin children /\ q \notin children
    BY <1>1, <2>3
  <2>5. /\ state'[p] = state[p] /\ goal'[p] = goal[p] /\ goal'[q] = goal[q]
        /\ parent'[q] = parent[q] /\ action'[p] = action[p]
        /\ q # c => state'[q] = state[q]
        /\ q = c => state'[q] = "Waiting"
    BY <1>1, <1>2, <1>6, <2>3, <2>4
  <2>6. QED
    BY <1>1, <2>2, <2>3, <2>5 DEF BehindBarrier, Exists
<1>7. QED
  BY <1>5, <1>6

\* apply_add_prerequisite touches prerequisites only.
LEMMA AddKeepsBarriers ==
    ASSUME BarriersHold, NEW c, NEW w, NEW e, NEW b, NEW t, NEW lease, NEW p0,
           AddPrerequisite(c, w, e, b, t, lease, p0)
    PROVE  BarriersHold'
<1>1. UNCHANGED <<state, reason, goal, parent, replacement, action>>
  BY DEF AddPrerequisite, StructuralFence
<1>2. QED
  BY <1>1 DEF BarriersHold, BehindBarrier, Exists

\* The barriers hold in every reachable state.
LEMMA BarriersAlwaysHold == Spec => []BarriersHold
<1>1. Init => BarriersHold
  BY DEF Init, BarriersHold
<1>2. ASSUME FenceInvariant, BarriersHold, [Next]_vars
      PROVE  BarriersHold'
  <2>1. TypeOK
    BY <1>2 DEF FenceInvariant
  <2>2. ASSUME NEW c \in Commitment, NEW w, NEW e, NEW b, NEW t, NEW lease,
               NEW children \in SUBSET {d \in Commitment : ~Exists(d)},
               NEW deps \in [children -> Dependencies], NEW r,
               Decompose(c, w, e, b, t, lease, deps, r)
        PROVE  BarriersHold'
    <3>1. DOMAIN deps \subseteq Commitment
      OBVIOUS
    <3>2. QED
      BY <1>2, <2>1, <2>2, <3>1, DecomposeKeepsBarriers
  <2>3. QED
    BY <1>2, <2>1, <2>2, PlanSteps, OrdinaryKeepsBarriers, InsertKeepsBarriers,
       CompletionKeepsBarriers, AddKeepsBarriers
<1>3. FenceInvariant /\ BarriersHold /\ [Next]_vars => BarriersHold'
  BY <1>2
<1>4. QED
  BY <1>1, <1>3, FenceIsInvariant, PTL DEF Spec

\* A decomposed commitment is complete only if its replacement is, over nested
\* decompositions, sweeps and restarts.
THEOREM ParentWaitsForReplacement == Spec => []BarrierHoldsParent
<1>1. BarriersHold => BarrierHoldsParent
  BY DEF BarriersHold, BehindBarrier, BarrierHoldsParent
<1>2. QED
  BY <1>1, BarriersAlwaysHold, PTL

\* A completed replacement leaves no ancestor waiting for it: the cascade ends
\* every such wait in the transaction that completes the replacement.
THEOREM ReplacementReleasesParent == Spec => []BarrierReleasesParent
<1>1. BarriersHold => BarrierReleasesParent
  BY DEF BarriersHold, BehindBarrier, BarrierReleasesParent
<1>2. QED
  BY <1>1, BarriersAlwaysHold, PTL

\* The completion of no commitment is rolled back on account of its ancestors.
THEOREM CompletionNeverRollsBack == Spec => []CascadeNeverAborts
<1>1. ASSUME FenceInvariant, BarriersHold, NEW c \in Commitment
      PROVE  CascadeSucceeds(c)
  <2>1. Cascade(c) \subseteq Commitment
    BY DEF Cascade
  <2>2. ASSUME NEW p \in Commitment, replacement[p] \in Cascade(c) \cup {c}
        PROVE  BehindBarrier(p)
    BY <1>1, <2>1, <2>2, IdentifiersAssumption DEF BarriersHold
  <2>3. ASSUME NEW p \in Cascade(c)
        PROVE  ParentFate(p) = "complete"
    <3>1. p \in Commitment /\ state[p] \notin TerminalStates
      BY CascadeSkipsTerminal
    <3>2. BehindBarrier(p)
      BY <2>2, <3>1, CascadeIsLeast
    <3>3. ASSUME NEW k \in Scope, lock[k].mode = "held", lock[k].commitment = p
          PROVE  FALSE
      <4> DEFINE g == lock[k].guard
      <4>1. LocksMirrorGuards
        BY <1>1 DEF FenceInvariant
      <4>2. g \in Guard /\ guard[g].st \in ActiveGuard /\ k \in guard[g].scopes
        BY <3>3, <4>1, HeldLockHasGuard
      <4>3. guard[g].commitment = p
        BY <3>3, <4>1, <4>2, LiveScopeLocked
      <4>4. QED
        BY <1>1, <3>2, <4>2, <4>3, ActiveHasAction DEF BehindBarrier
    <3>4. QED
      BY <3>1, <3>2, <3>3 DEF BehindBarrier, HoldsLock, ParentFate
  <2>4. QED
    BY <2>2, <2>3 DEF CascadeSucceeds, BehindBarrier
<1>2. FenceInvariant /\ BarriersHold => CascadeNeverAborts
  BY <1>1 DEF CascadeNeverAborts
<1>3. QED
  BY <1>2, FenceIsInvariant, BarriersAlwaysHold, PTL

-----------------------------------------------------------------------------
(* Prerequisites *)

\* A row that is there stays there: no operation deletes from commitments.
LEMMA RowsStay ==
    ASSUME FenceInvariant, BarriersHold, [Next]_vars, NEW c \in Commitment, Exists(c)
    PROVE  Exists(c)'
<1>1. TypeOK
  BY DEF FenceInvariant
<1>2. CASE OrdinaryStep
  BY <1>2 DEF OrdinaryStep, MovesOn, Exists
<1>3. ASSUME NEW d \in Commitment, NEW gl, NEW p, NEW deps, InsertCommitment(d, gl, p, deps)
      PROVE  Exists(c)'
  BY <1>1, <1>3 DEF InsertCommitment, Exists, TypeOK
<1>4. ASSUME NEW d \in Commitment, NEW r, PersistChange(d, "Completed", r)
      PROVE  Exists(c)'
  BY <1>4 DEF PersistChange, Exists
<1>5. ASSUME NEW d \in Commitment, NEW w, NEW e, NEW b, NEW t, NEW lease, NEW deps, NEW r,
             Decompose(d, w, e, b, t, lease, deps, r)
      PROVE  Exists(c)'
  BY <1>5 DEF Decompose, Exists
<1>6. ASSUME NEW d \in Commitment, NEW w, NEW e, NEW b, NEW t, NEW lease, NEW p,
             AddPrerequisite(d, w, e, b, t, lease, p)
      PROVE  Exists(c)'
  BY <1>6 DEF AddPrerequisite, Exists
<1>7. QED
  BY <1>2, <1>3, <1>4, <1>5, <1>6, PlanSteps

\* What validate_acyclic accepts is ordered.
LEMMA AcyclicIsOrdered ==
    ASSUME NEW edges, Acyclic(edges), NEW C \in (SUBSET Commitment) \ {{}}
    PROVE  \E c \in C : edges[c] \cap (C \ {c}) = {}
  BY DEF Acyclic

\* insert_commitment checks no cycle, and need not: nothing names the new row.
LEMMA InsertKeepsOrder ==
    ASSUME TypeOK, PrerequisitesOrdered, NEW c \in Commitment, NEW gl, NEW p,
           NEW deps, InsertCommitment(c, gl, p, deps),
           NEW C \in (SUBSET Commitment) \ {{}}
    PROVE  \E d \in C : prereq'[d] \cap (C \ {d}) = {}
<1>1. ~Exists(c) /\ \A d \in Commitment \ {c} : prereq'[d] = prereq[d]
  BY DEF InsertCommitment, TypeOK
<1>2. CASE C = {c}
  BY <1>2
<1>3. CASE C # {c}
  <2>1. C \ {c} \in (SUBSET Commitment) \ {{}}
    BY <1>3
  <2>2. PICK d \in C \ {c} : prereq[d] \cap ((C \ {c}) \ {d}) = {}
    BY <2>1 DEF PrerequisitesOrdered
  <2>3. c \notin prereq[d]
    BY <1>1, <2>2 DEF PrerequisitesOrdered
  <2>4. prereq'[d] \cap (C \ {d}) = {}
    BY <1>1, <2>2, <2>3
  <2>5. QED
    BY <2>2, <2>4
<1>4. QED
  BY <1>2, <1>3

\* Every step keeps the prerequisites ordered.
LEMMA StepKeepsOrder ==
    ASSUME FenceInvariant, BarriersHold, PrerequisitesOrdered, [Next]_vars
    PROVE  PrerequisitesOrdered'
<1>1. TypeOK /\ \A c \in Commitment : Exists(c) => Exists(c)'
  BY RowsStay DEF FenceInvariant
<1>2. ASSUME prereq' = prereq PROVE PrerequisitesOrdered'
  <2>1. \A c \in Commitment : \A d \in prereq[c] \ {c} : d \in Commitment
    BY <1>1 DEF TypeOK
  <2>2. QED
    BY <1>1, <1>2, <2>1 DEF PrerequisitesOrdered
<1>3. CASE OrdinaryStep
  BY <1>2, <1>3 DEF OrdinaryStep, topologyVars
<1>4. ASSUME NEW c \in Commitment, NEW gl, NEW p, NEW deps \in Dependencies,
             InsertCommitment(c, gl, p, deps)
      PROVE  PrerequisitesOrdered'
  <2>1. ASSUME NEW d \in Commitment, NEW f \in prereq'[d] \ {d} PROVE Exists(f)'
    <3>1. CASE d = c
      <4>1. f \in deps \ {c} /\ f \in Commitment
        BY <1>1, <1>4, <2>1, <3>1 DEF InsertCommitment, TypeOK, Dependencies
      <4>2. QED
        BY <1>1, <1>4, <4>1 DEF InsertCommitment
    <3>2. CASE d # c
      <4>1. f \in prereq[d] \ {d} /\ f \in Commitment
        BY <1>1, <1>4, <2>1, <3>2 DEF InsertCommitment, TypeOK
      <4>2. QED
        BY <1>1, <4>1 DEF PrerequisitesOrdered
    <3>3. QED
      BY <3>1, <3>2
  <2>2. \A C \in (SUBSET Commitment) \ {{}} : \E d \in C : prereq'[d] \cap (C \ {d}) = {}
    BY <1>1, <1>4, InsertKeepsOrder
  <2>3. \A d \in Commitment : \A f \in prereq'[d] \ {d} : Exists(f)'
    BY <2>1
  <2>4. QED
    BY <2>2, <2>3 DEF PrerequisitesOrdered
<1>5. ASSUME NEW c \in Commitment, NEW r, PersistChange(c, "Completed", r)
      PROVE  PrerequisitesOrdered'
  BY <1>2, <1>5 DEF PersistChange, topologyVars
<1>6. ASSUME NEW c \in Commitment, NEW w, NEW e, NEW b, NEW t, NEW lease,
             NEW children \in SUBSET {d \in Commitment : ~Exists(d)},
             NEW deps \in [children -> Dependencies], NEW r,
             Decompose(c, w, e, b, t, lease, deps, r)
      PROVE  PrerequisitesOrdered'
  <2>1. /\ Acyclic(prereq') /\ DOMAIN deps = children /\ r \in children
        /\ \A d \in children, p \in Commitment : p \in deps[d] => Exists(p) \/ p \in children
        /\ \A d \in Commitment :
              prereq'[d] = IF d \in children THEN deps[d]
                           ELSE IF d = c THEN prereq[c] \cup {r} ELSE prereq[d]
        /\ \A d \in children : state'[d] = "Proposed"
    BY <1>6 DEF Decompose
  <2>2. \A d \in children : Exists(d)'
    BY <2>1 DEF Exists
  <2>3. ASSUME NEW d \in Commitment, NEW f \in prereq'[d] \ {d} PROVE Exists(f)'
    <3>1. CASE d \in children
      <4>1. f \in deps[d] /\ f \in Commitment
        BY <2>1, <2>3, <3>1 DEF Dependencies
      <4>2. QED
        BY <1>1, <2>1, <2>2, <3>1, <4>1
    <3>2. CASE d \notin children
      <4>1. f = r \/ (f \in prereq[d] \ {d} /\ f \in Commitment)
        BY <1>1, <2>1, <2>3, <3>2 DEF TypeOK
      <4>2. QED
        BY <1>1, <2>1, <2>2, <4>1 DEF PrerequisitesOrdered
    <3>3. QED
      BY <3>1, <3>2
  <2>4. QED
    BY <2>1, <2>3, AcyclicIsOrdered DEF PrerequisitesOrdered
<1>7. ASSUME NEW c \in Commitment, NEW w, NEW e, NEW b, NEW t, NEW lease,
             NEW p \in Commitment \cup {None}, AddPrerequisite(c, w, e, b, t, lease, p)
      PROVE  PrerequisitesOrdered'
  <2>1. Acyclic(prereq')
    BY <1>7 DEF AddPrerequisite
  <2>2. /\ p # None => Exists(p)
        /\ prereq' = [prereq EXCEPT ![c] = @ \cup ({p} \ {None})]
    BY <1>7 DEF AddPrerequisite
  <2>3. ASSUME NEW d \in Commitment, NEW f \in prereq'[d] \ {d} PROVE Exists(f)'
    <3>1. (f = p /\ p # None /\ p \in Commitment) \/ (f \in prereq[d] \ {d} /\ f \in Commitment)
      BY <1>1, <2>2, <2>3 DEF TypeOK
    <3>2. QED
      BY <1>1, <2>2, <3>1 DEF PrerequisitesOrdered
  <2>4. QED
    BY <2>1, <2>3, AcyclicIsOrdered DEF PrerequisitesOrdered
<1>8. QED
  BY <1>3, <1>4, <1>5, <1>6, <1>7, PlanSteps

\* No two or more commitments wait for one another, whichever rows were
\* inserted, decomposed and given prerequisites in which order.
THEOREM PrerequisitesAcyclic == Spec => []NoDependencyCycle
<1>1. Init => PrerequisitesOrdered
  BY DEF Init, PrerequisitesOrdered
<1>2. FenceInvariant /\ BarriersHold /\ PrerequisitesOrdered /\ [Next]_vars
        => PrerequisitesOrdered'
  BY StepKeepsOrder
<1>3. PrerequisitesOrdered => NoDependencyCycle
  <2>1. SUFFICES ASSUME PrerequisitesOrdered, NEW C \in SUBSET Commitment, Cardinality(C) > 1
                 PROVE  \E c \in C : prereq[c] \cap (C \ {c}) = {}
    BY DEF NoDependencyCycle
  <2>2. C # {}
    BY <2>1, FS_EmptySet
  <2>3. QED
    BY <2>1, <2>2 DEF PrerequisitesOrdered
<1>4. QED
  BY <1>1, <1>2, <1>3, FenceIsInvariant, BarriersAlwaysHold, PTL DEF Spec
=============================================================================
