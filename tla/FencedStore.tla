---------------------------- MODULE FencedStore ----------------------------
(***************************************************************************)
(* The durable store of resolve-store: commitments, worker claims,         *)
(* execution guards, scope locks, the boot generation and the structural   *)
(* topology.  Every public operation runs in one BEGIN IMMEDIATE           *)
(* transaction that rolls back on error, so each is one action here, whose *)
(* guard is the conjunction of the conditions under which the operation    *)
(* does not return an error, and a call that fails is a stuttering step.   *)
(*                                                                         *)
(* state_version is left out: inside one transaction the row read is the   *)
(* row written.  The event log is left out too: no operation reads it back *)
(* except to check that it still decodes.                                  *)
(***************************************************************************)
EXTENDS CommitmentStates, Integers, FiniteSets

CONSTANTS
    Commitment, Worker, Guard, Scope, Action, Goal, Digest,
    None,            \* SQL NULL for every identifier-valued column
    LeaseDurations,  \* claim_lease_duration arguments, in ticks
    GuardTtls,       \* guard_ttl arguments, in ticks
    NewParents,      \* parents an insert_commitment call may name
    MaxDeps,         \* prerequisites a new commitment carries, at most
    MaxEpoch,        \* claim epoch after which claim_for is exhausted
    MaxBoot,         \* boot generation after which open is exhausted
    MaxTime          \* latest clock reading that is explored

ASSUME IdentifiersAssumption ==
    None \notin Commitment \cup Worker \cup Guard \cup Scope
                    \cup Action \cup Goal \cup Digest

ASSUME DurationsAssumption ==
    /\ LeaseDurations \subseteq Nat \ {0}
    /\ GuardTtls \subseteq Nat \ {0}

ASSUME BoundsAssumption ==
    /\ NewParents \subseteq Commitment
    /\ MaxDeps \in Nat /\ MaxEpoch \in Nat
    /\ MaxBoot \in Nat /\ MaxTime \in Nat

VARIABLES
    state,        \* commitments.state_json, without the waiting reason
    reason,       \* the reference of an uncertain or a composite wait
    epoch,        \* commitments.last_claim_epoch, 0 for NULL
    action,       \* commitments.outstanding_action
    claim,        \* the claims row of each commitment
    goal,         \* commitments.goal_id
    parent,       \* commitments.parent_id
    prereq,       \* prerequisite edges to other commitments
    replacement,  \* commitments.replacement_terminal_id
    guard,        \* execution_guards with their execution_guard_scopes
    lock,         \* scope_locks, one row per scope key
    boot          \* metadata.boot_generation

commitmentVars == <<state, reason, epoch, action, claim>>
topologyVars == <<goal, parent, prereq, replacement>>
fenceVars == <<guard, lock>>
vars == <<state, reason, epoch, action, claim, goal, parent, prereq,
          replacement, guard, lock, boot>>

-----------------------------------------------------------------------------
(* Rows and their null values *)

ClaimRow == [worker : Worker \cup {None}, epoch : Nat, beat : Nat, boot : Nat]
NoClaim == [worker |-> None, epoch |-> 0, beat |-> 0, boot |-> 0]

SafeOutcomes == {"Succeeded", "Failed"}
ActiveGuard == {"admitted", "uncertain"}
GuardState == ActiveGuard \cup {"absent", "issued", "resolved", "invalidated"}

\* issuer is no column: it remembers the worker whose request was accepted.
GuardRow ==
    [st : GuardState, commitment : Commitment \cup {None}, epoch : Nat,
     boot : Nat, scopes : SUBSET Scope, action : Action \cup {None},
     digest : Digest \cup {None}, outcome : SafeOutcomes \cup {"none"},
     expires : Nat, issuer : Worker \cup {None}]
NoGuard ==
    [st |-> "absent", commitment |-> None, epoch |-> 0, boot |-> 0,
     scopes |-> {}, action |-> None, digest |-> None, outcome |-> "none",
     expires |-> 0, issuer |-> None]

LockRow ==
    [mode : {"free", "reserved", "held"}, guard : Guard \cup {None},
     commitment : Commitment \cup {None}, action : Action \cup {None},
     expires : Nat]
FreeLock ==
    [mode |-> "free", guard |-> None, commitment |-> None, action |-> None,
     expires |-> 0]

\* Every column holds a value of its kind, a reference or NULL, and the fencing
\* tokens (epochs, boot generation) stay within what the code can represent.
TypeOK ==
    /\ state \in [Commitment -> CommitmentState]
    /\ reason \in [Commitment -> Action \cup Commitment \cup {None}]
    /\ epoch \in [Commitment -> 0 .. MaxEpoch]
    /\ action \in [Commitment -> Action \cup {None}]
    /\ claim \in [Commitment -> ClaimRow]
    /\ goal \in [Commitment -> Goal \cup {None}]
    /\ parent \in [Commitment -> Commitment \cup {None}]
    /\ prereq \in [Commitment -> SUBSET Commitment]
    /\ replacement \in [Commitment -> Commitment \cup {None}]
    /\ guard \in [Guard -> GuardRow]
    /\ lock \in [Scope -> LockRow]
    /\ boot \in 0 .. MaxBoot

Init ==
    /\ state = [c \in Commitment |-> "Absent"]
    /\ reason = [c \in Commitment |-> None]
    /\ epoch = [c \in Commitment |-> 0]
    /\ action = [c \in Commitment |-> None]
    /\ claim = [c \in Commitment |-> NoClaim]
    /\ goal = [c \in Commitment |-> None]
    /\ parent = [c \in Commitment |-> None]
    /\ prereq = [c \in Commitment |-> {}]
    /\ replacement = [c \in Commitment |-> None]
    /\ guard = [g \in Guard |-> NoGuard]
    /\ lock = [k \in Scope |-> FreeLock]
    /\ boot = 0

-----------------------------------------------------------------------------
(* Queries *)

Exists(c) == state[c] # "Absent"
HasClaim(c) == claim[c].worker # None
LeaseLive(c, lease, t) == claim[c].beat + lease > t

\* A request names a worker and an epoch; both must be the current claim's.
OwnsClaim(c, w, e) ==
    claim[c].worker = w /\ claim[c].epoch = e /\ epoch[c] = e

HoldsLock(c) ==
    \E k \in Scope : lock[k].mode = "held" /\ lock[k].commitment = c

ReservedBy(gs) ==
    {k \in Scope : lock[k].mode = "reserved" /\ lock[k].guard \in gs}

LocksOf(g) == {k \in Scope : lock[k].mode # "free" /\ lock[k].guard = g}

\* query_active_guard
HasLiveGuard(c, invalidated) ==
    \E g \in Guard \ invalidated :
        guard[g].commitment = c /\ guard[g].st \in ActiveGuard \cup {"issued"}

\* expire_relevant_reservations: the issued guards that a scope operation at
\* instant t on the keys ks invalidates before it does anything else.
ExpiredOn(ks, t) ==
    {g \in Guard : guard[g].st = "issued"
                   /\ \E k \in ks \cap ReservedBy({g}) : lock[k].expires <= t}

\* Fault: the locks are released and the guards still count as issued.
LeftIssued(gs) == guard

Invalidated(gs) ==
    [g \in Guard |-> IF g \in gs
                     THEN [guard[g] EXCEPT !.st = "invalidated", !.expires = 0]
                     ELSE guard[g]]

\* Fault: the guards are invalidated and their lock rows forgotten.
LocksLeftBehind(gs) == lock

Released(gs) ==
    [k \in Scope |-> IF k \in ReservedBy(gs) THEN FreeLock ELSE lock[k]]

\* Fault: only a commitment that names itself is refused.
NoSelfEdge(edges) == \A c \in Commitment : c \notin edges[c]

\* validate_acyclic on prerequisite edges: no set of commitments in which each
\* depends on a member.  CycleCheck compares it with the source's search.
Acyclic(edges) ==
    \A C \in (SUBSET Commitment) \ {{}} : \E c \in C : edges[c] \cap C = {}

\* Fault: the longer of the two deadlines.
Later(a, b) == IF a <= b THEN b ELSE a

\* reservation_deadline takes the earlier of its two bounds.
Earlier(a, b) == IF a <= b THEN a ELSE b

-----------------------------------------------------------------------------
(* Composite barriers *)

\* Fault: only a COMPLETED parent is passed over, and what any other waits for
\* is not looked at.
FateIgnoringExits(p) ==
    IF state[p] = "Completed" THEN "skip"
    ELSE IF action[p] = None /\ ~HoldsLock(p) THEN "complete" ELSE "refuse"

\* What the cascade does with a parent p whose replacement is complete: a
\* terminal one is passed over, and one that has an action out, waits for
\* something else or owns a held scope aborts the whole completion.
ParentFate(p) ==
    IF state[p] \in TerminalStates THEN "skip"
    ELSE IF /\ action[p] = None
            /\ \/ state[p] = "Waiting" /\ reason[p] = replacement[p]
               \/ state[p] = "RecoveryPending"
            /\ ~HoldsLock(p)
         THEN "complete" ELSE "refuse"

\* Fault: the queue is not fed with the parents that were completed.
DirectParents(c) ==
    {p \in Commitment : replacement[p] = c /\ ParentFate(p) # "skip"}

\* complete_composite_barrier_cascade: the parents completed when c is.  The
\* parents of a parent that is passed over are not visited.
Cascade(c) ==
    LET closed(P) == \A p \in Commitment :
                        (/\ replacement[p] \in P \cup {c}
                         /\ ParentFate(p) # "skip") => p \in P
    IN  {p \in Commitment : \A P \in SUBSET Commitment : closed(P) => p \in P}

\* The conditions under which the cascade from c does not abort the caller.
CascadeSucceeds(c) ==
    /\ \A p \in Commitment :
        replacement[p] \in Cascade(c) \cup {c} =>
            /\ parent[replacement[p]] = p
            /\ goal[replacement[p]] = goal[p]
    /\ \A p \in Cascade(c) : ParentFate(p) = "complete"

-----------------------------------------------------------------------------
(* Commitments: insertion and the optimistic snapshot write *)

\* insert_commitment.  Foreign keys let a new row name itself.
InsertCommitment(c, gl, p, deps) ==
    /\ ~Exists(c)
    /\ p \notin {None, c} => Exists(p)
    /\ \A d \in deps \ {c} : Exists(d)
    /\ state' = [state EXCEPT ![c] = "Proposed"]
    /\ goal' = [goal EXCEPT ![c] = gl]
    /\ parent' = [parent EXCEPT ![c] = p]
    /\ prereq' = [prereq EXCEPT ![c] = deps]
    /\ UNCHANGED <<reason, epoch, action, claim, replacement, fenceVars, boot>>

\* Fault: an outstanding action does not stop the write.
PersistableDuringAction(c, s) ==
    /\ replacement[c] = None \/ s \in Exits
    /\ ValidTransition(state[c], s)

\* Fault: a composite parent is resumed like any other commitment.
PersistablePastBarrier(c, s) ==
    /\ action[c] = None
    /\ ValidTransition(state[c], s)

\* persist_commitment_change refuses every candidate while an action is
\* outstanding, and all but the explicit exits behind a composite barrier.
Persistable(c, s) ==
    /\ action[c] = None
    /\ replacement[c] = None \/ s \in Exits
    /\ ValidTransition(state[c], s)

\* Fault: the last epoch is taken once more.
EpochAvailableOffByOne(c) == epoch[c] <= MaxEpoch

\* ClaimEpoch::next, with MaxEpoch as the last epoch there is.
EpochAvailable(c) == epoch[c] < MaxEpoch

\* persist_commitment_change for a candidate claimed by w at instant t.
PersistClaim(c, w, t) ==
    /\ Persistable(c, "Claimed")
    /\ ~HasClaim(c)
    /\ EpochAvailable(c)
    /\ state' = [state EXCEPT ![c] = "Claimed"]
    /\ epoch' = [epoch EXCEPT ![c] = epoch[c] + 1]
    /\ claim' = [claim EXCEPT ![c] = [worker |-> w, epoch |-> epoch[c] + 1,
                                      beat |-> t, boot |-> boot]]
    /\ UNCHANGED <<reason, action, topologyVars, fenceVars, boot>>

\* persist_commitment_change for any other candidate.  The candidate carries
\* the current claim exactly when its state bears one; the row is re-inserted
\* under the current boot generation.  The lease is not consulted.
PersistChange(c, s, r) ==
    /\ s # "Claimed"
    /\ Persistable(c, s)
    /\ s \in ClaimBearing => HasClaim(c)
    /\ HasClaim(c) /\ s \in ClaimBearing => claim[c].epoch = epoch[c]
    /\ r \in IF s = "Uncertain" THEN Action ELSE {None}
    /\ s = "Completed" => CascadeSucceeds(c)
    /\ LET done == IF s = "Completed" THEN Cascade(c) ELSE {}
       IN  /\ state' = [d \in Commitment |->
                           IF d \in done THEN "Completed"
                           ELSE IF d = c THEN s ELSE state[d]]
           /\ reason' = [d \in Commitment |->
                           IF d \in done THEN None
                           ELSE IF d = c THEN r ELSE reason[d]]
           /\ claim' = [d \in Commitment |->
                           IF d \in done \/ (d = c /\ s \notin ClaimBearing)
                           THEN NoClaim
                           ELSE IF d = c THEN [claim[c] EXCEPT !.boot = boot]
                           ELSE claim[d]]
    /\ UNCHANGED <<epoch, action, topologyVars, fenceVars, boot>>

-----------------------------------------------------------------------------
(* Claims *)

\* record_heartbeat at a later instant; a repeated one changes nothing.
RecordHeartbeat(c, w, e, t, lease) ==
    /\ OwnsClaim(c, w, e)
    /\ state[c] \in ClaimBearing
    /\ claim[c].boot = boot
    /\ LeaseLive(c, lease, t)
    /\ t > claim[c].beat
    /\ claim' = [claim EXCEPT ![c].beat = t]
    /\ UNCHANGED <<state, reason, epoch, action, topologyVars, fenceVars, boot>>

\* Fault: the sweep takes admitted guards for reservations.
GuardsUnder(expired) ==
    {g \in Guard : /\ guard[g].st \in {"issued", "admitted"}
                   /\ guard[g].commitment \in expired
                   /\ guard[g].epoch = claim[guard[g].commitment].epoch}

\* The reservations that end with the claims of the commitments in expired.
ReservationsUnder(expired) ==
    {g \in Guard : /\ guard[g].st = "issued"
                   /\ guard[g].commitment \in expired
                   /\ guard[g].epoch = claim[guard[g].commitment].epoch}

\* process_expired_claims: one malformed claim row aborts the whole sweep.
ProcessExpiredClaims(t, lease) ==
    LET expired == {c \in Commitment : HasClaim(c) /\ ~LeaseLive(c, lease, t)}
        dropped == ReservationsUnder(expired)
    IN  /\ expired # {}
        /\ \A c \in Commitment : HasClaim(c) =>
                /\ claim[c].boot = boot
                /\ claim[c].epoch = epoch[c]
                /\ state[c] \in ClaimBearing
                /\ c \in expired /\ action[c] # None => state[c] = "Working"
        /\ state' = [c \in Commitment |->
                        IF c \in expired THEN "RecoveryPending" ELSE state[c]]
        /\ reason' = [c \in Commitment |-> IF c \in expired THEN None ELSE reason[c]]
        /\ claim' = [c \in Commitment |-> IF c \in expired THEN NoClaim ELSE claim[c]]
        /\ guard' = Invalidated(dropped)
        /\ lock' = Released(dropped)
        /\ UNCHANGED <<epoch, action, topologyVars, boot>>

\* recover_without_action: back to READY, or, behind a barrier whose
\* replacement is complete, straight to COMPLETED through the cascade.
RecoverWithoutAction(c) ==
    /\ state[c] = "RecoveryPending"
    /\ action[c] = None
    /\ ~HoldsLock(c)
    /\ ~HasClaim(c)
    /\ replacement[c] # None =>
            state[replacement[c]] = "Completed" /\ CascadeSucceeds(replacement[c])
    /\ LET done == IF replacement[c] # None THEN Cascade(replacement[c]) ELSE {}
       IN  /\ state' = [d \in Commitment |->
                           IF d \in done THEN "Completed"
                           ELSE IF d = c THEN "Ready" ELSE state[d]]
           /\ reason' = [d \in Commitment |-> IF d \in done THEN None ELSE reason[d]]
           /\ claim' = [d \in Commitment |-> IF d \in done THEN NoClaim ELSE claim[d]]
    /\ UNCHANGED <<epoch, action, topologyVars, fenceVars, boot>>

-----------------------------------------------------------------------------
(* Execution guards and scope locks *)

\* Fault: only reservations conflict, a held scope is handed out again.
NoneReserved(ks, dead) == \A k \in ks : Released(dead)[k].mode # "reserved"

\* The requested keys, once the expired reservations dead are gone.
AllFree(ks, dead) == \A k \in ks : Released(dead)[k].mode = "free"

\* Fault: the identifier of an invalidated guard is used again.
GuardIdReusable(g) == guard[g].st \in {"absent", "invalidated"}

\* guard_id is the primary key of a table no operation deletes from.
GuardIdFree(g) == guard[g].st = "absent"

\* issue_guard: request (g, w, e, ks, b) at instant t.
IssueGuard(g, c, w, e, ks, b, t, ttl, lease) ==
    LET dead == ExpiredOn(ks, t)
        expires == Earlier(t + ttl, claim[c].beat + lease)
    IN  /\ GuardIdFree(g)
        /\ ks # {}
        /\ state[c] \in {"Claimed", "Working"}
        /\ action[c] = None
        /\ OwnsClaim(c, w, e)
        /\ claim[c].boot = boot /\ b = boot
        /\ LeaseLive(c, lease, t)
        /\ AllFree(ks, dead)
        /\ guard' = [Invalidated(dead) EXCEPT ![g] =
                        [st |-> "issued", commitment |-> c, epoch |-> e, boot |-> b,
                         scopes |-> ks, action |-> None, digest |-> None,
                         outcome |-> "none", expires |-> expires, issuer |-> w]]
        /\ lock' = [k \in Scope |->
                        IF k \in ks
                        THEN [mode |-> "reserved", guard |-> g, commitment |-> c,
                              action |-> None, expires |-> expires]
                        ELSE Released(dead)[k]]
        /\ UNCHANGED <<commitmentVars, topologyVars, boot>>

\* Fault: the unique index covers the actions in flight alone.
ActionNotInFlight(a) ==
    \A h \in Guard : guard[h].st \in ActiveGuard => guard[h].action # a

\* execution_guards_action_ref_idx: an action reference is spent for good.
ActionUnused(a) == \A h \in Guard : guard[h].action # a

\* admit_guard_internal at instant t; a repeat of an admission changes nothing,
\* and every rejection rolls back, the reservation expiry included.
AdmitGuard(g, a, d, t) ==
    LET row == guard[g]
        c == row.commitment
        dead == ExpiredOn(row.scopes, t)
    IN  /\ row.st = "issued"
        /\ g \notin dead
        /\ \A k \in row.scopes : lock[k].mode = "reserved" /\ lock[k].guard = g
        /\ row.expires > t
        /\ state[c] = "Working"
        /\ action[c] = None
        /\ HasClaim(c)
        /\ claim[c].epoch = row.epoch /\ epoch[c] = row.epoch
        /\ claim[c].boot = boot /\ row.boot = boot
        /\ ActionUnused(a)
        /\ action' = [action EXCEPT ![c] = a]
        /\ guard' = [Invalidated(dead) EXCEPT ![g] =
                        [row EXCEPT !.st = "admitted", !.action = a,
                                    !.digest = d, !.expires = 0]]
        /\ lock' = [k \in Scope |->
                        IF k \in ReservedBy({g})
                        THEN [mode |-> "held", guard |-> g,
                              commitment |-> lock[k].commitment,
                              action |-> a, expires |-> 0]
                        ELSE Released(dead)[k]]
        /\ UNCHANGED <<state, reason, epoch, claim, topologyVars, boot>>

\* invalidate_guard: the claimant withdraws a reservation it has not used.
InvalidateGuard(g, w, e, t, lease) ==
    LET row == guard[g]
        c == row.commitment
        dead == ExpiredOn(row.scopes, t)
    IN  /\ row.st = "issued"
        /\ g \notin dead
        /\ row.expires > t
        /\ HasClaim(c)
        /\ LeaseLive(c, lease, t)
        /\ claim[c].worker = w /\ claim[c].epoch = e
        /\ claim[c].boot = boot /\ row.boot = boot
        /\ guard' = Invalidated(dead \cup {g})
        /\ lock' = Released(dead \cup {g})
        /\ UNCHANGED <<commitmentVars, topologyVars, boot>>

\* record_tethers_outcome of the action that guard g carries: the outcome must
\* come with the preparation digest the admission was bound to.
RecordSafeOutcome(g, a, outcome, d) ==
    LET row == guard[g]
        c == row.commitment
    IN  /\ row.st = "admitted" /\ row.action = a
        /\ row.digest = d
        /\ action[c] = a
        /\ state[c] \in {"Working", "RecoveryPending"}
        /\ {k \in LocksOf(g) : lock[k].mode = "held"} = row.scopes
        /\ guard' = [guard EXCEPT ![g].st = "resolved", ![g].outcome = outcome]
        /\ lock' = [k \in Scope |->
                        IF lock[k].mode = "held" /\ lock[k].guard = g
                        THEN FreeLock ELSE lock[k]]
        /\ action' = [action EXCEPT ![c] = None]
        /\ state' = [state EXCEPT ![c] =
                        IF state[c] = "RecoveryPending" THEN "Ready" ELSE state[c]]
        /\ UNCHANGED <<reason, epoch, claim, topologyVars, boot>>

\* record_tethers_outcome(UNCERTAIN): the action and its locks stay.
RecordUncertainOutcome(g, a, d) ==
    LET row == guard[g]
        c == row.commitment
    IN  /\ row.st = "admitted" /\ row.action = a
        /\ row.digest = d
        /\ action[c] = a
        /\ state[c] \in {"Working", "RecoveryPending"}
        /\ guard' = [guard EXCEPT ![g].st = "uncertain"]
        /\ state' = [state EXCEPT ![c] = "Uncertain"]
        /\ reason' = [reason EXCEPT ![c] = a]
        /\ claim' = [claim EXCEPT ![c] = NoClaim]
        /\ UNCHANGED <<epoch, action, topologyVars, lock, boot>>

-----------------------------------------------------------------------------
(* Structural proposals *)

\* expire_target_reservations
ExpiredFor(c, t) ==
    UNION {ExpiredOn(guard[g].scopes, t) :
              g \in {h \in Guard : guard[h].commitment = c /\ guard[h].st = "issued"}}

\* The fence apply_structural_proposal raises before any of the three forms.
StructuralFence(c, w, e, b, t, lease) ==
    /\ b = boot
    /\ state[c] \in ClaimBearing
    /\ action[c] = None
    /\ OwnsClaim(c, w, e)
    /\ claim[c].boot = boot
    /\ LeaseLive(c, lease, t)
    /\ ~HasLiveGuard(c, ExpiredFor(c, t))
    /\ Acyclic(prereq)
    /\ guard' = Invalidated(ExpiredFor(c, t))
    /\ lock' = Released(ExpiredFor(c, t))
    /\ UNCHANGED <<epoch, action, boot>>

\* apply_decomposition: proposed children deps (prerequisites of each child),
\* of which r replaces the target as the commitment that completes it.
Decompose(c, w, e, b, t, lease, deps, r) ==
    LET children == DOMAIN deps
        edges == [d \in Commitment |->
                    IF d \in children THEN deps[d]
                    ELSE IF d = c THEN prereq[c] \cup {r} ELSE prereq[d]]
    IN  /\ StructuralFence(c, w, e, b, t, lease)
        /\ state[c] = "Working"
        /\ replacement[c] = None
        /\ r \in children
        /\ \A d \in children : ~Exists(d)
        /\ \A d \in children, p \in Commitment :
                p \in deps[d] => Exists(p) \/ p \in children
        /\ Acyclic(edges)
        /\ state' = [d \in Commitment |-> IF d \in children THEN "Proposed"
                                          ELSE IF d = c THEN "Waiting" ELSE state[d]]
        /\ reason' = [reason EXCEPT ![c] = r]
        /\ goal' = [d \in Commitment |-> IF d \in children THEN goal[c] ELSE goal[d]]
        /\ parent' = [d \in Commitment |-> IF d \in children THEN c ELSE parent[d]]
        /\ prereq' = edges
        /\ replacement' = [replacement EXCEPT ![c] = r]
        /\ UNCHANGED claim

\* apply_add_prerequisite; None stands for a prerequisite that is no edge.
AddPrerequisite(c, w, e, b, t, lease, p) ==
    LET edges == [prereq EXCEPT ![c] = @ \cup ({p} \ {None})]
    IN  /\ StructuralFence(c, w, e, b, t, lease)
        /\ replacement[c] = None
        /\ p # None => p \notin prereq[c] /\ Exists(p)
        /\ Acyclic(edges)
        /\ prereq' = edges
        /\ UNCHANGED <<state, reason, claim, goal, parent, replacement>>

\* apply_abandon
AbandonTarget(c, w, e, b, t, lease) ==
    /\ StructuralFence(c, w, e, b, t, lease)
    /\ state' = [state EXCEPT ![c] = "Abandoned"]
    /\ reason' = [reason EXCEPT ![c] = None]
    /\ claim' = [claim EXCEPT ![c] = NoClaim]
    /\ UNCHANGED topologyVars

-----------------------------------------------------------------------------
(* Opening the file: validation, then startup recovery *)

\* validate_persisted_topology
ValidTopology ==
    /\ Acyclic(prereq)
    /\ \A c \in Commitment : parent[c] # None => goal[parent[c]] = goal[c]
    /\ \A c \in Commitment : replacement[c] # None =>
        /\ parent[replacement[c]] = c
        /\ goal[replacement[c]] = goal[c]
        /\ \/ state[c] \in TerminalStates \cup {"RecoveryPending"}
           \/ state[c] = "Waiting" /\ reason[c] = replacement[c]

\* validate_guard_lock_consistency.  The row count is compared for every guard,
\* whatever its state, and a terminal guard may own no lock at all.
ValidGuardLocks ==
    \A g \in {h \in Guard : guard[h].st # "absent"} :
        /\ LocksOf(g) = guard[g].scopes
        /\ \A k \in guard[g].scopes :
            /\ lock[k].commitment = guard[g].commitment
            /\ \/ /\ guard[g].st = "issued"
                  /\ lock[k].mode = "reserved"
                  /\ lock[k].action = None
                  /\ lock[k].expires = guard[g].expires
               \/ /\ guard[g].st \in ActiveGuard
                  /\ lock[k].mode = "held"
                  /\ lock[k].action = guard[g].action
                  /\ lock[k].expires = 0

\* The checks startup_recovery makes, stated on the rows as they were before it
\* released the claims: first every claim and every state that bears one, ...
ClaimConsistent(c) ==
    IF HasClaim(c)
    THEN /\ claim[c].boot = boot
         /\ claim[c].epoch = epoch[c]
         /\ state[c] \in ClaimBearing
         /\ action[c] # None => state[c] = "Working"
    ELSE /\ state[c] \notin ClaimBearing
         /\ action[c] # None => state[c] \in {"RecoveryPending", "Uncertain"}

ClaimsConsistent == \A c \in Commitment : ClaimConsistent(c)

\* ... then the active guards, from which the held locks are rebuilt, ...
ActiveGuardsConsistent ==
    \A g \in {h \in Guard : guard[h].st \in ActiveGuard} :
        LET c == guard[g].commitment
        IN  /\ epoch[c] = guard[g].epoch
            /\ action[c] = guard[g].action
            /\ IF guard[g].st = "admitted"
               THEN HasClaim(c) \/ state[c] = "RecoveryPending"
               ELSE state[c] = "Uncertain" /\ reason[c] = guard[g].action
            /\ \A h \in Guard \ {g} : guard[h].st \in ActiveGuard =>
                    /\ guard[h].commitment # c
                    /\ guard[h].scopes \cap guard[g].scopes = {}

\* ... and last the outstanding actions.
NoOrphanAction ==
    \A c \in Commitment : action[c] # None =>
        \E g \in Guard : /\ guard[g].st \in ActiveGuard
                         /\ guard[g].commitment = c
                         /\ guard[g].action = action[c]

Recoverable == ClaimsConsistent /\ ActiveGuardsConsistent /\ NoOrphanAction

\* Fault: the locks of uncertain guards are not rebuilt.
RebuiltForAdmitted ==
    [k \in Scope |->
        IF lock[k].mode = "held" /\ guard[lock[k].guard].st = "admitted"
        THEN lock[k] ELSE FreeLock]

\* The scope_locks table startup_recovery writes after it emptied it.
RebuiltLocks ==
    LET owner(k) == {g \in Guard : guard[g].st \in ActiveGuard /\ k \in guard[g].scopes}
    IN  [k \in Scope |->
            IF owner(k) = {} THEN FreeLock
            ELSE LET g == CHOOSE g \in owner(k) : TRUE
                 IN  [mode |-> "held", guard |-> g,
                      commitment |-> guard[g].commitment,
                      action |-> guard[g].action, expires |-> 0]]

\* SqliteStore::open on an existing file, by a process that starts: claims and
\* reservations end, held locks are rebuilt from the active guards.  A process
\* that still works on the file meets the new boot generation at its next call.
Open ==
    LET issued == {g \in Guard : guard[g].st = "issued"}
    IN  /\ boot < MaxBoot
        /\ ValidTopology
        /\ ValidGuardLocks
        /\ Recoverable
        /\ state' = [c \in Commitment |->
                        IF HasClaim(c) THEN "RecoveryPending" ELSE state[c]]
        /\ reason' = [c \in Commitment |-> IF HasClaim(c) THEN None ELSE reason[c]]
        /\ claim' = [c \in Commitment |-> NoClaim]
        /\ guard' = Invalidated(issued)
        /\ lock' = RebuiltLocks
        /\ boot' = boot + 1
        /\ UNCHANGED <<epoch, action, topologyVars>>

-----------------------------------------------------------------------------
(* The specification.  Every instant is a reading of the caller's own       *)
(* monotonic clock, taken before it waits for the transaction: readings     *)
(* reach the store out of order, and those of another process or of another *)
(* boot bear no relation to it.  Open is taken at any time, also while      *)
(* another process works on the file.                                       *)

Dependencies == {D \in SUBSET Commitment : Cardinality(D) <= MaxDeps}
Instants == 0 .. MaxTime

CommitmentNext ==
    \/ \E c \in Commitment, gl \in Goal, p \in NewParents \cup {None},
          deps \in Dependencies : InsertCommitment(c, gl, p, deps)
    \/ \E c \in Commitment, w \in Worker, t \in Instants : PersistClaim(c, w, t)
    \/ \E c \in Commitment, s \in RowStates, r \in Action \cup {None} :
          PersistChange(c, s, r)

ClaimNext ==
    \/ \E c \in Commitment, w \in Worker, e \in 1 .. MaxEpoch, t \in Instants,
          lease \in LeaseDurations : RecordHeartbeat(c, w, e, t, lease)
    \/ \E t \in Instants, lease \in LeaseDurations : ProcessExpiredClaims(t, lease)
    \/ \E c \in Commitment : RecoverWithoutAction(c)

GuardNext ==
    \/ \E g \in Guard, c \in Commitment, w \in Worker, e \in 1 .. MaxEpoch,
          ks \in SUBSET Scope, b \in 0 .. MaxBoot, t \in Instants,
          ttl \in GuardTtls, lease \in LeaseDurations :
          IssueGuard(g, c, w, e, ks, b, t, ttl, lease)
    \/ \E g \in Guard, a \in Action, d \in Digest \cup {None}, t \in Instants :
          AdmitGuard(g, a, d, t)
    \/ \E g \in Guard, w \in Worker, e \in 1 .. MaxEpoch, t \in Instants,
          lease \in LeaseDurations : InvalidateGuard(g, w, e, t, lease)
    \/ \E g \in Guard, a \in Action, outcome \in SafeOutcomes,
          d \in Digest \cup {None} : RecordSafeOutcome(g, a, outcome, d)
    \/ \E g \in Guard, a \in Action, d \in Digest \cup {None} :
          RecordUncertainOutcome(g, a, d)

StructuralNext ==
    \E c \in Commitment, w \in Worker, e \in 1 .. MaxEpoch, b \in 0 .. MaxBoot,
       t \in Instants, lease \in LeaseDurations :
        \/ \E children \in SUBSET {d \in Commitment : ~Exists(d)} :
              \E deps \in [children -> Dependencies], r \in children :
                 Decompose(c, w, e, b, t, lease, deps, r)
        \/ \E p \in Commitment \cup {None} : AddPrerequisite(c, w, e, b, t, lease, p)
        \/ AbandonTarget(c, w, e, b, t, lease)

Next == CommitmentNext \/ ClaimNext \/ GuardNext \/ StructuralNext \/ Open

Spec == Init /\ [][Next]_vars

-----------------------------------------------------------------------------
(* Invariants *)

\* The table locks says exactly what the table guards says.
Mirrors(guards, locks) ==
    /\ \A g \in Guard : guards[g].st = "issued" =>
        \A k \in guards[g].scopes :
            locks[k] = [mode |-> "reserved", guard |-> g,
                        commitment |-> guards[g].commitment,
                        action |-> None, expires |-> guards[g].expires]
    /\ \A g \in Guard : guards[g].st \in ActiveGuard =>
        \A k \in guards[g].scopes :
            locks[k] = [mode |-> "held", guard |-> g,
                        commitment |-> guards[g].commitment,
                        action |-> guards[g].action, expires |-> 0]
    /\ \A k \in Scope : locks[k].mode # "free" =>
        /\ locks[k].guard \in Guard
        /\ guards[locks[k].guard].st \in ActiveGuard \cup {"issued"}
        /\ k \in guards[locks[k].guard].scopes

\* The scopes of an issued guard are reserved for it until the same deadline,
\* those of an admitted or uncertain guard are held for it under the same
\* action, and a resolved or invalidated guard owns no lock.  issue, admit,
\* invalidate, expiry, outcomes, the lease sweep, proposals and the restart all
\* rewrite both tables.
LocksMirrorGuards == Mirrors(guard, lock)

\* Every crash leaves rows that startup_recovery can rebuild from: claims are
\* of this boot and at the epoch high-water mark, an outstanding action has
\* exactly one active guard with disjoint scopes, and an uncertain guard's
\* commitment waits on its action.
CrashIsRecoverable == Recoverable

\* An action in flight is never handed to a second worker: while a guard is
\* admitted, only the worker it was issued to can hold the claim; and a
\* reservation of the current epoch belongs to the claimant.  Claims expire,
\* are released and re-taken while the action is out.
NoReassignmentUnderAction ==
    \A g \in Guard :
        LET c == guard[g].commitment
        IN  /\ guard[g].st = "admitted" /\ HasClaim(c) =>
                   claim[c].worker = guard[g].issuer
            /\ guard[g].st = "issued" /\ HasClaim(c) =>
                   \/ guard[g].epoch < claim[c].epoch
                   \/ claim[c].worker = guard[g].issuer

\* A reservation never outlasts the lease it was issued under, however the
\* claim is renewed or rewritten meanwhile (reservation_deadline), so that the
\* deadline admit_guard tests stands for the lease it does not test.
ReservationWithinLease ==
    \A g \in Guard :
        LET c == guard[g].commitment
        IN  guard[g].st = "issued" /\ HasClaim(c) /\ claim[c].epoch = guard[g].epoch =>
                \E lease \in LeaseDurations :
                    guard[g].expires <= claim[c].beat + lease

\* A terminal commitment has left nothing behind that could still act for it:
\* no claim, no outstanding action and no held scope.
TerminalOwnsNothing ==
    \A c \in Commitment : state[c] \in TerminalStates =>
        ~HasClaim(c) /\ action[c] = None /\ ~HoldsLock(c)

\* A decomposed commitment completes through its replacement and never by
\* itself: persist_commitment_change and recover_without_action both refuse.
BarrierHoldsParent ==
    \A p \in Commitment :
        replacement[p] # None /\ state[p] = "Completed" =>
            state[replacement[p]] = "Completed"

\* ... and the completion of the replacement reaches every ancestor that waits
\* for it in the same transaction, over nested decompositions and restarts.
BarrierReleasesParent ==
    \A p \in Commitment :
        replacement[p] # None /\ state[replacement[p]] = "Completed" =>
            state[p] \in TerminalStates

\* The cascade never meets a parent it must refuse, so no completion of a
\* replacement is rolled back on account of its ancestors.
CascadeNeverAborts ==
    \A c \in Commitment : state[c] = "CompletionProposed" => CascadeSucceeds(c)

\* No structural proposal closes a cycle of prerequisites through two or more
\* commitments, children of concurrent decompositions included.  (A row can
\* still name itself: see TopologyStaysValid.)
NoDependencyCycle ==
    \A C \in SUBSET Commitment : Cardinality(C) > 1 =>
        \E c \in C : prereq[c] \cap (C \ {c}) = {}

\* What the rows of live guards rest on: a commitment that exists, an epoch it
\* has reached and, from admission on, an action reference.
GuardRowsWellFormed ==
    \A g \in Guard : guard[g].st \in ActiveGuard \cup {"issued"} =>
        /\ guard[g].commitment \in Commitment
        /\ guard[g].epoch <= epoch[guard[g].commitment]
        /\ guard[g].st \in ActiveGuard => guard[g].action \in Action

\* The inductive invariant: the fence of an action spans the commitment row,
\* the claim, the guard and the locks, and each needs the others.
FenceInvariant ==
    /\ TypeOK
    /\ GuardRowsWellFormed
    /\ LocksMirrorGuards
    /\ CrashIsRecoverable
    /\ NoReassignmentUnderAction

-----------------------------------------------------------------------------
(* Action properties *)

\* An uncertain outcome is never collapsed: its guard, its locks, the action
\* and the wait stay through claims, sweeps, proposals and restarts.
UncertainIsFrozen ==
    \A g \in Guard : guard[g].st = "uncertain" =>
        LET c == guard[g].commitment
        IN  /\ guard'[g] = guard[g]
            /\ \A k \in guard[g].scopes : lock'[k] = lock[k]
            /\ action'[c] = action[c]
            /\ state'[c] = "Uncertain" /\ reason'[c] = reason[c]

UncertainStaysFenced == [][UncertainIsFrozen]_vars

\* A held scope is given up by nothing but a safe outcome of the very action
\* that holds it: not by lease expiry, reservation expiry or a restart.
HeldUntilSafeOutcome ==
    [][\A k \in Scope : lock[k].mode = "held" /\ lock'[k] # lock[k] =>
          /\ guard[lock[k].guard].st = "admitted"
          /\ guard'[lock[k].guard].st = "resolved"
          /\ lock'[k] = FreeLock]_vars

\* Terminal states are immutable: a parent that was cancelled or abandoned while
\* its replacement went on stays so when the replacement completes, also in the
\* middle of a nested decomposition (complete_composite_barrier_cascade).
TerminalIsFinal ==
    [][\A c \in Commitment : state[c] \in TerminalStates => state'[c] = state[c]]_vars

\* A guard that was resolved or invalidated stays so, and an admitted one is
\* never taken back: only its outcome moves it on.
GuardLifecycle ==
    [][\A g \in Guard : guard'[g] # guard[g] =>
          /\ guard[g].st \notin {"resolved", "invalidated", "uncertain"}
          /\ guard[g].st = "admitted" => guard'[g].st \in {"resolved", "uncertain"}]_vars

-----------------------------------------------------------------------------
(* What the documents say and the code does not do *)

\* "File-backed open performs schema migration and startup recovery before
\* returning a usable store" (docs/PERSISTENCE.md): whatever the operations
\* have written, the next open passes the validation that precedes recovery.
ReopenAlwaysPossible == ValidTopology /\ ValidGuardLocks /\ Recoverable

\* "parent and child commitments have different goals", "self dependency is a
\* cycle": the topology insert_commitment accepts is one that structural
\* proposals and the validation at the next open accept too.
TopologyStaysValid == ValidTopology
=============================================================================
