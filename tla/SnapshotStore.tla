---------------------------- MODULE SnapshotStore ----------------------------
(***************************************************************************)
(* The store of FencedStore with the callers it really has: a caller loads *)
(* a commitment, works on its copy in memory, and hands the copy back to   *)
(* persist_commitment_change together with the state_version it expects.   *)
(*                                                                         *)
(* load_commitment runs its SELECTs one by one, outside a transaction, so  *)
(* other processes write between them.  It returns no version either: the  *)
(* caller takes that from load_commitment_record, from its own last write, *)
(* or asks for it again just before it persists.                           *)
(*                                                                         *)
(* FencedStore lets every write start from the current row.  Here a write  *)
(* puts back what the copy holds, and the refinement of Spec shows that    *)
(* the checks of persist_commitment_change make up the difference.         *)
(***************************************************************************)
EXTENDS FencedStore

CONSTANTS
    Client,      \* callers of the optimistic interface
    MaxVersion   \* state_version after which next_state_version is exhausted

ASSUME VersionBoundAssumption == MaxVersion \in Nat

VARIABLES
    version,  \* commitments.state_version, 0 for an absent row
    copy      \* the copy of a commitment each client holds

snapshotVars == <<version, copy>>
allVars == <<vars, version, copy>>

-----------------------------------------------------------------------------
(* Copies *)

\* seen is what the first SELECT returned, or the client's last write left: no
\* field of the Commitment, it only tells later what the client knew.  paired:
\* the expected version belongs to seen, it was not asked for again later.
SeenRow ==
    [state : CommitmentState, reason : Action \cup Commitment \cup {None},
     epoch : Nat, action : Action \cup {None}]
Copy ==
    [stage : {"none", "row", "claim", "loaded"}, id : Commitment \cup {None},
     version : Nat, paired : BOOLEAN, seen : SeenRow,
     state : CommitmentState, reason : Action \cup Commitment \cup {None},
     epoch : Nat, action : Action \cup {None}, claim : ClaimRow,
     prereq : SUBSET Commitment]
NoCopy ==
    [stage |-> "none", id |-> None, version |-> 0, paired |-> FALSE,
     seen |-> [state |-> "Absent", reason |-> None, epoch |-> 0, action |-> None],
     state |-> "Absent", reason |-> None, epoch |-> 0, action |-> None,
     claim |-> NoClaim, prereq |-> {}]

\* Every copy is a Commitment and every version one that an i64 can hold.
SnapshotTypeOK ==
    /\ TypeOK
    /\ version \in [Commitment -> 0 .. MaxVersion]
    /\ copy \in [Client -> Copy]

CurrentRow(c) ==
    [state |-> state[c], reason |-> reason[c], epoch |-> epoch[c], action |-> action[c]]

\* A claim as the domain type ClaimLease has it: without the boot generation.
Lease(row) == [row EXCEPT !.boot = 0]

-----------------------------------------------------------------------------
(* load_commitment: one step per SELECT whose rows can change *)

LoadRow(cl, c) ==
    /\ Exists(c)
    /\ copy' = [copy EXCEPT ![cl] =
                  [stage |-> "row", id |-> c, version |-> version[c], paired |-> TRUE,
                   seen |-> CurrentRow(c), state |-> state[c], reason |-> reason[c],
                   epoch |-> epoch[c], action |-> action[c], claim |-> NoClaim,
                   prereq |-> {}]]
    /\ UNCHANGED <<vars, version>>

\* The claim is read, and the halves must agree: load_commitment_record and
\* Commitment::restore.  A copy that does not is an error and is dropped.
LoadClaim(cl) ==
    LET s == copy[cl]
        row == claim[s.id]
        agree == /\ row.worker # None => row.epoch = s.epoch
                 /\ (s.state \in ClaimBearing) <=> (row.worker # None)
                 /\ s.action # None =>
                        \/ s.state \in {"Working", "RecoveryPending"}
                        \/ s.state = "Uncertain" /\ s.reason = s.action
    IN  /\ s.stage = "row"
        /\ copy' = [copy EXCEPT ![cl] =
                      IF agree THEN [s EXCEPT !.stage = "claim", !.claim = Lease(row)]
                      ELSE NoCopy]
        /\ UNCHANGED <<vars, version>>

LoadPrerequisites(cl) ==
    /\ copy[cl].stage = "claim"
    /\ copy' = [copy EXCEPT ![cl].stage = "loaded",
                            ![cl].prereq = prereq[copy[cl].id]]
    /\ UNCHANGED <<vars, version>>

\* load_commitment_record(id).state_version(), asked for again.
RereadVersion(cl) ==
    /\ copy[cl].stage = "loaded"
    /\ copy[cl].version # version[copy[cl].id]
    /\ copy' = [copy EXCEPT ![cl].version = version[copy[cl].id],
                            ![cl].paired = FALSE]
    /\ UNCHANGED <<vars, version>>

-----------------------------------------------------------------------------
(* The methods of Commitment *)

\* The methods that require_current_claim: start, wait, resume and
\* propose_completion keep the claim; resume(Ready), complete and the wait for
\* an uncertain action give it up.
ByClaimant(s) ==
    {[s EXCEPT !.state = to, !.reason = None] :
        to \in {x \in {"Working", "Waiting", "CompletionProposed"} :
                  s.claim.worker # None /\ ValidTransition(s.state, x)}}
    \cup
    {[s EXCEPT !.state = to, !.reason = None, !.claim = NoClaim] :
        to \in {x \in {"Ready", "Completed"} :
                  s.claim.worker # None /\ ValidTransition(s.state, x)}}
    \cup
    {[s EXCEPT !.state = "Uncertain", !.reason = a, !.claim = NoClaim] :
        a \in {x \in Action : s.claim.worker # None
                              /\ ValidTransition(s.state, "Uncertain")}}

\* activate leaves a claim where it is, cancel and abandon end it.
ByAnyone(s) ==
    {[s EXCEPT !.state = to, !.reason = None,
               !.claim = IF to = "Ready" THEN @ ELSE NoClaim] :
        to \in {x \in {"Ready"} \cup Exits : ValidTransition(s.state, x)}}

\* claim_for
ClaimFor(s, w, t) ==
    [s EXCEPT !.state = "Claimed", !.reason = None, !.epoch = s.epoch + 1,
              !.claim = [worker |-> w, epoch |-> s.epoch + 1, beat |-> t, boot |-> 0]]
ClaimedFor(s) ==
    {ClaimFor(s, w, t) : w \in {x \in Worker : /\ s.claim.worker = None
                                              /\ ValidTransition(s.state, "Claimed")
                                              /\ s.epoch < MaxEpoch},
                         t \in Instants}

Mutate(cl) ==
    /\ copy[cl].stage = "loaded"
    /\ \E s \in ByClaimant(copy[cl]) \cup ByAnyone(copy[cl]) \cup ClaimedFor(copy[cl]) :
          copy' = [copy EXCEPT ![cl] = s]
    /\ UNCHANGED <<vars, version>>

-----------------------------------------------------------------------------
(* persist_commitment_change *)

\* Fault: the heartbeat of the claim is not compared.
ClaimAcceptableStaleBeat(c, s) ==
    LET held == HasClaim(c)
        carried == s.claim.worker # None
    IN  /\ (s.state \in ClaimBearing) <=> carried
        /\ held /\ carried => /\ s.claim.worker = claim[c].worker
                              /\ s.claim.epoch = claim[c].epoch
                              /\ claim[c].epoch = epoch[c]
                              /\ s.epoch = epoch[c]
        /\ ~held /\ carried => /\ state[c] = "Ready" /\ s.state = "Claimed"
                               /\ s.claim.epoch = epoch[c] + 1
                               /\ s.epoch = epoch[c] + 1
        /\ ~carried => s.epoch = epoch[c]

\* validate_claim_persistence: a claim is carried on unchanged, given up, or
\* taken anew at the epoch that follows the high-water mark.
ClaimAcceptable(c, s) ==
    LET held == HasClaim(c)
        carried == s.claim.worker # None
    IN  /\ (s.state \in ClaimBearing) <=> carried
        /\ held /\ carried => /\ s.claim = Lease(claim[c])
                              /\ claim[c].epoch = epoch[c]
                              /\ s.epoch = epoch[c]
        /\ ~held /\ carried => /\ state[c] = "Ready" /\ s.state = "Claimed"
                               /\ s.claim.epoch = epoch[c] + 1
                               /\ s.epoch = epoch[c] + 1
        /\ ~carried => s.epoch = epoch[c]

\* Fault: a version from the past is good enough.
VersionNotAhead(c, s) == s.version <= version[c]

\* ensure_version
VersionCurrent(c, s) == s.version = version[c]

\* Fault: the last version is taken once more.
BumpPastTheEnd(cs) ==
    /\ \A c \in cs : version[c] <= MaxVersion
    /\ version' = [c \in Commitment |-> IF c \in cs THEN version[c] + 1 ELSE version[c]]

\* next_state_version on every row of cs; the other rows keep theirs.
Bump(cs) ==
    /\ \A c \in cs : version[c] < MaxVersion
    /\ version' = [c \in Commitment |-> IF c \in cs THEN version[c] + 1 ELSE version[c]]

\* Fault: a composite parent can be resumed from a copy.
BarrierIgnored(c, s) == TRUE

\* Behind an active composite barrier only the explicit exits are accepted.
BarrierAllows(c, s) == replacement[c] # None => s \in Exits

\* Fault: the parents a cascade completes keep their versions.
OnlyTheRow(c, s) == {c}

\* The rows whose version a write of state s to c raises: with a completion the
\* cascade rewrites the waiting parents too.
Rewritten(c, s) == {c} \cup IF s = "Completed" THEN Cascade(c) ELSE {}

\* The copy s replaces the row of c, its references and its claim.
Persist(cl) ==
    LET s == copy[cl]
        c == s.id
        done == IF s.state = "Completed" THEN Cascade(c) ELSE {}
    IN  /\ s.stage = "loaded"
        /\ VersionCurrent(c, s)
        /\ s.prereq = prereq[c]
        /\ action[c] = None
        /\ BarrierAllows(c, s.state)
        /\ s.action = None
        /\ ValidTransition(state[c], s.state)
        /\ ClaimAcceptable(c, s)
        /\ s.state = "Completed" => CascadeSucceeds(c)
        /\ state' = [d \in Commitment |-> IF d \in done THEN "Completed"
                                          ELSE IF d = c THEN s.state ELSE state[d]]
        /\ reason' = [d \in Commitment |-> IF d \in done THEN None
                                           ELSE IF d = c THEN s.reason ELSE reason[d]]
        /\ epoch' = [epoch EXCEPT ![c] = IF @ < s.epoch THEN s.epoch ELSE @]
        /\ action' = [action EXCEPT ![c] = s.action]
        /\ prereq' = [prereq EXCEPT ![c] = s.prereq]
        /\ claim' = [d \in Commitment |->
                        IF d \in done THEN NoClaim
                        ELSE IF d # c THEN claim[d]
                        ELSE IF s.claim.worker = None THEN NoClaim
                        ELSE [s.claim EXCEPT !.boot = boot]]
        /\ UNCHANGED <<goal, parent, replacement, fenceVars, boot>>
        /\ Bump(Rewritten(c, s.state))
        /\ copy' = [copy EXCEPT ![cl].version = s.version + 1, ![cl].paired = TRUE,
                                ![cl].seen = [state |-> s.state, reason |-> s.reason,
                                              epoch |-> s.epoch, action |-> s.action]]

-----------------------------------------------------------------------------
(* The other operations of the store, with the versions they write *)

\* Fault: an accepted outcome leaves the version of the commitment alone.
OutcomeWithoutBump ==
    \E g \in Guard, a \in Action, d \in Digest \cup {None} :
        /\ \/ \E outcome \in SafeOutcomes : RecordSafeOutcome(g, a, outcome, d)
           \/ RecordUncertainOutcome(g, a, d)
        /\ UNCHANGED version

OutcomeVersioned ==
    \E g \in Guard, a \in Action, d \in Digest \cup {None} :
        /\ \/ \E outcome \in SafeOutcomes : RecordSafeOutcome(g, a, outcome, d)
           \/ RecordUncertainOutcome(g, a, d)
        /\ Bump({guard[g].commitment})

\* Issuing and withdrawing a guard writes no commitment row.
GuardVersioned ==
    \/ \E g \in Guard, c \in Commitment, w \in Worker, e \in 1 .. MaxEpoch,
          ks \in SUBSET Scope, b \in 0 .. MaxBoot, t \in Instants,
          ttl \in GuardTtls, lease \in LeaseDurations :
          IssueGuard(g, c, w, e, ks, b, t, ttl, lease) /\ UNCHANGED version
    \/ \E g \in Guard, w \in Worker, e \in 1 .. MaxEpoch, t \in Instants,
          lease \in LeaseDurations :
          InvalidateGuard(g, w, e, t, lease) /\ UNCHANGED version
    \/ \E g \in Guard, a \in Action, d \in Digest \cup {None}, t \in Instants :
          AdmitGuard(g, a, d, t) /\ Bump({guard[g].commitment})
    \/ OutcomeVersioned

\* A heartbeat writes the claim row only: it is the one change that leaves the
\* version of the commitment as it was.
ClaimVersioned ==
    \/ \E c \in Commitment, w \in Worker, e \in 1 .. MaxEpoch, t \in Instants,
          lease \in LeaseDurations :
          RecordHeartbeat(c, w, e, t, lease) /\ UNCHANGED version
    \/ \E t \in Instants, lease \in LeaseDurations :
          /\ ProcessExpiredClaims(t, lease)
          /\ Bump({c \in Commitment : HasClaim(c) /\ ~LeaseLive(c, lease, t)})
    \/ \E c \in Commitment :
          /\ RecoverWithoutAction(c)
          /\ Bump(IF replacement[c] = None THEN {c} ELSE Cascade(replacement[c]))

\* The target gets the next version, the children of a decomposition the first.
StructuralVersioned ==
    \E c \in Commitment, w \in Worker, e \in 1 .. MaxEpoch, b \in 0 .. MaxBoot,
       t \in Instants, lease \in LeaseDurations :
        \/ \E children \in SUBSET {d \in Commitment : ~Exists(d)} :
              \E deps \in [children -> Dependencies], r \in children :
                 Decompose(c, w, e, b, t, lease, deps, r) /\ Bump(children \cup {c})
        \/ \E p \in Commitment \cup {None} :
              AddPrerequisite(c, w, e, b, t, lease, p) /\ Bump({c})
        \/ AbandonTarget(c, w, e, b, t, lease) /\ Bump({c})

\* Callers beyond Client persist too.  Their copy is left out: a write from it
\* is one of FencedStore's, which is what the refinement shows of Persist.
PersistVersioned ==
    \/ \E c \in Commitment, w \in Worker, t \in Instants :
          PersistClaim(c, w, t) /\ Bump({c})
    \/ \E c \in Commitment, s \in RowStates, r \in Action \cup {None} :
          PersistChange(c, s, r) /\ Bump(Rewritten(c, s))

OtherOperation ==
    /\ \/ \E c \in Commitment, gl \in Goal, p \in NewParents \cup {None},
             deps \in Dependencies : InsertCommitment(c, gl, p, deps) /\ Bump({c})
       \/ PersistVersioned
       \/ ClaimVersioned
       \/ GuardVersioned
       \/ StructuralVersioned
       \/ Open /\ Bump({c \in Commitment : HasClaim(c)})
    /\ UNCHANGED copy

SnapshotInit ==
    /\ Init
    /\ version = [c \in Commitment |-> 0]
    /\ copy = [cl \in Client |-> NoCopy]

SnapshotNext ==
    \/ OtherOperation
    \/ \E cl \in Client :
          \/ \E c \in Commitment : LoadRow(cl, c)
          \/ LoadClaim(cl)
          \/ LoadPrerequisites(cl)
          \/ RereadVersion(cl)
          \/ Mutate(cl)
          \/ Persist(cl)

SnapshotSpec == SnapshotInit /\ [][SnapshotNext]_allVars

-----------------------------------------------------------------------------
(* Properties *)

\* A client that persists under the version its copy was loaded with overwrites
\* nothing it has not seen, although the copy was put together from several
\* SELECTs and although claims, guards, outcomes, sweeps, proposals and restarts
\* rewrite the row meanwhile: only a heartbeat can have come in between, and
\* then the write gives the claim up.
NoLostUpdate ==
    [][\A cl \in Client :
          LET s == copy[cl]
          IN  Persist(cl) /\ s.paired =>
                /\ s.seen = CurrentRow(s.id)
                /\ claim'[s.id].worker = claim[s.id].worker =>
                        claim'[s.id].beat = claim[s.id].beat]_allVars

\* Whatever copies the callers hold and whatever version they quote, every write
\* is one that FencedStore allows from the current row, so its invariants and
\* action properties hold for stale callers as well: what a copy puts back
\* (claim, epoch, references) is checked against the row, not just the version.
ImplementsFencedStore == Spec

\* As long as the version stands, the row is the one the client has seen: every
\* operation that changes the row also raises its version.
VersionIdentifiesRow ==
    \A cl \in Client :
        LET s == copy[cl]
        IN  s.stage # "none" /\ s.paired /\ s.version = version[s.id] =>
                s.seen = CurrentRow(s.id)
=============================================================================
