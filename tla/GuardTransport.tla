--------------------------- MODULE GuardTransport ---------------------------
(***************************************************************************)
(* The HTTPS bridge of resolve-transport between the store and Tethers,    *)
(* which executes the actions.  Tethers asks for one admission per action, *)
(* runs the provider only on an ADMITTED answer, makes the outcome durable *)
(* and delivers it until it is acknowledged.  A request that was sent may  *)
(* be served never, late or several times, so a message is never taken out *)
(* of the network: one that is not read again is lost, one that is read    *)
(* again is a duplicate.  Workers, sweeps and restarts go on in the store  *)
(* meanwhile.                                                              *)
(*                                                                         *)
(* Tethers is not in this repository: its steps are those the handlers and *)
(* the wire types presuppose.  A body that fails authentication, parsing   *)
(* or validation is answered with an empty 400 and touches nothing, so     *)
(* only well-formed requests are in the model.                             *)
(***************************************************************************)
EXTENDS FencedStore

VARIABLES
    exec,  \* what Tethers knows of each action
    net    \* requests and answers under way

bridgeVars == <<vars, exec, net>>

Outcomes == SafeOutcomes \cup {"Uncertain"}
Results == {"RECORDED", "ALREADY_RECORDED", "CONFLICT"}
Decisions == {"ADMITTED", "REJECTED", "INDETERMINATE"}

ExecRow ==
    [st : {"idle", "asked", "refused", "running", "done"},
     guard : Guard \cup {None}, digest : Digest \cup {None}, scopes : SUBSET Scope,
     outcome : Outcomes \cup {"none"}, ack : Results \cup {"none"}]
NoExec ==
    [st |-> "idle", guard |-> None, digest |-> None, scopes |-> {},
     outcome |-> "none", ack |-> "none"]

\* A request or an answer belongs to its action: a digest of the whole request
\* comes back with the answer.
AdmissionRequest(a) == [to |-> "resolve", about |-> "admission", action |-> a]
OutcomeRequest(a) == [to |-> "resolve", about |-> "outcome", action |-> a]
AdmissionResponse(a, d) ==
    [to |-> "tethers", about |-> "admission", action |-> a, says |-> d]
OutcomeResponse(a, r) ==
    [to |-> "tethers", about |-> "outcome", action |-> a, says |-> r]

Message ==
    {AdmissionRequest(a) : a \in Action} \cup {OutcomeRequest(a) : a \in Action}
        \cup {AdmissionResponse(a, d) : a \in Action, d \in Decisions}
        \cup {OutcomeResponse(a, r) : a \in Action, r \in Results}

\* Tethers' record of every action, and messages of the protocol only.
BridgeTypeOK ==
    /\ TypeOK
    /\ exec \in [Action -> ExecRow]
    /\ net \subseteq Message

-----------------------------------------------------------------------------
(* What the store says of an admission *)

\* The reason of the first check that fails, in the order they are made.
FirstFailing(checks) ==
    LET failing == {i \in DOMAIN checks : checks[i].fails}
    IN  IF failing = {} THEN "admitted"
        ELSE checks[CHOOSE i \in failing : \A j \in failing : i <= j].code

Check(fails, code) == [fails |-> fails, code |-> code]

\* admit_guard_internal on a reservation.  A reference that another guard has
\* used already runs into the unique index: a database error.
IssuedVerdict(a, t) ==
    LET ask == exec[a]
        g == ask.guard
        row == guard[g]
        c == row.commitment
    IN  FirstFailing(<<
            Check(g \in ExpiredOn(row.scopes, t), "guard_expired"),
            Check(row.scopes # ask.scopes, "scope_keys_mismatch"),
            Check(\E k \in row.scopes : lock[k].mode # "reserved" \/ lock[k].guard # g,
                  "internal_integrity"),
            Check(row.expires <= t, "guard_expired"),
            Check(state[c] # "Working", "task_not_active"),
            Check(action[c] # None, "action_mismatch"),
            Check(~HasClaim(c), "ownership_changed"),
            Check(claim[c].epoch # row.epoch, "fence_changed"),
            Check(epoch[c] # row.epoch, "internal_integrity"),
            Check(claim[c].boot # boot \/ row.boot # boot, "fence_changed"),
            Check(~ActionUnused(a), "state_unavailable")>>)

\* Fault: any action is told that the guard is admitted.
RepeatOfAnyAction(a) ==
    LET ask == exec[a]
        row == guard[ask.guard]
    IN  FirstFailing(<<
            Check(row.digest # ask.digest, "preparation_mismatch"),
            Check(row.scopes # ask.scopes, "scope_keys_mismatch")>>)

\* ... and on a guard admitted before: only an exact repeat is admitted again.
RepeatVerdict(a) ==
    LET ask == exec[a]
        row == guard[ask.guard]
    IN  FirstFailing(<<
            Check(row.action # a, "guard_already_bound"),
            Check(row.digest # ask.digest, "preparation_mismatch"),
            Check(row.scopes # ask.scopes, "scope_keys_mismatch")>>)

\* The reason code of the request Tethers made for a, served at instant t.
Verdict(a, t) ==
    LET st == guard[exec[a].guard].st
    IN  CASE exec[a].scopes = {} -> "scope_keys_mismatch"
          [] exec[a].scopes # {} /\ st = "absent" -> "guard_not_found"
          [] exec[a].scopes # {} /\ st = "admitted" -> RepeatVerdict(a)
          [] exec[a].scopes # {} /\ st \in {"uncertain", "resolved", "invalidated"}
                -> "guard_revoked"
          [] exec[a].scopes # {} /\ st = "issued" -> IssuedVerdict(a, t)

\* Fault: the reason code is sent where the decision belongs.
DecisionMixedUp(code) == code

\* The decision that goes with a reason code.
Decision(code) ==
    CASE code = "admitted" -> "ADMITTED"
      [] code \in {"internal_integrity", "state_unavailable"} -> "INDETERMINATE"
      [] OTHER -> "REJECTED"

\* Fault: an outcome is expected while the worker holds on to the commitment.
RecordableWhileWorking(g, a) ==
    LET c == guard[g].commitment
    IN  /\ guard[g].st = "admitted"
        /\ action[c] = a
        /\ state[c] = "Working"

\* The commitment, its action and its locks are as the admission left them, or
\* the worker was lost meanwhile.
Recordable(g, a) ==
    LET c == guard[g].commitment
    IN  /\ guard[g].st = "admitted"
        /\ action[c] = a
        /\ state[c] \in {"Working", "RecoveryPending"}
        /\ exec[a].outcome \in SafeOutcomes =>
              {k \in LocksOf(g) : lock[k].mode = "held"} = guard[g].scopes

\* What the store says of the outcome of a: the guard is found by the action
\* reference, and the preparation digest must be the admission's.
OutcomeVerdict(a) ==
    LET bound == {g \in Guard : guard[g].action = a /\ guard[g].digest = exec[a].digest}
        said(g) == IF guard[g].st = "uncertain" THEN "Uncertain" ELSE guard[g].outcome
        settled(g) == guard[g].st \in {"resolved", "uncertain"}
    IN  CASE \E g \in bound : Recordable(g, a) -> "RECORDED"
          [] \E g \in bound : settled(g) /\ said(g) = exec[a].outcome -> "ALREADY_RECORDED"
          [] \E g \in bound : settled(g) /\ said(g) # exec[a].outcome -> "CONFLICT"
          [] OTHER -> "closed_failure"

-----------------------------------------------------------------------------
(* Tethers *)

RequestAdmission(a, g, d, ks) ==
    /\ exec[a].st = "idle"
    /\ exec' = [exec EXCEPT ![a] = [NoExec EXCEPT !.st = "asked", !.guard = g,
                                                  !.digest = d, !.scopes = ks]]
    /\ net' = net \cup {AdmissionRequest(a)}
    /\ UNCHANGED vars

\* What is under way to a caller for action a, about an admission or an outcome.
Answers(a, about) ==
    {m \in net : m.to = "tethers" /\ m.action = a /\ m.about = about}

\* Only ADMITTED invokes the provider.  The exchange is synchronous: after the
\* first answer nobody listens for another.
ReceiveAdmission(a, d) ==
    /\ AdmissionResponse(a, d) \in net
    /\ exec[a].st = "asked"
    /\ exec' = [exec EXCEPT ![a].st = IF d = "ADMITTED" THEN "running" ELSE "refused"]
    /\ net' = net \ Answers(a, "admission")
    /\ UNCHANGED vars

\* The timeout of the client, or an answer it cannot accept.
GiveUp(a) ==
    /\ exec[a].st = "asked"
    /\ exec' = [exec EXCEPT ![a].st = "refused"]
    /\ net' = net \ Answers(a, "admission")
    /\ UNCHANGED vars

ClassifyOutcome(a, o) ==
    /\ exec[a].st = "running"
    /\ exec' = [exec EXCEPT ![a].st = "done", ![a].outcome = o]
    /\ UNCHANGED <<vars, net>>

\* A durable outcome is sent; sending it again changes nothing.
DeliverOutcome(a) ==
    /\ exec[a].st = "done"
    /\ OutcomeRequest(a) \notin net
    /\ net' = net \cup {OutcomeRequest(a)}
    /\ UNCHANGED <<vars, exec>>

ReceiveOutcome(a, r) ==
    /\ OutcomeResponse(a, r) \in net
    /\ exec[a].ack = "none"
    /\ exec' = [exec EXCEPT ![a].ack = r]
    /\ net' = net \ Answers(a, "outcome")
    /\ UNCHANGED vars

-----------------------------------------------------------------------------
(* The handlers *)

\* The answer goes to the caller that waits for it, if it still does.
Reply(m) ==
    LET waits == IF m.about = "admission" THEN exec[m.action].st = "asked"
                 ELSE exec[m.action].ack = "none"
    IN  net' = IF waits THEN net \cup {m} ELSE net

\* admit: the service lock makes the store operation one step; every verdict
\* but the first admission leaves the store as it was.
Admit(a, t) ==
    LET verdict == Verdict(a, t)
    IN  /\ AdmissionRequest(a) \in net
        /\ IF verdict = "admitted" /\ guard[exec[a].guard].st = "issued"
           THEN AdmitGuard(exec[a].guard, a, exec[a].digest, t)
           ELSE UNCHANGED vars
        /\ Reply(AdmissionResponse(a, Decision(verdict)))
        /\ UNCHANGED exec

\* run_store: the lock is poisoned or the worker has died, before the store is
\* reached or in a transaction that rolls back.
AdmitWithoutStore(a) ==
    /\ AdmissionRequest(a) \in net
    /\ Reply(AdmissionResponse(a, "INDETERMINATE"))
    /\ UNCHANGED <<vars, exec>>

\* record_outcome; a closed failure carries no protocol answer.
RecordOutcome(a) ==
    LET verdict == OutcomeVerdict(a)
        d == exec[a].digest
    IN  /\ OutcomeRequest(a) \in net
        /\ verdict # "closed_failure"
        /\ IF verdict = "RECORDED"
           THEN \E g \in Guard :
                   \/ /\ exec[a].outcome \in SafeOutcomes
                      /\ RecordSafeOutcome(g, a, exec[a].outcome, d)
                   \/ /\ exec[a].outcome = "Uncertain"
                      /\ RecordUncertainOutcome(g, a, d)
           ELSE UNCHANGED vars
        /\ Reply(OutcomeResponse(a, verdict))
        /\ UNCHANGED exec

-----------------------------------------------------------------------------
(* The specification *)

\* Everything else that happens in the store.  Admissions and outcomes go
\* through the bridge only.
ReservationNext ==
    \/ \E g \in Guard, c \in Commitment, w \in Worker, e \in 1 .. MaxEpoch,
          ks \in SUBSET Scope, b \in 0 .. MaxBoot, t \in Instants,
          ttl \in GuardTtls, lease \in LeaseDurations :
          IssueGuard(g, c, w, e, ks, b, t, ttl, lease)
    \/ \E g \in Guard, w \in Worker, e \in 1 .. MaxEpoch, t \in Instants,
          lease \in LeaseDurations : InvalidateGuard(g, w, e, t, lease)

StoreNext ==
    /\ CommitmentNext \/ ClaimNext \/ ReservationNext \/ StructuralNext \/ Open
    /\ UNCHANGED <<exec, net>>

BridgeInit ==
    /\ Init
    /\ exec = [a \in Action |-> NoExec]
    /\ net = {}

BridgeNext ==
    \/ StoreNext
    \/ \E a \in Action :
          \/ \E g \in Guard, d \in Digest, ks \in SUBSET Scope :
                RequestAdmission(a, g, d, ks)
          \/ \E t \in Instants : Admit(a, t)
          \/ AdmitWithoutStore(a)
          \/ \E d \in Decisions : ReceiveAdmission(a, d)
          \/ GiveUp(a)
          \/ \E o \in Outcomes : ClassifyOutcome(a, o)
          \/ DeliverOutcome(a)
          \/ RecordOutcome(a)
          \/ \E r \in Results : ReceiveOutcome(a, r)

BridgeSpec == BridgeInit /\ [][BridgeNext]_bridgeVars

\* Tethers sends a durable outcome until it has an answer, the bridge answers
\* what it is sent, and not every answer is lost.  Nothing is asked of workers,
\* sweeps or restarts.
OutcomeFairness ==
    \A a \in Action :
        /\ WF_bridgeVars(DeliverOutcome(a))
        /\ WF_bridgeVars(RecordOutcome(a))
        /\ WF_bridgeVars(\E r \in Results : ReceiveOutcome(a, r))

FairBridgeSpec == BridgeSpec /\ OutcomeFairness

-----------------------------------------------------------------------------
(* Properties *)

\* An ADMITTED answer holds for as long as Tethers may act on it: from the
\* moment it is sent until the outcome is durable, the scopes Tethers asked for
\* are held under the action, whatever restarts, lease sweeps, expiries and
\* duplicates of the request do meanwhile.
AdmissionStandsUntilOutcome ==
    \A a \in Action :
        \/ exec[a].st = "running"
        \/ exec[a].st = "asked" /\ AdmissionResponse(a, "ADMITTED") \in net
        => /\ exec[a].scopes # {}
           /\ \A k \in exec[a].scopes : lock[k].mode = "held" /\ lock[k].action = a

\* The outcome of an action that ran can always be recorded, or has been: no
\* state of the commitment, of its claim or of its locks turns the delivery
\* into a conflict or a closed failure, however late or often it comes.
OutcomeAlwaysDeliverable ==
    \A a \in Action : exec[a].st = "done" =>
        OutcomeVerdict(a) \in {"RECORDED", "ALREADY_RECORDED"}

\* The reason codes after which the same request is as good as dead: its guard
\* is gone, is another action's, or belongs to an earlier claim.
FinalReasons ==
    {"guard_revoked", "guard_already_bound", "preparation_mismatch", "fence_changed"}

\* A request refused for one of the final reasons is never admitted afterwards,
\* even if it is served again at another instant, after a restart or after the
\* claim was taken anew.
RefusalIsFinal ==
    [][\A a \in Action, t \in Instants :
          exec[a].st # "idle" /\ Verdict(a, t) \in FinalReasons =>
              \A u \in Instants : Verdict(a, u)' # "admitted"]_bridgeVars

\* Every durable outcome is acknowledged in the end, also when the worker that
\* asked for the guard is gone, its lease has run out or the store was reopened.
\* It holds while a process serves the store: once a guard has ended, a crash
\* leaves a file that cannot be opened again (ReopenAlwaysPossible).
DurableOutcomeAcknowledged ==
    \A a \in Action :
        exec[a].st = "done" ~> exec[a].ack \in {"RECORDED", "ALREADY_RECORDED"}

\* The store never contradicts itself before Tethers: whatever was retried, lost
\* or expired, admit_guard never finds rows at odds with each other.  (This is
\* the verdict of the store.  A bridge whose store cannot be reached, which is
\* AdmitWithoutStore, answers with the same reason code.)
NoIntegrityFailure ==
    \A a \in Action, t \in Instants :
        exec[a].st # "idle" => Verdict(a, t) \notin {"internal_integrity", "ownership_changed"}
=============================================================================
