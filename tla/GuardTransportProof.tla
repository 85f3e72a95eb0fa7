------------------------- MODULE GuardTransportProof -------------------------
(***************************************************************************)
(* The bridge between the store and Tethers, for every number of actions,  *)
(* guards and messages.  The bridge adds no way to change the store: every *)
(* step of it is a step of the store, so that what is proved of the store  *)
(* holds of the store behind the bridge.  What Tethers knows of an action  *)
(* is then tied to the guard it was admitted under.                        *)
(***************************************************************************)
EXTENDS FencedStoreSteps, GuardTransport, WellFoundedInduction

-----------------------------------------------------------------------------
(* The protocol *)

\* Who asked has named a guard and a digest; what is under way about an action
\* tells how far Tethers has got with it.
ProtocolOrder ==
    \A a \in Action :
        /\ exec[a].st # "idle" => exec[a].guard \in Guard /\ exec[a].digest \in Digest
        /\ exec[a].st = "done" => exec[a].outcome \in Outcomes
        /\ AdmissionRequest(a) \in net => exec[a].st # "idle"
        /\ OutcomeRequest(a) \in net => exec[a].st = "done"
        /\ \A d \in Decisions : AdmissionResponse(a, d) \in net => exec[a].st = "asked"

ProtocolInvariant ==
    /\ exec \in [Action -> ExecRow]
    /\ net \subseteq Message
    /\ ProtocolOrder

\* A message tells what it is about, and for which action.
LEMMA MessagesDiffer ==
    ASSUME NEW a, NEW b
    PROVE  /\ AdmissionRequest(a) = AdmissionRequest(b) => a = b
           /\ OutcomeRequest(a) = OutcomeRequest(b) => a = b
           /\ AdmissionRequest(a) # OutcomeRequest(b)
           /\ \A d, r : /\ AdmissionRequest(a) # AdmissionResponse(b, d)
                        /\ AdmissionRequest(a) # OutcomeResponse(b, r)
                        /\ OutcomeRequest(a) # AdmissionResponse(b, d)
                        /\ OutcomeRequest(a) # OutcomeResponse(b, r)
                        /\ AdmissionResponse(a, d) # OutcomeResponse(b, r)
                        /\ AdmissionResponse(a, d) = AdmissionResponse(b, r) =>
                              a = b /\ d = r
<1>1. /\ AdmissionRequest(a).action = a /\ AdmissionRequest(b).action = b
      /\ AdmissionRequest(a).about = "admission" /\ AdmissionRequest(a).to = "resolve"
      /\ OutcomeRequest(a).action = a /\ OutcomeRequest(b).action = b
      /\ OutcomeRequest(a).to = "resolve" /\ OutcomeRequest(b).about = "outcome"
  BY DEF AdmissionRequest, OutcomeRequest
<1>2. ASSUME NEW d, NEW r
      PROVE  /\ AdmissionResponse(b, d).to = "tethers" /\ OutcomeResponse(b, r).to = "tethers"
             /\ AdmissionResponse(a, d).about = "admission"
             /\ OutcomeResponse(b, r).about = "outcome"
             /\ AdmissionResponse(a, d).action = a /\ AdmissionResponse(a, d).says = d
             /\ AdmissionResponse(b, r).action = b /\ AdmissionResponse(b, r).says = r
  BY DEF AdmissionResponse, OutcomeResponse
<1>3. ASSUME NEW d, NEW r
      PROVE  /\ AdmissionRequest(a) # AdmissionResponse(b, d)
             /\ AdmissionRequest(a) # OutcomeResponse(b, r)
             /\ OutcomeRequest(a) # AdmissionResponse(b, d)
             /\ OutcomeRequest(a) # OutcomeResponse(b, r)
             /\ AdmissionResponse(a, d) # OutcomeResponse(b, r)
             /\ AdmissionResponse(a, d) = AdmissionResponse(b, r) => a = b /\ d = r
  <2>1. /\ AdmissionResponse(b, d).to = "tethers" /\ OutcomeResponse(b, r).to = "tethers"
        /\ AdmissionResponse(a, d).about = "admission"
        /\ OutcomeResponse(b, r).about = "outcome"
        /\ AdmissionResponse(a, d).action = a /\ AdmissionResponse(a, d).says = d
        /\ AdmissionResponse(b, r).action = b /\ AdmissionResponse(b, r).says = r
    BY <1>2
  <2>2. QED
    BY <1>1, <2>1
<1>4. AdmissionRequest(a) # OutcomeRequest(b)
  <2>1. "admission" # "outcome"
    OBVIOUS
  <2>2. QED
    BY <1>1, <2>1, Zenon
<1>5. QED
  BY <1>1, <1>3, <1>4, Zenon

\* A step that adds no message and leaves Tethers' records as they are.
LEMMA QuietProtocol ==
    ASSUME ProtocolInvariant, UNCHANGED exec, net' \subseteq net
    PROVE  ProtocolInvariant'
<1>1. ProtocolOrder'
  BY DEF ProtocolInvariant, ProtocolOrder
<1>2. QED
  BY <1>1 DEF ProtocolInvariant

\* The bridge answers: an admission to a caller that asked, an outcome to one
\* that delivers.
LEMMA ReplyKeepsProtocol ==
    ASSUME ProtocolInvariant, UNCHANGED exec, NEW a \in Action, NEW m, Reply(m),
           \/ \E d \in Decisions : m = AdmissionResponse(a, d)
           \/ \E r \in Results : m = OutcomeResponse(a, r)
    PROVE  ProtocolInvariant'
<1>1. CASE net' = net
  BY <1>1, QuietProtocol
<1>2. ASSUME NEW d \in Decisions, m = AdmissionResponse(a, d), net' # net
      PROVE  ProtocolInvariant'
  <2>1. m.about = "admission" /\ m.action = a
    BY <1>2 DEF AdmissionResponse
  <2>2. exec[a].st = "asked" /\ net' = net \cup {m}
    BY <1>2, <2>1 DEF Reply
  <2>3. m \in Message
    <3>1. m \in {AdmissionResponse(x, y) : x \in Action, y \in Decisions}
      BY <1>2
    <3>2. QED
      BY <3>1 DEF Message
  <2>4. ProtocolOrder'
    <3> SUFFICES ASSUME NEW b \in Action
                 PROVE /\ AdmissionRequest(b) \in net' => AdmissionRequest(b) \in net
                       /\ OutcomeRequest(b) \in net' => OutcomeRequest(b) \in net
                       /\ \A e \in Decisions : AdmissionResponse(b, e) \in net' =>
                             AdmissionResponse(b, e) \in net \/ b = a
      BY <2>2 DEF ProtocolInvariant, ProtocolOrder
    <3> QED
      BY <1>2, <2>2, MessagesDiffer
  <2>5. QED
    BY <2>2, <2>3, <2>4 DEF ProtocolInvariant
<1>3. ASSUME NEW r \in Results, m = OutcomeResponse(a, r), net' # net
      PROVE  ProtocolInvariant'
  <2>1. net' = net \cup {m} /\ m \in Message
    <3>1. m \in {OutcomeResponse(x, y) : x \in Action, y \in Results}
      BY <1>3
    <3>2. net' = net \cup {m}
      BY <1>3 DEF Reply
    <3>3. QED
      BY <3>1, <3>2 DEF Message
  <2>2. ProtocolOrder'
    <3> SUFFICES ASSUME NEW b \in Action
                 PROVE /\ AdmissionRequest(b) \in net' => AdmissionRequest(b) \in net
                       /\ OutcomeRequest(b) \in net' => OutcomeRequest(b) \in net
                       /\ \A e \in Decisions : AdmissionResponse(b, e) \in net' =>
                             AdmissionResponse(b, e) \in net
      BY DEF ProtocolInvariant, ProtocolOrder
    <3> QED
      BY <1>3, <2>1, MessagesDiffer
  <2>3. QED
    BY <2>1, <2>2 DEF ProtocolInvariant
<1>4. QED
  BY <1>1, <1>2, <1>3

\* A verdict is answered with a decision or a result of the protocol.
LEMMA AnswersExist ==
    /\ \A code : Decision(code) \in Decisions
    /\ \A code : Decision(code) = "ADMITTED" => code = "admitted"
    /\ \A a \in Action : OutcomeVerdict(a) \in Results \cup {"closed_failure"}
<1>1. \A code : Decision(code) \in Decisions
  BY DEF Decision, Decisions
<1>2. \A code : Decision(code) = "ADMITTED" => code = "admitted"
  BY DEF Decision
<1>3. \A a \in Action : OutcomeVerdict(a) \in Results \cup {"closed_failure"}
  BY DEF OutcomeVerdict, Results
<1>4. QED
  BY <1>1, <1>2, <1>3

\* The answers that Tethers no longer waits for are gone.
LEMMA AnswersGone ==
    ASSUME NEW a, NEW d, net' = net \ Answers(a, "admission")
    PROVE  AdmissionResponse(a, d) \notin net'
<1>1. /\ AdmissionResponse(a, d).to = "tethers" /\ AdmissionResponse(a, d).action = a
      /\ AdmissionResponse(a, d).about = "admission"
  BY DEF AdmissionResponse
<1>2. QED
  BY <1>1 DEF Answers
\* Every step of Tethers and of the bridge keeps the order of the protocol.
LEMMA ProtocolStep ==
    ASSUME ProtocolInvariant, [BridgeNext]_bridgeVars
    PROVE  ProtocolInvariant'
<1>1. exec \in [Action -> ExecRow] /\ net \subseteq Message /\ ProtocolOrder
  BY DEF ProtocolInvariant
<1>2. ASSUME NEW a \in Action, NEW g \in Guard, NEW d \in Digest, NEW ks \in SUBSET Scope,
             RequestAdmission(a, g, d, ks)
      PROVE  ProtocolInvariant'
  <2> DEFINE row == [NoExec EXCEPT !.st = "asked", !.guard = g, !.digest = d, !.scopes = ks]
  <2>1. /\ row \in ExecRow /\ row.st = "asked" /\ row.guard = g /\ row.digest = d
    BY DEF NoExec, ExecRow
  <2>2. exec' = [exec EXCEPT ![a] = row] /\ net' = net \cup {AdmissionRequest(a)}
    BY <1>2 DEF RequestAdmission
  <2>3. AdmissionRequest(a) \in Message
    BY DEF Message
  <2> HIDE DEF row
  <2>4. exec'[a] = row /\ \A b \in Action \ {a} : exec'[b] = exec[b]
    BY <1>1, <2>2
  <2>5. \A b \in Action :
            /\ AdmissionRequest(b) \in net' => AdmissionRequest(b) \in net \/ b = a
            /\ OutcomeRequest(b) \in net' => OutcomeRequest(b) \in net
            /\ \A e \in Decisions : AdmissionResponse(b, e) \in net' =>
                   AdmissionResponse(b, e) \in net
    BY <2>2, MessagesDiffer
  <2>6. exec[a].st = "idle"
    BY <1>2 DEF RequestAdmission
  <2>7. ProtocolOrder'
    BY <1>1, <2>1, <2>4, <2>5, <2>6 DEF ProtocolOrder
  <2>8. QED
    BY <1>1, <2>1, <2>2, <2>3, <2>7 DEF ProtocolInvariant
<1>3. ASSUME NEW a \in Action, exec[a].st = "asked", NEW st \in {"running", "refused"},
             exec' = [exec EXCEPT ![a].st = st], net' = net \ Answers(a, "admission")
      PROVE  ProtocolInvariant'
  <2>1. /\ exec' \in [Action -> ExecRow] /\ exec'[a].st = st
        /\ exec'[a].guard = exec[a].guard /\ exec'[a].digest = exec[a].digest
        /\ \A b \in Action \ {a} : exec'[b] = exec[b]
    BY <1>1, <1>3 DEF ExecRow
  <2>2. \A d \in Decisions : AdmissionResponse(a, d) \notin net'
    BY <1>3, AnswersGone
  <2>3. net' \subseteq net
    BY <1>3
  <2>4. ProtocolOrder'
    BY <1>1, <1>3, <2>1, <2>2, <2>3 DEF ProtocolOrder
  <2>5. QED
    BY <1>1, <2>1, <2>3, <2>4 DEF ProtocolInvariant
<1>4. ASSUME NEW a \in Action, NEW d \in Decisions, ReceiveAdmission(a, d)
      PROVE  ProtocolInvariant'
  BY <1>3, <1>4 DEF ReceiveAdmission
<1>5. ASSUME NEW a \in Action, GiveUp(a)
      PROVE  ProtocolInvariant'
  BY <1>3, <1>5 DEF GiveUp
<1>6. ASSUME NEW a \in Action, NEW o \in Outcomes, ClassifyOutcome(a, o)
      PROVE  ProtocolInvariant'
  <2> DEFINE row == [exec[a] EXCEPT !.st = "done", !.outcome = o]
  <2>1. exec[a] \in ExecRow
    BY <1>1
  <2>2. /\ row \in ExecRow /\ row.st = "done" /\ row.outcome = o
        /\ row.guard = exec[a].guard /\ row.digest = exec[a].digest
    BY <2>1 DEF ExecRow
  <2>3. exec' = [exec EXCEPT ![a] = row]
    BY <1>1, <1>6 DEF ClassifyOutcome
  <2> HIDE DEF row
  <2>4. /\ exec' \in [Action -> ExecRow] /\ exec'[a].st = "done" /\ exec'[a].outcome = o
        /\ exec'[a].guard = exec[a].guard /\ exec'[a].digest = exec[a].digest
        /\ \A b \in Action \ {a} : exec'[b] = exec[b]
    BY <1>1, <2>2, <2>3
  <2>5. net' = net /\ exec[a].st = "running"
    BY <1>6 DEF ClassifyOutcome
  <2>6. ProtocolOrder'
    BY <1>1, <2>4, <2>5 DEF ProtocolOrder
  <2>7. QED
    BY <1>1, <2>4, <2>5, <2>6 DEF ProtocolInvariant
<1>7. ASSUME NEW a \in Action, DeliverOutcome(a)
      PROVE  ProtocolInvariant'
  <2>1. net' = net \cup {OutcomeRequest(a)} /\ exec' = exec /\ exec[a].st = "done"
    BY <1>7 DEF DeliverOutcome
  <2>2. OutcomeRequest(a) \in Message
    BY DEF Message
  <2>3. \A b \in Action :
            /\ AdmissionRequest(b) \in net' => AdmissionRequest(b) \in net
            /\ OutcomeRequest(b) \in net' => OutcomeRequest(b) \in net \/ b = a
            /\ \A e \in Decisions : AdmissionResponse(b, e) \in net' =>
                   AdmissionResponse(b, e) \in net
    BY <2>1, MessagesDiffer
  <2>4. ProtocolOrder'
    BY <1>1, <2>1, <2>3 DEF ProtocolOrder
  <2>5. QED
    BY <1>1, <2>1, <2>2, <2>4 DEF ProtocolInvariant
<1>8. ASSUME NEW a \in Action, NEW r \in Results, ReceiveOutcome(a, r)
      PROVE  ProtocolInvariant'
  <2>1. /\ exec' \in [Action -> ExecRow] /\ exec'[a].st = exec[a].st
        /\ exec'[a].outcome = exec[a].outcome
        /\ exec'[a].guard = exec[a].guard /\ exec'[a].digest = exec[a].digest
        /\ \A b \in Action \ {a} : exec'[b] = exec[b]
    BY <1>1, <1>8 DEF ExecRow, ReceiveOutcome
  <2>2. net' \subseteq net
    BY <1>8 DEF ReceiveOutcome
  <2>3. ProtocolOrder'
    BY <1>1, <2>1, <2>2 DEF ProtocolOrder
  <2>4. QED
    BY <1>1, <2>1, <2>2, <2>3 DEF ProtocolInvariant
<1>9. ASSUME NEW a \in Action, NEW t \in Instants, Admit(a, t)
      PROVE  ProtocolInvariant'
  <2>1. PICK d \in Decisions : d = Decision(Verdict(a, t))
    BY AnswersExist
  <2>2. Reply(AdmissionResponse(a, d)) /\ UNCHANGED exec
    BY <1>9, <2>1 DEF Admit
  <2>3. QED
    BY <2>2, ReplyKeepsProtocol
<1>10. ASSUME NEW a \in Action, AdmitWithoutStore(a)
       PROVE  ProtocolInvariant'
  <2>1. /\ Reply(AdmissionResponse(a, "INDETERMINATE")) /\ UNCHANGED exec
        /\ "INDETERMINATE" \in Decisions
    BY <1>10 DEF AdmitWithoutStore, Decisions
  <2>2. QED
    BY <2>1, ReplyKeepsProtocol
<1>11. ASSUME NEW a \in Action, RecordOutcome(a)
       PROVE  ProtocolInvariant'
  <2>1. PICK r \in Results : r = OutcomeVerdict(a)
    BY <1>11, AnswersExist DEF RecordOutcome
  <2>2. Reply(OutcomeResponse(a, r)) /\ UNCHANGED exec
    BY <1>11, <2>1 DEF RecordOutcome
  <2>3. QED
    BY <2>2, ReplyKeepsProtocol
<1>12. CASE StoreNext
  BY <1>12, QuietProtocol DEF StoreNext
<1>13. CASE UNCHANGED bridgeVars
  BY <1>13, QuietProtocol DEF bridgeVars
<1>14. QED
  BY <1>2, <1>4, <1>5, <1>6, <1>7, <1>8, <1>9, <1>10, <1>11, <1>12, <1>13 DEF BridgeNext

\* The protocol is followed in every behaviour.
LEMMA ProtocolIsInvariant == BridgeSpec => []ProtocolInvariant
<1>1. BridgeInit => ProtocolInvariant
  <2> SUFFICES ASSUME BridgeInit PROVE ProtocolInvariant
    OBVIOUS
  <2>1. NoExec \in ExecRow /\ NoExec.st = "idle"
    BY DEF NoExec, ExecRow
  <2>2. exec \in [Action -> ExecRow] /\ net = {} /\ \A a \in Action : exec[a].st = "idle"
    BY <2>1 DEF BridgeInit
  <2>3. QED
    BY <2>2 DEF ProtocolInvariant, ProtocolOrder
<1>2. QED
  BY <1>1, ProtocolStep, PTL DEF BridgeSpec

-----------------------------------------------------------------------------
(* The store behind the bridge *)

\* Every step of the bridge is a step of the store, or leaves the store alone.
LEMMA BridgeStepIsStoreStep ==
    ASSUME ProtocolInvariant, [BridgeNext]_bridgeVars
    PROVE  [Next]_vars
<1>1. exec \in [Action -> ExecRow] /\ ProtocolOrder
  BY DEF ProtocolInvariant
<1>2. ASSUME NEW a \in Action, NEW t \in Instants, Admit(a, t)
      PROVE  [Next]_vars
  <2>1. PICK g, d : g = exec[a].guard /\ d = exec[a].digest
    OBVIOUS
  <2>2. g \in Guard /\ d \in Digest
    BY <1>1, <1>2, <2>1 DEF Admit, ProtocolOrder
  <2>3. AdmitGuard(g, a, d, t) \/ UNCHANGED vars
    BY <1>2, <2>1 DEF Admit
  <2>4. QED
    BY <2>2, <2>3 DEF Next, GuardNext
<1>3. ASSUME NEW a \in Action, RecordOutcome(a)
      PROVE  [Next]_vars
  <2>1. PICK d, o : d = exec[a].digest /\ o = exec[a].outcome
    OBVIOUS
  <2>2. d \in Digest \cup {None}
    BY <1>1, <2>1 DEF ExecRow
  <2>3. \/ \E g \in Guard : \/ o \in SafeOutcomes /\ RecordSafeOutcome(g, a, o, d)
                            \/ RecordUncertainOutcome(g, a, d)
        \/ UNCHANGED vars
    BY <1>3, <2>1 DEF RecordOutcome
  <2>4. QED
    BY <2>2, <2>3 DEF Next, GuardNext
<1>4. CASE StoreNext
  <2>1. CASE ReservationNext
    BY <2>1 DEF ReservationNext, Next, GuardNext
  <2>2. QED
    BY <1>4, <2>1 DEF StoreNext, Next
<1>5. ASSUME NEW a \in Action,
             \/ \E g \in Guard, d \in Digest, ks \in SUBSET Scope : RequestAdmission(a, g, d, ks)
             \/ AdmitWithoutStore(a)
             \/ \E d \in Decisions : ReceiveAdmission(a, d)
             \/ GiveUp(a)
             \/ \E o \in Outcomes : ClassifyOutcome(a, o)
             \/ DeliverOutcome(a)
             \/ \E r \in Results : ReceiveOutcome(a, r)
      PROVE  UNCHANGED vars
  BY <1>5 DEF RequestAdmission, AdmitWithoutStore, ReceiveAdmission, GiveUp, ClassifyOutcome,
              DeliverOutcome, ReceiveOutcome
<1>6. CASE UNCHANGED bridgeVars
  BY <1>6 DEF bridgeVars
<1>7. QED
  BY <1>2, <1>3, <1>4, <1>5, <1>6 DEF BridgeNext

\* The bridge gives Tethers no way around the store: its handlers change the
\* rows through the operations of the store alone, so that every behaviour of
\* the bridge is one of the store.
THEOREM BridgeImplementsStore == BridgeSpec => Spec
<1>1. BridgeInit => Init
  BY DEF BridgeInit
<1>2. ProtocolInvariant /\ [BridgeNext]_bridgeVars => [Next]_vars
  BY BridgeStepIsStoreStep
<1>3. QED
  BY <1>1, <1>2, ProtocolIsInvariant, PTL DEF BridgeSpec, Spec

\* Rows, records of Tethers and messages are well-formed behind the bridge.
THEOREM BridgeTypeCorrectness == BridgeSpec => []BridgeTypeOK
<1>1. TypeOK /\ ProtocolInvariant => BridgeTypeOK
  BY DEF ProtocolInvariant, BridgeTypeOK
<1>2. QED
  BY <1>1, BridgeImplementsStore, TypeCorrectness, ProtocolIsInvariant, PTL
-----------------------------------------------------------------------------
(* Verdicts *)

\* The library's well-founded order on the naturals, without its operator.
LEMMA LessIsWellFounded ==
    IsWellFoundedOn({ss \in Nat \X Nat : ss[1] < ss[2]}, Nat)
BY NatLessThanWellFounded DEF OpToRel

\* A set of naturals that has an element has a least one.
LEMMA LeastNatural ==
    ASSUME NEW S \in SUBSET Nat, S # {}
    PROVE  \E u \in S : \A y \in S : u <= y
<1> DEFINE Less == {ss \in Nat \X Nat : ss[1] < ss[2]}
<1>1. \E u \in S : \A y \in S : <<y, u>> \notin Less
  <2>1. IsWellFoundedOn(Less, Nat)
    BY LessIsWellFounded
  <2> HIDE DEF Less
  <2>2. QED
    BY <2>1, WFMin
<1>2. \A x, y \in Nat : <<y, x>> \notin Less => x <= y
  OBVIOUS
<1> HIDE DEF Less
<1>3. QED
  BY <1>1, <1>2

\* FirstFailing finds the first check that fails, or none does.
LEMMA FirstFailingMeaning ==
    ASSUME NEW checks, DOMAIN checks \in SUBSET Nat
    PROVE  \/ /\ FirstFailing(checks) = "admitted"
              /\ \A i \in DOMAIN checks : ~checks[i].fails
           \/ \E i \in DOMAIN checks :
                 /\ checks[i].fails
                 /\ FirstFailing(checks) = checks[i].code
                 /\ \A j \in DOMAIN checks : checks[j].fails => i <= j
<1> DEFINE failing == {i \in DOMAIN checks : checks[i].fails}
           first == CHOOSE i \in failing : \A j \in failing : i <= j
<1>1. FirstFailing(checks) = IF failing = {} THEN "admitted" ELSE checks[first].code
  BY DEF FirstFailing
<1>2. CASE failing = {}
  BY <1>1, <1>2
<1>3. CASE failing # {}
  <2>1. failing \in SUBSET Nat
    OBVIOUS
  <2>2. \E i \in failing : \A j \in failing : i <= j
    <3> HIDE DEF failing
    <3> QED BY <1>3, <2>1, LeastNatural
  <2>3. first \in failing /\ \A j \in failing : first <= j
    <3> HIDE DEF failing
    <3> QED BY <2>2
  <2> HIDE DEF first
  <2>4. QED
    BY <1>1, <1>3, <2>3
<1>4. QED
  BY <1>2, <1>3

\* The two fields of a check.
LEMMA CheckFields ==
    ASSUME NEW P \in BOOLEAN, NEW code
    PROVE  (Check(P, code).fails <=> P) /\ Check(P, code).code = code
BY DEF Check

\* The verdict on a request that repeats an admission.
LEMMA RepeatMeaning ==
    ASSUME NEW a
    PROVE  LET row == guard[exec[a].guard]
           IN  /\ RepeatVerdict(a) = "admitted" =>
                     /\ row.action = a /\ row.digest = exec[a].digest
                     /\ row.scopes = exec[a].scopes
               /\ RepeatVerdict(a) \in {"admitted", "guard_already_bound",
                                        "preparation_mismatch", "scope_keys_mismatch"}
               /\ RepeatVerdict(a) \in {"guard_already_bound", "preparation_mismatch"} =>
                     row.action # a \/ row.digest # exec[a].digest
<1> DEFINE row == guard[exec[a].guard]
           checks == <<Check(row.action # a, "guard_already_bound"),
                       Check(row.digest # exec[a].digest, "preparation_mismatch"),
                       Check(row.scopes # exec[a].scopes, "scope_keys_mismatch")>>
<1>1. RepeatVerdict(a) = FirstFailing(checks)
  BY DEF RepeatVerdict
<1>2. /\ DOMAIN checks = 1 .. 3
      /\ checks[1].fails <=> row.action # a
      /\ checks[2].fails <=> row.digest # exec[a].digest
      /\ checks[3].fails <=> row.scopes # exec[a].scopes
      /\ checks[1].code = "guard_already_bound" /\ checks[2].code = "preparation_mismatch"
      /\ checks[3].code = "scope_keys_mismatch"
  <2>1. /\ DOMAIN checks = 1 .. 3
        /\ checks[1] = Check(row.action # a, "guard_already_bound")
        /\ checks[2] = Check(row.digest # exec[a].digest, "preparation_mismatch")
        /\ checks[3] = Check(row.scopes # exec[a].scopes, "scope_keys_mismatch")
    OBVIOUS
  <2> HIDE DEF checks
  <2>2. QED
    BY <2>1, CheckFields
<1> HIDE DEF checks
<1>3. DOMAIN checks \in SUBSET Nat
  BY <1>2
<1>4. \/ /\ FirstFailing(checks) = "admitted"
         /\ \A i \in DOMAIN checks : ~checks[i].fails
      \/ \E i \in DOMAIN checks : checks[i].fails /\ FirstFailing(checks) = checks[i].code
  BY <1>3, FirstFailingMeaning
<1>5. ASSUME NEW i \in DOMAIN checks, checks[i].fails
      PROVE  \/ /\ checks[i].code \in {"guard_already_bound", "preparation_mismatch"}
                /\ row.action # a \/ row.digest # exec[a].digest
             \/ checks[i].code = "scope_keys_mismatch"
  <2>1. i = 1 \/ i = 2 \/ i = 3
    BY <1>2
  <2>2. QED
    BY <1>2, <1>5, <2>1
<1>6. QED
  BY <1>1, <1>2, <1>4, <1>5
\* Rows that the fence of guard row, commitment c and instant t rests on.
IssuedFence(g, c, t) ==
    /\ g \notin ExpiredOn(guard[g].scopes, t)
    /\ \A k \in guard[g].scopes : lock[k].mode = "reserved" /\ lock[k].guard = g
    /\ ~(guard[g].expires <= t)
    /\ state[c] = "Working" /\ action[c] = None
    /\ HasClaim(c) /\ claim[c].epoch = guard[g].epoch /\ epoch[c] = guard[g].epoch
    /\ claim[c].boot = boot /\ guard[g].boot = boot

\* The verdict on a request for a reservation: it is admitted on an intact
\* fence, and the reasons that point to rows at odds say which.
LEMMA IssuedMeaning ==
    ASSUME NEW a, NEW t, NEW g, g = exec[a].guard, NEW c, c = guard[g].commitment
    PROVE  /\ IssuedVerdict(a, t) = "admitted" =>
                 /\ IssuedFence(g, c, t)
                 /\ guard[g].scopes = exec[a].scopes
                 /\ ActionUnused(a)
           /\ IssuedVerdict(a, t) = "internal_integrity" =>
                 \/ ~ \A k \in guard[g].scopes : lock[k].mode = "reserved" /\ lock[k].guard = g
                 \/ HasClaim(c) /\ claim[c].epoch = guard[g].epoch /\ epoch[c] # guard[g].epoch
           /\ IssuedVerdict(a, t) = "ownership_changed" => state[c] = "Working" /\ ~HasClaim(c)
           /\ IssuedVerdict(a, t) = "fence_changed" =>
                 /\ HasClaim(c)
                 /\ \/ claim[c].epoch # guard[g].epoch
                    \/ claim[c].boot # boot \/ guard[g].boot # boot
           /\ IssuedVerdict(a, t) \notin {"guard_revoked", "guard_already_bound",
                                          "preparation_mismatch"}
<1> DEFINE
      F1 == g \in ExpiredOn(guard[g].scopes, t)
      F2 == guard[g].scopes # exec[a].scopes
      F3 == \E k \in guard[g].scopes : lock[k].mode # "reserved" \/ lock[k].guard # g
      F4 == guard[g].expires <= t
      F5 == state[c] # "Working"
      F6 == action[c] # None
      F7 == ~HasClaim(c)
      F8 == claim[c].epoch # guard[g].epoch
      F9 == epoch[c] # guard[g].epoch
      F10 == claim[c].boot # boot \/ guard[g].boot # boot
      F11 == ~ActionUnused(a)
      checks == <<Check(F1, "guard_expired"), Check(F2, "scope_keys_mismatch"),
                  Check(F3, "internal_integrity"), Check(F4, "guard_expired"),
                  Check(F5, "task_not_active"), Check(F6, "action_mismatch"),
                  Check(F7, "ownership_changed"), Check(F8, "fence_changed"),
                  Check(F9, "internal_integrity"), Check(F10, "fence_changed"),
                  Check(F11, "state_unavailable")>>
<1>1. IssuedVerdict(a, t) = FirstFailing(checks)
  BY DEF IssuedVerdict
<1>2. /\ F1 \in BOOLEAN /\ F2 \in BOOLEAN /\ F3 \in BOOLEAN /\ F4 \in BOOLEAN
      /\ F5 \in BOOLEAN /\ F6 \in BOOLEAN /\ F7 \in BOOLEAN /\ F8 \in BOOLEAN
      /\ F9 \in BOOLEAN /\ F10 \in BOOLEAN /\ F11 \in BOOLEAN
  BY DEF HasClaim, ActionUnused
<1>3. /\ F3 <=> ~ \A k \in guard[g].scopes : lock[k].mode = "reserved" /\ lock[k].guard = g
      /\ F5 <=> state[c] # "Working"
      /\ F7 <=> ~HasClaim(c)
      /\ F8 <=> claim[c].epoch # guard[g].epoch
      /\ F9 <=> epoch[c] # guard[g].epoch
      /\ F10 <=> (claim[c].boot # boot \/ guard[g].boot # boot)
      /\ F2 <=> guard[g].scopes # exec[a].scopes
      /\ F11 <=> ~ActionUnused(a)
      /\ (~F1 /\ ~F3 /\ ~F4 /\ ~F5 /\ ~F6 /\ ~F7 /\ ~F8 /\ ~F9 /\ ~F10) => IssuedFence(g, c, t)
  BY DEF IssuedFence
<1> HIDE DEF F1, F2, F3, F4, F5, F6, F7, F8, F9, F10, F11
<1>4. /\ DOMAIN checks = 1 .. 11
      /\ checks[1] = Check(F1, "guard_expired") /\ checks[2] = Check(F2, "scope_keys_mismatch")
      /\ checks[3] = Check(F3, "internal_integrity") /\ checks[4] = Check(F4, "guard_expired")
      /\ checks[5] = Check(F5, "task_not_active") /\ checks[6] = Check(F6, "action_mismatch")
      /\ checks[7] = Check(F7, "ownership_changed") /\ checks[8] = Check(F8, "fence_changed")
      /\ checks[9] = Check(F9, "internal_integrity") /\ checks[10] = Check(F10, "fence_changed")
      /\ checks[11] = Check(F11, "state_unavailable")
  OBVIOUS
<1> HIDE DEF checks
<1>5. /\ (checks[1].fails <=> F1) /\ checks[1].code = "guard_expired"
      /\ (checks[2].fails <=> F2) /\ checks[2].code = "scope_keys_mismatch"
      /\ (checks[3].fails <=> F3) /\ checks[3].code = "internal_integrity"
      /\ (checks[4].fails <=> F4) /\ checks[4].code = "guard_expired"
      /\ (checks[5].fails <=> F5) /\ checks[5].code = "task_not_active"
      /\ (checks[6].fails <=> F6) /\ checks[6].code = "action_mismatch"
      /\ (checks[7].fails <=> F7) /\ checks[7].code = "ownership_changed"
      /\ (checks[8].fails <=> F8) /\ checks[8].code = "fence_changed"
      /\ (checks[9].fails <=> F9) /\ checks[9].code = "internal_integrity"
      /\ (checks[10].fails <=> F10) /\ checks[10].code = "fence_changed"
      /\ (checks[11].fails <=> F11) /\ checks[11].code = "state_unavailable"
  BY <1>2, <1>4, CheckFields
<1>6. DOMAIN checks \in SUBSET Nat
  BY <1>4
<1>7. CASE /\ FirstFailing(checks) = "admitted"
           /\ \A i \in DOMAIN checks : ~checks[i].fails
  <2>1. \A i \in 1 .. 11 : ~checks[i].fails
    BY <1>4, <1>7
  <2>2. ~F1 /\ ~F2 /\ ~F3 /\ ~F4 /\ ~F5 /\ ~F6 /\ ~F7 /\ ~F8 /\ ~F9 /\ ~F10 /\ ~F11
    BY <1>5, <2>1
  <2>3. QED
    BY <1>1, <1>3, <1>7, <2>2
<1>8. ASSUME NEW i \in DOMAIN checks, checks[i].fails,
             FirstFailing(checks) = checks[i].code,
             \A j \in DOMAIN checks : checks[j].fails => i <= j
      PROVE  /\ IssuedVerdict(a, t) \notin {"admitted", "guard_revoked",
                                            "guard_already_bound", "preparation_mismatch"}
             /\ IssuedVerdict(a, t) = "internal_integrity" => F3 \/ (F9 /\ ~F7 /\ ~F8)
             /\ IssuedVerdict(a, t) = "ownership_changed" => F7 /\ ~F5
             /\ IssuedVerdict(a, t) = "fence_changed" => ~F7 /\ (F8 \/ F10)
  <2>1. /\ i \in 1 .. 11
        /\ \A j \in 1 .. 11 : checks[j].fails => i <= j
    BY <1>4, <1>8
  <2>2. CASE i \in 1 .. 6 \/ i = 11
    <3>1. i = 1 \/ i = 2 \/ i = 3 \/ i = 4 \/ i = 5 \/ i = 6 \/ i = 11
      BY <2>2
    <3>2. \/ checks[i].code \in {"guard_expired", "scope_keys_mismatch", "task_not_active",
                                 "action_mismatch", "state_unavailable"}
          \/ F3 /\ checks[i].code = "internal_integrity"
      BY <1>5, <1>8, <3>1
    <3>3. QED
      BY <1>1, <1>8, <3>2
  <2>3. CASE i = 7
    <3>1. ~checks[5].fails /\ checks[7].fails /\ checks[i].code = "ownership_changed"
      BY <1>5, <1>8, <2>1, <2>3
    <3>2. QED
      BY <1>1, <1>5, <1>8, <3>1
  <2>4. CASE i = 8 \/ i = 10
    <3>1. ~checks[7].fails /\ (F8 \/ F10) /\ checks[i].code = "fence_changed"
      BY <1>5, <1>8, <2>1, <2>4
    <3>2. QED
      BY <1>1, <1>5, <1>8, <3>1
  <2>5. CASE i = 9
    <3>1. /\ ~checks[7].fails /\ ~checks[8].fails /\ checks[9].fails
          /\ checks[i].code = "internal_integrity"
      BY <1>5, <1>8, <2>1, <2>5
    <3>2. QED
      BY <1>1, <1>5, <1>8, <3>1
  <2>6. QED
    BY <2>1, <2>2, <2>3, <2>4, <2>5
<1>9. QED
  BY <1>3, <1>6, <1>7, <1>8, FirstFailingMeaning

\* What the verdict on the request for action a, served at instant t, tells of
\* the guard g that it names and of the guard's commitment c.
VerdictTells(a, t, g, c) ==
    /\ Verdict(a, t) = "admitted" =>
          /\ exec[a].scopes # {} /\ guard[g].scopes = exec[a].scopes
          /\ \/ /\ guard[g].st = "admitted"
                /\ guard[g].action = a /\ guard[g].digest = exec[a].digest
             \/ guard[g].st = "issued" /\ IssuedFence(g, c, t)
    /\ Verdict(a, t) = "internal_integrity" =>
          /\ guard[g].st = "issued"
          /\ \/ ~ \A k \in guard[g].scopes : lock[k].mode = "reserved" /\ lock[k].guard = g
             \/ HasClaim(c) /\ claim[c].epoch = guard[g].epoch /\ epoch[c] # guard[g].epoch
    /\ Verdict(a, t) = "ownership_changed" =>
          guard[g].st = "issued" /\ state[c] = "Working" /\ ~HasClaim(c)
    /\ Verdict(a, t) \in FinalReasons =>
          \/ guard[g].st \in {"uncertain", "resolved", "invalidated"}
          \/ /\ guard[g].st = "admitted"
             /\ guard[g].action # a \/ guard[g].digest # exec[a].digest
          \/ /\ guard[g].st = "issued" /\ HasClaim(c)
             /\ \/ claim[c].epoch # guard[g].epoch
                \/ claim[c].boot # boot \/ guard[g].boot # boot

VerdictsTell ==
    \A a \in Action, t \in Instants : exec[a].st # "idle" =>
        VerdictTells(a, t, exec[a].guard, guard[exec[a].guard].commitment)

\* The verdicts tell what they should.
LEMMA VerdictsAreTrue == TypeOK /\ ProtocolInvariant => VerdictsTell
<1> SUFFICES ASSUME TypeOK, ProtocolInvariant, NEW a \in Action, NEW t \in Instants,
                    exec[a].st # "idle", NEW g, g = exec[a].guard,
                    NEW c, c = guard[g].commitment
             PROVE  VerdictTells(a, t, g, c)
  BY DEF VerdictsTell
<1>1. g \in Guard /\ guard[g].st \in GuardState
  BY DEF ProtocolInvariant, ProtocolOrder, TypeOK, GuardRow
<1>2. guard[g].st \in {"absent", "admitted", "uncertain", "resolved", "invalidated", "issued"}
  BY <1>1 DEF GuardState, ActiveGuard
<1>3. CASE exec[a].scopes = {}
  <2>1. Verdict(a, t) = "scope_keys_mismatch"
    BY <1>3 DEF Verdict
  <2>2. QED
    BY <2>1 DEF VerdictTells, FinalReasons
<1>4. CASE exec[a].scopes # {} /\ guard[g].st = "absent"
  <2>1. Verdict(a, t) = "guard_not_found"
    BY <1>4 DEF Verdict
  <2>2. QED
    BY <2>1 DEF VerdictTells, FinalReasons
<1>5. CASE exec[a].scopes # {} /\ guard[g].st \in {"uncertain", "resolved", "invalidated"}
  <2>1. Verdict(a, t) = "guard_revoked"
    BY <1>5 DEF Verdict
  <2>2. QED
    BY <1>5, <2>1 DEF VerdictTells, FinalReasons
<1>6. CASE exec[a].scopes # {} /\ guard[g].st = "admitted"
  <2>1. Verdict(a, t) = RepeatVerdict(a)
    BY <1>6 DEF Verdict
  <2>2. QED
    BY <1>6, <2>1, RepeatMeaning DEF VerdictTells, FinalReasons
<1>7. CASE exec[a].scopes # {} /\ guard[g].st = "issued"
  <2>1. Verdict(a, t) = IssuedVerdict(a, t)
    BY <1>7 DEF Verdict
  <2>2. QED
    BY <1>7, <2>1, IssuedMeaning DEF VerdictTells, FinalReasons
<1>8. QED
  BY <1>2, <1>3, <1>4, <1>5, <1>6, <1>7

\* The rows never contradict each other before Tethers: none of the checks of
\* admit_guard_internal that report an integrity error or a lost owner is ever
\* the first to fail.
THEOREM AdmissionSeesNoContradiction == BridgeSpec => []NoIntegrityFailure
<1>1. FenceInvariant /\ ProtocolInvariant => NoIntegrityFailure
  <2> SUFFICES ASSUME FenceInvariant, ProtocolInvariant, NEW a \in Action, NEW t \in Instants,
                      exec[a].st # "idle", NEW g, g = exec[a].guard,
                      NEW c, c = guard[g].commitment
               PROVE  Verdict(a, t) \notin {"internal_integrity", "ownership_changed"}
    BY DEF NoIntegrityFailure
  <2>1. TypeOK /\ LocksMirrorGuards /\ GuardRowsWellFormed /\ ClaimsConsistent
    BY DEF FenceInvariant, CrashIsRecoverable, Recoverable
  <2>2. VerdictTells(a, t, g, c) /\ g \in Guard
    BY <2>1, VerdictsAreTrue DEF VerdictsTell, ProtocolInvariant, ProtocolOrder
  <2>3. CASE guard[g].st = "issued"
    <3>1. c \in Commitment /\ ClaimConsistent(c)
      BY <2>1, <2>2, <2>3 DEF GuardRowsWellFormed, ClaimsConsistent
    <3>2. \A k \in guard[g].scopes : lock[k].mode = "reserved" /\ lock[k].guard = g
      BY <2>1, <2>2, <2>3, LiveScopeLocked
    <3>3. HasClaim(c) => claim[c].epoch = epoch[c]
      BY <3>1 DEF ClaimConsistent
    <3>4. state[c] = "Working" => HasClaim(c)
      BY <3>1 DEF ClaimConsistent, ClaimBearing
    <3>5. QED
      BY <2>2, <3>2, <3>3, <3>4 DEF VerdictTells
  <2>4. QED
    BY <2>2, <2>3 DEF VerdictTells
<1>2. QED
  BY <1>1, BridgeImplementsStore, FenceIsInvariant, ProtocolIsInvariant, PTL

-----------------------------------------------------------------------------
(* What Tethers was told and what the store keeps *)

\* The guard that the request for a named is bound to a, as it was asked.
Tied(a) ==
    LET row == guard[exec[a].guard]
    IN  /\ row.action = a /\ row.digest = exec[a].digest
        /\ row.scopes = exec[a].scopes /\ exec[a].scopes # {}

\* Tethers acts on an ADMITTED answer, or is about to.
Told(a) ==
    \/ exec[a].st = "running"
    \/ exec[a].st = "asked" /\ AdmissionResponse(a, "ADMITTED") \in net

\* The guard of an action that was admitted stays admitted until the outcome is
\* durable, and is resolved or frozen by that outcome only.
BindingInvariant ==
    \A a \in Action :
        LET row == guard[exec[a].guard]
        IN  /\ Told(a) => Tied(a) /\ row.st = "admitted"
            /\ exec[a].st = "done" =>
                  /\ Tied(a)
                  /\ \/ row.st = "admitted"
                     \/ row.st = "resolved" /\ row.outcome = exec[a].outcome
                     \/ row.st = "uncertain" /\ exec[a].outcome = "Uncertain"

\* Steps of the store that Tethers has no part in leave settled guards alone.
LEMMA StoreStepIsQuiet ==
    ASSUME FenceInvariant, StoreNext
    PROVE  QuietChange
<1>1. CASE ReservationNext
  <2>1. TypeOK'
    BY <1>1, NextType DEF ReservationNext, Next, GuardNext, FenceInvariant
  <2>2. QED
    BY <1>1, <2>1, IssueGuardFence, InvalidateGuardFence DEF ReservationNext
<1>2. CASE CommitmentNext \/ ClaimNext \/ StructuralNext \/ Open
  <2>1. TypeOK'
    BY <1>2, NextType DEF Next, FenceInvariant
  <2>2. CASE CommitmentNext
    BY <2>1, <2>2, InsertCommitmentFence, PersistClaimFence, PersistChangeFence
       DEF CommitmentNext
  <2>3. CASE ClaimNext
    BY <2>1, <2>3, RecordHeartbeatFence, ProcessExpiredClaimsFence,
       RecoverWithoutActionFence DEF ClaimNext
  <2>4. CASE StructuralNext
    BY <2>1, <2>4, DecomposeFence, AddPrerequisiteFence, AbandonTargetFence
       DEF StructuralNext
  <2>5. CASE Open
    BY <2>1, <2>5, OpenFence
  <2>6. QED
    BY <1>2, <2>2, <2>3, <2>4, <2>5
<1>3. QED
  BY <1>1, <1>2 DEF StoreNext

\* admit_guard binds the guard it admits and leaves settled guards alone.
LEMMA AdmitBinds ==
    ASSUME TypeOK, NEW g \in Guard, NEW a, NEW d, NEW t, AdmitGuard(g, a, d, t)
    PROVE  /\ guard'[g].st = "admitted" /\ guard'[g].action = a
           /\ guard'[g].digest = d /\ guard'[g].scopes = guard[g].scopes
           /\ \A h \in Guard \ {g} :
                 /\ guard'[h].action = guard[h].action
                 /\ guard[h].st # "issued" => guard'[h] = guard[h]
                 /\ guard'[h] = guard[h] \/ guard'[h].st = "invalidated"
<1>1. PICK dead : dead = ExpiredOn(guard[g].scopes, t)
  OBVIOUS
<1> DEFINE row == [guard[g] EXCEPT !.st = "admitted", !.action = a,
                                   !.digest = d, !.expires = 0]
<1>2. guard' = [Invalidated(dead) EXCEPT ![g] = row]
  BY <1>1 DEF AdmitGuard
<1>3. dead \in SUBSET Issued /\ Invalidated(dead) \in [Guard -> GuardRow]
  BY <1>1, ExpiredIsIssued, InvalidatedType
<1>4. /\ row.st = "admitted" /\ row.action = a /\ row.digest = d
      /\ row.scopes = guard[g].scopes
  BY DEF TypeOK, GuardRow
<1> HIDE DEF row
<1>5. guard'[g] = row /\ \A h \in Guard \ {g} : guard'[h] = Invalidated(dead)[h]
  BY <1>2, <1>3
<1>6. \A h \in Guard : Invalidated(dead)[h].action = guard[h].action
  <2> SUFFICES ASSUME NEW h \in Guard
               PROVE  Invalidated(dead)[h].action = guard[h].action
    OBVIOUS
  <2>1. guard[h] \in GuardRow
    BY DEF TypeOK
  <2>2. QED
    BY <2>1 DEF Invalidated, GuardRow
<1>7. QED
  BY <1>3, <1>4, <1>5, <1>6, InvalidatedColumns

\* A step after which an answer is told only if it was, and settled guards stay.
LEMMA KeptBinding ==
    ASSUME BindingInvariant, UNCHANGED exec, ProtocolInvariant,
           \A h \in Guard : guard[h].st \notin {"absent", "issued"} => guard'[h] = guard[h],
           NEW a \in Action, Told(a)' => Told(a)
    PROVE  LET row == guard'[exec'[a].guard]
           IN  /\ Told(a)' => Tied(a)' /\ row.st = "admitted"
               /\ exec'[a].st = "done" =>
                     /\ Tied(a)'
                     /\ \/ row.st = "admitted"
                        \/ row.st = "resolved" /\ row.outcome = exec'[a].outcome
                        \/ row.st = "uncertain" /\ exec'[a].outcome = "Uncertain"
<1>1. CASE ~Told(a) /\ exec[a].st # "done"
  BY <1>1
<1>2. CASE Told(a) \/ exec[a].st = "done"
  <2>1. exec[a].guard \in Guard
    BY <1>2 DEF ProtocolInvariant, ProtocolOrder, Told
  <2>2. guard[exec[a].guard].st \in {"admitted", "resolved", "uncertain"} /\ Tied(a)
    BY <1>2 DEF BindingInvariant
  <2>3. guard'[exec'[a].guard] = guard[exec[a].guard] /\ exec'[a] = exec[a]
    BY <2>1, <2>2
  <2>4. Tied(a)'
    BY <2>2, <2>3 DEF Tied
  <2>5. QED
    BY <2>3, <2>4 DEF BindingInvariant
<1>3. QED
  BY <1>1, <1>2

\* A step of Tethers itself: the record of one action changes, no row does, and
\* no ADMITTED answer appears.
LEMMA TethersKeepsBinding ==
    ASSUME BindingInvariant, ProtocolInvariant, UNCHANGED vars, NEW a \in Action,
           \A b \in Action \ {a} : exec'[b] = exec[b],
           \A b \in Action : AdmissionResponse(b, "ADMITTED") \in net' =>
               AdmissionResponse(b, "ADMITTED") \in net,
           Told(a)' \/ exec'[a].st = "done" =>
               /\ exec'[a].guard = exec[a].guard /\ exec'[a].digest = exec[a].digest
               /\ exec'[a].scopes = exec[a].scopes
               /\ \/ Told(a)
                  \/ /\ exec[a].st = "done" /\ exec'[a].st = "done"
                     /\ exec'[a].outcome = exec[a].outcome
    PROVE  BindingInvariant'
<1>1. guard' = guard
  BY DEF vars
<1>2. ASSUME NEW b \in Action, NEW row, row = guard'[exec'[b].guard]
      PROVE  /\ Told(b)' => Tied(b)' /\ row.st = "admitted"
             /\ exec'[b].st = "done" =>
                   /\ Tied(b)'
                   /\ \/ row.st = "admitted"
                      \/ row.st = "resolved" /\ row.outcome = exec'[b].outcome
                      \/ row.st = "uncertain" /\ exec'[b].outcome = "Uncertain"
  <2>1. CASE b # a
    <3>1. exec'[b] = exec[b] /\ (Told(b)' => Told(b))
      BY <2>1 DEF Told
    <3>2. Tied(b) => Tied(b)'
      BY <1>1, <3>1 DEF Tied
    <3>3. QED
      BY <1>1, <1>2, <3>1, <3>2 DEF BindingInvariant
  <2>2. CASE b = a /\ ~(Told(a)' \/ exec'[a].st = "done")
    BY <2>2
  <2>3. CASE b = a /\ (Told(a)' \/ exec'[a].st = "done")
    <3>1. /\ exec'[a].guard = exec[a].guard /\ exec'[a].digest = exec[a].digest
          /\ exec'[a].scopes = exec[a].scopes
          /\ \/ Told(a)
             \/ /\ exec[a].st = "done" /\ exec'[a].st = "done"
                /\ exec'[a].outcome = exec[a].outcome
      BY <2>3
    <3>2. Tied(a) /\ row = guard[exec[a].guard]
      BY <1>1, <1>2, <2>3, <3>1 DEF BindingInvariant
    <3>3. Tied(a)'
      BY <1>1, <3>1, <3>2 DEF Tied
    <3>4. CASE Told(a)
      <4>1. row.st = "admitted"
        BY <3>2, <3>4 DEF BindingInvariant
      <4>2. QED
        BY <2>3, <3>3, <4>1
    <3>5. CASE /\ exec[a].st = "done" /\ exec'[a].st = "done"
               /\ exec'[a].outcome = exec[a].outcome
      <4>1. ~Told(a)'
        BY <3>5 DEF Told
      <4>2. QED
        BY <2>3, <3>2, <3>3, <3>5, <4>1 DEF BindingInvariant
    <3>6. QED
      BY <3>1, <3>4, <3>5
  <2>4. QED
    BY <2>1, <2>2, <2>3
<1>3. QED
  BY <1>2 DEF BindingInvariant

\* The steps of Tethers, one by one.
LEMMA TethersBinding ==
    ASSUME BindingInvariant, ProtocolInvariant, NEW a \in Action,
           \/ \E g \in Guard, d \in Digest, ks \in SUBSET Scope : RequestAdmission(a, g, d, ks)
           \/ \E d \in Decisions : ReceiveAdmission(a, d)
           \/ GiveUp(a)
           \/ \E o \in Outcomes : ClassifyOutcome(a, o)
           \/ DeliverOutcome(a)
           \/ \E r \in Results : ReceiveOutcome(a, r)
    PROVE  BindingInvariant'
<1>1. exec \in [Action -> ExecRow] /\ ProtocolOrder /\ "ADMITTED" \in Decisions
  BY DEF ProtocolInvariant, Decisions
<1>2. ASSUME NEW g \in Guard, NEW d \in Digest, NEW ks \in SUBSET Scope,
             RequestAdmission(a, g, d, ks)
      PROVE  BindingInvariant'
  <2> DEFINE row == [NoExec EXCEPT !.st = "asked", !.guard = g, !.digest = d, !.scopes = ks]
  <2>1. /\ exec' = [exec EXCEPT ![a] = row] /\ UNCHANGED vars
        /\ net' = net \cup {AdmissionRequest(a)} /\ exec[a].st = "idle"
    BY <1>2 DEF RequestAdmission
  <2>2. row.st = "asked"
    BY DEF NoExec
  <2> HIDE DEF row
  <2>3. exec'[a].st = "asked" /\ \A b \in Action \ {a} : exec'[b] = exec[b]
    BY <1>1, <2>1, <2>2
  <2>4. \A b \in Action : AdmissionResponse(b, "ADMITTED") \in net' =>
            AdmissionResponse(b, "ADMITTED") \in net
    BY <2>1, MessagesDiffer
  <2>5. AdmissionResponse(a, "ADMITTED") \notin net'
    BY <1>1, <2>1, <2>4 DEF ProtocolOrder
  <2>6. ~Told(a)' /\ exec'[a].st # "done"
    BY <2>3, <2>5 DEF Told
  <2>7. QED
    BY <2>1, <2>3, <2>4, <2>6, TethersKeepsBinding
<1>3. ASSUME NEW d \in Decisions, ReceiveAdmission(a, d)
      PROVE  BindingInvariant'
  <2>1. /\ exec'[a].st = (IF d = "ADMITTED" THEN "running" ELSE "refused")
        /\ exec'[a].guard = exec[a].guard /\ exec'[a].digest = exec[a].digest
        /\ exec'[a].scopes = exec[a].scopes
        /\ \A b \in Action \ {a} : exec'[b] = exec[b]
    BY <1>1, <1>3 DEF ReceiveAdmission, ExecRow
  <2>2. UNCHANGED vars /\ net' \subseteq net
    BY <1>3 DEF ReceiveAdmission
  <2>3. Told(a)' => Told(a)
    BY <1>3, <2>1 DEF Told, ReceiveAdmission
  <2>4. QED
    BY <2>1, <2>2, <2>3, TethersKeepsBinding
<1>4. CASE GiveUp(a)
  <2>1. exec'[a].st = "refused" /\ \A b \in Action \ {a} : exec'[b] = exec[b]
    BY <1>1, <1>4 DEF GiveUp, ExecRow
  <2>2. UNCHANGED vars /\ net' \subseteq net
    BY <1>4 DEF GiveUp
  <2>3. ~Told(a)'
    BY <2>1 DEF Told
  <2>4. QED
    BY <2>1, <2>2, <2>3, TethersKeepsBinding
<1>5. ASSUME NEW o \in Outcomes, ClassifyOutcome(a, o)
      PROVE  BindingInvariant'
  <2>1. /\ exec'[a].guard = exec[a].guard /\ exec'[a].digest = exec[a].digest
        /\ exec'[a].scopes = exec[a].scopes
        /\ \A b \in Action \ {a} : exec'[b] = exec[b]
    BY <1>1, <1>5 DEF ClassifyOutcome, ExecRow
  <2>2. UNCHANGED vars /\ net' = net /\ Told(a)
    BY <1>5 DEF ClassifyOutcome, Told
  <2>3. QED
    BY <2>1, <2>2, TethersKeepsBinding
<1>6. CASE DeliverOutcome(a)
  <2>1. UNCHANGED vars /\ exec' = exec /\ exec[a].st = "done"
    BY <1>6 DEF DeliverOutcome
  <2>2. \A b \in Action : AdmissionResponse(b, "ADMITTED") \in net' =>
            AdmissionResponse(b, "ADMITTED") \in net
    BY <1>6, MessagesDiffer DEF DeliverOutcome
  <2>3. QED
    BY <2>1, <2>2, TethersKeepsBinding
<1>7. ASSUME NEW r \in Results, ReceiveOutcome(a, r)
      PROVE  BindingInvariant'
  <2>1. /\ exec'[a].guard = exec[a].guard /\ exec'[a].digest = exec[a].digest
        /\ exec'[a].scopes = exec[a].scopes /\ exec'[a].st = exec[a].st
        /\ exec'[a].outcome = exec[a].outcome
        /\ \A b \in Action \ {a} : exec'[b] = exec[b]
    BY <1>1, <1>7 DEF ReceiveOutcome, ExecRow
  <2>2. UNCHANGED vars /\ net' \subseteq net
    BY <1>7 DEF ReceiveOutcome
  <2>3. Told(a)' => Told(a)
    BY <2>1, <2>2 DEF Told
  <2>4. QED
    BY <2>1, <2>2, <2>3, TethersKeepsBinding
<1>8. QED
  BY <1>2, <1>3, <1>4, <1>5, <1>6, <1>7

\* Only an admission that holds is answered ADMITTED: the handler binds the
\* guard in the same transaction, or has found it bound to the very request.
LEMMA AdmitBinding ==
    ASSUME FenceInvariant, BindingInvariant, ProtocolInvariant,
           NEW a \in Action, NEW t \in Instants, Admit(a, t)
    PROVE  BindingInvariant'
<1>1. PICK g, d, v : g = exec[a].guard /\ d = exec[a].digest /\ v = Verdict(a, t)
  OBVIOUS
<1>2. TypeOK /\ exec[a].st # "idle" /\ g \in Guard
  BY <1>1 DEF FenceInvariant, Admit, ProtocolInvariant, ProtocolOrder
<1>3. \/ v = "admitted" /\ guard[g].st = "issued" /\ AdmitGuard(g, a, d, t)
      \/ ~(v = "admitted" /\ guard[g].st = "issued") /\ UNCHANGED vars
  BY <1>1 DEF Admit
<1>4. \A h \in Guard : guard[h].st \notin {"absent", "issued"} => guard'[h] = guard[h]
  <2>1. CASE UNCHANGED vars
    BY <2>1 DEF vars
  <2>2. CASE guard[g].st = "issued" /\ AdmitGuard(g, a, d, t)
    BY <1>2, <2>2, AdmitBinds
  <2>3. QED
    BY <1>3, <2>1, <2>2
<1>5. PICK m : m = AdmissionResponse(a, Decision(v))
  OBVIOUS
<1>6. net' \in {net, net \cup {m}} /\ exec' = exec
  BY <1>1, <1>5 DEF Admit, Reply
<1>7. ASSUME NEW b \in Action, NEW row, row = guard'[exec'[b].guard]
      PROVE  /\ Told(b)' => Tied(b)' /\ row.st = "admitted"
             /\ exec'[b].st = "done" =>
                   /\ Tied(b)'
                   /\ \/ row.st = "admitted"
                      \/ row.st = "resolved" /\ row.outcome = exec'[b].outcome
                      \/ row.st = "uncertain" /\ exec'[b].outcome = "Uncertain"
  <2>1. CASE Told(b)' => Told(b)
    BY <1>4, <1>6, <1>7, <2>1, KeptBinding
  <2>2. CASE Told(b)' /\ ~Told(b)
    <3>1. exec[b].st = "asked" /\ AdmissionResponse(b, "ADMITTED") = m
      BY <1>6, <2>2 DEF Told
    <3>2. b = a /\ v = "admitted"
      BY <1>5, <3>1, MessagesDiffer, AnswersExist
    <3>3. VerdictTells(a, t, g, guard[g].commitment)
      BY <1>1, <1>2, VerdictsAreTrue DEF VerdictsTell
    <3>4. /\ exec[a].scopes # {} /\ guard[g].scopes = exec[a].scopes
          /\ \/ /\ guard[g].st = "admitted"
                /\ guard[g].action = a /\ guard[g].digest = exec[a].digest
             \/ guard[g].st = "issued"
      BY <1>1, <3>2, <3>3 DEF VerdictTells
    <3>5. /\ guard'[g].st = "admitted" /\ guard'[g].action = a
          /\ guard'[g].digest = d /\ guard'[g].scopes = guard[g].scopes
      <4>1. CASE guard[g].st = "issued"
        BY <1>2, <1>3, <3>2, <4>1, AdmitBinds
      <4>2. CASE guard[g].st = "admitted"
        BY <1>1, <1>2, <1>4, <3>4, <4>2
      <4>3. QED
        BY <3>4, <4>1, <4>2
    <3>6. exec'[a] = exec[a] /\ row = guard'[g]
      BY <1>1, <1>6, <1>7, <3>2
    <3>7. Tied(a)'
      BY <1>1, <3>4, <3>5, <3>6 DEF Tied
    <3>8. QED
      BY <3>1, <3>2, <3>5, <3>6, <3>7
  <2>3. QED
    BY <2>1, <2>2
<1>8. QED
  BY <1>7 DEF BindingInvariant

\* record_outcome settles the guard of the action it is about, with the outcome
\* that Tethers made durable.
LEMMA RecordOutcomeBinding ==
    ASSUME FenceInvariant, BindingInvariant, ProtocolInvariant,
           NEW a \in Action, RecordOutcome(a)
    PROVE  BindingInvariant'
<1>1. PICK d, o, r : d = exec[a].digest /\ o = exec[a].outcome /\ r = OutcomeVerdict(a)
  OBVIOUS
<1>2. TypeOK /\ exec[a].st = "done" /\ exec' = exec
  BY DEF FenceInvariant, RecordOutcome, ProtocolInvariant, ProtocolOrder
<1>3. net' \in {net, net \cup {OutcomeResponse(a, r)}}
  BY <1>1 DEF RecordOutcome, Reply
<1>4. \A b \in Action : Told(b)' => Told(b)
  BY <1>2, <1>3, MessagesDiffer DEF Told
<1>5. CASE UNCHANGED vars
  <2>1. guard' = guard
    BY <1>5 DEF vars
  <2>2. QED
    BY <1>2, <1>4, <2>1, KeptBinding DEF BindingInvariant
<1>6. ASSUME NEW g \in Guard,
             \/ o \in SafeOutcomes /\ RecordSafeOutcome(g, a, o, d)
             \/ o = "Uncertain" /\ RecordUncertainOutcome(g, a, d)
      PROVE  BindingInvariant'
  <2>1. /\ guard[g].action = a /\ guard[g].st = "admitted"
        /\ \A h \in Guard \ {g} : guard'[h] = guard[h]
        /\ guard'[g].action = a /\ guard'[g].digest = guard[g].digest
        /\ guard'[g].scopes = guard[g].scopes
        /\ \/ guard'[g].st = "resolved" /\ guard'[g].outcome = o
           \/ guard'[g].st = "uncertain" /\ o = "Uncertain"
    <3>1. CASE o \in SafeOutcomes /\ RecordSafeOutcome(g, a, o, d)
      BY <1>2, <3>1 DEF RecordSafeOutcome, TypeOK, GuardRow
    <3>2. CASE o = "Uncertain" /\ RecordUncertainOutcome(g, a, d)
      BY <1>2, <3>2 DEF RecordUncertainOutcome, TypeOK, GuardRow
    <3>3. QED
      BY <1>6, <3>1, <3>2
  <2>2. ASSUME NEW b \in Action, NEW row, row = guard'[exec'[b].guard]
        PROVE  /\ Told(b)' => Tied(b)' /\ row.st = "admitted"
               /\ exec'[b].st = "done" =>
                     /\ Tied(b)'
                     /\ \/ row.st = "admitted"
                        \/ row.st = "resolved" /\ row.outcome = exec'[b].outcome
                        \/ row.st = "uncertain" /\ exec'[b].outcome = "Uncertain"
    <3>1. CASE ~Told(b) /\ exec[b].st # "done"
      BY <1>2, <1>4, <3>1
    <3>2. CASE Told(b) \/ exec[b].st = "done"
      <4>1. exec[b].guard \in Guard /\ Tied(b) /\ exec'[b] = exec[b]
        BY <1>2, <3>2 DEF BindingInvariant, ProtocolInvariant, ProtocolOrder, Told
      <4>2. CASE exec[b].guard # g
        <5>1. row = guard[exec[b].guard]
          BY <2>1, <2>2, <4>1, <4>2
        <5>2. Tied(b)'
          BY <2>2, <4>1, <5>1 DEF Tied
        <5>3. QED
          BY <1>4, <4>1, <5>1, <5>2 DEF BindingInvariant
      <4>3. CASE exec[b].guard = g
        <5>1. b = a
          BY <2>1, <4>1, <4>3 DEF Tied
        <5>2. row = guard'[g] /\ ~Told(b)'
          BY <1>2, <1>4, <2>2, <4>1, <4>3, <5>1 DEF Told
        <5>3. Tied(b)'
          BY <2>1, <2>2, <4>1, <4>3, <5>1, <5>2 DEF Tied
        <5>4. QED
          BY <1>1, <2>1, <4>1, <5>1, <5>2, <5>3
      <4>4. QED
        BY <4>2, <4>3
    <3>3. QED
      BY <3>1, <3>2
  <2>3. QED
    BY <2>2 DEF BindingInvariant
<1>7. \/ UNCHANGED vars
      \/ \E g \in Guard : \/ o \in SafeOutcomes /\ RecordSafeOutcome(g, a, o, d)
                          \/ o = "Uncertain" /\ RecordUncertainOutcome(g, a, d)
  BY <1>1 DEF RecordOutcome
<1>8. QED
  BY <1>5, <1>6, <1>7

\* Every step keeps the binding.
LEMMA BindingStep ==
    ASSUME FenceInvariant, BindingInvariant, ProtocolInvariant, [BridgeNext]_bridgeVars
    PROVE  BindingInvariant'
<1>1. ASSUME UNCHANGED exec, \A b \in Action : Told(b)' => Told(b),
             \A h \in Guard : guard[h].st \notin {"absent", "issued"} => guard'[h] = guard[h]
      PROVE  BindingInvariant'
  BY <1>1, KeptBinding DEF BindingInvariant
<1>2. CASE StoreNext
  <2>1. exec' = exec /\ net' = net
    BY <1>2 DEF StoreNext
  <2>2. \A b \in Action : Told(b)' => Told(b)
    BY <2>1 DEF Told
  <2>3. \A h \in Guard : guard[h].st \notin {"absent", "issued"} => guard'[h] = guard[h]
    BY <1>2, StoreStepIsQuiet DEF QuietChange, GuardsStayOrDrop
  <2>4. QED
    BY <1>1, <2>1, <2>2, <2>3
<1>3. ASSUME NEW a \in Action, AdmitWithoutStore(a)
      PROVE  BindingInvariant'
  <2>1. /\ exec' = exec /\ guard' = guard
        /\ net' \in {net, net \cup {AdmissionResponse(a, "INDETERMINATE")}}
    BY <1>3 DEF AdmitWithoutStore, Reply, vars
  <2>2. \A b \in Action : AdmissionResponse(b, "ADMITTED") # AdmissionResponse(a, "INDETERMINATE")
    BY MessagesDiffer
  <2>3. \A b \in Action : Told(b)' => Told(b)
    BY <2>1, <2>2 DEF Told
  <2>4. QED
    BY <1>1, <2>1, <2>3
<1>4. CASE UNCHANGED bridgeVars
  <2>1. exec' = exec /\ net' = net /\ guard' = guard
    BY <1>4 DEF bridgeVars, vars
  <2>2. \A b \in Action : Told(b)' => Told(b)
    BY <2>1 DEF Told
  <2>3. QED
    BY <1>1, <2>1, <2>2
<1>5. QED
  BY <1>2, <1>3, <1>4, TethersBinding, AdmitBinding, RecordOutcomeBinding DEF BridgeNext

\* The binding holds in every behaviour of the bridge.
LEMMA BindingIsInvariant == BridgeSpec => []BindingInvariant
<1>1. BridgeInit => BindingInvariant
  BY DEF BridgeInit, NoExec, BindingInvariant, Told
<1>2. FenceInvariant /\ BindingInvariant /\ ProtocolInvariant /\ [BridgeNext]_bridgeVars =>
          BindingInvariant'
  BY BindingStep
<1>3. QED
  BY <1>1, <1>2, BridgeImplementsStore, FenceIsInvariant, ProtocolIsInvariant, PTL
     DEF BridgeSpec

\* From the ADMITTED answer until the outcome is durable, the scopes that Tethers
\* asked for are held under its action, over restarts, lease sweeps, expiries
\* and duplicates of the request.
THEOREM AdmissionStands == BridgeSpec => []AdmissionStandsUntilOutcome
<1>1. FenceInvariant /\ BindingInvariant /\ ProtocolInvariant => AdmissionStandsUntilOutcome
  <2> SUFFICES ASSUME FenceInvariant, BindingInvariant, ProtocolInvariant,
                      NEW a \in Action, Told(a)
               PROVE  /\ exec[a].scopes # {}
                      /\ \A k \in exec[a].scopes : lock[k].mode = "held" /\ lock[k].action = a
    BY DEF AdmissionStandsUntilOutcome, Told
  <2>1. PICK g : g = exec[a].guard
    OBVIOUS
  <2>2. g \in Guard /\ guard[g].st = "admitted" /\ Tied(a) /\ LocksMirrorGuards
    BY <2>1 DEF BindingInvariant, ProtocolInvariant, ProtocolOrder, Told, FenceInvariant
  <2>3. /\ guard[g].scopes = exec[a].scopes /\ exec[a].scopes # {} /\ guard[g].action = a
    BY <2>1, <2>2 DEF Tied
  <2>4. QED
    BY <2>2, <2>3, LiveScopeLocked DEF ActiveGuard
<1>2. QED
  BY <1>1, BindingIsInvariant, BridgeImplementsStore, FenceIsInvariant, ProtocolIsInvariant, PTL

-----------------------------------------------------------------------------
(* Outcomes *)

\* An action reference belongs to one guard for good.
ActionsUnique ==
    \A g, h \in Guard : guard[g].action # None /\ guard[g].action = guard[h].action => g = h

\* execution_guards_action_ref_idx keeps action references unique, whatever
\* becomes of the guards.
LEMMA UniqueStep ==
    ASSUME FenceInvariant, BlankRows, ActionsUnique, [Next]_vars
    PROVE  ActionsUnique'
<1>1. TypeOK
  BY DEF FenceInvariant
<1>2. ASSUME \A h \in Guard : guard'[h].action \in {guard[h].action, None}
      PROVE  ActionsUnique'
  BY <1>2 DEF ActionsUnique
<1>3. ASSUME NEW D \in SUBSET Issued, Drop(D)
      PROVE  ActionsUnique'
  BY <1>1, <1>2, <1>3, DropKeepsBlank DEF Drop
<1>4. ASSUME NEW g \in Guard, NEW c, NEW w, NEW e, NEW ks, NEW b, NEW t, NEW ttl,
             NEW lease, IssueGuard(g, c, w, e, ks, b, t, ttl, lease)
      PROVE  ActionsUnique'
  <2>1. PICK dead, expires : /\ dead = ExpiredOn(ks, t)
                             /\ expires = Earlier(t + ttl, claim[c].beat + lease)
    OBVIOUS
  <2> DEFINE row == [st |-> "issued", commitment |-> c, epoch |-> e, boot |-> b,
                     scopes |-> ks, action |-> None, digest |-> None,
                     outcome |-> "none", expires |-> expires, issuer |-> w]
  <2>2. guard' = [Invalidated(dead) EXCEPT ![g] = row]
    BY <1>4, <2>1 DEF IssueGuard
  <2>3. dead \in SUBSET Issued /\ Invalidated(dead) \in [Guard -> GuardRow]
    BY <1>1, <2>1, ExpiredIsIssued, InvalidatedType
  <2>4. row.action = None
    OBVIOUS
  <2> HIDE DEF row
  <2>5. guard'[g] = row /\ \A h \in Guard \ {g} : guard'[h] = Invalidated(dead)[h]
    BY <2>2, <2>3
  <2>6. QED
    BY <1>1, <1>2, <2>3, <2>4, <2>5, DropKeepsBlank
<1>5. ASSUME NEW g \in Guard, NEW a \in Action, NEW d, NEW t, AdmitGuard(g, a, d, t)
      PROVE  ActionsUnique'
  <2>1. guard'[g].action = a /\ \A h \in Guard \ {g} : guard'[h].action = guard[h].action
    BY <1>1, <1>5, AdmitBinds
  <2>2. \A h \in Guard : guard[h].action # a
    BY <1>5 DEF AdmitGuard, ActionUnused
  <2>3. QED
    BY <2>1, <2>2 DEF ActionsUnique
<1>6. ASSUME NEW g \in Guard, NEW a, NEW outcome, NEW d, RecordSafeOutcome(g, a, outcome, d)
      PROVE  ActionsUnique'
  <2>1. \A h \in Guard : guard'[h].action = guard[h].action
    BY <1>1, <1>6 DEF RecordSafeOutcome, TypeOK, GuardRow
  <2>2. QED
    BY <1>2, <2>1
<1>7. ASSUME NEW g \in Guard, NEW a, NEW d, RecordUncertainOutcome(g, a, d)
      PROVE  ActionsUnique'
  <2>1. \A h \in Guard : guard'[h].action = guard[h].action
    BY <1>1, <1>7 DEF RecordUncertainOutcome, TypeOK, GuardRow
  <2>2. QED
    BY <1>2, <2>1
<1>8. QED
  BY <1>3, <1>4, <1>5, <1>6, <1>7, FenceSteps

\* The store never has two guards for one action.
LEMMA UniqueIsInvariant == Spec => []ActionsUnique
<1>1. Init => ActionsUnique
  BY DEF Init, ActionsUnique, NoGuard
<1>2. FenceInvariant /\ BlankRows /\ ActionsUnique /\ [Next]_vars => ActionsUnique'
  BY UniqueStep
<1>3. QED
  BY <1>1, <1>2, FenceIsInvariant, BlankIsInvariant, PTL DEF Spec

\* An admitted guard can always be settled: the commitment, its action and its
\* locks are as record_tethers_outcome demands.
LEMMA AdmittedIsRecordable ==
    ASSUME FenceInvariant, NEW g \in Guard, guard[g].st = "admitted",
           NEW a, guard[g].action = a
    PROVE  Recordable(g, a)
<1>1. PICK c : c = guard[g].commitment
  OBVIOUS
<1>2. TypeOK /\ LocksMirrorGuards /\ ClaimsConsistent /\ ActiveGuardsConsistent
  BY DEF FenceInvariant, CrashIsRecoverable, Recoverable
<1>3. c \in Commitment /\ action[c] = a /\ a # None
  BY <1>1, ActiveHasAction DEF ActiveGuard
<1>4. HasClaim(c) \/ state[c] = "RecoveryPending"
  BY <1>1, <1>2 DEF ActiveGuardsConsistent, ActiveGuard
<1>5. state[c] \in {"Working", "RecoveryPending"}
  BY <1>2, <1>3, <1>4 DEF ClaimsConsistent, ClaimConsistent
<1>6. {k \in LocksOf(g) : lock[k].mode = "held"} = guard[g].scopes
  <2>1. guard[g].scopes \subseteq Scope
    BY <1>2 DEF TypeOK, GuardRow
  <2>2. \A k \in guard[g].scopes : lock[k].mode = "held" /\ lock[k].guard = g
    BY <1>2, LiveScopeLocked DEF ActiveGuard
  <2>3. \A k \in Scope : lock[k].mode = "held" /\ lock[k].guard = g => k \in guard[g].scopes
    BY <1>2 DEF LocksMirrorGuards, Mirrors
  <2>4. QED
    BY <2>1, <2>2, <2>3 DEF LocksOf
<1>7. QED
  BY <1>1, <1>3, <1>5, <1>6 DEF Recordable

\* The outcome of an action that ran is recorded or acknowledged as recorded,
\* whenever and however often it is delivered: never a conflict, never a closed
\* failure.
THEOREM OutcomesAreDeliverable == BridgeSpec => []OutcomeAlwaysDeliverable
<1>1. FenceInvariant /\ BindingInvariant /\ ProtocolInvariant /\ ActionsUnique =>
          OutcomeAlwaysDeliverable
  <2> SUFFICES ASSUME FenceInvariant, BindingInvariant, ProtocolInvariant, ActionsUnique,
                      NEW a \in Action, exec[a].st = "done"
               PROVE  OutcomeVerdict(a) \in {"RECORDED", "ALREADY_RECORDED"}
    BY DEF OutcomeAlwaysDeliverable
  <2>1. PICK g : g = exec[a].guard
    OBVIOUS
  <2>2. /\ g \in Guard /\ guard[g].action = a /\ guard[g].digest = exec[a].digest
        /\ a # None
    BY <2>1, IdentifiersAssumption DEF BindingInvariant, Tied, ProtocolInvariant, ProtocolOrder
  <2>3. {h \in Guard : guard[h].action = a /\ guard[h].digest = exec[a].digest} = {g}
    BY <2>2 DEF ActionsUnique
  <2>4. exec[a].outcome \in Outcomes
    BY DEF ProtocolInvariant, ProtocolOrder
  <2>5. CASE guard[g].st = "admitted"
    <3>1. Recordable(g, a)
      BY <2>2, <2>5, AdmittedIsRecordable
    <3>2. guard[g].st \notin {"resolved", "uncertain"}
      BY <2>5
    <3>3. OutcomeVerdict(a) = "RECORDED"
      BY <2>3, <3>1, <3>2 DEF OutcomeVerdict
    <3>4. QED
      BY <3>3
  <2>6. CASE \/ guard[g].st = "resolved" /\ guard[g].outcome = exec[a].outcome
             \/ guard[g].st = "uncertain" /\ exec[a].outcome = "Uncertain"
    <3>1. ~Recordable(g, a)
      BY <2>6 DEF Recordable
    <3>2. /\ guard[g].st \in {"resolved", "uncertain"}
          /\ (IF guard[g].st = "uncertain" THEN "Uncertain" ELSE guard[g].outcome)
                = exec[a].outcome
      BY <2>6
    <3>3. OutcomeVerdict(a) = "ALREADY_RECORDED"
      BY <2>3, <3>1, <3>2 DEF OutcomeVerdict
    <3>4. QED
      BY <3>3
  <2>7. QED
    BY <2>1, <2>5, <2>6 DEF BindingInvariant
<1>2. QED
  BY <1>1, BindingIsInvariant, UniqueIsInvariant, BridgeImplementsStore, FenceIsInvariant,
     ProtocolIsInvariant, PTL

-----------------------------------------------------------------------------
(* Refusals *)

\* A reservation stays, ends, or is admitted.
LEMMA IssuedMoves ==
    ASSUME FenceInvariant, BlankRows, [Next]_vars, NEW h \in Guard, guard[h].st = "issued"
    PROVE  \/ guard'[h] = guard[h]
           \/ guard'[h].st = "invalidated"
           \/ \E a \in Action, d \in Digest \cup {None}, t \in Instants : AdmitGuard(h, a, d, t)
<1>1. TypeOK
  BY DEF FenceInvariant
<1>2. ASSUME NEW D \in SUBSET Issued, guard'[h] = Invalidated(D)[h]
      PROVE  guard'[h] = guard[h] \/ guard'[h].st = "invalidated"
  BY <1>1, <1>2, InvalidatedColumns
<1>3. ASSUME NEW g \in Guard, NEW c, NEW w, NEW e, NEW ks, NEW b, NEW t, NEW ttl,
             NEW lease, IssueGuard(g, c, w, e, ks, b, t, ttl, lease)
      PROVE  guard'[h] = guard[h] \/ guard'[h].st = "invalidated"
  <2>1. PICK dead : dead = ExpiredOn(ks, t)
    OBVIOUS
  <2>2. dead \in SUBSET Issued /\ Invalidated(dead) \in [Guard -> GuardRow] /\ g # h
    BY <1>1, <1>3, <2>1, ExpiredIsIssued, InvalidatedType DEF IssueGuard, GuardIdFree
  <2>3. guard'[h] = Invalidated(dead)[h]
    BY <1>3, <2>1, <2>2 DEF IssueGuard
  <2>4. QED
    BY <1>2, <2>2, <2>3
<1>4. ASSUME NEW g \in Guard \ {h}, NEW a, NEW d, NEW t, AdmitGuard(g, a, d, t)
      PROVE  guard'[h] = guard[h] \/ guard'[h].st = "invalidated"
  BY <1>1, <1>4, AdmitBinds
<1>5. ASSUME NEW g \in Guard, NEW a, NEW outcome, NEW d, RecordSafeOutcome(g, a, outcome, d)
      PROVE  guard'[h] = guard[h]
  BY <1>1, <1>5 DEF RecordSafeOutcome, TypeOK
<1>6. ASSUME NEW g \in Guard, NEW a, NEW d, RecordUncertainOutcome(g, a, d)
      PROVE  guard'[h] = guard[h]
  BY <1>1, <1>6 DEF RecordUncertainOutcome, TypeOK
<1>7. QED
  BY <1>2, <1>3, <1>4, <1>5, <1>6, FenceSteps DEF Drop

\* The boot generation moves with a restart only.
LEMMA BootMoves ==
    ASSUME [Next]_vars, boot' # boot
    PROVE  Open
<1>1. ~CommitmentNext
  BY DEF CommitmentNext, InsertCommitment, PersistClaim, PersistChange
<1>2. ~ClaimNext
  BY DEF ClaimNext, RecordHeartbeat, ProcessExpiredClaims, RecoverWithoutAction
<1>3. ~GuardNext
  <2>1. ASSUME NEW g, NEW c, NEW w, NEW e, NEW ks, NEW b, NEW t, NEW ttl, NEW lease,
               IssueGuard(g, c, w, e, ks, b, t, ttl, lease)
        PROVE  FALSE
    BY <2>1 DEF IssueGuard
  <2>2. ASSUME NEW g, NEW a, NEW d, NEW t, AdmitGuard(g, a, d, t)
        PROVE  FALSE
    BY <2>2 DEF AdmitGuard
  <2>3. ASSUME NEW g, NEW w, NEW e, NEW t, NEW lease, InvalidateGuard(g, w, e, t, lease)
        PROVE  FALSE
    BY <2>3 DEF InvalidateGuard
  <2>4. ASSUME NEW g, NEW a, NEW o, NEW d, RecordSafeOutcome(g, a, o, d)
        PROVE  FALSE
    BY <2>4 DEF RecordSafeOutcome
  <2>5. ASSUME NEW g, NEW a, NEW d, RecordUncertainOutcome(g, a, d)
        PROVE  FALSE
    BY <2>5 DEF RecordUncertainOutcome
  <2>6. QED
    BY <2>1, <2>2, <2>3, <2>4, <2>5 DEF GuardNext
<1>4. ~StructuralNext
  <2>1. ASSUME NEW c, NEW w, NEW e, NEW b, NEW t, NEW lease, NEW deps, NEW r,
               Decompose(c, w, e, b, t, lease, deps, r)
        PROVE  FALSE
    BY <2>1 DEF Decompose, StructuralFence
  <2>2. ASSUME NEW c, NEW w, NEW e, NEW b, NEW t, NEW lease, NEW p,
               AddPrerequisite(c, w, e, b, t, lease, p)
        PROVE  FALSE
    BY <2>2 DEF AddPrerequisite, StructuralFence
  <2>3. ASSUME NEW c, NEW w, NEW e, NEW b, NEW t, NEW lease,
               AbandonTarget(c, w, e, b, t, lease)
        PROVE  FALSE
    BY <2>3 DEF AbandonTarget, StructuralFence
  <2>4. QED
    BY <2>1, <2>2, <2>3 DEF StructuralNext
<1>5. QED
  BY <1>1, <1>2, <1>3, <1>4 DEF Next, vars

\* The epoch high-water mark never falls.
LEMMA EpochsRise ==
    ASSUME FenceInvariant, [Next]_vars, NEW c \in Commitment
    PROVE  epoch[c] <= epoch'[c]
<1>1. epoch[c] \in Nat
  BY BoundsAssumption DEF FenceInvariant, TypeOK
<1>2. CASE QuietChange
  BY <1>2 DEF QuietChange, ActionsLeftAlone
<1>3. CASE epoch' = epoch
  BY <1>1, <1>3
<1>4. QED
  BY <1>2, <1>3, StepKinds DEF AdmitGuard, RecordSafeOutcome, RecordUncertainOutcome

\* A request stands as it was made.
LEMMA RequestStands ==
    ASSUME ProtocolInvariant, [BridgeNext]_bridgeVars, NEW a \in Action, exec[a].st # "idle"
    PROVE  /\ exec'[a].guard = exec[a].guard /\ exec'[a].digest = exec[a].digest
           /\ exec'[a].scopes = exec[a].scopes /\ exec'[a].st # "idle"
<1>1. exec \in [Action -> ExecRow]
  BY DEF ProtocolInvariant
<1>2. CASE exec' = exec
  BY <1>2
<1>3. ASSUME NEW b \in Action, NEW g, NEW d, NEW ks, RequestAdmission(b, g, d, ks)
      PROVE  exec'[a] = exec[a]
  BY <1>1, <1>3 DEF RequestAdmission
<1>4. ASSUME NEW b \in Action, NEW d, ReceiveAdmission(b, d)
      PROVE  /\ exec'[a].guard = exec[a].guard /\ exec'[a].digest = exec[a].digest
             /\ exec'[a].scopes = exec[a].scopes /\ exec'[a].st # "idle"
  <2>1. PICK st : st = (IF d = "ADMITTED" THEN "running" ELSE "refused")
    OBVIOUS
  <2>2. exec' = [exec EXCEPT ![b].st = st] /\ st # "idle"
    BY <1>4, <2>1 DEF ReceiveAdmission
  <2>3. QED
    BY <1>1, <2>2 DEF ExecRow
<1>5. ASSUME NEW b \in Action, GiveUp(b)
      PROVE  /\ exec'[a].guard = exec[a].guard /\ exec'[a].digest = exec[a].digest
             /\ exec'[a].scopes = exec[a].scopes /\ exec'[a].st # "idle"
  BY <1>1, <1>5 DEF GiveUp, ExecRow
<1>6. ASSUME NEW b \in Action, NEW o, ClassifyOutcome(b, o)
      PROVE  /\ exec'[a].guard = exec[a].guard /\ exec'[a].digest = exec[a].digest
             /\ exec'[a].scopes = exec[a].scopes /\ exec'[a].st # "idle"
  BY <1>1, <1>6 DEF ClassifyOutcome, ExecRow
<1>7. ASSUME NEW b \in Action, NEW r, ReceiveOutcome(b, r)
      PROVE  /\ exec'[a].guard = exec[a].guard /\ exec'[a].digest = exec[a].digest
             /\ exec'[a].scopes = exec[a].scopes /\ exec'[a].st # "idle"
  BY <1>1, <1>7 DEF ReceiveOutcome, ExecRow
<1>8. ASSUME NEW b \in Action, \/ \E t \in Instants : Admit(b, t)
                               \/ AdmitWithoutStore(b) \/ RecordOutcome(b)
                               \/ DeliverOutcome(b)
      PROVE  exec' = exec
  BY <1>8 DEF Admit, AdmitWithoutStore, RecordOutcome, DeliverOutcome
<1>9. CASE StoreNext
  BY <1>2, <1>9 DEF StoreNext
<1>10. CASE UNCHANGED bridgeVars
  BY <1>2, <1>10 DEF bridgeVars
<1>11. QED
  BY <1>2, <1>3, <1>4, <1>5, <1>6, <1>7, <1>8, <1>9, <1>10 DEF BridgeNext

\* A request refused because its guard is gone, is another's, or belongs to an
\* earlier claim or boot is not admitted in the next state, and so never.
THEOREM RefusalsAreFinal == BridgeSpec => RefusalIsFinal
<1>1. ASSUME FenceInvariant, FenceInvariant', BlankRows, ProtocolInvariant,
             ProtocolInvariant', VerdictsTell, VerdictsTell', [BridgeNext]_bridgeVars,
             NEW a \in Action, NEW t \in Instants, NEW u \in Instants,
             exec[a].st # "idle", Verdict(a, t) \in FinalReasons, Verdict(a, u)' = "admitted"
      PROVE  FALSE
  <2>1. PICK g, c : g = exec[a].guard /\ c = guard[g].commitment
    OBVIOUS
  <2>2. TypeOK /\ GuardRowsWellFormed /\ ClaimsConsistent /\ [Next]_vars /\ g \in Guard
    BY <1>1, <2>1, BridgeStepIsStoreStep
       DEF FenceInvariant, CrashIsRecoverable, Recoverable, ProtocolInvariant, ProtocolOrder
  <2>3. /\ g = exec'[a].guard /\ exec'[a].digest = exec[a].digest /\ exec'[a].st # "idle"
    BY <1>1, <2>1, RequestStands
  <2>4. VerdictTells(a, t, g, c)
    BY <1>1, <2>1 DEF VerdictsTell
  <2>5. \/ /\ guard'[g].st = "admitted"
           /\ guard'[g].action = a /\ guard'[g].digest = exec[a].digest
        \/ /\ guard'[g].st = "issued"
           /\ epoch'[guard'[g].commitment] = guard'[g].epoch /\ guard'[g].boot = boot'
    BY <1>1, <2>3 DEF VerdictsTell, VerdictTells, IssuedFence
  <2>6. CASE guard[g].st \in {"uncertain", "resolved", "invalidated"}
    <3>1. guard'[g] = guard[g]
      BY <1>1, <2>2, <2>6, SettledGuards DEF RecordSafeOutcome, RecordUncertainOutcome
    <3>2. QED
      BY <2>5, <2>6, <3>1
  <2>7. CASE /\ guard[g].st = "admitted"
             /\ guard[g].action # a \/ guard[g].digest # exec[a].digest
    <3>1. CASE guard'[g] = guard[g]
      BY <2>5, <2>7, <3>1
    <3>2. ASSUME NEW b, NEW o, NEW d, RecordSafeOutcome(g, b, o, d)
          PROVE  guard'[g].st = "resolved"
      BY <2>2, <3>2 DEF RecordSafeOutcome, TypeOK, GuardRow
    <3>3. ASSUME NEW b, NEW d, RecordUncertainOutcome(g, b, d)
          PROVE  guard'[g].st = "uncertain"
      BY <2>2, <3>3 DEF RecordUncertainOutcome, TypeOK, GuardRow
    <3>4. QED
      BY <1>1, <2>2, <2>5, <2>7, <3>1, <3>2, <3>3, SettledGuards
  <2>8. CASE /\ guard[g].st = "issued" /\ HasClaim(c)
             /\ \/ claim[c].epoch # guard[g].epoch
                \/ claim[c].boot # boot \/ guard[g].boot # boot
    <3>1. /\ c \in Commitment /\ guard[g].epoch <= epoch[c]
          /\ claim[c].epoch = epoch[c] /\ claim[c].boot = boot
      BY <2>1, <2>2, <2>8 DEF GuardRowsWellFormed, ClaimsConsistent, ClaimConsistent
    <3>2. epoch[c] # guard[g].epoch \/ guard[g].boot # boot
      BY <2>8, <3>1
    <3>3. ~ \E b \in Action, d \in Digest \cup {None}, i \in Instants : AdmitGuard(g, b, d, i)
      BY <2>1, <3>2 DEF AdmitGuard
    <3>4. guard'[g] = guard[g]
      BY <1>1, <2>2, <2>5, <2>8, <3>3, IssuedMoves
    <3>5. epoch'[c] = guard[g].epoch /\ guard[g].boot = boot'
      BY <2>1, <2>5, <2>8, <3>4
    <3>6. epoch[c] \in Nat /\ epoch'[c] \in Nat /\ guard[g].epoch \in Nat /\ epoch[c] <= epoch'[c]
      BY <1>1, <2>2, <3>1, EpochsRise, BoundsAssumption DEF FenceInvariant, TypeOK, GuardRow
    <3>7. guard[g].boot # boot
      BY <3>1, <3>2, <3>5, <3>6
    <3>8. Open
      BY <2>2, <3>5, <3>7, BootMoves
    <3>9. guard' = Invalidated(Issued) /\ g \in Issued /\ Issued \in SUBSET Issued
      BY <2>2, <2>8, <3>8 DEF Open, Issued
    <3>10. guard'[g].st = "invalidated"
      BY <2>2, <3>9, InvalidatedColumns
    <3>11. QED
      BY <2>8, <3>4, <3>10
  <2>9. QED
    BY <1>1, <2>4, <2>6, <2>7, <2>8 DEF VerdictTells
<1>2. FenceInvariant => TypeOK
  BY DEF FenceInvariant
<1>3. ASSUME FenceInvariant, FenceInvariant', BlankRows, ProtocolInvariant,
             ProtocolInvariant', VerdictsTell, VerdictsTell', [BridgeNext]_bridgeVars
      PROVE  [\A a \in Action, t \in Instants :
                exec[a].st # "idle" /\ Verdict(a, t) \in FinalReasons =>
                    \A u \in Instants : Verdict(a, u)' # "admitted"]_bridgeVars
  <2>1. ASSUME NEW a \in Action, NEW t \in Instants, NEW u \in Instants,
               exec[a].st # "idle", Verdict(a, t) \in FinalReasons
        PROVE  Verdict(a, u)' # "admitted"
    BY <1>1, <1>3, <2>1
  <2>2. QED
    BY <2>1
<1>4. QED
  BY <1>2, <1>3, VerdictsAreTrue, BridgeImplementsStore, FenceIsInvariant, BlankIsInvariant,
     ProtocolIsInvariant, PTL DEF BridgeSpec, RefusalIsFinal
=============================================================================
