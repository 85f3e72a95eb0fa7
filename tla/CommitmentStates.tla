-------------------------- MODULE CommitmentStates --------------------------
(***************************************************************************)
(* The closed set of commitment states of resolve-core and the topology    *)
(* that validate_transition accepts.  WAITING is split in two: "Waiting"   *)
(* is a wait for any ordinary reason, "Uncertain" is                       *)
(* WAITING(UncertainAction(a)); the reference a is kept by the store.      *)
(* "Absent" is an identifier with no row in the commitments table.         *)
(***************************************************************************)

WaitingStates == {"Waiting", "Uncertain"}

TerminalStates == {"Completed", "Cancelled", "Abandoned"}

\* CommitmentState::requires_active_claim
ClaimBearing == {"Claimed", "Working", "Waiting", "CompletionProposed"}

RowStates ==
    {"Proposed", "Ready", "RecoveryPending"}
        \cup WaitingStates \cup TerminalStates \cup ClaimBearing

CommitmentState == RowStates \cup {"Absent"}

\* Explicit terminal exits, open from every state that is not terminal.
Exits == {"Cancelled", "Abandoned"}

\* validate_transition.  Terminal states have no successor; only the store's
\* own recovery paths take "Claimed" to "RecoveryPending".
ValidTransition(from, to) ==
    \/ from = "Proposed" /\ to = "Ready"
    \/ from = "Ready" /\ to = "Claimed"
    \/ from = "Claimed" /\ to = "Working"
    \/ from = "Working"
           /\ to \in WaitingStates \cup {"RecoveryPending", "CompletionProposed"}
    \/ from \in WaitingStates /\ to \in {"Ready", "Working"}
    \/ from = "Waiting" /\ to = "RecoveryPending"
    \/ from = "RecoveryPending" /\ to \in WaitingStates \cup {"Ready"}
    \/ from = "CompletionProposed" /\ to \in {"Completed", "RecoveryPending"}
    \/ from \in RowStates \ TerminalStates /\ to \in Exits
=============================================================================
