----------------------------- MODULE GoalLedger -----------------------------
(***************************************************************************)
(* Goals with their append-only revisions, and attention items.  Clients   *)
(* hold copies of the goals they loaded and revise them later, against the *)
(* version they loaded.  Every operation is one BEGIN IMMEDIATE            *)
(* transaction; one that is refused leaves nothing behind, the event that  *)
(* it had appended included.  Nothing ties the state of a goal to the one  *)
(* it had, nor the revision a goal begins with to 1.                       *)
(***************************************************************************)
EXTENDS Integers, FiniteSets

CONSTANTS
    Client, Goal, Attention,
    Text,         \* descriptions, all of them non-empty
    MaxRevision   \* last revision before the revision space is exhausted

ASSUME RevisionAssumption == MaxRevision \in Nat \ {0}

GoalState == {"Active", "Completed", "Cancelled", "Abandoned"}
Revisions == 1 .. MaxRevision

VARIABLES
    row,      \* goals: revision, description, state and state_version
    ledger,   \* goal_revisions: the entry of each revision, if there is one
    copy,     \* the goal each client loaded last
    written,  \* number of goal events in work_events
    item,     \* attention_items.state
    raised,   \* number of attention_raised events of an item
    cleared   \* number of attention_cleared events of an item

goalVars == <<row, ledger, copy, written>>
attentionVars == <<item, raised, cleared>>
vars == <<row, ledger, copy, written, item, raised, cleared>>

Entry == [text : Text, state : GoalState]
NoEntry == [text |-> "none", state |-> "none"]
NoGoal == [revision |-> 0, entry |-> NoEntry, version |-> 0]
GoalRow == [revision : Revisions, entry : Entry, version : Revisions]
NoCopy == [goal |-> "none", row |-> NoGoal]

TypeOK ==
    /\ row \in [Goal -> GoalRow \cup {NoGoal}]
    /\ ledger \in [Goal -> [Revisions -> Entry \cup {NoEntry}]]
    /\ copy \in [Client -> [goal : Goal, row : GoalRow] \cup {NoCopy}]
    /\ written \in [Goal -> 0 .. MaxRevision]
    /\ item \in [Attention -> {"absent", "open", "cleared"}]
    /\ raised \in [Attention -> Nat]
    /\ cleared \in [Attention -> Nat]

Init ==
    /\ row = [g \in Goal |-> NoGoal]
    /\ ledger = [g \in Goal |-> [r \in Revisions |-> NoEntry]]
    /\ copy = [p \in Client |-> NoCopy]
    /\ written = [g \in Goal |-> 0]
    /\ item = [i \in Attention |-> "absent"]
    /\ raised = [i \in Attention |-> 0]
    /\ cleared = [i \in Attention |-> 0]

-----------------------------------------------------------------------------
(* Goals *)

\* Fault: the revision after the last one is taken for an INTEGER.
RepresentableOffByOne(r) == r \in 1 .. MaxRevision + 1

\* A revision is a u64 and its column an i64: a larger one is refused.
Representable(r) == r \in Revisions

\* insert_goal
InsertGoal(g, r, entry) ==
    /\ row[g] = NoGoal
    /\ Representable(r)
    /\ row' = [row EXCEPT ![g] = [revision |-> r, entry |-> entry, version |-> 1]]
    /\ ledger' = [ledger EXCEPT ![g][r] = entry]
    /\ written' = [written EXCEPT ![g] = @ + 1]
    /\ UNCHANGED <<copy, attentionVars>>

\* load_goal_record: one SELECT, so the version is that of the row.
LoadGoal(p, g) ==
    /\ row[g] # NoGoal
    /\ copy' = [copy EXCEPT ![p] = [goal |-> g, row |-> row[g]]]
    /\ UNCHANGED <<row, ledger, written, attentionVars>>

\* Fault: the version the client quotes is not compared.
AnyVersion(g, expected) == TRUE

\* ensure_version
VersionCurrent(g, expected) == row[g].version = expected

\* Fault: any revision above the current one will do.
LaterRevision(g, r) == r > row[g].revision

\* The successor of the current revision and no other; the last one has none.
NextRevision(g, r) == r = row[g].revision + 1

\* persist_goal_change of the goal that client p loaded: the candidate is what
\* GoalSpec::revised makes of it, or one the client made anew.  The UPDATE
\* names the expected version and its row count is not looked at.
PersistGoalChange(p, r, entry) ==
    LET g == copy[p].goal
        expected == copy[p].row.version
    IN  /\ copy[p] # NoCopy
        /\ VersionCurrent(g, expected)
        /\ NextRevision(g, r)
        /\ Representable(r)
        /\ ledger[g][r] = NoEntry
        /\ row' = [row EXCEPT ![g] =
                      IF row[g].version = expected
                      THEN [revision |-> r, entry |-> entry, version |-> expected + 1]
                      ELSE row[g]]
        /\ ledger' = [ledger EXCEPT ![g][r] = entry]
        /\ written' = [written EXCEPT ![g] = @ + 1]
        /\ UNCHANGED <<copy, attentionVars>>

-----------------------------------------------------------------------------
(* Attention items *)

\* insert_attention
InsertAttention(i) ==
    /\ item[i] = "absent"
    /\ item' = [item EXCEPT ![i] = "open"]
    /\ raised' = [raised EXCEPT ![i] = @ + 1]
    /\ UNCHANGED <<goalVars, cleared>>

\* Fault: an item that is cleared may be cleared.
ClearableAgain(i) == item[i] # "absent"

\* The state read first and the row count of the UPDATE say the same.
Clearable(i) == item[i] = "open"

\* clear_attention
ClearAttention(i) ==
    /\ Clearable(i)
    /\ item' = [item EXCEPT ![i] = "cleared"]
    /\ cleared' = [cleared EXCEPT ![i] = @ + 1]
    /\ UNCHANGED <<goalVars, raised>>

-----------------------------------------------------------------------------
(* The specification *)

Candidates == 1 .. MaxRevision + 1

GoalNext ==
    \/ \E g \in Goal, r \in Candidates, entry \in Entry : InsertGoal(g, r, entry)
    \/ \E p \in Client, g \in Goal : LoadGoal(p, g)
    \/ \E p \in Client, r \in Candidates, entry \in Entry :
          PersistGoalChange(p, r, entry)

AttentionNext == \E i \in Attention : InsertAttention(i) \/ ClearAttention(i)

Next == GoalNext \/ AttentionNext

Spec == Init /\ [][Next]_vars

-----------------------------------------------------------------------------
(* Properties *)

\* The goal is what its last revision says, every revision from the first one
\* on is kept and none is ahead of the goal, whoever revises it at once: a
\* revision that was accepted is never lost behind the row.
RowIsLatestRevision ==
    \A g \in Goal :
        LET filled == {r \in Revisions : ledger[g][r] # NoEntry}
        IN  IF row[g] = NoGoal THEN filled = {}
            ELSE /\ filled = row[g].revision - row[g].version + 1 .. row[g].revision
                 /\ ledger[g][row[g].revision] = row[g].entry

\* The log has one event for each change that was made, and none for a change
\* that was refused or that hit no row.
LogCountsChanges ==
    /\ \A g \in Goal : written[g] = row[g].version
    /\ \A i \in Attention :
        /\ raised[i] = IF item[i] = "absent" THEN 0 ELSE 1
        /\ cleared[i] = IF item[i] = "cleared" THEN 1 ELSE 0

\* History is not rewritten: what a revision said it says for good, and the
\* revision and the version of a goal move up together, one at a time.
HistoryStands ==
    [][\A g \in Goal :
          /\ \A r \in Revisions : ledger[g][r] # NoEntry => ledger'[g][r] = ledger[g][r]
          /\ row[g] # NoGoal /\ row'[g] # row[g] =>
                /\ row'[g].revision = row[g].revision + 1
                /\ row'[g].version = row[g].version + 1]_vars
=============================================================================
