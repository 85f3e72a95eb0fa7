--------------------------- MODULE GoalLedgerProof ---------------------------
(***************************************************************************)
(* Goals and attention items, for every set of clients, goals, items and   *)
(* descriptions and every last revision.  The row of a goal, its revisions *)
(* and its events change in one transaction, and each is what bounds the   *)
(* others: the version stays in range because there are revisions for it.  *)
(***************************************************************************)
EXTENDS GoalLedger, TLAPS

\* The three accounts of a goal's history agree with one another.
LedgerInvariant == TypeOK /\ RowIsLatestRevision /\ LogCountsChanges

\* The revisions of goal g that have an entry.
Filled(g) == {r \in Revisions : ledger[g][r] # NoEntry}

\* A goal that exists and an entry that exists differ from the null values.
LEMMA NullValues ==
    /\ \A entry \in Entry : entry # NoEntry
    /\ \A r \in GoalRow : r # NoGoal /\ r.version # 0
    /\ NoGoal.version = 0
<1>1. \A entry \in Entry : entry # NoEntry
  BY DEF Entry, NoEntry, GoalState
<1>2. \A r \in GoalRow : r # NoGoal /\ r.version # 0
  BY RevisionAssumption DEF GoalRow, NoGoal, Revisions
<1>3. QED
  BY <1>1, <1>2 DEF NoGoal

\* The history of one goal: empty, or the last version-many revisions.
LEMMA History ==
    ASSUME TypeOK, RowIsLatestRevision, NEW g \in Goal
    PROVE  /\ row[g] = NoGoal => Filled(g) = {}
           /\ row[g] # NoGoal =>
                 /\ row[g] \in GoalRow
                 /\ Filled(g) = row[g].revision - row[g].version + 1 .. row[g].revision
                 /\ row[g].version <= row[g].revision
                 /\ ledger[g][row[g].revision] = row[g].entry
<1>1. CASE row[g] = NoGoal
  BY <1>1 DEF RowIsLatestRevision, Filled
<1>2. CASE row[g] # NoGoal
  <2>1. /\ row[g] \in GoalRow
        /\ Filled(g) = row[g].revision - row[g].version + 1 .. row[g].revision
        /\ ledger[g][row[g].revision] = row[g].entry
    BY <1>2 DEF TypeOK, RowIsLatestRevision, Filled
  <2>2. row[g].revision \in Nat \ {0} /\ row[g].version \in Nat \ {0}
    BY <2>1, RevisionAssumption DEF GoalRow, Revisions
  <2>3. row[g].revision - row[g].version + 1 \in Filled(g)
    BY <2>1, <2>2
  <2>4. row[g].revision - row[g].version + 1 >= 1
    BY <2>3, RevisionAssumption DEF Filled, Revisions
  <2>5. QED
    BY <1>2, <2>1, <2>2, <2>4
<1>3. QED
  BY <1>1, <1>2

\* The properties of a goal depend on its own row, revisions and events.
LEMMA FromEachGoal ==
    ASSUME NEW g \in Goal,
           \A h \in Goal \ {g} : /\ row'[h] = row[h] /\ ledger'[h] = ledger[h]
                                 /\ written'[h] = written[h],
           RowIsLatestRevision, \A h \in Goal : written[h] = row[h].version,
           written'[g] = row'[g].version, row'[g] # NoGoal,
           Filled(g)' = row'[g].revision - row'[g].version + 1 .. row'[g].revision,
           ledger'[g][row'[g].revision] = row'[g].entry
    PROVE  /\ RowIsLatestRevision'
           /\ \A h \in Goal : written'[h] = row'[h].version
  BY DEF RowIsLatestRevision, Filled

\* A new goal begins its history.
LEMMA InsertGoalKeeps ==
    ASSUME LedgerInvariant, NEW g \in Goal, NEW r, NEW entry \in Entry,
           InsertGoal(g, r, entry)
    PROVE  LedgerInvariant'
<1> DEFINE new == [revision |-> r, entry |-> entry, version |-> 1]
<1>1. /\ TypeOK /\ RowIsLatestRevision /\ row[g] = NoGoal /\ r \in Revisions
      /\ \A h \in Goal : written[h] = row[h].version
  BY DEF LedgerInvariant, LogCountsChanges, InsertGoal, Representable
<1>2. /\ row' = [row EXCEPT ![g] = new] /\ ledger' = [ledger EXCEPT ![g][r] = entry]
      /\ written' = [written EXCEPT ![g] = @ + 1]
      /\ UNCHANGED <<copy, item, raised, cleared>>
  BY DEF InsertGoal, attentionVars
<1>3. new \in GoalRow /\ new.version = 1 /\ new.revision = r /\ new.entry = entry
  BY <1>1, RevisionAssumption DEF GoalRow, Revisions
<1> HIDE DEF new
<1>4. written[g] = 0 /\ 1 \in 0 .. MaxRevision
  BY <1>1, NullValues, RevisionAssumption
<1>5. TypeOK'
  <2>1. row' \in [Goal -> GoalRow \cup {NoGoal}]
    BY <1>1, <1>2, <1>3 DEF TypeOK
  <2>2. ledger' \in [Goal -> [Revisions -> Entry \cup {NoEntry}]]
    BY <1>1, <1>2 DEF TypeOK
  <2>3. written' \in [Goal -> 0 .. MaxRevision]
    BY <1>1, <1>2, <1>4 DEF TypeOK
  <2>4. QED
    BY <1>1, <1>2, <2>1, <2>2, <2>3 DEF TypeOK
<1>6. Filled(g)' = {r}
  <2>1. Filled(g) = {}
    BY <1>1, History
  <2>2. ledger'[g] = [ledger[g] EXCEPT ![r] = entry] /\ ledger[g] \in [Revisions -> Entry \cup {NoEntry}]
    BY <1>1, <1>2 DEF TypeOK
  <2>3. QED
    BY <1>1, <2>1, <2>2, NullValues DEF Filled
<1>7. row'[g] = new /\ written'[g] = 1 /\ ledger'[g][r] = entry
  BY <1>1, <1>2, <1>4 DEF TypeOK
<1>8. r - 1 + 1 .. r = {r}
  BY <1>1 DEF Revisions
<1>9. \A h \in Goal \ {g} : /\ row'[h] = row[h] /\ ledger'[h] = ledger[h]
                            /\ written'[h] = written[h]
  BY <1>1, <1>2 DEF TypeOK
<1>10. RowIsLatestRevision' /\ \A h \in Goal : written'[h] = row'[h].version
  BY <1>1, <1>3, <1>6, <1>7, <1>8, <1>9, FromEachGoal, NullValues
<1>11. QED
  BY <1>2, <1>5, <1>10 DEF LedgerInvariant, LogCountsChanges

\* A revision is accepted for the row it was made from, and follows it.
LEMMA PersistGoalChangeKeeps ==
    ASSUME LedgerInvariant, NEW p \in Client, NEW r, NEW entry \in Entry,
           PersistGoalChange(p, r, entry)
    PROVE  /\ LedgerInvariant'
           /\ copy[p].goal \in Goal
           /\ row[copy[p].goal] # NoGoal
           /\ row'[copy[p].goal].revision = row[copy[p].goal].revision + 1
           /\ row'[copy[p].goal].version = row[copy[p].goal].version + 1
<1>0. PICK g : g = copy[p].goal
  OBVIOUS
<1> DEFINE version == row[g].version
           new == [revision |-> r, entry |-> entry, version |-> version + 1]
<1>1. /\ TypeOK /\ RowIsLatestRevision /\ \A h \in Goal : written[h] = row[h].version
      /\ copy[p] # NoCopy /\ r = row[g].revision + 1 /\ r \in Revisions
      /\ copy[p].row.version = version
  BY <1>0 DEF LedgerInvariant, LogCountsChanges, PersistGoalChange, VersionCurrent,
         NextRevision, Representable
<1>2. copy[p] \in [goal : Goal, row : GoalRow]
  BY <1>1 DEF TypeOK
<1>3. g \in Goal /\ row[g] \in GoalRow /\ row[g] # NoGoal
  <2>1. g \in Goal /\ copy[p].row \in GoalRow
    BY <1>0, <1>2
  <2>2. version # 0
    BY <1>1, <2>1, NullValues
  <2>3. QED
    BY <1>1, <2>1, <2>2, NullValues DEF TypeOK
<1>4. /\ row' = [row EXCEPT ![g] = new] /\ ledger' = [ledger EXCEPT ![g][r] = entry]
      /\ written' = [written EXCEPT ![g] = @ + 1]
      /\ UNCHANGED <<copy, item, raised, cleared>>
  BY <1>0, <1>1 DEF PersistGoalChange, attentionVars
<1>5. /\ Filled(g) = row[g].revision - version + 1 .. row[g].revision
      /\ version <= row[g].revision /\ version \in Nat /\ row[g].revision \in Nat
  BY <1>1, <1>3, History, RevisionAssumption DEF GoalRow, Revisions
<1>6. version + 1 \in Revisions /\ version + 1 \in 0 .. MaxRevision
  BY <1>1, <1>5, RevisionAssumption DEF Revisions
<1>7. new \in GoalRow /\ new.version = version + 1 /\ new.revision = r /\ new.entry = entry
  BY <1>1, <1>6 DEF GoalRow
<1> HIDE DEF new
<1>8. TypeOK'
  <2>1. row' \in [Goal -> GoalRow \cup {NoGoal}]
    BY <1>1, <1>4, <1>7 DEF TypeOK
  <2>2. ledger' \in [Goal -> [Revisions -> Entry \cup {NoEntry}]]
    BY <1>1, <1>3, <1>4 DEF TypeOK
  <2>3. written' \in [Goal -> 0 .. MaxRevision]
    BY <1>1, <1>3, <1>4, <1>6 DEF TypeOK
  <2>4. QED
    BY <1>1, <1>4, <2>1, <2>2, <2>3 DEF TypeOK
<1>9. Filled(g)' = Filled(g) \cup {r}
  <2>1. /\ ledger'[g] = [ledger[g] EXCEPT ![r] = entry]
        /\ ledger[g] \in [Revisions -> Entry \cup {NoEntry}]
    BY <1>1, <1>3, <1>4 DEF TypeOK
  <2>2. QED
    BY <1>1, <2>1, NullValues DEF Filled
<1>10. row'[g] = new /\ written'[g] = version + 1 /\ ledger'[g][r] = entry
  BY <1>1, <1>3, <1>4 DEF TypeOK
<1>11. Filled(g)' = r - (version + 1) + 1 .. r
  BY <1>1, <1>5, <1>9
<1>12. \A h \in Goal \ {g} : /\ row'[h] = row[h] /\ ledger'[h] = ledger[h]
                             /\ written'[h] = written[h]
  BY <1>1, <1>4 DEF TypeOK
<1>13. RowIsLatestRevision' /\ \A h \in Goal : written'[h] = row'[h].version
  BY <1>1, <1>3, <1>7, <1>10, <1>11, <1>12, FromEachGoal, NullValues
<1>14. LedgerInvariant'
  BY <1>4, <1>8, <1>13 DEF LedgerInvariant, LogCountsChanges
<1>15. QED
  BY <1>0, <1>1, <1>3, <1>7, <1>10, <1>14

\* Loading and the attention items leave the goals alone.
LEMMA OtherStepsKeep ==
    ASSUME LedgerInvariant
    PROVE  /\ \A p \in Client, g \in Goal : LoadGoal(p, g) => LedgerInvariant'
           /\ AttentionNext => LedgerInvariant'
           /\ UNCHANGED vars => LedgerInvariant'
<1>1. TypeOK /\ RowIsLatestRevision /\ LogCountsChanges
  BY DEF LedgerInvariant
<1>2. ASSUME row' = row, ledger' = ledger, written' = written
      PROVE  RowIsLatestRevision' /\ \A g \in Goal : written'[g] = row'[g].version
  BY <1>1, <1>2 DEF RowIsLatestRevision, LogCountsChanges
<1>3. ASSUME NEW p \in Client, NEW g \in Goal, LoadGoal(p, g)
      PROVE  LedgerInvariant'
  <2>1. /\ copy' = [copy EXCEPT ![p] = [goal |-> g, row |-> row[g]]] /\ row[g] \in GoalRow
        /\ UNCHANGED <<row, ledger, written, item, raised, cleared>>
    BY <1>1, <1>3 DEF LoadGoal, attentionVars, TypeOK
  <2>2. TypeOK'
    BY <1>1, <2>1 DEF TypeOK
  <2>3. QED
    BY <1>1, <1>2, <2>1, <2>2 DEF LedgerInvariant, LogCountsChanges
<1>4. ASSUME NEW i \in Attention, InsertAttention(i)
      PROVE  LedgerInvariant'
  <2>1. /\ item[i] = "absent" /\ item' = [item EXCEPT ![i] = "open"]
        /\ raised' = [raised EXCEPT ![i] = @ + 1]
        /\ UNCHANGED <<row, ledger, copy, written, cleared>>
    BY <1>4 DEF InsertAttention, goalVars
  <2>2. TypeOK'
    BY <1>1, <2>1 DEF TypeOK
  <2>3. \A j \in Attention : /\ raised'[j] = IF item'[j] = "absent" THEN 0 ELSE 1
                             /\ cleared'[j] = IF item'[j] = "cleared" THEN 1 ELSE 0
    BY <1>1, <2>1 DEF TypeOK, LogCountsChanges
  <2>4. QED
    BY <1>1, <1>2, <2>1, <2>2, <2>3 DEF LedgerInvariant, LogCountsChanges
<1>5. ASSUME NEW i \in Attention, ClearAttention(i)
      PROVE  LedgerInvariant'
  <2>1. /\ item[i] = "open" /\ item' = [item EXCEPT ![i] = "cleared"]
        /\ cleared' = [cleared EXCEPT ![i] = @ + 1]
        /\ UNCHANGED <<row, ledger, copy, written, raised>>
    BY <1>5 DEF ClearAttention, Clearable, goalVars
  <2>2. TypeOK'
    BY <1>1, <2>1 DEF TypeOK
  <2>3. \A j \in Attention : /\ raised'[j] = IF item'[j] = "absent" THEN 0 ELSE 1
                             /\ cleared'[j] = IF item'[j] = "cleared" THEN 1 ELSE 0
    BY <1>1, <2>1 DEF TypeOK, LogCountsChanges
  <2>4. QED
    BY <1>1, <1>2, <2>1, <2>2, <2>3 DEF LedgerInvariant, LogCountsChanges
<1>6. ASSUME UNCHANGED vars PROVE LedgerInvariant'
  <2>1. TypeOK'
    BY <1>1, <1>6 DEF vars, TypeOK
  <2>2. QED
    BY <1>1, <1>2, <1>6, <2>1 DEF vars, LedgerInvariant, LogCountsChanges
<1>7. QED
  BY <1>3, <1>4, <1>5, <1>6 DEF AttentionNext

\* The row of a goal, its revisions and its events agree in every reachable
\* state: every accepted revision is there, the last one is the goal, and the
\* log has an event for each.
THEOREM LedgerIsInvariant == Spec => []LedgerInvariant
<1>1. Init => LedgerInvariant
  <2>1. SUFFICES ASSUME Init PROVE LedgerInvariant
    OBVIOUS
  <2>2. TypeOK
    BY <2>1, RevisionAssumption DEF Init, TypeOK
  <2>3. RowIsLatestRevision
    BY <2>1 DEF Init, RowIsLatestRevision
  <2>4. LogCountsChanges
    BY <2>1 DEF Init, LogCountsChanges, NoGoal
  <2>5. QED
    BY <2>2, <2>3, <2>4 DEF LedgerInvariant
<1>2. LedgerInvariant /\ [Next]_vars => LedgerInvariant'
  BY InsertGoalKeeps, PersistGoalChangeKeeps, OtherStepsKeep DEF Next, GoalNext
<1>3. QED
  BY <1>1, <1>2, PTL DEF Spec

\* Every column of goals, goal_revisions and attention_items stays in range, the
\* version of a goal included, which no operation bounds.
THEOREM LedgerTypeCorrectness == Spec => []TypeOK
<1>1. LedgerInvariant => TypeOK
  BY DEF LedgerInvariant
<1>2. QED
  BY <1>1, LedgerIsInvariant, PTL

\* A goal is its latest revision, and no revision is lost or ahead of the row.
THEOREM NoRevisionLost == Spec => []RowIsLatestRevision
<1>1. LedgerInvariant => RowIsLatestRevision
  BY DEF LedgerInvariant
<1>2. QED
  BY <1>1, LedgerIsInvariant, PTL

\* work_events has one event for each change that was made and no other.
THEOREM OneEventPerChange == Spec => []LogCountsChanges
<1>1. LedgerInvariant => LogCountsChanges
  BY DEF LedgerInvariant
<1>2. QED
  BY <1>1, LedgerIsInvariant, PTL

\* goal_revisions is append-only, and revision and version rise together.
THEOREM HistoryIsAppendOnly == Spec => HistoryStands
<1> DEFINE Stands(g) ==
        /\ \A r \in Revisions : ledger[g][r] # NoEntry => ledger'[g][r] = ledger[g][r]
        /\ row[g] # NoGoal /\ row'[g] # row[g] =>
              /\ row'[g].revision = row[g].revision + 1
              /\ row'[g].version = row[g].version + 1
<1>1. ASSUME LedgerInvariant, Next, NEW g \in Goal
      PROVE  Stands(g)
  <2>1. TypeOK /\ RowIsLatestRevision
    BY <1>1 DEF LedgerInvariant
  <2>2. ASSUME NEW h \in Goal, NEW r, NEW entry \in Entry, InsertGoal(h, r, entry)
        PROVE  Stands(g)
    <3>1. row[h] = NoGoal /\ \A q \in Revisions : ledger[h][q] = NoEntry
      BY <2>1, <2>2, History DEF InsertGoal, Filled
    <3>2. g # h => row'[g] = row[g] /\ ledger'[g] = ledger[g]
      BY <2>1, <2>2 DEF InsertGoal, TypeOK
    <3>3. QED
      BY <3>1, <3>2
  <2>3. ASSUME NEW p \in Client, NEW r, NEW entry \in Entry, PersistGoalChange(p, r, entry)
        PROVE  Stands(g)
    <3> DEFINE h == copy[p].goal
    <3>1. /\ h \in Goal /\ row'[h].revision = row[h].revision + 1
          /\ row'[h].version = row[h].version + 1
      BY <1>1, <2>3, PersistGoalChangeKeeps
    <3>2. /\ ledger[h][r] = NoEntry /\ ledger' = [ledger EXCEPT ![h][r] = entry]
          /\ \A q \in Goal \ {h} : row'[q] = row[q]
      BY <2>1, <2>3 DEF PersistGoalChange, TypeOK
    <3> HIDE DEF h
    <3>3. \A q \in Revisions : ledger[g][q] # NoEntry => ledger'[g][q] = ledger[g][q]
      BY <2>1, <3>1, <3>2 DEF TypeOK
    <3>4. QED
      BY <3>1, <3>2, <3>3
  <2>4. ASSUME UNCHANGED <<row, ledger>> PROVE Stands(g)
    BY <2>4
  <2>5. QED
    BY <1>1, <2>2, <2>3, <2>4 DEF Next, GoalNext, AttentionNext, LoadGoal,
       InsertAttention, ClearAttention, goalVars
<1>2. LedgerInvariant /\ [Next]_vars => [\A g \in Goal : Stands(g)]_vars
  BY <1>1
<1>3. QED
  BY <1>2, LedgerIsInvariant, PTL DEF Spec, HistoryStands
=============================================================================
