------------------------ MODULE SchemaMigrationProof ------------------------
(***************************************************************************)
(* The schema of a file, for every number of processes that open it at     *)
(* once, every origin, every history of claims and every number of crashes *)
(* between two transactions.  What a process knows from an earlier         *)
(* transaction is only where it is in the sequence of migrations; that the *)
(* file is where the process takes it to be is checked when a migration    *)
(* stamps the version, and the invariant rests on this check.              *)
(***************************************************************************)
EXTENDS SchemaMigration, WellFoundedInduction, TLAPS

\* A process counts within the statements or the migrations there are.
StepInRange ==
    \A p \in Process :
        /\ phase[p] = "create" => at[p] \in 1 .. Len(CreationOrder)
        /\ phase[p] = "migrate" => at[p] \in 1 .. SchemaVersion - 1

\* From version 3 on the history of the file has been checked and the mark of a
\* commitment is no lower than any epoch that its events tell of.
HistoryIsMarked ==
    version >= 3 =>
        /\ sound
        /\ \A c \in Commitment : \A e \in events[c] : e <= mark[c]

MigrationInvariant ==
    /\ TypeOK
    /\ StepInRange
    /\ VersionDescribesSchema
    /\ HistoryIsMarked
    /\ OpenedFileIsCurrent

-----------------------------------------------------------------------------
(* Operators of the model *)

\* The objects that create_schema_v1 makes.
CreatedObjects ==
    {"metadata", "schema_version", "boot_generation", "goals",
     "goal_revisions", "commitments", "prerequisites", "acceptance_refs",
     "claims", "attention_items", "work_events", "goal_idx", "commitment_idx"}

\* The thirteen statements of create_schema_v1, as a set.
LEMMA CreationStatements ==
    /\ Len(CreationOrder) = 13
    /\ \A i \in 1 .. 13 : CreationOrder[i] \in CreatedObjects
    /\ ToSet(CreationOrder) = CreatedObjects
<1>1. Len(CreationOrder) = 13 /\ DOMAIN CreationOrder = 1 .. 13
  BY DEF CreationOrder
<1>2. \A i \in 1 .. 13 : CreationOrder[i] \in CreatedObjects
  BY DEF CreationOrder, CreatedObjects
<1>3. \A o \in CreatedObjects : \E i \in 1 .. 13 : CreationOrder[i] = o
  BY DEF CreationOrder, CreatedObjects
<1>4. QED
  BY <1>1, <1>2, <1>3 DEF ToSet

\* The library's well-founded order on the naturals, without its operator.
LEMMA LessIsWellFounded ==
    IsWellFoundedOn({ss \in Nat \X Nat : ss[1] < ss[2]}, Nat)
BY NatLessThanWellFounded DEF OpToRel

\* A set of naturals that has an element has a least one.
LEMMA LeastNatural ==
    ASSUME NEW S \in SUBSET Nat, S # {}
    PROVE  \E u \in S : \A y \in S : u <= y
<1> DEFINE Less == {ss \in Nat \X Nat : ss[1] < ss[2]}
<1>1. \E u \in S : \A y \in S : <<y, u>> \notin Less
  <2>1. IsWellFoundedOn(Less, Nat)
    BY LessIsWellFounded
  <2> HIDE DEF Less
  <2>2. QED
    BY <2>1, WFMin
<1>2. \A x, y \in Nat : <<y, x>> \notin Less => x <= y
  OBVIOUS
<1> HIDE DEF Less
<1>3. QED
  BY <1>1, <1>2

\* A bounded set of epochs has a highest one; the highest of no epochs is 0.
LEMMA HighestEpoch ==
    ASSUME NEW E \in SUBSET (0 .. MaxEpoch)
    PROVE  /\ Highest(E) \in 0 .. MaxEpoch
           /\ \A e \in E : e <= Highest(E)
<1>1. MaxEpoch \in Nat
  BY OriginsAssumption
<1>2. \E e \in E \cup {0} : \A f \in E : f <= e
  <2> DEFINE Bounds == {u \in Nat : \A f \in E : f <= u}
  <2>1. Bounds \in SUBSET Nat /\ MaxEpoch \in Bounds
    BY <1>1
  <2>2. PICK u \in Bounds : \A y \in Bounds : u <= y
    <3> HIDE DEF Bounds
    <3> QED BY <2>1, LeastNatural
  <2>3. u \in E \cup {0}
    <3>1. SUFFICES ASSUME u # 0, u \notin E PROVE FALSE
      OBVIOUS
    <3>2. u - 1 \in Bounds
      BY <3>1
    <3>3. QED
      BY <3>2, <2>2
  <2>4. QED
    BY <2>3
<1>3. Highest(E) \in E \cup {0} /\ \A f \in E : f <= Highest(E)
  BY <1>2 DEF Highest
<1>4. \A h \in E \cup {0} : h \in 0 .. MaxEpoch
  BY <1>1
<1>5. QED
  BY <1>3, <1>4, Zenon

\* What the four migrations add, written out.
LEMMA MigrationContents ==
    /\ Ensured(1) = {"claim_boot", "boot_generation", "execution_guards",
                     "guard_scopes", "scope_locks"}
    /\ Ensured(2) = {"action_ref_idx"} /\ Ensured(3) = {} /\ Ensured(4) = {}
    /\ AddedColumn(1) = {} /\ AddedColumn(2) = {"last_claim_epoch"}
    /\ AddedColumn(3) = {"replacement_terminal_id"}
    /\ AddedColumn(4) = {"preparation_digest"}
BY DEF Ensured, AddedColumn, FencingTables

\* A column that a migration adds is made by no other migration, and by no
\* statement that creates the first schema.
LEMMA ColumnsAreDistinct ==
    ASSUME NEW n \in 1 .. SchemaVersion - 1, NEW m \in 1 .. SchemaVersion - 1
    PROVE  /\ AddedColumn(n) \cap (CreatedObjects \cup {"claim_boot"}) = {}
           /\ AddedColumn(n) \cap Ensured(m) = {}
           /\ n # m => AddedColumn(n) \cap AddedColumn(m) = {}
<1>1. n \in {1, 2, 3, 4} /\ m \in {1, 2, 3, 4}
  BY DEF SchemaVersion
<1>2. AddedColumn(n) \subseteq
          {"last_claim_epoch", "replacement_terminal_id", "preparation_digest"}
  BY <1>1, MigrationContents
<1>3. /\ Ensured(m) \subseteq {"claim_boot", "boot_generation",
             "execution_guards", "guard_scopes", "scope_locks", "action_ref_idx"}
  BY <1>1, MigrationContents
<1>4. n # m => AddedColumn(n) \cap AddedColumn(m) = {}
  BY <1>1, MigrationContents
<1>5. QED
  BY <1>2, <1>3, <1>4 DEF CreatedObjects

\* The objects of a file: those of the first schema and what migrations added.
LEMMA FileObjects ==
    /\ ObjectsOf(0) = {}
    /\ \A v \in 1 .. SchemaVersion + 1 : ObjectsOf(v) = CreatedObjects \cup
           UNION {Ensured(n) \cup AddedColumn(n) : n \in 1 .. v - 1}
BY CreationStatements DEF ObjectsOf, SchemaVersion

\* A file of the release before has no object that this one does not know.
LEMMA ObjectsKnown ==
    /\ \A v \in 0 .. SchemaVersion + 1 :
          ObjectsOf(v) \subseteq ObjectsOf(SchemaVersion + 1)
    /\ CreatedObjects \cup {"claim_boot"} \subseteq ObjectsOf(SchemaVersion + 1)
    /\ \A n \in 1 .. SchemaVersion - 1 :
          Ensured(n) \cup AddedColumn(n) \subseteq ObjectsOf(SchemaVersion + 1)
<1>1. \A n \in 1 .. SchemaVersion :
          Ensured(n) \cup AddedColumn(n) \subseteq ObjectsOf(SchemaVersion + 1)
  BY FileObjects DEF SchemaVersion
<1>2. CreatedObjects \subseteq ObjectsOf(SchemaVersion + 1)
  BY FileObjects DEF SchemaVersion
<1>3. "claim_boot" \in ObjectsOf(SchemaVersion + 1)
  BY <1>1, MigrationContents DEF SchemaVersion
<1>4. ASSUME NEW v \in 0 .. SchemaVersion + 1
      PROVE  ObjectsOf(v) \subseteq ObjectsOf(SchemaVersion + 1)
  <2>1. CASE v = 0
    BY <2>1, FileObjects
  <2>2. CASE v # 0
    <3>1. ObjectsOf(v) = CreatedObjects \cup
              UNION {Ensured(n) \cup AddedColumn(n) : n \in 1 .. v - 1}
      BY <2>2, FileObjects DEF SchemaVersion
    <3>2. \A n \in 1 .. v - 1 : n \in 1 .. SchemaVersion
      BY <2>2 DEF SchemaVersion
    <3>3. QED
      BY <3>1, <3>2, <1>1, <1>2
  <2>3. QED
    BY <2>1, <2>2
<1>5. QED
  BY <1>1, <1>2, <1>3, <1>4 DEF SchemaVersion
-----------------------------------------------------------------------------
(* The invariant *)

\* A file begins as the release that wrote it left it.
LEMMA InitIsConsistent == Init => MigrationInvariant
<1> SUFFICES ASSUME Init PROVE MigrationInvariant
  OBVIOUS
<1>1. version \in 0 .. SchemaVersion + 1 /\ objects = ObjectsOf(version)
  BY OriginsAssumption DEF Init
<1>2. \A c \in Commitment : events[c] \cup {claimed[c]} \in SUBSET (0 .. MaxEpoch)
  BY OriginsAssumption DEF Init, Epochs
<1>3. TypeOK
  <2>1. events \in [Commitment -> SUBSET Epochs]
    BY DEF Init
  <2>2. claimed \in [Commitment -> 0 .. MaxEpoch]
    BY OriginsAssumption DEF Init
  <2>3. mark \in [Commitment -> 0 .. MaxEpoch]
    BY <1>2, HighestEpoch, OriginsAssumption DEF Init
  <2>4. objects \subseteq ObjectsOf(SchemaVersion + 1)
    BY <1>1, ObjectsKnown
  <2>5. /\ sound \in BOOLEAN
        /\ crashes \in 0 .. MaxCrash
        /\ phase \in [Process -> {"idle", "create", "read", "migrate", "refresh",
                                  "recover", "open"}]
        /\ at \in [Process -> 0 .. Len(CreationOrder)]
    BY OriginsAssumption, CreationStatements DEF Init
  <2>6. QED
    BY <1>1, <2>1, <2>2, <2>3, <2>4, <2>5 DEF TypeOK
<1>4. StepInRange /\ OpenedFileIsCurrent
  BY DEF Init, StepInRange, OpenedFileIsCurrent
<1>5. VersionDescribesSchema
  <2> SUFFICES ASSUME NEW n \in 1 .. SchemaVersion - 1
               PROVE  IF n < version
                      THEN Ensured(n) \cup AddedColumn(n) \subseteq objects
                      ELSE AddedColumn(n) \cap objects = {}
    BY DEF VersionDescribesSchema
  <2>1. CASE version = 0
    BY <2>1, <1>1, FileObjects DEF SchemaVersion
  <2>2. CASE version # 0
    <3>1. objects = CreatedObjects \cup
              UNION {Ensured(m) \cup AddedColumn(m) : m \in 1 .. version - 1}
      BY <1>1, <2>2, FileObjects DEF SchemaVersion
    <3>2. CASE n < version
      BY <3>1, <3>2, <1>1 DEF SchemaVersion
    <3>3. CASE ~(n < version)
      <4>1. \A m \in 1 .. version - 1 : m \in 1 .. SchemaVersion - 1 /\ m # n
        BY <3>3, <1>1 DEF SchemaVersion
      <4>2. QED
        BY <4>1, <3>1, <3>3, ColumnsAreDistinct
    <3>4. QED
      BY <3>2, <3>3
  <2>3. QED
    BY <2>1, <2>2
<1>6. HistoryIsMarked
  <2> SUFFICES ASSUME version >= 3
               PROVE  /\ sound
                      /\ \A c \in Commitment : \A e \in events[c] : e <= mark[c]
    BY DEF HistoryIsMarked
  <2>1. \A c \in Commitment : mark[c] = Highest(events[c] \cup {claimed[c]})
    BY <1>1 DEF Init, SchemaVersion
  <2>2. sound
    BY <1>1 DEF Init
  <2>3. QED
    BY <2>1, <2>2, <1>2, HighestEpoch
<1>7. QED
  BY <1>3, <1>4, <1>5, <1>6 DEF MigrationInvariant

\* A step in which process p goes on to phase ph, statement or migration n.
LEMMA GoKeepsRange ==
    ASSUME TypeOK, StepInRange, NEW p \in Process, NEW ph, NEW n,
           Go(p, ph, n),
           ph \in {"idle", "create", "read", "migrate", "refresh", "recover", "open"},
           n \in 0 .. 13,
           ph = "create" => n \in 1 .. 13,
           ph = "migrate" => n \in 1 .. SchemaVersion - 1
    PROVE  /\ phase' \in [Process -> {"idle", "create", "read", "migrate",
                                      "refresh", "recover", "open"}]
           /\ at' \in [Process -> 0 .. Len(CreationOrder)]
           /\ crashes' \in 0 .. MaxCrash
           /\ StepInRange'
           /\ \A q \in Process : phase'[q] = "open" =>
                 phase[q] = "open" \/ (q = p /\ ph = "open")
<1>1. at' \in [Process -> 0 .. 13] /\ Len(CreationOrder) = 13
  BY CreationStatements DEF Go, TypeOK
<1>2. phase' \in [Process -> {"idle", "create", "read", "migrate",
                              "refresh", "recover", "open"}]
  BY DEF Go, TypeOK
<1>3. ASSUME NEW q \in Process
      PROVE  /\ phase'[q] = "create" => at'[q] \in 1 .. 13
             /\ phase'[q] = "migrate" => at'[q] \in 1 .. SchemaVersion - 1
             /\ phase'[q] = "open" => phase[q] = "open" \/ (q = p /\ ph = "open")
  <2>1. CASE q = p
    <3>1. phase'[q] = ph /\ at'[q] = n
      BY <2>1 DEF Go, TypeOK
    <3>2. QED
      BY <3>1, <2>1
  <2>2. CASE q # p
    BY <2>2, CreationStatements DEF Go, TypeOK, StepInRange
  <2>3. QED
    BY <2>1, <2>2
<1>4. QED
  BY <1>1, <1>2, <1>3 DEF Go, TypeOK, StepInRange
\* The file does not change, and no process gets a store.
LEMMA SameFile ==
    ASSUME MigrationInvariant, UNCHANGED fileVars, StepInRange',
           phase' \in [Process -> {"idle", "create", "read", "migrate",
                                   "refresh", "recover", "open"}],
           at' \in [Process -> 0 .. Len(CreationOrder)],
           crashes' \in 0 .. MaxCrash,
           \A q \in Process : phase'[q] = "open" => phase[q] = "open"
    PROVE  MigrationInvariant'
<1>1. TypeOK'
  BY DEF MigrationInvariant, TypeOK, fileVars
<1>2. VersionDescribesSchema'
  BY DEF MigrationInvariant, VersionDescribesSchema, fileVars
<1>3. HistoryIsMarked'
  BY DEF MigrationInvariant, HistoryIsMarked, fileVars
<1>4. OpenedFileIsCurrent'
  BY DEF MigrationInvariant, OpenedFileIsCurrent, fileVars
<1>5. QED
  BY <1>1, <1>2, <1>3, <1>4 DEF MigrationInvariant

\* Where a process can go without writing to the file: it begins, it reads the
\* version, its call fails.
LEMMA GoOn ==
    ASSUME MigrationInvariant, NEW p \in Process, NEW ph, NEW n,
           Go(p, ph, n), UNCHANGED fileVars,
           ph \in {"idle", "create", "read", "migrate", "refresh", "recover"},
           n \in 0 .. 13,
           ph = "create" => n \in 1 .. 13,
           ph = "migrate" => n \in 1 .. SchemaVersion - 1
    PROVE  MigrationInvariant'
<1>1. TypeOK /\ StepInRange
  BY DEF MigrationInvariant
<1>2. QED
  BY <1>1, GoKeepsRange, SameFile

\* The objects grow by tables and indexes, and the version is still the same
\* or is the first one.
LEMMA FileGrows ==
    ASSUME MigrationInvariant, NEW added,
           objects' = objects \cup added,
           added \subseteq CreatedObjects \cup Ensured(1) \cup Ensured(2),
           version' = version \/ (version = 0 /\ version' = 1),
           UNCHANGED <<events, claimed, mark, sound>>,
           StepInRange',
           phase' \in [Process -> {"idle", "create", "read", "migrate",
                                   "refresh", "recover", "open"}],
           at' \in [Process -> 0 .. Len(CreationOrder)],
           crashes' \in 0 .. MaxCrash,
           \A q \in Process : phase'[q] = "open" => phase[q] = "open"
    PROVE  MigrationInvariant'
<1>1. added \subseteq ObjectsOf(SchemaVersion + 1)
  BY ObjectsKnown DEF SchemaVersion
<1>2. TypeOK'
  BY <1>1 DEF MigrationInvariant, TypeOK, SchemaVersion
<1>3. \A n \in 1 .. SchemaVersion - 1 : AddedColumn(n) \cap added = {}
  BY ColumnsAreDistinct DEF SchemaVersion
<1>4. \A n \in 1 .. SchemaVersion - 1 : n < version' <=> n < version
  BY DEF MigrationInvariant, TypeOK
<1>5. VersionDescribesSchema'
  BY <1>3, <1>4 DEF MigrationInvariant, VersionDescribesSchema
<1>6. HistoryIsMarked'
  BY DEF MigrationInvariant, HistoryIsMarked
<1>7. OpenedFileIsCurrent'
  BY DEF MigrationInvariant, OpenedFileIsCurrent, SchemaVersion
<1>8. QED
  BY <1>2, <1>5, <1>6, <1>7 DEF MigrationInvariant

\* A statement of create_schema_v1 keeps the invariant, also when others have
\* created or migrated the file since this process looked for the metadata.
LEMMA CreateNextKeeps ==
    ASSUME MigrationInvariant, NEW p \in Process, CreateNext(p)
    PROVE  MigrationInvariant'
<1>1. TypeOK /\ StepInRange
  BY DEF MigrationInvariant
<1>2. at[p] \in 1 .. 13 /\ Len(CreationOrder) = 13
  BY <1>1, CreationStatements DEF CreateNext, StepInRange
<1>3. PICK ph, n : /\ Go(p, ph, n)
                   /\ \/ ph = "read" /\ n = 0
                      \/ ph = "create" /\ n \in 1 .. 13
  <2>1. CASE at[p] = 13
    BY <2>1, <1>2 DEF CreateNext
  <2>2. CASE at[p] # 13
    <3>1. Go(p, "create", at[p] + 1)
      BY <2>2, <1>2 DEF CreateNext
    <3>2. at[p] + 1 \in 1 .. 13
      BY <2>2, <1>2
    <3>3. QED
      BY <3>1, <3>2
  <2>3. QED
    BY <2>1, <2>2
<1>4. PICK added : /\ objects' = objects \cup added
                   /\ added \subseteq CreatedObjects \cup {"claim_boot"}
  <2>1. CreationOrder[at[p]] \in CreatedObjects
    BY <1>2, CreationStatements
  <2>2. objects' = objects \cup ({CreationOrder[at[p]]} \cup
            IF CreationOrder[at[p]] = "claims" /\ "claims" \notin objects
            THEN {"claim_boot"} ELSE {})
    BY DEF CreateNext
  <2>3. QED
    BY <2>1, <2>2
<1>5. version' = version \/ (version = 0 /\ version' = 1)
  BY DEF CreateNext, VersionRow
<1>6. added \subseteq CreatedObjects \cup Ensured(1) \cup Ensured(2)
  BY <1>4, MigrationContents
<1>7. UNCHANGED <<events, claimed, mark, sound>>
  BY DEF CreateNext
<1>8. /\ StepInRange'
      /\ phase' \in [Process -> {"idle", "create", "read", "migrate",
                                 "refresh", "recover", "open"}]
      /\ at' \in [Process -> 0 .. Len(CreationOrder)]
      /\ crashes' \in 0 .. MaxCrash
      /\ \A q \in Process : phase'[q] = "open" => phase[q] = "open"
  BY <1>1, <1>3, GoKeepsRange
<1>9. QED
  BY <1>4, <1>5, <1>6, <1>7, <1>8, FileGrows

\* The current version: what is created once more was there already, or does
\* no harm.
LEMMA RefreshCurrentKeeps ==
    ASSUME MigrationInvariant, NEW p \in Process, RefreshCurrent(p)
    PROVE  MigrationInvariant'
<1>1. TypeOK /\ StepInRange
  BY DEF MigrationInvariant
<1>2. PICK added : added = Ensured(1) \cup Ensured(2)
  OBVIOUS
<1>3. objects' = objects \cup added
  BY <1>2 DEF RefreshCurrent
<1>4. Go(p, "recover", 0) /\ UNCHANGED <<version, events, claimed, mark, sound>>
  BY DEF RefreshCurrent
<1>5. /\ StepInRange'
      /\ phase' \in [Process -> {"idle", "create", "read", "migrate",
                                 "refresh", "recover", "open"}]
      /\ at' \in [Process -> 0 .. Len(CreationOrder)]
      /\ crashes' \in 0 .. MaxCrash
      /\ \A q \in Process : phase'[q] = "open" => phase[q] = "open"
  BY <1>1, <1>4, GoKeepsRange
<1>6. added \subseteq CreatedObjects \cup Ensured(1) \cup Ensured(2)
  BY <1>2
<1>7. QED
  BY <1>3, <1>4, <1>5, <1>6, FileGrows

\* A migration keeps the invariant: the version it stamps is the one it found
\* in its transaction, so that no other has been applied since.
LEMMA MigrationKeeps ==
    ASSUME MigrationInvariant, NEW p \in Process, phase[p] = "migrate",
           Migrates(at[p]),
           objects' = objects \cup Ensured(at[p]) \cup AddedColumn(at[p]),
           mark' = IF at[p] = 2 THEN [c \in Commitment |-> Backfill(c)] ELSE mark,
           version' = at[p] + 1,
           IF at[p] + 1 = SchemaVersion
           THEN Go(p, "recover", 0)
           ELSE Go(p, "migrate", at[p] + 1),
           UNCHANGED <<events, claimed, sound>>
    PROVE  MigrationInvariant'
<1>1. TypeOK /\ StepInRange
  BY DEF MigrationInvariant
<1>2. PICK n : n = at[p]
  OBVIOUS
<1>3. n \in 1 .. SchemaVersion - 1 /\ version = n /\ version' = n + 1
  BY <1>1, <1>2 DEF StepInRange, Migrates, StampAllowed
<1>4. /\ StepInRange'
      /\ phase' \in [Process -> {"idle", "create", "read", "migrate",
                                 "refresh", "recover", "open"}]
      /\ at' \in [Process -> 0 .. Len(CreationOrder)]
      /\ crashes' \in 0 .. MaxCrash
      /\ \A q \in Process : phase'[q] = "open" => phase[q] = "open"
  <2>1. CASE n + 1 = SchemaVersion
    <3>1. Go(p, "recover", 0)
      BY <2>1, <1>2
    <3>2. QED
      BY <3>1, <1>1, GoKeepsRange
  <2>2. CASE n + 1 # SchemaVersion
    <3>1. PICK m : m = n + 1
      OBVIOUS
    <3>2. Go(p, "migrate", m)
      BY <2>2, <1>2, <3>1
    <3>3. m \in 1 .. SchemaVersion - 1 /\ m \in 0 .. 13
      BY <1>3, <2>2, <3>1 DEF SchemaVersion
    <3>4. QED
      BY <3>2, <3>3, <1>1, GoKeepsRange
  <2>3. QED
    BY <2>1, <2>2
<1>5. \A c \in Commitment :
         /\ Backfill(c) \in 0 .. MaxEpoch
         /\ \A e \in events[c] : e <= Backfill(c)
  <2> SUFFICES ASSUME NEW c \in Commitment
               PROVE  /\ Backfill(c) \in 0 .. MaxEpoch
                      /\ \A e \in events[c] : e <= Backfill(c)
    OBVIOUS
  <2>1. events[c] \cup {claimed[c]} \in SUBSET (0 .. MaxEpoch)
    BY <1>1 DEF TypeOK, Epochs
  <2>2. QED
    BY <2>1, HighestEpoch DEF Backfill
<1>6. objects' = objects \cup Ensured(n) \cup AddedColumn(n)
  BY <1>2
<1>7. TypeOK'
  <2>1. mark' \in [Commitment -> 0 .. MaxEpoch]
    BY <1>1, <1>5 DEF TypeOK
  <2>2. objects' \subseteq ObjectsOf(SchemaVersion + 1)
    BY <1>1, <1>3, <1>6, ObjectsKnown DEF TypeOK
  <2>3. version' \in 0 .. SchemaVersion + 1
    BY <1>3 DEF SchemaVersion
  <2>4. QED
    BY <2>1, <2>2, <2>3, <1>1, <1>4 DEF TypeOK
<1>8. VersionDescribesSchema'
  <2> SUFFICES ASSUME NEW m \in 1 .. SchemaVersion - 1
               PROVE  IF m < version'
                      THEN Ensured(m) \cup AddedColumn(m) \subseteq objects'
                      ELSE AddedColumn(m) \cap objects' = {}
    BY DEF VersionDescribesSchema
  <2>1. IF m < n THEN Ensured(m) \cup AddedColumn(m) \subseteq objects
                 ELSE AddedColumn(m) \cap objects = {}
    BY <1>3 DEF MigrationInvariant, VersionDescribesSchema
  <2>2. CASE m < n
    BY <2>1, <2>2, <1>3, <1>6 DEF SchemaVersion
  <2>3. CASE m = n
    BY <2>3, <1>3, <1>6 DEF SchemaVersion
  <2>4. CASE n < m
    <3>1. ~(m < n) /\ ~(m < n + 1) /\ m # n
      BY <2>4, <1>3 DEF SchemaVersion
    <3>2. AddedColumn(m) \cap Ensured(n) = {} /\ AddedColumn(m) \cap AddedColumn(n) = {}
      BY <3>1, <1>3, ColumnsAreDistinct
    <3>3. QED
      BY <3>1, <3>2, <2>1, <1>3, <1>6
  <2>5. QED
    BY <2>2, <2>3, <2>4, <1>3 DEF SchemaVersion
<1>9. HistoryIsMarked'
  <2>1. CASE n = 1
    BY <2>1, <1>3 DEF HistoryIsMarked
  <2>2. CASE n = 2
    <3>1. sound
      BY <1>2, <2>2 DEF Migrates, HistoryAccepted
    <3>2. QED
      BY <3>1, <2>2, <1>2, <1>5 DEF HistoryIsMarked
  <2>3. CASE n \notin {1, 2}
    <3>1. version >= 3
      BY <2>3, <1>3 DEF SchemaVersion
    <3>2. mark' = mark
      BY <2>3, <1>2
    <3>3. QED
      BY <3>1, <3>2 DEF MigrationInvariant, HistoryIsMarked
  <2>4. QED
    BY <2>1, <2>2, <2>3
<1>10. OpenedFileIsCurrent'
  <2>1. \A q \in Process : phase[q] # "open"
    BY <1>3 DEF MigrationInvariant, OpenedFileIsCurrent, SchemaVersion
  <2>2. QED
    BY <2>1, <1>4 DEF OpenedFileIsCurrent
<1>11. QED
  BY <1>4, <1>7, <1>8, <1>9, <1>10 DEF MigrationInvariant
\* Startup recovery ends the claims of a file that is current, and a process
\* gets its store only through it.
LEMMA RecoverKeeps ==
    ASSUME MigrationInvariant, NEW p \in Process, Recover(p)
    PROVE  MigrationInvariant'
<1>1. TypeOK /\ StepInRange
  BY DEF MigrationInvariant
<1>2. CASE ~Recoverable /\ Fail(p)
  BY <1>2, GoOn DEF Fail
<1>3. CASE Recoverable /\ Go(p, "open", 0) /\ claimed' = [c \in Commitment |-> 0]
           /\ UNCHANGED <<version, objects, events, mark, sound>>
  <2>1. /\ StepInRange'
        /\ phase' \in [Process -> {"idle", "create", "read", "migrate",
                                   "refresh", "recover", "open"}]
        /\ at' \in [Process -> 0 .. Len(CreationOrder)]
        /\ crashes' \in 0 .. MaxCrash
    BY <1>1, <1>3, GoKeepsRange
  <2>2. TypeOK'
    BY <2>1, <1>1, <1>3, OriginsAssumption DEF TypeOK
  <2>3. VersionDescribesSchema'
    BY <1>3 DEF MigrationInvariant, VersionDescribesSchema
  <2>4. HistoryIsMarked'
    BY <1>3 DEF MigrationInvariant, HistoryIsMarked
  <2>5. OpenedFileIsCurrent'
    BY <1>3 DEF MigrationInvariant, HistoryIsMarked, OpenedFileIsCurrent,
                Recoverable, SchemaVersion
  <2>6. QED
    BY <2>1, <2>2, <2>3, <2>4, <2>5 DEF MigrationInvariant
<1>4. QED
  BY <1>2, <1>3 DEF Recover

\* Claims are taken from a usable store only, above everything in the history.
LEMMA ClaimKeeps ==
    ASSUME MigrationInvariant, NEW p \in Process, NEW c \in Commitment, Claim(p, c)
    PROVE  /\ MigrationInvariant'
           /\ \A e \in events[c] : e < mark[c] + 1
<1>1. TypeOK /\ StepInRange
  BY DEF MigrationInvariant
<1>2. version >= 3
  BY DEF Claim, MigrationInvariant, OpenedFileIsCurrent, SchemaVersion
<1>3. mark[c] \in Nat /\ mark[c] + 1 \in Epochs /\ MaxEpoch \in Nat
  BY <1>1, OriginsAssumption DEF TypeOK, Claim, EpochLeft, Epochs
<1>4. \A d \in Commitment : \A e \in events[d] : e <= mark[d] /\ e \in Nat
  BY <1>1, <1>2, OriginsAssumption DEF MigrationInvariant, HistoryIsMarked, TypeOK, Epochs
<1>5. TypeOK'
  <2>1. events' \in [Commitment -> SUBSET Epochs]
    BY <1>1, <1>3 DEF Claim, TypeOK
  <2>2. /\ claimed' \in [Commitment -> 0 .. MaxEpoch]
        /\ mark' \in [Commitment -> 0 .. MaxEpoch]
    BY <1>1, <1>3 DEF Claim, TypeOK, Epochs
  <2>3. QED
    BY <1>1, <2>1, <2>2 DEF Claim, TypeOK
<1>6. HistoryIsMarked'
  <2> SUFFICES ASSUME NEW d \in Commitment, NEW e \in events'[d]
               PROVE  e <= mark'[d]
    BY <1>2 DEF HistoryIsMarked, MigrationInvariant, Claim
  <2>1. CASE d = c
    <3>1. events'[d] = events[d] \cup {mark[c] + 1} /\ mark'[d] = mark[c] + 1
      BY <2>1, <1>1 DEF Claim, TypeOK
    <3>2. QED
      BY <3>1, <2>1, <1>3, <1>4
  <2>2. CASE d # c
    <3>1. events'[d] = events[d] /\ mark'[d] = mark[d]
      BY <2>2, <1>1 DEF Claim, TypeOK
    <3>2. QED
      BY <3>1, <1>4
  <2>3. QED
    BY <2>1, <2>2
<1>7. StepInRange' /\ VersionDescribesSchema' /\ OpenedFileIsCurrent'
  BY DEF MigrationInvariant, Claim, StepInRange, VersionDescribesSchema,
         OpenedFileIsCurrent
<1>8. QED
  BY <1>3, <1>4, <1>5, <1>6, <1>7 DEF MigrationInvariant

\* The invariant is kept by every step.
LEMMA StepKeepsInvariant ==
    ASSUME MigrationInvariant, [Next]_vars
    PROVE  MigrationInvariant'
<1>1. TypeOK /\ StepInRange
  BY DEF MigrationInvariant
<1>2. ASSUME NEW p \in Process, LookForMetadata(p)
      PROVE  MigrationInvariant'
  <2>1. CASE Go(p, "read", 0)
    BY <1>2, <2>1, GoOn DEF LookForMetadata
  <2>2. CASE Go(p, "create", 1)
    BY <1>2, <2>2, GoOn DEF LookForMetadata
  <2>3. QED
    BY <1>2, <2>1, <2>2 DEF LookForMetadata
<1>3. ASSUME NEW p \in Process, ReadVersion(p)
      PROVE  MigrationInvariant'
  <2>1. UNCHANGED fileVars
    BY <1>3 DEF ReadVersion
  <2>2. CASE Go(p, "idle", 0)
    BY <2>1, <2>2, GoOn
  <2>3. CASE Go(p, "refresh", 0)
    BY <2>1, <2>3, GoOn
  <2>4. ASSUME NEW n \in 1 .. SchemaVersion - 1, Go(p, "migrate", n)
        PROVE  MigrationInvariant'
    <3>1. n \in 0 .. 13
      BY DEF SchemaVersion
    <3>2. QED
      BY <2>1, <2>4, <3>1, GoOn
  <2>5. PICK v : v = version
    OBVIOUS
  <2>6. CASE v \in 1 .. SchemaVersion - 1
    <3>1. Go(p, "migrate", v)
      BY <1>3, <2>5, <2>6 DEF ReadVersion, SchemaVersion
    <3>2. QED
      BY <3>1, <2>6, <2>4
  <2>7. CASE v = SchemaVersion
    BY <1>3, <2>3, <2>5, <2>7 DEF ReadVersion, SchemaVersion
  <2>8. CASE v \notin 1 .. SchemaVersion - 1 /\ v # SchemaVersion
    BY <1>3, <2>2, <2>5, <2>8 DEF ReadVersion
  <2>9. QED
    BY <2>6, <2>7, <2>8
<1>4. ASSUME NEW p \in Process, Migrate(p)
      PROVE  MigrationInvariant'
  <2>1. CASE ~Migrates(at[p]) /\ Fail(p)
    BY <2>1, GoOn DEF Fail
  <2>2. CASE Migrates(at[p])
    BY <1>4, <2>2, MigrationKeeps DEF Migrate
  <2>3. QED
    BY <1>4, <2>1, <2>2 DEF Migrate
<1>5. ASSUME NEW p \in Process, NEW c \in Commitment, Release(p, c)
      PROVE  MigrationInvariant'
  <2>1. TypeOK'
    BY <1>1, <1>5, OriginsAssumption DEF Release, TypeOK
  <2>2. StepInRange' /\ VersionDescribesSchema' /\ OpenedFileIsCurrent' /\ HistoryIsMarked'
    BY <1>5 DEF MigrationInvariant, Release, StepInRange, VersionDescribesSchema,
                OpenedFileIsCurrent, HistoryIsMarked
  <2>3. QED
    BY <2>1, <2>2 DEF MigrationInvariant
<1>6. ASSUME NEW p \in Process, Crash(p)
      PROVE  MigrationInvariant'
  <2>1. /\ phase' \in [Process -> {"idle", "create", "read", "migrate",
                                   "refresh", "recover", "open"}]
        /\ at' \in [Process -> 0 .. Len(CreationOrder)]
        /\ crashes' \in 0 .. MaxCrash
    BY <1>1, <1>6, CreationStatements, OriginsAssumption DEF Crash, TypeOK
  <2>2. \A q \in Process : phase'[q] = "open" => phase[q] = "open"
    BY <1>1, <1>6 DEF Crash, TypeOK
  <2>3. StepInRange'
    BY <1>1, <1>6 DEF Crash, TypeOK, StepInRange
  <2>4. QED
    BY <1>6, <2>1, <2>2, <2>3, SameFile DEF Crash
<1>7. CASE UNCHANGED vars
  BY <1>1, <1>7, SameFile DEF vars, fileVars, TypeOK, StepInRange
<1>8. QED
  BY <1>2, <1>3, <1>4, <1>5, <1>6, <1>7, CreateNextKeeps, RefreshCurrentKeeps,
     RecoverKeeps, ClaimKeeps DEF Next, OpenStep

-----------------------------------------------------------------------------
(* The theorems *)

\* However the calls of SqliteStore::open interleave and crash, the invariant
\* holds.
THEOREM MigrationIsInvariant == Spec => []MigrationInvariant
BY InitIsConsistent, StepKeepsInvariant, PTL DEF Spec

\* The state of the file and of the calls is well-formed in every behaviour.
THEOREM MigrationTypeCorrectness == Spec => []TypeOK
BY MigrationIsInvariant, PTL DEF MigrationInvariant

\* The version row tells the schema: no migration is repeated, skipped or half
\* applied, by any number of processes that run create_schema_v1 and the
\* migrations on versions they read earlier.
THEOREM VersionTellsSchema == Spec => []VersionDescribesSchema
BY MigrationIsInvariant, PTL DEF MigrationInvariant

\* SqliteStore::open returns a store only on a file with the current schema and
\* a history that was checked, and no later step of another process undoes it.
THEOREM OpenOnlyCurrentFiles == Spec => []OpenedFileIsCurrent
BY MigrationIsInvariant, PTL DEF MigrationInvariant

\* No claim is given an epoch that an event of the commitment tells of, be it
\* from before backfill_claim_epoch_high_water or from after it.
THEOREM MigratedEpochsStayUnique == Spec => EpochsNeverReused
<1>1. MigrationInvariant /\ [Next]_vars =>
        [\A c \in Commitment : claimed'[c] \notin {0, claimed[c]} =>
            /\ claimed'[c] \notin events[c]
            /\ \A e \in events[c] : e < claimed'[c]]_vars
  <2> SUFFICES ASSUME MigrationInvariant, Next, NEW c \in Commitment,
                      claimed'[c] \notin {0, claimed[c]}
               PROVE  /\ claimed'[c] \notin events[c]
                      /\ \A e \in events[c] : e < claimed'[c]
    OBVIOUS
  <2>1. TypeOK
    BY DEF MigrationInvariant
  <2>2. PICK p \in Process : \/ OpenStep(p)
                             \/ \E d \in Commitment : Claim(p, d) \/ Release(p, d)
                             \/ Crash(p)
    BY DEF Next
  <2>3. CASE OpenStep(p)
    <3>1. claimed' = claimed \/ claimed' = [d \in Commitment |-> 0]
      BY <2>3 DEF OpenStep, LookForMetadata, CreateNext, ReadVersion, Migrate,
                  Fail, RefreshCurrent, Recover, fileVars
    <3>2. QED
      BY <3>1
  <2>4. CASE Crash(p)
    BY <2>4 DEF Crash, fileVars
  <2>5. ASSUME NEW d \in Commitment, Release(p, d)
        PROVE  FALSE
    BY <2>1, <2>5 DEF Release, TypeOK
  <2>6. ASSUME NEW d \in Commitment, Claim(p, d)
        PROVE  /\ claimed'[c] \notin events[c]
               /\ \A e \in events[c] : e < claimed'[c]
    <3>1. d = c
      BY <2>1, <2>6 DEF Claim, TypeOK
    <3>2. claimed'[c] = mark[c] + 1 /\ mark[c] \in 0 .. MaxEpoch
      BY <3>1, <2>1, <2>6 DEF Claim, TypeOK
    <3>3. \A e \in events[c] : e < mark[c] + 1
      BY <3>1, <2>6, ClaimKeeps
    <3>4. mark[c] + 1 \notin events[c]
      BY <3>2, <3>3, OriginsAssumption
    <3>5. QED
      BY <3>2, <3>3, <3>4
  <2>7. QED
    BY <2>2, <2>3, <2>4, <2>5, <2>6
<1>2. QED
  BY <1>1, MigrationIsInvariant, PTL DEF Spec, EpochsNeverReused
=============================================================================
