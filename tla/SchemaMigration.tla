--------------------------- MODULE SchemaMigration ---------------------------
(***************************************************************************)
(* SqliteStore::open up to the usable store: creation of the first schema, *)
(* the four migrations and startup recovery, by several processes on one   *)
(* file, with a crash possible between any two transactions.               *)
(*                                                                         *)
(* create_schema_v1 is one execute_batch outside a transaction, so each of *)
(* its statements commits on its own; has_metadata and the version that    *)
(* selects the migrations are read outside a transaction too; each         *)
(* migration and startup recovery is one BEGIN IMMEDIATE transaction.      *)
(***************************************************************************)
EXTENDS Integers, Sequences, FiniteSets, SequencesExt

CONSTANTS
    Process, Commitment,
    Origins,    \* schema versions the file may begin with, 0 for an empty file
    Histories,  \* for each: whether claim events and action references are sound
    MaxEpoch,   \* last claim epoch that is explored
    MaxCrash    \* crashes explored

SchemaVersion == 5

ASSUME OriginsAssumption ==
    /\ Origins \subseteq 0 .. SchemaVersion + 1
    /\ Histories \subseteq BOOLEAN
    /\ MaxEpoch \in Nat /\ MaxCrash \in Nat

VARIABLES
    version,   \* metadata.schema_version, 0 while there is no such row
    objects,   \* tables, rows, columns and indexes the file has
    events,    \* epochs of the commitment_claimed events of each commitment
    claimed,   \* claims.claim_epoch, 0 where there is no claim
    mark,      \* commitments.last_claim_epoch, 0 for NULL
    sound,     \* the claim events parse and no action reference occurs twice
    phase,     \* where each process is in SqliteStore::open
    at,        \* the creation statement or the migration it does next
    crashes

fileVars == <<version, objects, events, claimed, mark, sound>>
vars == <<version, objects, events, claimed, mark, sound, phase, at, crashes>>

-----------------------------------------------------------------------------
(* Schema objects *)

\* The statements of create_schema_v1, in order.
CreationOrder ==
    <<"metadata", "schema_version", "boot_generation", "goals",
      "goal_revisions", "commitments", "prerequisites", "acceptance_refs",
      "claims", "attention_items", "work_events", "goal_idx", "commitment_idx">>

BaseTables ==
    ToSet(CreationOrder) \ {"schema_version", "goal_idx", "commitment_idx"}

FencingTables == {"execution_guards", "guard_scopes", "scope_locks"}

\* What migration n adds if it is not there, ...
Ensured(n) ==
    CASE n = 1 -> {"claim_boot", "boot_generation"} \cup FencingTables
      [] n = 2 -> {"action_ref_idx"}
      [] OTHER -> {}

\* ... the column it adds with ALTER TABLE, which fails if it is there, ...
AddedColumn(n) ==
    CASE n = 2 -> {"last_claim_epoch"}
      [] n = 3 -> {"replacement_terminal_id"}
      [] n = 4 -> {"preparation_digest"}
      [] OTHER -> {}

\* ... and the tables its statements name.
Needed(n) ==
    CASE n = 1 -> {"claims"}
      [] n = 2 -> {"commitments", "claims", "work_events", "execution_guards"}
      [] n = 3 -> {"commitments"}
      [] n = 4 -> {"execution_guards"}

\* A file as the earlier release with schema v left it.
ObjectsOf(v) ==
    IF v = 0 THEN {}
    ELSE ToSet(CreationOrder) \cup
         UNION {Ensured(n) \cup AddedColumn(n) : n \in 1 .. v - 1}

Epochs == 1 .. MaxEpoch

Highest(E) == CHOOSE e \in E \cup {0} : \A f \in E : f <= e

TypeOK ==
    /\ version \in 0 .. SchemaVersion + 1
    /\ objects \subseteq ObjectsOf(SchemaVersion + 1)
    /\ events \in [Commitment -> SUBSET Epochs]
    /\ claimed \in [Commitment -> 0 .. MaxEpoch]
    /\ mark \in [Commitment -> 0 .. MaxEpoch]
    /\ sound \in BOOLEAN
    /\ phase \in [Process -> {"idle", "create", "read", "migrate", "refresh",
                              "recover", "open"}]
    /\ at \in [Process -> 0 .. Len(CreationOrder)]
    /\ crashes \in 0 .. MaxCrash

\* A legacy claim is the latest there was; its event is in the history or was
\* written before events were.  From version 3 on the mark covers both.
Init ==
    /\ version \in Origins
    /\ objects = ObjectsOf(version)
    /\ events \in [Commitment -> IF version = 0 THEN {{}} ELSE SUBSET Epochs]
    /\ claimed \in [Commitment -> IF version = 0 THEN {0} ELSE 0 .. MaxEpoch]
    /\ \A c \in Commitment : claimed[c] # 0 => Highest(events[c]) <= claimed[c]
    /\ mark = [c \in Commitment |->
                  IF version < 3 THEN 0 ELSE Highest(events[c] \cup {claimed[c]})]
    /\ sound \in Histories
    /\ sound \/ version \in 1 .. 2
    /\ phase = [p \in Process |-> "idle"]
    /\ at = [p \in Process |-> 0]
    /\ crashes = 0

-----------------------------------------------------------------------------
(* Operations *)

\* The next step of p is ph, on statement or migration n.
Go(p, ph, n) ==
    /\ phase' = [phase EXCEPT ![p] = ph]
    /\ at' = [at EXCEPT ![p] = n]
    /\ UNCHANGED crashes

\* open returns an error; the open transaction, if any, rolls back.
Fail(p) == Go(p, "idle", 0) /\ UNCHANGED fileVars

\* initialize begins: create_schema_v1 is run only if there is no metadata.
LookForMetadata(p) ==
    /\ phase[p] = "idle"
    /\ IF "metadata" \in objects THEN Go(p, "read", 0) ELSE Go(p, "create", 1)
    /\ UNCHANGED fileVars

\* Fault: the version row is written over.
VersionRowReset == 1

\* INSERT ... ('schema_version', '1') ON CONFLICT DO NOTHING
VersionRow == IF version = 0 THEN 1 ELSE version

\* One statement of create_schema_v1.  The claims table is created with its
\* boot_generation column; a table that is there is left as it is.
CreateNext(p) ==
    LET object == CreationOrder[at[p]]
    IN  /\ phase[p] = "create"
        /\ version' = IF object = "schema_version" THEN VersionRow ELSE version
        /\ objects' = objects \cup {object} \cup
               IF object = "claims" /\ "claims" \notin objects
               THEN {"claim_boot"} ELSE {}
        /\ IF at[p] = Len(CreationOrder)
           THEN Go(p, "read", 0)
           ELSE Go(p, "create", at[p] + 1)
        /\ UNCHANGED <<events, claimed, mark, sound>>

\* The version selects the first migration to run; a version this release does
\* not know, and a version row that is missing, are refused.
ReadVersion(p) ==
    /\ phase[p] = "read"
    /\ CASE version \in 1 .. SchemaVersion - 1 -> Go(p, "migrate", version)
         [] version = SchemaVersion -> Go(p, "refresh", 0)
         [] OTHER -> Go(p, "idle", 0)
    /\ UNCHANGED fileVars

\* Fault: only the claims of the moment are looked at.
BackfillFromClaims(c) == claimed[c]

\* backfill_claim_epoch_high_water
Backfill(c) == Highest(events[c] \cup {claimed[c]})

\* Fault: SET value = n + 1 whatever the row says.
StampUnguarded(n) == TRUE

\* UPDATE metadata ... WHERE value = n must change one row.
StampAllowed(n) == version = n

\* Fault: malformed history is skipped.
AnyHistory(n) == TRUE

\* backfill_claim_epoch_high_water and ensure_unique_action_refs fail closed.
HistoryAccepted(n) == n = 2 => sound

\* migrate_v1_to_v2, ..., migrate_v4_to_v5
Migrates(n) ==
    /\ Needed(n) \subseteq objects
    /\ AddedColumn(n) \cap objects = {}
    /\ HistoryAccepted(n)
    /\ StampAllowed(n)

Migrate(p) ==
    LET n == at[p]
    IN  /\ phase[p] = "migrate"
        /\ \/ /\ Migrates(n)
              /\ objects' = objects \cup Ensured(n) \cup AddedColumn(n)
              /\ mark' = IF n = 2 THEN [c \in Commitment |-> Backfill(c)] ELSE mark
              /\ version' = n + 1
              /\ IF n + 1 = SchemaVersion
                 THEN Go(p, "recover", 0)
                 ELSE Go(p, "migrate", n + 1)
              /\ UNCHANGED <<events, claimed, sound>>
           \/ ~Migrates(n) /\ Fail(p)

\* The current version: what may be missing is created once more.
RefreshCurrent(p) ==
    /\ phase[p] = "refresh"
    /\ objects' = objects \cup Ensured(1) \cup Ensured(2)
    /\ Go(p, "recover", 0)
    /\ UNCHANGED <<version, events, claimed, mark, sound>>

\* from_connection reads the version again; startup_recovery demands that every
\* claim is at the high-water mark, and ends it.
Recoverable ==
    /\ version = SchemaVersion
    /\ BaseTables \cup FencingTables \subseteq objects
    /\ \A c \in Commitment : claimed[c] \in {0, mark[c]}

Recover(p) ==
    /\ phase[p] = "recover"
    /\ \/ /\ Recoverable
          /\ claimed' = [c \in Commitment |-> 0]
          /\ Go(p, "open", 0)
          /\ UNCHANGED <<version, objects, events, mark, sound>>
       \/ ~Recoverable /\ Fail(p)

OpenStep(p) ==
    \/ LookForMetadata(p) \/ CreateNext(p) \/ ReadVersion(p)
    \/ Migrate(p) \/ RefreshCurrent(p) \/ Recover(p)

\* Fault: the last epoch is taken once more.
EpochLeftOffByOne(c) == mark[c] <= MaxEpoch

\* ClaimEpoch::next
EpochLeft(c) == mark[c] < MaxEpoch

\* A process with a usable store claims c, as PersistClaim of FencedStore ...
Claim(p, c) ==
    /\ phase[p] = "open"
    /\ claimed[c] = 0
    /\ EpochLeft(c)
    /\ mark' = [mark EXCEPT ![c] = @ + 1]
    /\ claimed' = [claimed EXCEPT ![c] = mark[c] + 1]
    /\ events' = [events EXCEPT ![c] = @ \cup {mark[c] + 1}]
    /\ UNCHANGED <<version, objects, sound, phase, at, crashes>>

\* ... and gives it up, as PersistChange.
Release(p, c) ==
    /\ phase[p] = "open"
    /\ claimed[c] # 0
    /\ claimed' = [claimed EXCEPT ![c] = 0]
    /\ UNCHANGED <<version, objects, events, mark, sound, phase, at, crashes>>

\* The process dies between two transactions, or in one that rolls back.
Crash(p) ==
    /\ phase[p] # "idle"
    /\ crashes < MaxCrash
    /\ crashes' = crashes + 1
    /\ phase' = [phase EXCEPT ![p] = "idle"]
    /\ at' = [at EXCEPT ![p] = 0]
    /\ UNCHANGED fileVars

Next ==
    \E p \in Process :
        \/ OpenStep(p)
        \/ \E c \in Commitment : Claim(p, c) \/ Release(p, c)
        \/ Crash(p)

Spec == Init /\ [][Next]_vars

\* open is a call that runs to its end, and its caller calls it again when it
\* fails; claims are taken or not.
FairSpec == Spec /\ \A p \in Process : WF_vars(OpenStep(p))

-----------------------------------------------------------------------------
(* Properties *)

\* The creation of the schema was interrupted: nobody is at it, and the next
\* open takes the metadata table for a complete schema.
Torn ==
    /\ \A p \in Process : phase[p] # "create"
    /\ "metadata" \in objects
    /\ version = 0 \/ ~(BaseTables \subseteq objects)

\* The version row tells which columns there are, whatever the processes that
\* create and migrate the file at once did on versions they read earlier: no
\* migration is repeated, skipped or half applied.
VersionDescribesSchema ==
    \A n \in 1 .. SchemaVersion - 1 :
        IF n < version
        THEN Ensured(n) \cup AddedColumn(n) \subseteq objects
        ELSE AddedColumn(n) \cap objects = {}

\* A usable store has the schema the release works with and a history that was
\* checked, also when others were migrating the file meanwhile.
OpenedFileIsCurrent ==
    (\E p \in Process : phase[p] = "open") =>
        /\ version = SchemaVersion
        /\ BaseTables \cup FencingTables \subseteq objects
        /\ sound

\* The fence of a claim survives the migrations: no epoch is given out that an
\* earlier claim had, before the high-water mark existed or since.
EpochsNeverReused ==
    [][\A c \in Commitment : claimed'[c] \notin {0, claimed[c]} =>
          /\ claimed'[c] \notin events[c]
          /\ \A e \in events[c] : e < claimed'[c]]_vars

\* Whoever keeps calling open gets a store in the end, over crashes between the
\* migrations and over the errors that racing processes cause each other; a
\* file with unsound history, of a later release or torn excepted.
EveryOpenerGetsIn ==
    \A p \in Process :
        <>(phase[p] = "open" \/ Torn \/ ~sound \/ version > SchemaVersion)

\* "A migration failure rolls back its DDL and metadata version update"
\* (docs/PERSISTENCE.md): what a crash leaves behind, the next open can take on.
InterruptedOpenCanBeRetried == ~Torn
=============================================================================
