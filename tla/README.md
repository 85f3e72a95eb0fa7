# Resolve: a TLA+ model of the durable fence

Resolve (`src/`) is a durable ledger of *commitments*: pieces of work that
workers claim under a lease, execute through an external executor (Tethers)
behind an *execution guard*, and complete, cancel or abandon. It is a Rust
library over SQLite: `resolve-core` holds the domain types and the pure
planning rules, `resolve-store` the durable store and its recovery,
`resolve-transport` a small HTTP bridge for the executor. This directory models
what the store promises while claims expire, workers change, actions are in
flight, outcomes come late or twice, callers write from stale copies, the file
is migrated by racing processes and the process restarts.

## 1. Inventory

| component | state | operations | interacts with |
|---|---|---|---|
| commitment state machine (`state_machine.rs`, `domain.rs`) | the state of one commitment | `validate_transition`, the mutating methods of `Commitment` | the store checks every candidate with it |
| commitment store (`sqlite.rs`) | `commitments` with `state_version`, `commitment_prerequisites`, `commitment_acceptance_refs`; the copies callers hold | `insert_commitment`, `load_commitment`, `persist_commitment_change`, `recover_without_action` | claims, barriers, guards (through the outstanding action) |
| claims and leases | `claims`, `last_claim_epoch` | claim through `persist_commitment_change`, `record_heartbeat`, `process_expired_claims` | issued guards end with the claim; admitted ones do not |
| execution guards and scope locks | `execution_guards`, `execution_guard_scopes`, `scope_locks` | `issue_guard`, `admit_guard`, `invalidate_guard`, reservation expiry, `record_tethers_outcome` | commitments, claims |
| startup validation and recovery | `metadata.boot_generation` | `open`: `validate_persisted_database`, `startup_recovery` | rewrites claims, guards and locks |
| structural planning, composite barriers | `parent_id`, `replacement_terminal_id`, prerequisites | `apply_structural_proposal` (three forms), completion cascade | needs the claim; refuses live guards |
| dependency cycle check (`planning.rs`) | none (one call) | `validate_acyclic` | every proposal and every `open` |
| goals, attention items | `goals`, `goal_revisions`, `attention_items` | `insert_goal`, `persist_goal_change`, `insert_attention`, `clear_attention` | commitments name a goal; nothing else reads them |
| event log, row encoding | `work_events` | `append_event`, encode/decode | claim events are read back by the epoch backfill; the rest only to see that it decodes |
| schema and migrations (`schema.rs`) | `metadata.schema_version`, the tables and columns | `initialize`: creation, v1 to v5 | before recovery |
| service facade | none | forwards each call | store |
| guard transport bridge | a mutex around the service, a clock | `admit`, `record_outcome` | store; answers retries |
| Tethers executor | outside | picks action references, digests, outcomes | through the bridge |

What is hard here:

* **Concurrency.** Several workers, processes and the executor call the store in
  any order. Every operation is one `BEGIN IMMEDIATE` transaction, so operations
  do not interleave with each other; they do interleave with everything a caller
  believed when it started: who holds the claim, whether the lease is alive,
  whether the reservation still stands, what the row said when it was loaded.
  Three things are not one transaction: `load_commitment` (several SELECTs), the
  reading of the schema version, and the creation of the first schema.
* **Time.** Leases and reservations end only when somebody looks: there is no
  background loop. Expiry is found lazily by the next scope operation, by the
  sweep, or by a restart.
* **Failure.** A crash falls between any two transactions. Recovery must end
  every claim and every reservation and keep every fence of an action whose
  outcome is unknown.
* **Delivery.** Admissions and outcomes travel over HTTP and may come late,
  twice or never; an answer may be lost after the store has committed.
* **Uncertainty.** `UNCERTAIN` is an outcome that releases nothing.
* **Back doors.** The generic snapshot write can reach every state of the
  machine, so it has to refuse what the dedicated operations protect.

What makes each part correct: locks and guards say the same; an action in
flight keeps its scopes and its worker until a safe outcome; nothing collapses
an uncertain outcome; a crash leaves rows recovery accepts; a terminal
commitment is final and owns nothing; a decomposed commitment completes exactly
when its replacement does; the graph of prerequisites has no cycle, and the
search that decides so is right and returns; a stale copy overwrites nothing its
holder has not seen; an ADMITTED answer stands until the outcome and the outcome
can always be delivered; a migration is applied once and no epoch comes back. `PROJECT.json` lists the hazards
behind these at their lines.

## 2. Modules

| module | models |
|---|---|
| `CommitmentStates` | the closed set of states and `validate_transition` |
| `FencedStore` | the store: rows, one action per operation, open, invariants and action properties |
| `SnapshotStore` | `FencedStore` with `state_version` and callers that load, change and persist a copy |
| `GuardTransport` | `FencedStore` behind the HTTP bridge, with Tethers and the network |
| `ScopeFence` | abstract: what the store promises about a scope |
| `FenceRefinement` | the refinement mapping from `FencedStore` to `ScopeFence` |
| `SchemaMigration` | `initialize`, the migrations and recovery, by racing and crashing processes |
| `GoalLedger` | goals with their revisions, attention items, the events of both |
| `CycleCheck` | `validate_acyclic` and `visit` as a search with an explicit stack |
| `MCFencing`, `MCSnapshot`, `MCGoals` | symmetry for the instances |
| `FencedStoreFencing` | proofs about `FencedStore`: types and the invariant of the fence |
| `FencedStoreSteps` | what its steps never do, the refinement of `ScopeFence`, deadlines and leases |
| `FencedStorePlanning` | its barriers, cascades and prerequisites |
| `SnapshotStoreProof`, `GuardTransportProof`, `SchemaMigrationProof`, `GoalLedgerProof`, `CycleCheckProof` | proofs about the module each is named after |

`SnapshotStore` and `GuardTransport` use the actions of `FencedStore` as they
stand and add the state around them, so the same definition of, say, `admit_guard`
is checked alone, under stale callers and behind the bridge.

### FencedStore and the code

A table is a function from its key to its row, and `Absent`, `NoClaim`,
`NoGuard`, `FreeLock` stand for a missing row. The columns keep their meaning:

| variable | column |
|---|---|
| `state`, `reason` | `state_json`; `reason` is kept only for an uncertain action and for a composite wait, the two that operations compare |
| `epoch` | `last_claim_epoch` (0 for NULL) |
| `action` | `outstanding_action` |
| `claim[c]` | the `claims` row: worker, epoch, heartbeat, boot generation |
| `goal`, `parent`, `prereq`, `replacement` | `goal_id`, `parent_id`, prerequisite edges, `replacement_terminal_id` |
| `guard[g]` | `execution_guards` and `execution_guard_scopes`; `issuer` is no column but a history field, the worker whose request was accepted |
| `lock[k]` | `scope_locks` |
| `boot` | `metadata.boot_generation` |

Each operation is one action, because it is one transaction that rolls back on
error. Its guard is the conjunction of the checks that would return an error;
a call that fails, and a repeated call that the code answers idempotently,
changes no row and is a stuttering step. Helpers that the code shares are
shared here: `expire_relevant_reservations` is `ExpiredOn`, `Invalidated` and
`Released`; the cascade is `ParentFate` (what it does with one parent),
`Cascade` (whom it completes) and `CascadeSucceeds` (when it does not abort its
caller), used by both of its callers.

Choices a reader should know of:

* There is no clock. A caller samples its own monotonic clock before it waits for
  the transaction, and the clocks of two processes or of two boots bear no
  relation, so every operation carries any instant of `Instants`. Nothing below
  rests on instants reaching the store in order.
* `Open` may happen at any moment. It is a crash between two transactions
  followed by a start, and it is also a second process that opens the file while
  the first goes on working: the first one's calls remain enabled, with its old
  boot generation and its own clock.
* The boot generation starts at 0, as the schema writes it, and `Open` adds one;
  the first opening of a new file is the first `Open`.
* `state_version` is left out here. Inside a transaction the row read is the row
  written; what versions protect against is a copy loaded earlier, which is what
  `SnapshotStore` is about.
* An action reference is admitted once (`ActionUnused`, the unique index on
  `execution_guards.action_ref`) and a guard identifier issued once
  (`GuardIdFree`, the primary key).
* `persist_commitment_change` is split in two actions, one for a candidate that
  carries a new claim and one for every other candidate. A new commitment comes
  from `Commitment::new`, so its epoch high-water mark is empty.
* The composite branch of `recover_without_action` is modelled, and
  `BarrierReleasesParent` shows it is never needed: the cascade has been there
  before.
* `Acyclic` is the mathematical definition; `CycleCheck` shows the search of
  the code agrees with it.
* A structural proposal that adds a prerequisite of another kind (a contract, a
  human decision) adds no edge; it is `AddPrerequisite` with `None`.

### SnapshotStore and the code

A caller's `copy` is a `Commitment` value with the version it will quote.
`load_commitment` runs its SELECTs outside a transaction, so it is three actions
(`LoadRow`, `LoadClaim`, `LoadPrerequisites`) and others write in between; the
cross-checks of `load_commitment_record` and `Commitment::restore` drop a copy
whose halves disagree. `Mutate` is one of the methods of `Commitment` on the copy,
and it may be taken several times before `Persist`, which is
`persist_commitment_change` on the copy as it is: version, references, action,
barrier, transition, claim, in the order of the code. `RereadVersion` is the
caller that asks for the version again just before it writes. `OtherOperation`
gives every operation of `FencedStore` the version it writes (`Bump`); a
heartbeat and the issue or withdrawal of a guard write none. `seen` and `paired`
are history: what the caller knew, and whether the version it quotes belongs to it.

### GuardTransport and the code

`Admit` and `RecordOutcome` are the two handlers of the bridge. The service lock
makes the call into the store one step. `Verdict` is the reason code of the
first check of `admit_guard_internal` that fails, in the order of the code, and
`Decision` the decision the bridge derives from it; `OutcomeVerdict` is the same
for outcomes. `AdmitWithoutStore` is a poisoned lock or a worker that died.
Tethers is not in the repository and is modelled from what the handlers and wire
types presuppose: one admission request per action, the provider runs on ADMITTED
alone, a durable outcome is delivered until it is answered. The network is a set
that requests are never taken out of: a request not read again is lost, one read
again is a duplicate, and both may be late. Admissions and outcomes reach the
store through the bridge only; workers, sweeps, proposals and restarts go on.

### ScopeFence and the mapping

A scope is free, reserved for a guard, held for an action or frozen. The mapping
(`ShownOwner`) reads the mode off the lock row, and calls a held lock frozen when
its guard is uncertain; `known` is the set of guards that have a row, `used` the
set of action references on them. Claims, leases, epochs and restarts disappear:
a sweep, an expiry, an invalidation and a restart are all `EndReservations`.

### SchemaMigration and the code

`objects` holds the tables, columns, indexes and metadata rows a step can be
missing. `create_schema_v1` is one `execute_batch` outside a transaction, so
each of its statements is a step (`CreateNext`); `LookForMetadata` and
`ReadVersion` are the two reads outside a transaction; each migration is one
transaction that either succeeds as a whole or fails the call. `events`,
`claimed` and `mark` are what the epoch backfill of version 3 reads and writes;
`sound` says whether it and `ensure_unique_action_refs` find the history in
order. A legacy file is one that the earlier release with that version left.

### GoalLedger and the code

`row` is the goals row, `ledger` the append-only revisions, `copy` what a client
loaded, `written`, `raised` and `cleared` the events appended. The UPDATE of
`persist_goal_change` names the expected version and its row count is not looked
at, so the action leaves the row alone when the version differs; that the earlier
version check makes this impossible is a property. The code ties the state of a
goal to nothing (a completed goal may become active again) and accepts any first
revision; so does the model.

### CycleCheck and the code

`colour` is the map of colours, with `"white"` for a missing entry; `stack` the
open calls of `visit`; `todo[n]` what the loop of the call for `n` has left;
`roots` what the loop of `validate_acyclic` has left. `NextRoot` is a turn of
the outer loop, `VisitDependency` a turn of the inner one with its three
branches (`AlreadyBlack`, `BackEdge`, `Descend`), `Return` the end of a call.
The source walks ordered maps; the model takes any order.

## 3. What is checked

| run | question | instance | result |
|---|---|---|---|
| `fencing` | one commitment whose claim expires and moves while reservations and actions are out, over restarts and a second process | 2 workers, 2 guards, 2 scopes, 2 actions, 1 digest, TTLs 1 and 3 against a lease of 2, epochs to 2, instants to 3, 2 restarts | passes, about 118,000 states |
| `contention` | two commitments and overlapping scope sets; the inductive invariant of the proofs; the refinement of `ScopeFence` | 2 commitments, 2 guards, 2 scopes, 2 actions, 1 restart | passes, about 210,000 states |
| `structure` | nested decompositions, prerequisites, cancellation, expiry and a restart between a decomposition and its cascade | 3 commitments, 1 worker, 1 prerequisite per new row, 1 restart | passes, about 136,000 states |
| `snapshot` | a caller with a stale or torn copy beside claims, heartbeats, guards, outcomes and a restart | 1 commitment, 1 guard, 1 action, 1 caller with a copy and any others, epochs to 2, versions to 7 | passes, about 385,000 states |
| `snapshot_barrier` | the same for a decomposed commitment | 2 commitments, no guards, versions to 6 | passes, about 336,000 states |
| `transport` | lost, late and repeated admissions and outcomes; every durable outcome is acknowledged | 2 actions, 2 guards, 1 scope, 1 commitment, 1 restart, no symmetry | passes, about 244,000 states |
| `migration` | racing openers of a file of any version, crashes between transactions; every opener gets in | 3 processes, origins empty, 1 to 5 and unknown (6), sound and unsound history, epochs to 2, 2 crashes, no symmetry | passes, about 245,000 states |
| `goals` | two clients revise one goal from copies of different age | 2 clients, 2 texts, revisions to 3, 1 attention item | passes, about 13,000 states |
| `cycle_check` | the search is right and returns | all 512 graphs over 3 nodes, self-loops included, in every order | passes, about 10,000 states |
| `reopen` | can the file always be opened again? | 1 commitment, 1 guard | violated: finding 1 |
| `insertion` | does what is inserted pass the validation at open? | 2 commitments, 2 goals | violated: finding 2 |
| `torn_creation` | can an interrupted creation be taken up again? | 1 process, empty file, 1 crash | violated: finding 3 |

What the properties say:

* **The fence** (`fencing`, `contention`): `LocksMirrorGuards` (the two tables
  agree), `CrashIsRecoverable` (every check startup recovery makes on claims,
  active guards and actions succeeds), `NoReassignmentUnderAction` (an action in
  flight has no second worker), `ReservationWithinLease` (the reservation's
  deadline, which admission tests, is never later than the lease, which it does
  not test), `TerminalOwnsNothing`, `UncertainStaysFenced`,
  `HeldUntilSafeOutcome`, `GuardLifecycle`, `TypeOK` (the claim epoch at its
  limit is the interesting part), `FenceInvariant`, and
  `ImplementsScopeFence`: whatever happens around it, the lock table is a scope
  fence, and no action reference is ever admitted twice.
* **Barriers** (`structure`): `BarrierHoldsParent` and `BarrierReleasesParent` (a
  composite parent completes only with its replacement, and then at once),
  `CascadeNeverAborts` (the completion of a child is never rolled back on account
  of an ancestor), `TerminalIsFinal` (a parent that was cancelled or abandoned
  while its replacement went on is passed over when the replacement completes;
  the code tests the parent's state twice, and only without both tests would a
  cascade rewrite it), `NoDependencyCycle`.
* **Stale copies** (`snapshot`, `snapshot_barrier`): `VersionIdentifiesRow`
  (every operation that changes a row raises its version, so equal versions mean
  an equal row), `NoLostUpdate` (a write under the version the copy was loaded
  with overwrites nothing unseen, and a heartbeat that came between is not set
  back), `ImplementsFencedStore` (whatever copy is written under whatever
  version, the write is a step of `FencedStore`; its theorems therefore hold for
  stale callers), `SnapshotTypeOK` (no row is written past the last version).
* **Delivery** (`transport`): `AdmissionStandsUntilOutcome` (from the ADMITTED
  answer to the outcome the requested scopes are held for that action),
  `OutcomeAlwaysDeliverable` (nothing turns a true outcome into a conflict or a
  closed failure), `RefusalIsFinal` (a request refused because its guard is gone
  or bound is never admitted later), `NoIntegrityFailure` (`admit_guard` never
  finds contradictory rows; the bridge gives the same reason code when its store
  lock is poisoned, which is `AdmitWithoutStore` and no verdict of the store),
  `DurableOutcomeAcknowledged` (liveness, while a process serves the store: a
  crash after a guard has ended leaves a file that cannot be opened, see the run
  `reopen`).
* **Opening** (`migration`): `VersionDescribesSchema` (the version row and the
  columns agree whatever versions racing processes acted on),
  `OpenedFileIsCurrent`, `EpochsNeverReused` (across the backfill), and
  `EveryOpenerGetsIn` (liveness).
* **Goals** (`goals`): `RowIsLatestRevision`, `LogCountsChanges`,
  `HistoryStands`.
* **The search** (`cycle_check`): `SearchInvariant`, `VerdictIsRight`,
  `Terminates` (liveness).

**Bounds.** Two of everything that competes is what the hazards need: a second
worker to take over, a second guard to collide, a second scope so that guards
overlap in part, a second action so that an outcome can be of the wrong one.
Epoch 2 is one reassignment, and the epoch after the last is refused. With a
lease of 2 and instants to 3, a lease can run out both before and after a
reservation of TTL 1, and a TTL of 3 is cut by the lease. Three commitments are
a decomposition of a decomposition, and a cycle of three. A restart is possible
only while no guard has ended (finding 1); it still happens with reserved,
admitted and uncertain guards. In `snapshot` one caller has a copy and every
other caller appears through the operations themselves, which is as good by
`ImplementsFencedStore`; seven versions are a full round (inserted, claimed,
working, admitted, outcome, released, claimed again). In `transport` one epoch is
enough for loss of the claim, since a guard ends with its claim; the second
guard gives the second action a scope that the first has left. Three
processes are one that works on a version the two others have both passed.
The proofs below do not depend on the bounds.

**Deadlock** is not checked: identifiers, instants, epochs, versions and crashes
run out in a bounded instance, and a search that has returned does nothing more.

**Fairness.**

* `CycleCheck`: weak fairness of its steps. The search is one sequential call
  that runs until it returns.
* `GuardTransport` (`OutcomeFairness`): Tethers goes on delivering a durable
  outcome, the bridge answers a request it is sent (the handler is one call that
  returns), and not every answer is lost. Nothing is asked of workers, sweeps,
  restarts or admissions.
* `SchemaMigration` (`FairSpec`): a call of `open` runs to its end, and a caller
  whose call failed calls again. Transactions of one process do wait for the
  other's, but each is short and ends. The torn file of finding 3, unsound
  history and a file of a later release are excepted by the property.
* `FencedStore` assumes none, because nothing in the code schedules the callers:
  the library never expires a lease or records an outcome unless somebody calls
  it.

**Mutants.** Definitions marked *Fault* stand next to the definition they
falsify and are used by no specification. Each is a mistake the code could have,
and the property listed with it in `PROJECT.json` notices it.

**Observations** that are no violations:

* A caller that loads a commitment, changes its copy, asks for the version anew
  and persists under that version can overwrite a state it never saw, as long as
  the transition is a legal one. It cannot break the fence
  (`ImplementsFencedStore`).
* An admission that is served after Tethers gave up on it holds its scopes with
  nobody running the action. Nothing in the repository releases them; only an
  outcome from Tethers would.
* Racing processes on an old file fail each other's `open` (the stamp matches no
  row, or the added column exists). No harm is done, and a retry gets in.

### Findings

1. **A file that holds an ended guard cannot be opened.**
   `validate_guard_lock_consistency` (`sqlite.rs:2956`) demands one lock row per
   scope key of *every* guard. Resolved and invalidated guards keep their scope
   keys and have no lock rows, so `open` returns `InvalidPersistedData` from
   then on, before recovery. `docs/PERSISTENCE.md:143` promises a usable store.
   `Open` is therefore disabled in the model once a guard has ended, as it is
   in the code.
2. **`insert_commitment` applies no topology validation** (`sqlite.rs:525`). A
   commitment can be inserted as its own prerequisite, after which every
   structural proposal and every `open` fails with `DependencyCycle`; and it can
   be inserted under a parent of another goal, which
   `validate_persisted_topology` refuses at the next `open`. The run stops at the
   first; with `MaxDeps = 0` it shows the second.
3. **A crash during the creation of the schema leaves a file that cannot be
   opened** (`schema.rs:69`). `create_schema_v1` is not a transaction and is
   entered only while there is no `metadata` table. After a crash between its
   statements `initialize` takes the file for a complete one and fails on every
   later call. `docs/PERSISTENCE.md:73` says that DDL and version roll back
   together; that is so from version 1 on.

One document is out of date without a run: `docs/PERSISTENCE.md:29` gives the
schema version as 4; `schema.rs` writes 5.

## 4. What is proved

Every invariant and every action property that a passing run checks, and both
refinements, are theorems: TLAPS proves them for all sets of commitments,
workers, guards, scopes, actions, goals, digests, clients, processes and nodes,
finite or not, and for all bounds. The assumptions on constants are these:
`NULL` is no identifier (`IdentifiersAssumption`), durations are positive as
`MonotonicDuration::try_from_ticks` demands (`DurationsAssumption`), bounds are
natural numbers (`BoundsAssumption`, `VersionBoundAssumption`,
`RevisionAssumption`, which also asks for one revision), and an old file has a
version up to the one after `SCHEMA_VERSION`, which stands for every version the
release does not know (`OriginsAssumption`).

| module | theorems |
|---|---|
| `FencedStoreFencing` | `TypeCorrectness`, `FenceIsInvariant`; from it `LocksAgree`, `CrashRecovery`, `SingleOwner`, `TerminalIsBare` |
| `FencedStoreSteps` | `GuardsFollowLifecycle`, `HeldScopesStayHeld`, `UncertainIsNeverCollapsed`, `TerminalStatesAreFinal`, `StoreImplementsFence`, `DeadlineStandsForLease` |
| `FencedStorePlanning` | `ParentWaitsForReplacement`, `ReplacementReleasesParent`, `CompletionNeverRollsBack`, `PrerequisitesAcyclic` |
| `SnapshotStoreProof` | `SnapshotIsInvariant`, `SnapshotTypeCorrectness`, `VersionTellsRow`, `CopiesImplementStore`, `NoUpdateIsLost` |
| `GuardTransportProof` | `BridgeImplementsStore`, `BridgeTypeCorrectness`, `AdmissionSeesNoContradiction`, `AdmissionStands`, `OutcomesAreDeliverable`, `RefusalsAreFinal` |
| `SchemaMigrationProof` | `MigrationIsInvariant`, `MigrationTypeCorrectness`, `VersionTellsSchema`, `OpenOnlyCurrentFiles`, `MigratedEpochsStayUnique` |
| `GoalLedgerProof` | `LedgerIsInvariant`, `LedgerTypeCorrectness`, `NoRevisionLost`, `OneEventPerChange`, `HistoryIsAppendOnly` |
| `CycleCheckProof` | `SearchIsInvariant`, `SearchIsRight` |

`CopiesImplementStore` (`SnapshotSpec => Spec`) and `BridgeImplementsStore`
(`BridgeSpec => Spec`) carry every theorem about `FencedStore` over to stale
callers and to the executor behind the bridge.

### The fence

**The inductive invariant.** None of the parts of `FenceInvariant` is inductive
alone. That an admission keeps locks and guards in step needs the reservation
to own exactly its scopes (`LocksMirrorGuards`). That no second guard is
admitted for a commitment needs every active guard's action to be the
outstanding one (`ActiveGuardsConsistent` in `CrashIsRecoverable`), since
`admit_guard` only tests that no action is outstanding. That a safe outcome
leaves no orphaned action needs the active guard to be the only one. That a
claim taken later is of another epoch than an old reservation needs guards to
carry an epoch the commitment has reached (`GuardRowsWellFormed`) and claims to
be at the high-water mark. And that the claimant under an admitted guard is its
issuer needs the same of the reservation before it was admitted
(`NoReassignmentUnderAction`, second half).

**The argument.** First, action by action, that guards and locks keep agreeing;
the two helpers that end reservations are treated once (`DropKeepsMirror`).
Then most actions are *quiet* (`QuietChange`): every live guard stays or is an
issued one that ends, no action is moved, and a claim is the old one or one
above the high-water mark where no action is out. One lemma (`QuietStep`) shows
that a quiet step keeps the rest of the invariant. Four actions are not quiet,
issue, admission and the two outcomes, and each has a proof of its own. The
action properties reuse the same classification (`StepKinds`).

**The refinement of ScopeFence** needs `BlankRows` besides: a free scope has a
blank row, and a guard has an action from its admission on only. `FenceSteps`
sorts the operations by what they do to guards and locks (end some reservations,
issue, admit, two outcomes), and each kind is the abstract action of that name.

**Deadlines and leases.** `reservation_deadline` bounds a reservation by the
heartbeat at its issue. A step leaves a claim's heartbeat as it is or moves it
forward, or the claim is a new one above the high-water mark (`ClaimsRenewed`).
With `FenceInvariant` this makes `ReservationWithinLease` inductive.

### Barriers and prerequisites

`BarriersHold` says of a parent behind a barrier all that the cascade checks:
its replacement exists, is its child and has its goal, the parent has no action,
and it is terminal, in recovery or waiting for that replacement; and the two
complete together. The last two parts are the properties; the others make them
inductive, because the cascade completes exactly the least set closed under
unfinished parents (`CascadeIsClosed`, `CascadeIsLeast`). A consequence: the
branch of `recover_without_action` that completes a parent behind a completed
replacement is never entered.

`PrerequisitesOrdered` extends `NoDependencyCycle` to sets of any size and adds
that a row names only rows that exist, or itself. The second half is what an
insertion needs: nobody points to the new row yet. A proposal checks the rest
itself.

### Stale copies

What a copy says may be out of date and from several moments, so
`SnapshotInvariant` says little of it (`CopiesTell`): its version is not ahead of
the row's, its epoch and heartbeat can be written, and its reason fits its
state. The last part is what the refinement turns on: the copy of a parent that
waits behind a barrier carries a reason `PersistChange` could not write, but
barriers stay (`BarrierStays`), so the barrier check stops it however old the copy
is. `RowsTell` says the same of the rows, and that an absent claim is blank.
`RowsVersioned` is proved operation by operation: a row that keeps its version
keeps its columns. A completion is no exception, since a commitment is never
among the parents it completes (`CascadeLeavesOut`).

### The bridge

`ProtocolInvariant` orders what Tethers and the network do. `VerdictsTell` reads
off each reason code what it says about the rows, which makes
`NoIntegrityFailure` a matter of `FenceInvariant`. `BindingInvariant` ties the
executor to the store: once Tethers has been told ADMITTED, or is about to be,
the guard it named is bound to its action, digest and scopes and stays admitted
until the outcome, and only that outcome ends it. That the outcome is found
again needs action references to belong to one guard for good
(`ActionsUnique`). `RefusalIsFinal` follows from what each final reason says: an
ended guard stays ended, a bound one stays bound, epochs only rise
(`EpochsRise`), and a new boot generation ends every reservation (`BootMoves`).

### Opening a file

`MigrationInvariant`: processes stay within the list of statements and
migrations (`StepInRange`), the version row describes the columns, and from
version 3 on the history has been found sound and no event tells of an epoch
above the mark (`HistoryIsMarked`). The version check each migration makes when it
stamps is what keeps `VersionDescribesSchema` when the process acts on a version
that others have passed. The backfill takes a maximum, which exists because
epochs are bounded.

### Goals

`LedgerInvariant` is `TypeOK`, `RowIsLatestRevision` and `LogCountsChanges`
together. The version stays in range because there are revisions for it, and the
UPDATE that could miss its row does not, because the version checked before it is
the row's.

### The search

The open calls are exactly the grey nodes along edges already
taken (`StackIsPath`); what a call has done with is finished or is the call
above it (`TakenAreFinished`); finished nodes lead to finished nodes and close
no cycle (`FinishedIsAcyclic`). A back edge then closes a cycle through the top
of the stack, and an emptied search has finished every node.

### Model-checked only

`Terminates`, `DurableOutcomeAcknowledged` and `EveryOpenerGetsIn` are liveness
under fairness, which the prover does not handle; TLC checks them on the
instances above. The three violated properties are of course not theorems.

## 5. Not modelled

* Authentication, content type, size limits and parsing in the bridge: a request
  that fails them is answered with an empty 400 and touches nothing. The digests
  that tie an answer to its request are represented by the action the message is
  about.
* JSON and column encodings, which are straight conversions, and the contents of
  the event log apart from the claim epochs the backfill reads and the number of
  events of goals and attention items. Every other event is appended in the
  transaction of its change and never consulted.
* `integrity_check` and `foreign_key_check`: a database SQLite reports sound.
* The wording of errors. An operation that fails is a stuttering step; the one
  place where the reason matters, the answer to an admission, is modelled.
* The service facade has no state; its calls are the disjuncts of the next-state
  relations.
* A row restored by hand through `Commitment::restore` with columns the mutating
  methods never produce is taken only as far as `persist_commitment_change`
  re-validates it. A legacy file damaged by other means than a crash is not
  considered.
* Tethers beyond its side of the protocol.

## 6. Plan

Done, in this order: `CommitmentStates`, `FencedStore` with its runs and
findings, `CycleCheck`, the proofs about both; then `SnapshotStore`,
`GuardTransport`, `ScopeFence` with its refinement, `SchemaMigration` and
`GoalLedger`; then the proofs of all safety properties of these.

Next:

1. The safety half of the liveness properties: that a step of the search always
   lowers a measure (white nodes, then turns of the loops that are left), that a
   recorded outcome stays acknowledged, that a file never falls back behind a
   version.
2. Shorter proofs where two modules classify the steps of `FencedStore` for
   their own purpose (`FenceSteps`, `PlanSteps`, `RowsMove`).
