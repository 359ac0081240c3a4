# Formal models of noma dMRV

noma dMRV is the system of record of a biochar carbon-removal producer: a
Next.js server over PostgreSQL that records feedstock, production, deliveries
and applications, and submits *Removals* built from them to the Isometric
registry. This directory holds TLA+ models of the parts whose correctness
depends on the order of concurrent steps, the TLC runs that check them and
TLAPS proofs of what matters most about them.

Paths below are relative to `src/`, the repository; the application is in
`src/src/`.

## 1. The system

| Component | State | Operations | Hard behaviour |
|---|---|---|---|
| Claim policy (`lib/isometric/utils/submission-claim.ts`) | none | decide: create, resume, return, block | must agree with every state the ledger reaches |
| Submission ledger (`data-access/certification-submissions.ts`, `submission-ledger-transitions.ts`, `submission-rejection.ts`) | one row per version of a record: status, payload hash, external id, `lockedAt`, outcome and mutation markers, snapshot | claim, reset, journal, interrupt, retire, reject, finalize | compare-and-set on a time stamp, an advisory "artifact" lock taken by some writers only |
| Production claims and reservations (`production-claim-reservations.ts`, `fn/certification/production-claim-gate.ts`) | per credit batch: claiming Removal, reserving submission | gate, reserve, take over, stamp, release | two Removals share a batch; expiry hands reservations over |
| Removal pipeline (`fn/certification/submit-removal.ts` and its helpers) | the call's own variables | load, claim, gate, send, verify, finalize, record failure | crash anywhere; longer than its lock |
| Registry create-or-reconcile (`fn/certification/registry-create.ts`) | records at the registry | lookup, create, reconcile, confirm | lost answers, late requests |
| Removal deletion (`data-access/certifier-removal-deletion.ts`, `fn/certification/delete-removal.ts`) | lease, stamped rows | claim, clean up the registry, release, finalize | races with submits; partial cleanup |
| GHG statements (`fn/certification/submit-ghg-statement.ts`, `data-access/certifier-ghg-statements.ts`) | statement rows and Removal memberships | create, submit, sync, reconcile | ambiguous answers, remote edits |
| Biochar applications, production batches, storage locations at the registry | identity rows | claim, confirm, reclaim | same as create-or-reconcile |
| Operation runner (`lib/operations/runner.ts`, `data-access/api-idempotency-records.ts`, `owned-transaction.ts`) | one record per idempotency key | claim, run, complete, replay, expire, purge | unknown COMMIT outcome, concurrent claims |
| API rate limits (`data-access/api-rate-limits.ts`) | counter per window | count, refuse | concurrent increments, clock steps |
| Document uploads and deletion outbox (`data-access/document-*.ts`, `storage-object-deletions.ts`) | uploads, candidates, outbox rows, objects | request, renew, confirm, sweep, delete, drain | deadlines of three actors, object store without transactions |
| Output stock (`lib/output-stock/*.ts`, `data-access/output-stock-*.ts`, `output-bin-stock-mode.ts`) | per bin: layers of runs, a ledger of movements with what each drew, stock mode, draw order | place, draw, count, correct, remove, merge, split, preview and post | cumulative rounding, corrections under later draws, postings on unlocked previews |
| Record locks, emission entries, credit batch membership | locks derived from submissions | edit guards, corrections, attach | predicates over rows another transaction is changing |
| Production runs, orders, deliveries, applications | status and balances | transitions, allocations | single locked transactions |
| Credentials (API keys, OAuth, invitations), dashboards, REST, MCP, web client, calculations | — | — | not protocol code |

Components interact through the database (every server request is its own
process; nothing is shared in memory but, within one server, the set of
idempotency keys in flight), through row and advisory locks, and
through calls to the registry and the object store, which no transaction
covers. What makes the core hard is that a submission is a long sequence of
registry writes interleaved with database transactions, done by a process that
can die, be retried by a user or a background operation, and be raced by a
submit of another Removal or by a deletion.

What correctness means, per component: each registry record is created once
and the ledger knows its id; a production input is sent by one Removal and the
database remembers which; a finalized version stays finalized; a rejected,
retired or deleted version left nothing behind; an idempotency key runs its
operation at most once; an object of a confirmed document is never deleted;
stock drawn equals stock requested; and nobody waits forever.

## 2. Modules

| Module | Models | Extends |
|---|---|---|
| `SubmissionClaim` | claim policy and row predicates (pure operators) | — |
| `SubmissionLedger` | database state of ledger, claims, reservations and artifact lock; one operator per transaction | `SubmissionClaim` |
| `RemovalSubmission` | submit attempts, registry, network, clock; actions, properties | `SubmissionLedger` |
| `MCRemovalSubmission` | instances for TLC | `RemovalSubmission` |
| `RemovalSubmission_proofs` | theorems: the claim policy, types, ownership of production | `RemovalSubmission` |
| `SubmissionJournal_proofs` | theorems: versions, identities, reservations | `RemovalSubmission_proofs` |
| `SubmissionRegistry_proofs` | theorems: row locks of attempts that end in time; what is sent to the registry, and once | `SubmissionJournal_proofs` |
| `RemovalAccounting` | abstract specification: a Removal is open, submitted or deleted; a batch has one owner | — |
| `RemovalDeletion` | deletions composed with the submit attempts; properties, refinement mapping | `RemovalSubmission` |
| `MCRemovalDeletion` | instances for TLC | `RemovalDeletion` |
| `RemovalDeletion_proofs` | theorems: fences, finality, what a deletion leaves, the refinement of `RemovalAccounting` | `RemovalDeletion`, `SubmissionRegistry_proofs` |
| `OnceOnly` | abstract specification: what an idempotency key promises its client | — |
| `OperationRunner` | calls with an idempotency key, their transactions and rows; properties, refinement mapping | — |
| `MCOperationRunner` | instance for TLC | `OperationRunner` |
| `OperationRunner_proofs` | theorems | `OperationRunner` |
| `EvidenceVault` | abstract specification: a document's evidence is attached once and kept until withdrawn | — |
| `DocumentUploads` | one upload, its confirmations, the sweep, the deletion outbox and the object store; properties, refinement mapping | — |
| `MCDocumentUploads` | instances for TLC | `DocumentUploads` |
| `DocumentUploads_proofs` | theorems | `DocumentUploads` |
| `StockPlanner` | how a movement is drawn from layers: policies, rounding, proportional shares (pure operators) | — |
| `OutputStock` | the ledger of one bin: draws, counts, corrections, removals, receipts, mode, previews; properties | `StockPlanner` |
| `MCOutputStock` | instance for TLC | `OutputStock` |
| `StockPlanner_proofs` | theorems: splits, run shares, draws of a layer, plans | `StockPlanner` |
| `OutputStock_proofs` | theorems: previews, switches, types, exact stock, standing history | `OutputStock`, `StockPlanner_proofs` |

### How state corresponds to the code

- `ledger[r]` is the sequence of `certification_submissions` rows of Removal
  `r`; a row's version is its index. `lockedAt` is `[by, at]`: the column holds
  a millisecond timestamp that the claiming process wrote and compares by
  equality, so the process's name stands for its uniqueness. `NoLock` is NULL.
- A payload hash is the payload: its data and the member batches whose
  production inputs it includes. `content[r]` stands for everything else the
  compilation reads (configuration, enrichment, mapping revision, lineage).
- `claimed[b]`, `reserved[b]` are `productionEmissionsClaimedByRemovalId` and
  `productionEmissionsClaimReservedBySubmissionId` of credit batch `b`.
- `locker[r]` is the transaction-scoped advisory lock of
  `lockSubmissionArtifact`. Transactions that take it and finish in one step
  test it; `resumeDraft` is split in two because a writer that does not take
  it can commit between its read and its compare-and-set.
- The clock counts ticks of one TTL (`LockTTL = 1`, ages 0, 1 and 2), enough to
  tell the code's three comparisons apart: `now - lockedAt < TTL` in the
  application, `lockedAt < now() - TTL` in SQL (where `now()` is the time the
  transaction began, `began`), and `>=` for contenders and transfers.
- `attempt[a]` holds the local variables of one call. Each action is one
  transaction, one unlocked read or one registry call, in the order the code
  makes them; `Next` interleaves them freely.
- `registry[ref]` is the sequence of the records created under a supplier
  reference, each still there or not. The registry's contract makes a reference
  unique (`supplier_reference_id` in `lib/isometric/generated/certify.d.ts`), and
  the code calls the creates non-idempotent: `UniqueReferences` says which. The
  passing runs leave it off, so the code's own lookups, locks and markers carry
  the properties; the violating runs turn it on. With late requests only the
  registry's refusal keeps records unique: a lookup that misses proves nothing
  about a request still travelling, and no run claims otherwise. A
  reference is made of a kind, a Removal and a version, as the code builds it.
  Kind `inputs` stands for production batches, datapoints and measurement
  samples, which precede the GHG Entry and go through the same
  `performRegistryCreate`.
- `Verify` stands for `reconcileRemovalRegistryArtifacts` succeeding; `FailStep`
  for any of those later steps failing.
- `wire` holds requests whose answer the caller gave up on and which the
  registry may still execute.

In `RemovalDeletion`, `present[r]` says that the `certifier_removals` row exists,
`lease[r]` is `removalDeletionLockedAt` in its metadata, and `deletion[d]` holds
the `RemovalDeletionClaim` of one `deleteRemoval` call and the GHG Entries it
has still to delete. `ClaimDeletion`, `DeleteEntry`, `DeleteRest`,
`FinalizeDeletion` and `ReleaseDeletion` are the transactions of
`certifier-removal-deletion.ts`, the first four under the artifact lock;
`Fence` is `assertLedgerUnchangedSinceClaim` with the lease check before it.
`DeleteEntry` and `DeleteRest` include the registry call because the code makes
it while it holds the locks; the lookups hold none and are steps of their own.
Submit attempts are those of `RemovalSubmission` with the places where they read
the Removal again: `RefusedClaim` (the lease, and the Removal itself when a
draft is created) and `RefusedGate` (the scope gate and the payload rebuild). A
resume reads ledger rows only, so an attempt may revive the rejected draft of a
Removal that is gone and hold its batches until a gate refuses it.

In `OperationRunner`, `call[c]` holds the local variables of one
`runOperation` with a key and the state of its transaction; `record[k]` is the
committed row of key `k` in `api_idempotency_records`, named by the run that
wrote it, since an expired row and its successor have different ids; `runs[k]`
is what the operation saved under `k`, a history the code does not keep. A row's
fingerprint and expiry are those of its run. PostgreSQL is Read Committed: each
statement sees the committed row, and a statement that meets an uncommitted
write of it waits (`Blocked`) until that transaction ends or `lock_timeout`
strikes (`ClaimTimesOut`). A transaction whose client is gone lives on
(`dropped`, or `lost` when COMMIT was sent) until `Settle`; its
`transaction_timeout` bounds it as the deadline bounds a call, so one constant,
`CallBudget`, bounds both. Answers the client can tell apart only by their
wording (still running, key reused, failed) are one: `refused`, nothing saved.
`AnswersAreTrue` says that the whole implements `OnceOnly`: a call that was
refused never runs, a replay returns the last run of the same request, and only
the answer `unknown` leaves open whether anything was saved.

In `DocumentUploads`, `doc` is the `documents` row and `queue` the rows of
`storage_object_deletions` that name its keys; `staged` and `finals` are the
objects in the store. A final key is the hash of its bytes, so it is named by
them; the upload key is the only one a client may write. All keys carry the
document's id, hence one document. `confirm[p]` is a confirmation under way: what
it inspected and the time it has left. Deadlines are durations that `Tick` counts
down together. A PUT that its caller gave up on is applied by the store no later
than the confirm deadline, and a client's PUT no later than the end of the grace
after its URL expired: those are the assumptions the two constants of the code
make. The drain may take any due entry (its order, batch limit and backoff are
left out), and an entry between the provider's answer and its transaction's end is
`deleted`; if that transaction dies the entry is `pending` again. A delete the
drain's budget cut off goes on in `late`.

In `OutputStock`, one bin holds `Layers`, each the contents of a product as whole
shares of its runs; a layer is in the bin once `Placed[l]` has come. The ledger is the sequence of
`bin_movements` rows in posting order, with the draws of each: `corrects` points a
reversal at the entry it takes back and a replacement at the one it replaces (0 for
none), and nothing is ever updated. What is left of a layer is what it brought
minus all that entries drew, where a reversal draws the negative of what it takes back. Solids are counted in parts of a gram, fine enough
that every reading met is whole, and dry masses in whole grams, as the code keeps
exact solids next to rounded dry masses; a layer's mix is a whole ratio. `StockPlanner` is
`planOutputStock` with its cumulative split, proportional shares and ordered
sources, as operators on one set of layers. `preview` is what one open form was
shown, its basis is the state `prepareOutputStock` hashes, and `PostShown` posts it if the
basis is still the same. Every posting is atomic: the code holds the lock of the
request key and that of the bin from its first read to its commit, so the replay of an
answered request is not modelled. Event times in the future are refused, and time
passes by `Tick`.

`Precedence` fixes which of two Removals comes first among draft contenders:
the quarter, creation time and id the SQL orders by do not change.

## 3. What the runs check

| Run | Expected | Properties | Shows |
|---|---|---|---|
| `pipeline` | pass | `ProductionSentOnce`, `RejectionIsDefinitive` | Two Removals built from the same credit batch compete for its production inputs, on attempts that neither crash nor outlive their lock but whose unanswered requests may land late: one Removal sends them, and a rejected draft left nothing behind. |
| `pipeline_crash` | pass | `TypeOK`, `OneRecordPerReference`, `JournaledIsRegistered`, `SendersHoldTheirLock`, `SubmittedOwnsItsProduction`, `ReservationsBelongToDrafts`, `MarkedKeepsProduction`, `SendersHoldTheirProduction`, `ClaimsArePermanent` | Attempts die at any step, others resume their drafts or take the reservations of those that expired unmarked: no record is created twice, journaled ids exist, a sender holds its row and its production, a marked draft keeps what it may have sent, and submitted Removals own what they sent. |
| `pipeline_drift` | pass | `ActiveVersionsSeparated`, `RetirementIsDefinitive` | The data behind the payload changes between and during attempts: versions supersede and retire one another, two that are submitted stay apart, and what is retired wrote nothing. |
| `pipeline_slow` | pass | `OnlyLatestIsDraft`, `IdentityIsPermanent` | Attempts outlive the lock of their row and are joined by others on the same draft: versions stay ordered and no registry identity is lost. |
| `slow_revert` | violation | `FinalizedNeverReverts` | A resume decided on a draft resets the row after a slow attempt finalized it, because finalizing does not take the artifact lock. |
| `deletion` | pass | `DeletionTypeOK`, `DeletedLeavesNoEntry`, `DeletedHoldsNothing`, `NoDeleteUnderSender`, `SubmittedOrDeleted` | Two deletions of one Removal against submit attempts, with crashes, failing registry calls and expired leases: no GHG Entry is deleted under a sender, a deleted Removal leaves no entry, claim or reservation behind, and the whole implements RemovalAccounting. |
| `deletion_ends` | pass | `DeletedNeverSubmitted`, `EveryDeletionEnds`, `EveryAttemptEnds` | Submit calls and deletions that crash, outlive their locks and wait for each other: a call that goes on after the deletion never submits, and under fair scheduling every call and every deletion ends. |
| `deletion_partial` | violation | `SubmittedEntryIsRegistered` | A cleanup deletes the GHG Entry and stops; the released row still names it, the next submit skips the create and finalizes. |
| `runner` | pass | `TypeOK`, `OncePerRetention`, `InFlightIsExact`, `AnswersAreTrue`, `EveryCallEnds` | Calls under one key on two servers, with retries, lost connections, dead servers, expiry and purge: a key runs once per retention, every answer is true, no key stays in flight and every call ends. |
| `uploads` | pass | `TypeOK`, `ObjectsAreOwned`, `DeletedStaysDeleted`, `EvidenceIsKept` | Two confirmations, a client that overwrites its upload, the sweep, deletions and drains whose requests outlive them: no object is orphaned, nothing comes back after its deletion completed, and evidence, once attached, stays until it is withdrawn. |
| `uploads_settle` | pass | `EvidenceIsKept`, `EverythingIsCollected` | An owner locked by a submission, bytes the declaration refuses and a storage budget that ends before the deadline: evidence is neither attached nor withdrawn under the lock, and in the end only the bytes a document serves are left in the store. |
| `stock` | pass | `TypeOK`, `StockStaysPlannable`, `LaterDrawsStand`, `NoMixedPileReturns`, `MeasuredIsTaken`, `PreviewIsKept` | One bin with a batch of three runs and a blend of two: draws by age, by proportion and by sub-bin, counts, losses, corrections, late receipts and a posting on an older preview keep the stock exact and the history as it was posted. |

The violating runs each refute something the repository's own text says; section
6 describes them.

### Bounds

Two attempts suffice for every race in the ledger (each hazard is between a
holder and a challenger); two Removals and one shared batch for contention; two
ledger versions for a successor and its predecessor, three (`pipeline_drift`)
for a version that skips an abandoned one; clock values 0 to 2 for an expired
lock to be taken and to expire again; two content values for a change and a
change back. A reservation passes from one Removal to another
in `pipeline_crash` only: a draft that a crash left unmarked expires, is taken from, and may
be resumed later. In `pipeline` and `pipeline_drift` a lock stays fresh for as long as its
attempt runs, and a failed attempt has marked or released its draft, so these runs meet
the contention of two live attempts but no takeover. Nor could they meet the race of a
reset with a slow finalization: `FinalizedNeverReverts` is checked by `slow_revert` only,
under attempts that outlive their lock, where it fails; with attempts that end in time it
is proved (`FinalizedPermanence`). `MaxVersion` ends a call that would create one version more, and
`MaxRecords` (two per supplier reference) a create that would add a third
record: one duplicate is all `OneRecordPerReference` needs to fail. In the
deletion runs one version is enough, since the claim, the fence and the release
treat all rows of a Removal alike; `deletion` has two deletions racing for one
lease and one attempt that may be called again. Only the deletion runs turn
deadlock checking off: after every Removal has been deleted no call has anything
to do. In `runner` two calls suffice, since a call that has ended is asked again: the
third party of a race over an expired row is a call that is over. Two servers
tell the set of keys in flight from the database claim; a retention of two ticks
against a budget of one lets a call straddle the expiry; two attempts make one
retry. In `uploads` two
confirmations of one upload race over two contents, the client may overwrite what
a confirmation has inspected, and every deadline is one tick, except the lifetime
of two, so that a lease is renewed once; deadlines are relative and count down
together, so nothing bounds how long the behaviours are. `uploads_settle` has one
confirmation, an inadmissible content and a locked owner, and tells the grace
from the lease and the storage budget from the deadline. In `stock` a batch of three runs
of 1, 3 and 3 grams and a blend of two of 2 and 1 are small enough that most draws
are rounded and some layer runs out in every few; three entries, reversals not counted,
are a draw, one planned over what it left, and the correction of the first or a count after
both. Times 0 to 2 put a receipt or a draw before, at and after a switch of the mode;
proportional draws are on a grid of two parts, and while a preview is open at most two
entries are posted. Three commands are previewed, one of each kind whose basis differs:
a new delivery, a correction of the first delivery and a count; losses and draws by
sub-bin are posted directly only. Larger instances were cut by separating questions: contention with late
requests, crashes, drift, slow attempts and deletions have runs of their own,
each with the switches its properties need. `Timely`, where on, says that an attempt and the requests
it sent end before the lock it took does; the code has no deadline that
enforces it (the lock lasts ten minutes, a registry call times out after thirty
seconds), so the properties that fail without it are stated with it.

### Fairness

Weak fairness of a running attempt's next step: the server schedules its
processes and every registry call has a timeout. Strong fairness of the three
transactions of a deletion that wait for the artifact lock: PostgreSQL queues the
waiters, and the attempt they race may take and leave the lock again and again.
`deletion_ends` has a single attempt, so for it weak fairness is enough; two
submit calls contending for one lock are in the safety runs only. In the runner,
weak fairness of each call's next step: statements end by an answer or a timeout,
and the database ends the transactions of lost connections. In the uploads, weak
fairness of time, of the sweep and of the deletion of a due object, and strong
fairness of completing its outbox entry: sweep and drain run daily and an entry
whose deletion failed is tried again, so a commit that may fail any number of
times succeeds in the end. Nothing is assumed of the start of a new attempt,
deletion or upload, of a client's PUT, of a confirmation, of `Crash`, `Deliver`,
`Change` or of the clock of the submissions. Symmetry is not used in the liveness
runs; `uploads` uses it with a refinement whose abstract specification is
symmetric in the same constants.

## 4. Properties

Each is stated, with the code behaviour it is about, above its definition in
the module. The `PROJECT.json` list `hazards` says where in the code each can
go wrong, and `mutants` gives for each a plausible bug that breaks it.

## 5. What is proved

`RemovalSubmission_proofs` proves, for every value of the constants and every
setting of the switches `Timely`, `Crashes`, `LateRequests`, `Drift` and
`UniqueReferences`:

- `TypeCorrectness`: `Spec => []TypeOK`.
- `SubmittedOwnership`: `Spec => []SubmittedOwnsItsProduction`. This one holds
  without `Timely`: attempts that outlive their lock and resume one another's
  drafts do not break it.
- `ClaimPermanence`: `Spec => ClaimsArePermanent`.
- `ClaimsDecidedSafely` and `ResetAgreesWithDecision`, about the claim policy alone,
  with no state: the first says what one decision may do to the latest row, under
  any policy, so also the one GHG statements use, which no run reaches; the second
  that the reset's strict SQL comparison never takes a draft which the policy's
  comparison, at the same time or later, would block. Both ages are read off one
  clock: skew between the database and the process is not modelled.

The first three follow from one inductive invariant, `Inv`, the conjunction of

- `TypeOK`, and `Bounded` (versions stay within `MaxVersion`),
- `SubmittedOwnsItsProduction`, and
- `AttemptsFit`: the version an attempt owns exists and has the payload hash
  the attempt remembers; what it saw of its batches' claims is either NULL or
  the claim of today; and after its payload check the production set of that
  hash lies within the batches it is about to claim.

`AttemptsFit` is needed because finalizing stamps the batches the *call* loaded,
while the payload that was sent is the *row's*: the two agree only because the
payload check compared the row's hash with a build from live claims, and claims
never change afterwards. The proof goes action by action; each transaction of
`SubmissionLedger` has a lemma saying what it preserves. The assumptions are
those the modules name: constants are sets of the right shape, the TTL is
positive, attempts are lock owners.

`SubmissionJournal_proofs` adds, still for every setting of the switches:

- `DraftsAreLatest`: `Spec => []OnlyLatestIsDraft`.
- `JournalMatchesRegistry`: `Spec => []JournaledIsRegistered`.
- `ActiveVersionsStayApart`: `Spec => []ActiveVersionsSeparated`.
- `ReservationSafety`: `Spec => []ReservationsBelongToDrafts`.
- `IdentityPermanence`: `Spec => IdentityIsPermanent`.

None of these needs `Timely`: what keeps them is the ledger's compare-and-sets and
the artifact lock, not that attempts end in time. The inductive invariant
`JournalInv` is `Inv` with

- `RowsSound`: only the latest version is a draft, and a draft carries a lock; a
  row's id is one the registry gave out under that row's reference; a version
  names its predecessor or none; and a submitted version follows an abandoned
  one;
- `AttemptsSound`: an attempt that has just claimed knows nothing yet; a reset that
  is underway holds the artifact lock, so no version is added below it; the id an
  attempt carries was given out under its own reference; and one that is past its
  gates, or whose draft is new, replaces a predecessor that is still submitted.

`OnlyLatestIsDraft` alone is not inductive, since a reset turns a rejected row into
a draft again, in a step later than the one that found it latest; `AttemptsSound`
carries that over. `ReservationSafety` adds `ReservationsSound`, that the draft that
holds a reservation has the batch among its Removal's members. The Move
lemmas of this module state each action as a change of named fields, once, for
this module and the next two.

`SubmissionRegistry_proofs` proves first, assuming `Timely` and nothing of the other
switches:

- `LockSafety`: `Spec => []SendersHoldTheirLock`.
- `FinalizedPermanence`: `Spec => FinalizedNeverReverts`.

`Timely` cannot be left out: the run `slow_revert` violates the second without it.
`LocksInv` adds `AttemptsHeld`: an attempt that owns a draft is within its lock's
TTL and the draft still carries its stamp, and one about to reset a draft found it
abandoned. Its step case rests on `ForeignRowsKept`: what one attempt does to a
row that another one holds, which is nothing.

It goes on, assuming `Timely` and `~Crashes` (requests may still land late and data
may drift), with

- `RejectionsDefinitive`: `Spec => []RejectionIsDefinitive`.
- `RetirementsDefinitive`: `Spec => []RetirementIsDefinitive`.
- `ProductionSubmittedOnce`: `Spec => []ProductionSentOnce`.

`RegistryInv` adds to `LocksInv` and `ReservationsSound`

- `Marks`: a draft with an id carries the marker of a confirmed write, a row that is
  no draft carries none, and the owner of a draft knows of every write its row is
  marked with;
- `AttemptsReserve`: past its reservation an attempt holds all the batches it may send;
- `WritesKnown`: a version that wrote, or has a request underway, is marked or its
  writer still runs. A crash between a write and its marker would break this one,
  hence `~Crashes`: the model, like the code, cannot then tell a lost write from none;
- `WritesOwned`: the production of a version that wrote is claimed by its Removal or
  reserved for it.

So a row that is neither marked nor being written has nothing at the registry
(`UnmarkedIsUnwritten`), which is what rejection and retirement test.

A takeover tests the same of a draft whose lock expired, and that happens after crashes
only. What it must not reach is proved with crashes allowed, assuming `Timely` alone:

- `MarkedDraftsKeepProduction`: `Spec => []MarkedKeepsProduction`.
- `SendersHoldProduction`: `Spec => []SendersHoldTheirProduction`.

Neither is inductive by itself, since an attempt knows of its first write before the row
is marked with it. `StakesInv` therefore speaks of every draft that is marked or whose
attempt knows of a write (`AtStake`) and says that the batches in its payload stay
reserved for it. A draft comes to be at stake only at steps of an attempt that is past
its reservation, where `AttemptsReserve` gives the batches (`NewMarks`, `NewWriter`); one
that is at stake keeps them, as an attempt's own transactions release them together with
the draft and those of others take over only what is unmarked and expired, which a
draft whose attempt still runs is not (`StakeStays`).

The last theorem of the module is `RecordsCreatedOnce`: `Spec => []OneRecordPerReference`,
assuming `UniqueReferences`, or `Timely` and `~LateRequests`; attempts may crash
and data may drift. When the registry refuses a reference it holds there is nothing
more to say. When it does not, `RecordsInv` says of each attempt what it cannot have
sent yet (`AttemptsUnsent`): a fresh version has nothing under any of its
references until it passes its gates, nor an entry until its inputs are sent, and
one about to post found its reference unused and is alone with it (`LockSafety`).

`RemovalDeletion_proofs` proves of submit attempts and deletions together, assuming
`Timely` only (attempts and deletions may crash, cleanups fail, data drift and
requests land late):

- `DeletionTypeCorrectness`: `DeletionSpec => []DeletionTypeOK`.
- `DeletedFreesProduction`: `DeletionSpec => []DeletedHoldsNothing`.
- `DeletionFinality`: `DeletionSpec => []DeletedNeverSubmitted`.
- `FencedDeletion`: `DeletionSpec => NoDeleteUnderSender`.
- `DeletionRespectsLocks`: `DeletionSpec => []SendersHoldTheirLock`.
- `DeletionImplementsAccounting`: `DeletionSpec => SubmittedOrDeleted`, the refinement
  of `RemovalAccounting`.

The pipeline's own invariant, `LocksInv`, carries over: deletions keep it, which is
the first half of the work. A claim and a hand-back change nothing of a row but its
lock (`Relocked`), and never the row of an attempt that owns it. `DeletionInv` adds

- `DeletersHandBack`: while a row still carries a deletion's stamp, and the lease too,
  what the deletion remembers of it is the lock of an abandoned draft, so that
  handing it back cannot make a draft look taken;
- `OwnersPresent`: an attempt past the gate that reads the Removal has it present. A
  deletion would remove it under the attempt, were it not for `FenceClears`: a
  deletion whose fence holds has no attempt that owns a draft of its Removal, since
  its rows carry the deletion's stamp and a sender's row carries the sender's;
- `ClaimsFinalized`: a Removal with claimed production was finalized, hence never
  deletable, so that a deletion frees reservations but no claim;
- `DeletedInactive` and `DeletedHoldsNothing`.

For the refinement, a finalization (`Submits`) is the abstract `Submit` of the batches
the call claims, a `Removed` step is the abstract `Delete`, and every other step
leaves the phase of every Removal and the owner of every batch as they were
(`SameAccount`): the one step in which a submitted version is superseded is the one
that submits its successor. `Timely` is needed for the fence to mean what it says; the run
`deletion_ends` checks `DeletedNeverSubmitted` without it.

With `~LateRequests` too, the module proves

- `DeletedClean`: `DeletionSpec => []DeletedLeavesNoEntry`.

Its invariant, `EntriesInv`, follows each GHG Entry from its `POST` to its deletion.
A version has at most one entry at a time (`EntryOnce`), because an attempt about to
post found none (`AttemptsUnsent`, from `SubmissionRegistry_proofs`) and is alone
with its row; so an id that a row or an attempt knows leaves no other entry to find
(`RowsKnow`, `AttemptsKnow`). What the deletion claims is therefore complete: a row
with an id names the only entry of its version, a row without one is looked up.
`DeletersClear` carries this through the cleanup: as long as a deletion's fence
stands, every entry its Removal still has is one it will look up or has among its
targets. Submit attempts keep it since a fence that stands after their step stood
before it (`FenceStood`), and behind a fence nobody posts (`FenceClears`); other
deletions keep it since their claim, hand-back or removal takes the fence away.
When the deletion finalizes, nothing is left to look up or delete. The property
speaks of GHG Entries only: production batches may be shared and are retained.
`~LateRequests` is needed: a request that lands after the lookup leaves an entry
nobody looks for again.

The hypotheses of each theorem are met by the run that checks its property, but for
`FinalizedPermanence`, whose run shows why it needs `Timely`:
`pipeline` (`Timely`, no crashes, late requests), `pipeline_crash` (`Timely`,
crashes, no late requests), `pipeline_drift` (`Timely`, drift), `pipeline_slow`
(not `Timely`) and `deletion` (`Timely`, crashes, failing cleanups).

`OperationRunner_proofs` proves, for any number of calls, server processes,
keys, requests and attempts:

- `RunnerTypes`: `Spec => []TypeOK`.
- `KeysRunOnce`: `Spec => []OncePerRetention`.
- `InFlightExact`: `Spec => []InFlightIsExact`.
- `AnswersTrue`: `Spec => AnswersAreTrue`, the refinement of `OnceOnly`: every step of a
  call, of a dying server, of the purge and of the clock is a step of the promise or
  leaves what the client knows alone.

The inductive invariant of the first two is `IInv`. `OncePerRetention` speaks of saved runs only,
and a step can break it in one way: a commit under a key one of whose runs has
not expired. So `IInv` adds

- `Placed`: what the position of a call says of its transaction: one that
  executes, commits or has lost its client after COMMIT was sent has inserted
  the row; it is within the call's budget; and a row about to be deleted has
  expired;
- `OneHolder`: one transaction at a time has written the row of a key;
- `HeldHasExpired`: and only over runs that have all expired;
- `RowOrExpired`: a run whose row is gone has expired, so that finding no row
  means that no run is within its retention;
- `RunsExpireInTime`: a run expires at most the budget before its retention ends,
  since the retention counts from the claim and the run from the commit.

`OneCallMoves` is the lemma for the steps that save nothing (a step may take the
row from nobody, over expired runs only), `OneCallSaves` the one for commits;
each action then has a short proof that it is a step of one of the two kinds.
`InFlightIsExact` is inductive with the types alone; a lemma for each way a call can
move (still served, no longer served, newly served) carries it. The refinement
adds `AInv` to `IInv`: a call that is served was told nothing and one whose COMMIT is
out of its hands was told `unknown` (`AnswersFit`), and the row of a key is that of
its last run (`RowIsLast`), so that what is replayed is what was saved last. That a
run comes late enough after the earlier ones, which `OnceOnly` asks of each run, is
`HeldHasExpired` and `RunsExpireInTime`. The proofs assume only that constants are
naturals and sets are not empty; they need no relation between `Retention` and
`CallBudget`.

`DocumentUploads_proofs` proves, for any number of confirmations and contents and
any lease, grace, lifetime, deadline and limit:

- `UploadTypes`: `Spec => []TypeOK`.
- `ObjectsOwned`: `Spec => []ObjectsAreOwned`: no object is ever orphaned.
- `DeletionsAreFinal`: `Spec => []DeletedStaysDeleted`.
- `EvidenceKept`: `Spec => EvidenceIsKept`, the refinement of `EvidenceVault`: every
  step of an upload is a step of the vault or leaves it alone.

The inductive invariant `IInv` adds to the types

- `RowFits` and `EvidenceFits`: only an uploaded row names a final key, one of its
  candidates, and that key is in the store and in no outbox entry: this is what
  makes evidence stay readable;
- `EntriesOutwait`: every entry waits at least as long as any lease or confirmation
  that could still write its object. It is the reason for the waits the code
  computes, and each of them is needed for it;
- `EntriesFit`: an entry that has been drained was due and its object is gone;
- `LateFits`: a delete in flight belongs to an entry, so it hits nothing that is
  evidence, since no key with an entry becomes evidence;
- `ConfirmsFit`: a confirmation that has written or may write a key has it among
  the row's candidates or in an entry;
- `StagingQueued`, `FinalsOwned`, `StagedOwned`: ownership, by kind of key.

It assumes `UploadAssumption` only, in particular no relation between the
durations except that the storage budget's reserve lies within the deadline.

`StockPlanner_proofs` proves what the planner's operators compute, for any layers,
weights, totals and stock:

- `SplitIsFair`: `Split` gives out exactly its total, and no seat given ranks below one
  that was not.
- `SharesOfRuns`: the cumulative shares of a layer's runs sum to the grams that are
  gone, stay within what each run brought, and never shrink as more goes.
- `CurveTake`: whatever is drawn from a layer whose grams are what its solids say
  (`OnCurve`), each run has the grams its share asks of it, and the rest is such a
  layer again.
- `TakingsFit`: a plan that passes `Fits` takes from each layer no more than it holds,
  and a measured load takes what was measured, to the grid.

The operators are sums (folds) and repeated steps (recursive functions), so each of
these is an induction. The library's induction theorems are stated for operators,
which the provers cannot instantiate; the induction is done in its set form
instead. A nonempty set of naturals has a least element (from the library's
`NatLessThanWellFounded` and `WFMin`), and the set of counterexamples of the statement at hand is
such a set; a smallest set of parts is found in the same way (`SmallestSet`). From this
follow that the recursive functions exist and satisfy their equations
(`StepsExist`, `FoldExists`), and then the laws of `Total`, the sum over a finite set. That
shares never shrink (`FairSeatsGrow`) compares two fair distributions directly: if a
part had fewer seats in the larger one, another would have more, and each of the two
would rank ahead of the other. The assumption is `PlannerAssumption` alone.

`OutputStock_proofs` proves, for any layers, loads, requests, grids and bounds:

- `PreviewKept`: `Spec => PreviewIsKept`, what is posted on a preview is what it
  showed.
- `MixedPilesStayGone`: `Spec => []NoMixedPileReturns`.
- `StockTyped`: `Spec => []TypeOK`.
- `StockPlannable`: `Spec => []StockStaysPlannable`.
- `CorrectionsRewriteNothing`: `Spec => []LaterDrawsStand`.
- `LoadsAreMeasured`: `Spec => []MeasuredIsTaken`.

The argument of the first has two parts. `PolicyFromBasis` and `PlanFromBasis`: two states
with the same basis give a command the same policy and the same plan, which is to say
that the basis leaves out nothing the plan depends on. And the invariant `IInv`: the
ledger is a sequence, so that the last entry after a posting is the one posted
(`LedgerIsSequence`), and an open preview shows the plan of its basis (`ShownFits`). The
arithmetic of the planner stays unexpanded: the theorem needs that it is a function
of the basis, not what it computes.

The second has the invariant `SplitInv`. When a bin is switched to split nothing in it holds
anything, so no plan that is posted later draws on a layer placed before the switch
(`OldStaysUndrawn`); a correction that would give something back to one reaches
behind the switch, which `Independent` refuses, and a receipt that is older is
refused by `Place`.

The other four follow from `StockInv`, whose core is `Kept`, a predicate of a ledger:

- `LiveTells`: what is left of a layer is what the entries in force leave of it; an
  entry and its reversal together leave no trace;
- `HistoryOnCurve`: at every point of the history in force, every layer is on its
  curve, also those drawn on much later;
- `HistoryStands`: every entry in force draws its plan, from layers it could see.

`StockStaysPlannable` alone is not inductive: a reversal gives back the draws of an
entry far from the end, and that each run's grams then still are the shares of what
is gone has to be known of the history without that entry. `EntryKeeps` appends a
planned entry: the draws come from layers on their curve and leave them there
(`PlanIsGood`, from `TakingsFit` and `CurveTake`). `ReversalKeeps` takes an entry out of
the middle: what `Independent` grants (`Unseen`) is that no later entry in force drew
on its layers or, unless it was ordered, could see them, so no later plan changes
(`LaterPlansStay`), and the layers it drew on are left as they were just before it
(`LeftWithoutEntry`). A correction is a reversal and an entry in one step, so these
lemmas speak of any ledger, not of the variable. `MeasuredIsTaken` is proved with the bound
it states: a rest that falls just below nothing is rounded up, see section 6.

Every invariant and action property of the passing runs is the subject of a theorem.
What is only model-checked is liveness: TLAPS proves nothing about ENABLED, hence
about fairness.

## 6. Disagreements between the code and what it says

The first two are runs that TLC ends with a counterexample.

- `slow_revert`. The resume's compare-and-set accepts a row whose `lockedAt` is
  NULL whatever its status; finalizing sets it to NULL without the artifact
  lock. An attempt that outlives its lock and finalizes between the resume's
  decision and its update has its submitted row reset to draft.
- `deletion_partial`. A deletion that removed the GHG Entry and then stops
  (a later registry call fails, or the DELETE itself went unanswered) restores the
  ledger row, with the entry's id, as the claim found it. The next submit resumes
  that row, takes its id for the entry and does not create one. One later step does
  read the entry: the check of the source bindings lists its component attributions
  (`source-binding-verification.ts:61`). An error there becomes "awaiting_sync"
  (`removal-source-binding-verification.ts:81`, and line 54 for the plan it needs) and
  fails nothing, so the version is finalized with an id the registry no longer has. Deleting again, as the operator is told to, is safe:
  `DeletedLeavesNoEntry` holds in `deletion`.

The repository knows of one more, `certification/interrupted-marker-crash-window`
in `docs/open-questions.md`, so no run refutes anything there: the mutation
marker of a ledger row is written when an attempt fails or when the GHG Entry is
journaled, and a process that dies in between leaves records at the registry and
no marker. Once the lock expires the draft looks mutation-free and another
Removal may take its reservation. For the same reason `RejectionIsDefinitive` is
checked without crashes: an attempt that resumes such a draft and fails at a gate
rejects it. The repository's recovery (resuming the draft, which looks records up
first) does prevent duplicates: `OneRecordPerReference` holds in
`pipeline_crash`. What holds across such a takeover is `MarkedKeepsProduction` and
`SendersHoldTheirProduction`: it never reaches a draft that is marked, nor one whose
attempt is sending, and a draft that was taken from reserves anew before it sends.

Four more limits show in the model without a run of their own. The successor of a
rejected or retired version is created without a version to supersede, so an older
submitted version stays active next to it; `ActiveVersionsSeparated` states what
does hold. A draft
that is retired becomes superseded, a status the deletion counts as finalized, so
a Removal of which nothing was ever sent is refused with "This Removal was
submitted to Isometric and cannot be deleted." (`EverFinalized`).
`DeletedLeavesNoEntry` is checked without late requests: the deletion looks once
for an entry whose create went unanswered, and a lookup that finds nothing does
not show that the request will not still be executed. A draw from
a mixed pile gives whole grams to all layers but the largest, which is to give "the
rest of the measured solids (floored to the microgram grid)" (`planner.ts`, the
comment of `proRataShares`). `floorToGrid` divides BigInts, which truncates towards
zero, so a rest between minus one step and zero becomes zero instead of falling back
to shares on the grid, and the load takes up to a microgram more than was measured:
hence the two sides of `Measured`. No balance depends on it, since the draw is
recorded as taken.

## 7. Not modelled

In the modelled part: mirroring of source documents, `recoverSubmittedRemoval`,
the early marker `markRemovalSubmissionExternalMutationPossible`, entry
corrections and provider status imports; the evidence-refresh branch of the
claim is in the decision but no writer stores the marker it needs any more; the
emission-entry reservations move with the batch reservations in the same
transactions.

In the deletion: the role floor, membership in a GHG Statement, the release of
mirrored Sources (best effort, after the Removal is gone), audit events, and a
DELETE that reaches the registry after its call gave up. `discardLocalRemovalDraft`
has no caller outside tests.

In the runner: calls without a key, dry runs, after-commit hooks, activity
records and stock effects, outcomes stored under an older schema version (they are
refused) and the size of the connection pool.

In the uploads: the order, batch limit, backoff and provider check of the drain
(any due entry may be drained, and a plain failure changes nothing), the thirty
days before a failed row is retired (it may happen at any time), documents created
with a finished file, mirrored registry Sources, and database locks as such:
transactions are atomic because the code takes owner and row locks before it
decides.

In the output stock: wet masses that are estimated, and moisture (a request
brings its own reading), product versions, requests given in solids (only a replay
makes them), draws saved before the ledger existed, the production of products,
archiving of bins, and the guards of certification records and applications,
which only refuse more.

Not modelled at all: geographic, mass and moisture calculations (floating-point
formulas), dashboards, REST and MCP surfaces and the web client (projections and
rendering), generated API types, and credential storage. Components that are
planned but not yet modelled are listed in section 8 and in `PROJECT.json`.

## 8. Plan

Done: the submission core (`SubmissionClaim`, `SubmissionLedger`,
`RemovalSubmission`), with a theorem for every safety and action property its runs
check; `RemovalDeletion`, with the same and the theorem that it refines
`RemovalAccounting`;
`OperationRunner` and `DocumentUploads`, with theorems that they refine `OnceOnly` and
`EvidenceVault`; `StockPlanner` and `OutputStock`, with a theorem for every property.
Next, in this order:

1. `RateLimit`.
2. The biochar application journal and GHG statements, reusing `SubmissionClaim`
   with the statement policy.
3. Credit batch membership and record locks.
