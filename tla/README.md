# Formal model of X-Wiki

TLA+ modules for the parts of X-Wiki where order, failure and concurrency matter, TLC
configurations that check them on small instances, and proofs checked by TLAPS. Paths below are
relative to the repository root; in `PROJECT.json` they start with `src/`.

## The system and its state

X-Wiki turns voice memos and texts into a Wiki on one person's machine. Two generations of code
live side by side: `src/xwiki`, a product core on SQLite with private blob stores, and `scripts/`,
the pipeline that imports Voice Memos, lets a model compile the Wiki, and publishes it with git.

| Component | State | Operations | What makes it correct | Model |
|---|---|---|---|---|
| Job queue, `infrastructure/sqlite/job_repository.py` | tables `jobs`, `job_attempts`, `transcript_revisions`, `sources.transcript_revision_id` | enqueue, recover_expired, claim, renew, complete, fail, retry, cancel, by any number of processes | one current lease per job, history agrees with the row, budget kept, terminal is final, an answer is published once and whole | `JobQueue`, `JobLifecycle` |
| Transcription service, `application/transcription_service.py` | a lease, a heartbeat thread, two events | enqueue, run_once, recover, retry, cancel | no completed job without its text on disk; a lost lease is noticed | `TranscriptionService` |
| Private blob store, `infrastructure/file_store.py` | content-addressed files, `incoming/`, a lock file | put_file, put_text, verify_blob, read_verified, export_original | a blob that is there is whole; nothing is overwritten | `SourceImport`, `TranscriptionService` |
| Source import, `application/import_source.py` | a blob, then a `sources` row | import, verify, export | a row implies its blob; the same bytes give one source | `SourceImport` |
| Database, `database.py` | `schema_migrations` | migrate, open_product_db, by processes of any release | each migration once, in order, whole | `SchemaMigration` |
| Legacy import, `legacy.py` | snapshots and issues of the old `recordings` table | import_legacy_recordings | repeatable, nothing lost, nothing claimed | `LegacyImport` |
| Repositories, `repositories.py` | sources, spans, proposals, claims | save_*, get_* | rows are written once | partly, with the imports |
| Compile transaction, `scripts/compile_transaction.py` | `.state/compile-transactions/<id>/`, `compile.lock`, the live Wiki | recover_transactions, apply_transaction | all files or none; no edit lost; interrupted runs are settled | `CompileTransaction`, `AtomicWiki` |
| Staged workspace and compiler, `staged_workspace.py`, `compile_wiki.py` | a temporary tree, the snapshot | compile_wiki, apply_staged_changes | only what was looked at is replaced | partly, with the transaction |
| Private review, `private_review.py` | candidates, approvals, records of promotions | capture, approve_private, promote_public | what is promoted was approved, and replaces only what it was made from; records are true | `PrivateReview` |
| Pipeline, `process_voice_memos.py`, `import_voice_memos.py` | `ingest.sqlite`, raw files, Wiki, git | one scan: hash, transcribe, write, compile, lint, commit, push | evidence is kept; "compiled" means published; every recording arrives | `VoicePipeline` |
| Release gate, `release_gate.py`, and `verify_deployment.py` | the journal of releases; receipts | publish_head, verify_live_release | only what is on the branch is confirmed, only what was served has a receipt | `ReleaseGate`, `DeploymentCheck` |
| Whisper adapter | none | transcribe | | free choices of `TranscriptionService` |
| Domain model, demo, command lines, settings, site tools | none of their own | | | not modelled |

Who calls whom: the pipeline calls the compiler, which calls the compile transaction in legacy mode
and the private review in review-first mode; private review promotes through the same transaction;
the pipeline publishes through the release gate; the deployment workflow checks what the gate
pushed. The command lines of the product core open the database, and import, export, migrate and
transcribe against one store. Hard behaviours: all of these are separate processes that may be
killed anywhere; leases run on a wall clock read before the database lock is obtained; answers
arrive late or twice; files are replaced one by one; people edit the tree, the files and the
repository by hand; remotes and servers answer late, wrongly or not at all. `PROJECT.json` lists
each hazard with its line and the properties that would catch it.

## Modules

| Module | Models | State and actions |
|---|---|---|
| `JobLifecycle` | what the queue promises | a phase, a count, a budget and a result per job |
| `JobQueue` | `JobRepository`, every mutating method | one function per column, one action per method; instantiates `JobLifecycle` |
| `TranscriptionService` | `run_once`, its heartbeat thread, the two blob stores | extends `JobQueue`: every database call of a worker is one of its actions |
| `AtomicWiki` | what the durable writeback promises | the Wiki as one value, a snapshot per compiler, a lock |
| `CompileTransaction` | `compile_transaction.py` as `compile_wiki.py` and `staged_workspace.py` drive it | disk, compilers, the lock holder; one action per disk operation; instantiates `AtomicWiki` |
| `ReleaseGate` | `publish_head`, a git repository, its remote and other clones | one action per git command or journal write |
| `DeploymentCheck` | the workflow, `verify_deployment.py`, the edges of a CDN | extends `ReleaseGate` |
| `VoicePipeline` | one scan of `process_voice_memos.py` with `write_raw` | extends `ReleaseGate`: publication is its steps; adds rows, raw files, Wiki, what each commit holds |
| `PrivateReview` | capture, approve, promote | stores, records, the locals of each promotion |
| `SchemaMigration` | `open_product_db`, `migrate` | committed schema and history, the draft of the writer, how far each process is |
| `SourceImport` | `xwiki-import` with the blob store and `save_source` | extends `SchemaMigration`: a process opens, then runs one command |
| `LegacyImport` | `import_legacy_recordings` | extends `SourceImport`: the whole product store, `StoreSpec` |
| `JobLifecycleProofs`, `JobQueueProofs`, `TranscriptionServiceProofs`, `CompileTransactionProofs`, `ProductStoreProofs` (also of `SchemaMigration`), `ReleaseGateProofs` (also of `DeploymentCheck`), `PipelineProofs`, `PrivateReviewProofs` | theorems | |
| `MC*` | small instances | symmetry sets and values of constants |

Definitions with a comment that starts "Fault:" are not part of any specification: each is the form
a plausible bug would give the definition below it, and is listed in `PROJECT.json` under
`mutants` with the property that notices it.

**JobQueue.** Each method is one `BEGIN IMMEDIATE` transaction and so one action; a refused call
(`StaleLease`, `ConflictError`, no row) rolls back and is a step that changes nothing. The
parameter `t` of an action is the caller's `time.time()`, taken before it waits for the lock: any
instant of the last `ClockLag` ticks. Leases stay in `leases` for ever, so every holder may call
renew, complete or fail at any time and any number of times; a worker that crashes simply never
calls. The choice of error code and of `retryable` is free, as it depends on the transcriber.
`uuid4` is a counter: tokens never repeat. `ORDER BY created_at, job_id` takes one of the oldest
jobs, since the order of the job_id hashes is arbitrary. Rows of other kinds than `transcribe`, the
`updated_at` column and validation of arguments are left out.

**TranscriptionService.** A worker steps through `run_once`: `Start` (claim, start the heartbeat),
`VerifySource`, `Listen` or `ModelFails`, `Recheck`, `SaveText` or `SaveFails`, `StopHeartbeat`, and
`Publish`, `Report` or `AnswerRefused`. Between any two of them other workers act, time passes, the
process is killed (`Kill`), or files rot or vanish (`DamageSource`, `DamageText`). The worker answers
with the lease it holds, so the queue decides whether the answer still counts. What the model hears
depends on the bytes it finds when it runs: a text of the set `Noise` comes out of damaged bytes and
of no others. Damage is permanent, so "the bytes were right before and after" means they were right
in between; bytes damaged and repaired while the model runs would pass both checks of the code. The
heartbeat is not tied to the worker's progress; `lingering` is the lease of a thread that was still in
its database call when the join timed out, and that may renew it much later. A thread that the
machine starves for a whole lease does lose its job, which is what leases are for:
`BeatingWorkerKeepsJob` speaks of heartbeats that have beaten within their interval. The revision
id is a hash of source, model and text, and is modelled as these three.

**CompileTransaction.** The variables up to `backups` are the disk and survive a crash; `task`,
`step`, `target`, `todo` and `undone` are the locals of whoever holds `compile.lock`; `stage`,
`read` and `want` belong to a compiler outside the lock. `Stop` is a crash, or an exception outside
the guarded writes: the lock is freed and the locals are gone. `WriteFails` is an exception in the
guarded writes, before or after the file was replaced, and leads to the rollback in the same
process. `rmtree` is three actions, so a crash can leave any part of a directory behind. A write with
its `fsync` is one step. `folders` records which parent folders exist, because syncing a folder that
does not exist raises. Hand edits happen while the lock is free: `docs/architecture/durable-compile.md`
asks for this ("avoid direct concurrent writes"). Paths, symlinks and malformed journals that the
code refuses are left out, and so is the copy of the tree into the staging directory: a candidate
is any tree.

**ReleaseGate.** A commit is a number, `past` its ancestors with itself; a branch is what its commit
has behind it, and a push without `--force` only succeeds if it keeps all of that (`Accepts`).
`publish_head` is a chain of steps: `ReadHead`, `Prepare`, `AskRemote`, `Push`, `VerifyRemote`,
`Confirm`; any of them may fail or be its last, and a push may take effect and report an error
(`PushUnanswered`). A person commits, checks out, resets and pulls, other clones push, between any
two steps; no run and no theorem assumes that HEAD stays. `pushed` is an observer: the commit last
pushed under the manifest of each commit. `rev-parse HEAD` and `ls-tree HEAD` of `build_manifest` are
one step (see the divergences below).

**DeploymentCheck.** The workflow of `.github/workflows/pages.yml` and the CDN are external: a
deployment reaches the edges later or never, each GET is answered by some edge or not at all, and a
newer workflow replaces a running one. A second run of the workflow on the same commit is left out.

**VoicePipeline.** `ingest.lock` lets one scan run, so `run.stage` is a program counter and the
rest of `run` the locals of one process. A raw file is its key, the hash of its audio and its
text; a Wiki is the set of its items, that is sources and edits. `compile_wiki` is one step, which
`AtomicWiki` justifies, and the model may write about some of its sources and find nothing in the
others (`barren`). `WriteRaw`
hashes the audio again, as the code does. Publication is `OpenGate`, the steps of `ReleaseGate`, and
`MarkPublished`. Around the scan, recordings arrive and are replaced, other clones push, and a person
edits, repairs and commits, pulls (fast-forward, or a three-way merge against the merge bases,
`Merged`), discards pages that are not committed (`PersonDiscards`), and checks out or resets to any
commit, with the files or without (`PersonSwitchesWiki`). The last two take things back: what files or
HEAD held and hold no longer goes into the observer `withdrawn`, since the code does not notice (see
the divergences below). `Fault` is any command that fails, and death at any point.

**PrivateReview.** A candidate is, per path, what was there before and what shall be there; its name
is the hash of that, so it is its own name. A promotion reads, stages and lints, takes a snapshot,
checks the base, records the intent, applies and records the application, each a step;
`apply_transaction` is one of them, as `AtomicWiki` allows, and one that dies half way leaves
`interrupted` for the next to roll back. Edits, damage and crashes come between any two steps.

**SchemaMigration.** A release is the sequence of scripts it bundles, a script its name and hash.
`writer` holds SQLite's write lock between `BEGIN IMMEDIATE` and the end of the transaction, and
what it does before it commits is `draft`. Every other statement of SQLite is a step of its own.

**SourceImport.** A digest stands for its bytes; `Torn` is the copy of a file that changed while it
was read. Every change of the file changes its stamp (inode, device, size, mtime_ns): one that keeps
all four is not noticed by the code, and is left out. The section of `put_file`
inside the store's lock is one action; everything else, including the second read of an export and
the re-read of an inserted row, is a step of its own, between which the file changes, blobs break,
the target path is taken, and processes die.

**LegacyImport.** The old table is read at one moment and the batch, one transaction, happens at a
later one; the pipeline rewrites the table at any time. A snapshot carries its issues (`Flagged`).

## Runs

| Run | Instance | Shows |
|---|---|---|
| `lifecycle` | 2 jobs, budgets 1 and 3 | safety of the promise, and `EveryJobSettles` under fairness |
| `queue_sources` | 2 sources, 1 model, budget 2, lease 2, backoff 1 to 2, lag 1, clock to 4 | type, history, lease and order properties, and that the queue implements `JobLifecycle` |
| `queue_models` | 1 source, 2 models, 2 revision ids, 2 texts, budgets 1 and 2 | what is published is right: `CompletedHasItsRevision`, `PointerIsAResult` |
| `service` | 2 workers, 1 recording, a true and a false text, budget 2, lease 3, heartbeat 1, lag 1, clock to 5 | `RevisionsAreTrue`, `SourceErrorsAreTrue`, `BeatingWorkerKeepsJob` |
| `compile_race` | 2 compilers, 2 files (one in a new folder), edits, 2 faults | `NothingIsLost`, `AtMostOneTransaction`, `ImplementsAtomicWiki`, and no deadlock |
| `compile_one_fault` | 1 compiler, 2 files, 1 fault, all folders there | `InterruptedIsSettled` |
| `compile_new_folder` | 1 fault, a page in a new folder | violation: recovery raises on every run |
| `release` | 3 commits, up to 2 by others, HEAD moves, 1 fault, 2 read-backs | `ConfirmedIsPublished`, `JournalTellsOfPushes`, `ReceiptsAreEarned` |
| `pipeline` | 1 recording in 2 versions, 7 commits, 1 fault, 1 unsafe edit or other interference, both modes, a person who tends to what fails | `EvidenceKept`, `CompiledIsPublished`, `ReviewFirstNeverPushes`, `RecordingsArrive` |
| `pipeline_stuck` | 2 recordings, 1 fault, nobody at the keyboard | violation: a row stays in `publish_pending` |
| `review` | 2 promotions, 2 paths, 2 drafts that overlap, 2 events | `RecordsTellTheTruth`, `OnlyApprovedOverItsBase` |
| `product` | 2 processes, three releases of which one forks, 2 upsets, 1 content, 1 old key, 2 instants | `SchemasAgree`, `SourcesAreKept`, `ExportsAreExact`, `RowsAreWrittenOnce` |

Why the bounds are enough. *Queue:* with two attempts per job and a clock of four ticks a lease can
run out, be recovered, be claimed again and run out again while the first holder still answers; a
backoff can end, and two jobs can wait in either order. Lease 2 and lag 1 make the stale clock
matter. Two texts, two ids and two models give every way in which two completions can share a
revision row or a source row. *Service:* two workers and a budget of two let one lose its job to the
other and answer after it; a lease of three beats can be renewed and still run out. *Compiler:* two
files are enough to stop between them, two directories enough to have a second one, and two faults
to break the recovery from the first; a file can hold its original, the candidate and a text written
by hand. *Release:* three commits give a branch, a commit next to it and their merge. *Pipeline:*
two versions let a recording be replaced while it is transcribed or after it was published; seven
commits are as many as the scan, the person and the other clone make (an eighth adds no state); one
fault at any point includes every death. A pull while a scan runs counts as the edit of a behaviour
(`Interferes`), and to take something back, at any point, as its edit and its fault: a crash and a
reset meet only in the proof. Both modes occur in one behaviour. *Review:* two drafts share a path,
one of them fails the lint without the other's page, and two events let an edit meet a crash. *Product:*
two processes meet at each lock; of the releases `<<first>>`, `<<first, second>>` and `<<other>>` one
is older than another and one is foreign to both; two upsets let a file change and a blob break.
`MaxFaults`, `MaxEvents`, `MaxUpsets`, `MaxCommits`, `OthersUntil`, `MaxCaptured`, `MaxAttempts`,
`Horizon` and `Versions` stand in guards; where they stop the system in the end, the run has
`CHECK_DEADLOCK FALSE`. The compile runs check for deadlock.

Two constants choose an assumption rather than a size: `MayRestore` and `DamageAnyTime` are FALSE in
`review`, so nobody puts back exactly the text a candidate was made from, and files are damaged
between promotions only; see the divergences below.

Fairness. *`JobLifecycle`:* someone keeps running `xwiki-jobs run-once`: a pending job is
started if it can be again and again (strong, since other jobs may be taken first), and a
processing one is answered or swept. `retry` and `cancel` are never obliged.
*`CompileTransaction`:* a run goes on if it can, and a new run is started (launchd does that).
*`VoicePipeline`, `ScanSpec`:* launchd starts a scan in legacy mode whenever none is running, again
and again (strong, as scans in the other mode come in between); a scan that has not died goes on;
recordings are left alone in the end, so that their hash settles. *`TendedSpec`* adds a person who
reads the log and repairs what the lint refuses, commits what pauses a scan, and pulls when the
branch has diverged (strong: between two scans). Without that person `RecordingsArrive` is not
promised by any document, and `pipeline_stuck` shows how little it takes. Faults, edits and other
clones are never fair.

### Two violations

1. If a run dies before the first page of a new folder is written, recovery raises
   `FileNotFoundError` when it syncs that folder (`scripts/compile_transaction.py:180`), on every
   run, although `docs/architecture/durable-compile.md:25` says that without a manual edit originals
   are restored and the compilation may be retried. (`compile_new_folder`)
2. Waiting rows are pushed in the last step of a scan (`scripts/process_voice_memos.py:371`). One
   commit that fails leaves its files uncommitted; with one more recording to compile every later
   scan stops at line 380 before it comes to the push, although `scripts/docs/automation.md:43` says
   that the next scan tries again. (`pipeline_stuck`)

### Other divergences met while modelling, without a run

- `cancel` (`job_repository.py:341`) asks for no lease; `UX-002B-Implementation.md:106` asks for a
  token and an unexpired lease for "any completion, failure or cancellation".
- A rolled back transaction is removed while its journal still says `prepared`
  (`compile_transaction.py:183`). A second fault, once the backups are gone, leaves a directory on
  which every later recovery raises. With `MaxFaults = 2`, `compile_one_fault` fails for this reason.
- `push` pushes HEAD (`release_gate.py:175`), not the commit of the manifest: a commit made after
  the journal entry (`:172`) reaches the remote without one of its own. "Journal before network I/O"
  (`:158`) is so true of the manifest a commit is pushed under, and not of the commit. `publish_head`
  notices that HEAD or the branch is another one and refuses to confirm. `JournalTellsOfPushes` states
  just this, with HEAD moving at any step.
- The last update of a scan marks every row in `publish_pending` as compiled
  (`process_voice_memos.py:453`) once HEAD is on the branch, whatever HEAD holds. After a reset, a
  checkout, or a page discarded before the retry of a push, that includes rows whose text is nowhere
  published, although `docs/architecture/publication-state.md:11` reads `compiled` as a push that
  completed. `CompiledIsPublished` and `RecordingsArrive` except what a person has
  withdrawn.
- Histories are compared when a process opens the database (`database.py:130`) and not again: one that
  is open goes on when a newer release migrates further. `SchemasAgree` therefore says that a database
  begins with the scripts of every open process, not that it has no others.
- `file_store.py:181` knows a changed file by inode, device, size and mtime_ns; a change that keeps all
  four while the file is copied is not noticed.
- `build_manifest` asks for HEAD twice (`release_gate.py:44` and `:47`); a commit in between gives a
  manifest of one commit with the files of another.
- The pipeline stages and pushes whatever is in the knowledge paths (`process_voice_memos.py:246`),
  edits made by hand after the check included, and between the lint (`:241`) and `git add` (`:244`)
  they may change.
- If Apple's database cannot be read, ids are made from file names (`import_voice_memos.py:105`) and
  a recording already known by its id is transcribed once more.
- `promote_public` takes its snapshot after the lint and before the base check
  (`private_review.py:277`): a text replaced and restored around these steps passes all of them.
  With `MayRestore = TRUE`, `OnlyApprovedOverItsBase` fails; so it does with `DamageAnyTime = TRUE`,
  since the blobs are read a second time (`:261`) without being hashed.
- `compile_wiki.py:83` copies the tree for the model after the snapshot and outside the lock. A
  candidate may so be made from an older state than the one it is compared with.
- Of two importers of the same new bytes one may get `ConflictError` (`repositories.py:52`) although
  its source is stored.

## Proofs

Proved for every value of the constants, from the named assumptions on them; a theorem that takes
more says so in its statement and here. Each invariant a run checks is a theorem, and so is each
action property and each refinement.

`JobLifecycleProofs`
- `LifecycleCorrect`: `Spec => [](TypeOK /\ PublishedIffCompleted /\ WithinBudget)`. A job gets its
  budget when it is enqueued, so the count must still be zero then (`NotStartedBefore`).

`JobQueueProofs`
- `TypeCorrect`: `Spec => []TypeOK`. Claim writes attempt number `count + 1`, so the proof needs to
  know that a processing job has been started and that `max` is at most 10 (`TypeInv`).
- `HistoryCorrect`: `Spec => [](AttemptsMatchJob /\ BudgetRespected /\ OnlyNewestLeaseCurrent)`.
  The three are not inductive alone. `HistoryInv` adds that every token handed out was issued, that
  the row of a processing job carries the token of a lease in `leases`, and that a job without a row
  has blank columns. `HolderIsNewest` shows that whoever passes `_assert_lease` holds the lease of
  the newest attempt, and `ClosesNewest` that it closes that one.

`RowSteps` says what one transaction may do to the row and the history of one job, and the other
theorems look at those cases only:
- `HistoryIsNeverRewritten`: `Spec => HistoryIsKept`.
- `LeasesAreRespected`: `Spec => LiveLeaseNotStolen /\ AnswerNeedsLease`. The clock of a caller is at
  most `ClockLag` behind, hence the margin in the second.
- `ClaimsKeepOrder`: `Spec => ClaimsInOrder`, from `BackoffIsWaiting`: a job that is
  processing has no `retry_after`, so one taken back from a dead worker is due at once.
- `JobsAreExplained`: `Spec => []LastAttemptExplainsJob`. `ExplainInv` adds that a job
  that failed or completed has been started, so that it has a last attempt.
- `PublishedIsRight`: `Spec => [](CompletedHasItsRevision /\ PointerIsAResult)`.
- `QueueKeepsPromise`: `Spec => ImplementsLifecycle`. Every action is one of `JobLifecycle` under the
  refinement mapping, or leaves the four mapped columns alone.

`TranscriptionServiceProofs` (extends `JobQueueProofs`)
- `ServiceImplementsQueue`: `ServiceSpec => Spec`. Every database call of a worker, a heartbeat or a
  command line is an action of `JobQueue`; what they do elsewhere leaves its variables alone. So
  every theorem of the queue holds in the service, and the invariants of the queue may be used in
  the proofs below (`ServiceQueueInvariant`).
- `ServiceIsTruthful`: `ServiceSpec => [](ServiceTypeOK /\ RevisionsAreTrue /\ SourceErrorsAreTrue)`.
  `LocalInv` says of each worker, step by step, which locals are set. `TruthInv` adds what they vouch
  for: a text was heard in intact bytes once `Recheck` has passed, one to be published was put into
  the store, an error about the source is about a source that is not intact. It is inductive
  because damage is permanent (`OnlyRots`).
- `HeartbeatKeepsJob`: `ClockLag < 2 * BeatInterval` and `ServiceSpec` give `BeatingWorkerKeepsJob`.
  `BeatInv`: as long as the attempt is open, its lease runs until at least
  `LeaseSeconds - ClockLag` after the last beat. `ServiceAssumption` has
  `3 * BeatInterval <= LeaseSeconds`, since the code beats every third of a lease, and a lease is of
  three seconds at least. The hypothesis is about the time a call may wait
  for the write lock: the busy timeout of `database.py:147` and `:150` is 30 seconds and the default
  lease of 180 seconds gives an interval of 60, so it holds there; it does not for leases of
  45 seconds or less, which the service accepts but `xwiki-jobs` never asks for.

`CompileTransactionProofs`
- `WritebackInvariant`: `Spec => []WritebackInv`, the inductive invariant. `ControlInv` ties the
  locals of the lock holder to the step it is at and to the journal it has on disk. `DiskInv` follows
  the files through it: until the first write the Wiki is the snapshot, and what is behind the holder
  is backed up (`BackupInv`); then every file is the snapshot's, the candidate's, or saved (`WriteInv`);
  a rollback leaves behind it what was there before and finds ahead only that or the candidate's
  (`RestoreInv`), and what it removes has nothing left to restore (`DiscardInv`). TLC checked it on
  the instance of `compile_race` before it was proved.
- `WritebackCorrect`: `[](TypeOK /\ AtMostOneTransaction)`.
- `NothingIsEverLost`: `Spec => NothingIsLost`, from the invariant, action by action.
- `WritebackIsAtomic`: `Spec => ImplementsAtomicWiki`. A transaction takes effect in the abstract
  Wiki when its journal stops promising a way back, and every other disk operation is a stutter: the
  value of the refinement mapping stays the tree from before as long as the journal is prepared.

`ProductStoreProofs`
- `SchemaCorrect`: `MigrationSpec => []SchemasAgree`: the committed schema is the history's, which
  begins with the scripts of every open process. `MigrationInv` adds what a writer's draft is
  at each step and that history and committed schema are the same between transactions.
- `StoreImplementsMigration`: `StoreSpec => MigrationSpec`. Every step of an import, export or batch
  is a step of a process in `SchemaMigration` or leaves its variables alone; therefore
  `StoreSchemaCorrect`.
- `StoreKeepsSources`: `[]SourcesAreKept`. `StoreInv` says of each process what its locals promise at
  each step (`TaskOK`): a copy accepted is a content, a blob stored is whole or harmed, a row about to
  be reported is there.
- `StoreWritesRowsOnce` and `StoreExportsExactly`, as action properties from the same invariant.
- `StoreTypeCorrect`: `[]StoreTypeOK`. `CountsInv`: the stamp of the file is at most the number of
  upsets, so it is bounded as they are.

`ReleaseGateProofs`
- `GateCorrect`: `GateSpec => [](GateTypeOK /\ ConfirmedIsPublished)`. A confirmed commit stays on the
  branch because a branch only advances: `PastIsClosed` (the ancestors of an ancestor are ancestors)
  makes `Behind(remote)` grow with every accepted push, and `VerifiedIsOnBranch` carries the answer of
  the remote from the step that asked to the one that writes it down.
- `JournalCorrect`: `GateSpec => []JournalTellsOfPushes`, for HEAD moved to any commit at any step.
  `PushInv` adds that the manifest of an open gate is journalled before the remote is asked, and that a
  commit which went out under it is one of its ancestors, or itself, once the remote has answered.
- `ReleaseCorrect`: `ReleaseSpec => [](ConfirmedIsPublished /\ JournalTellsOfPushes /\ ReceiptsAreEarned)`.
  All that is checked out, underway or served was on the branch once, and still is.

`PipelineProofs`
- `PipelineCorrect`: `PipeSpec => [](PipeTypeOK /\ EvidenceKept /\ CompiledIsPublished)`, while HEAD is
  moved by commit, merge, checkout and reset at any step. Every step of a scan is a step of the gate, a
  stutter of it, or the gate being forgotten, so `GateInv` carries over. `TreesGrow`: what a commit
  knows is known to the files and to the commits after it, unless it was withdrawn; a merge keeps what
  neither side took out (`MergeKeeps`). `PendingInv` follows what waits to be published from the files
  into HEAD and into the commit of the manifest, and `CompiledInv` onto the remote, up to `Excused`:
  what the model found nothing in and what was withdrawn.
- `ReviewFirstIsPrivate`: `PipeSpec => ReviewFirstNeverPushes`.
- `ScansAreJournaled`: `PipeSpec => []JournalTellsOfPushes`: `PushInv` is about the gate alone, and a scan
  that dies only forgets what its gate was doing.

`PrivateReviewProofs`
- `RecordsCorrect`: `ReviewSpec => []RecordsTellTheTruth`. `ReviewInv` says what each step of a
  promotion has already put on disk (`PromotionOK`); it holds for every number of operators, and with
  `MayRestore` and `DamageAnyTime` TRUE as well.
- `ReviewTypeCorrect`: `ReviewSpec => []ReviewTypeOK`.
- `PromotionIsOverBase`: `ReviewSpec => OnlyApprovedOverItsBase` if `MayRestore` and `DamageAnyTime` are
  FALSE. Lint, base check and snapshot look at three moments; `BaseInv` adds to what each of them saw
  that no candidate would bring back a text that has been replaced (`NoWayBack`), so that what passes
  all three was the base the whole time. With either constant TRUE the property is false (see the divergences).

Only model-checked: liveness, that is `EveryJobSettles`, `InterruptedIsSettled` and `RecordingsArrive`,
since fairness and ENABLED are outside what the proof system handles. `EveryJobSettles` is checked on
`JobLifecycle` alone: `JobQueue` implements its safety part, so that it never refuses a step its
callers need is not shown. Also only model-checked, for the same reason the
absence of deadlock in `compile_race`.

## Not modelled

- The domain model: value checks and codecs; the transitions of a proposal are methods that nothing
  in the program calls yet. The same holds for spans, nodes, claims and proposals in `repositories.py`.
- The browser demo over fixed sample data.
- Command lines, settings, launch agent, Markdown lint and site generation: text in, text out, with
  no state of their own and no concurrency. The verdict of the lint is modelled where it decides.
- Checks that refuse an input before anything is written: file types and sizes, symlinks, boundaries
  of directories, malformed journals and manifests.
- The copy of the tree into the staging directory.
- `--reprocess`, `--skip-compile` and `--skip-push`, and models or languages other than the
  configured ones.
- The native speech model and the language model: their outcomes are free choices.

## Plan

1. The staging copy in `CompileTransaction`, so that a candidate is made from what was copied, and the
   proofs of the writeback carried over to it.
2. The composition of the pipeline with the transaction itself, in place of its abstract form, for the
   crash between a written Wiki and its rows.
