# Verification project for kor-travel-geo

kor-travel-geo is a Korean address service: a PostgreSQL database of addresses and
geometries, loaded in long batch jobs from public source files, and an HTTP API that
geocodes, reverse-geocodes and searches in it. This directory holds TLA+ models of the
parts of it that are concurrent, distributed or have to survive failures, the TLC runs
that check them on small instances, and TLAPS proofs of their main properties for every
instance. Paths below are relative to the repository; `kortravelgeo/` stands for
`src/kortravelgeo/`.

Contents: [1 Inventory](#1-inventory) · [2 Modules and the code](#2-modules-and-the-code) ·
[3 Runs](#3-runs) · [4 Fairness](#4-fairness) · [5 Proofs](#5-proofs) ·
[6 Where code and docs differ](#6-where-code-and-docs-differ) ·
[7 What else the models show](#7-what-else-the-models-show) ·
[8 What the models leave out](#8-what-the-models-leave-out) · [9 Plan](#9-plan) ·
[10 Reproducing](#10-reproducing)

## 1 Inventory

How the parts interact: the admin UI and the CLI call the API; the API inserts rows of
`load_jobs` and asks Dagster (an external engine, over GraphQL) to launch a run; the
run's worker process adopts the row, drives a loader, a full-load batch, a backup or a
restore against the same PostgreSQL, and ends the row; a reconciler task inside
the API compares rows and runs. Successful publications end with a row in
`ops.serving_releases`, the ledger that stamps every public answer. Public lookups pass
admission control, then a result cache in process memory, then a cache table
(`geo_cache`), then SQL. Everything shared is either a row in PostgreSQL (guarded
UPDATEs, advisory locks), a file or object in storage, or state of one asyncio process.

### Modelled

| Component | State | Operations | Hard behaviour | What makes it correct |
|---|---|---|---|---|
| Job control plane: `api/_full_load_launch.py`, `api/_cancel.py`, `api/_reconciler.py`, `infra/load_job_executor.py`, the Dagster `load_job_bridge.py` | `load_jobs` rows (state, owner run, lease), Dagster's run store, one process per run, the reconciler's page | insert, launch, adopt, renew, end, cancel, terminate, scan, converge | a launch whose answer is lost but whose run starts; two runs of one job; late writers; crash anywhere; Dagster outages; a cancel that misses the run | at most one executor, one verdict that nobody overwrites, eviction only for a true reason, no one-sided end |
| Full-load batch: `loaders/batch_dag.py`, `infra/publication.py` | a root row and one row per stage, the severity of the consistency report, the publication reached | source loads, consistency gate, MV swap, region parts, release; clean-up of queued children; stale sweep | competing writers on the rows, exceptions on the way through three layers, three publication transactions | stages in order, only vetted data is published, a done batch is whole |
| Serving releases: `infra/admin_repo.py`, `infra/data_fingerprint.py`, `infra/dataset_ref.py`, `infra/cache.py` | the ledger, the activation lock, `geo_cache`, the cached stamp | activation, candidate, fingerprint backfill, stamped lookups | the scan runs for minutes outside of the lock; loads are not serialised with releases; slow lookups | one chain of releases, tokens that tell the truth, answers no older than their label |
| Admission: `api/admission.py`, `api/app.py` | one semaphore per scope and its counter | acquire two scopes within a deadline, release | cancellation and timeout racing a grant, holding one scope while waiting for the next | slots are neither made nor handed out twice |
| Result cache: `infra/result_cache.py` | LRU entries, byte counter, generation, registry of loads in flight | `get_or_load`, eviction, expiry, `clear`, `aclose` | shared loads, disconnects, done callbacks in the wrong order, a clear in the middle of a load | identical work once, nobody loses a load, cleared stays out, exact counter |
| Hot swap: `infra/hotswap.py` | names and contents of databases, a release ledger and cache in each, the HOT_SWAP lock of the maintenance database | plan, lock, two renames with undo, smoke test, automatic and manual rollback, release | a plan that is older than the lock; renames that are no transaction; crashes; the ledger that comes with a backup | the serving name exists, a way back leads back, the release is recorded where the swap went, no foreign token |
| Backups: `infra/backup.py`, `infra/backup_schedule.py`, `infra/backup_janitor.py`, run-due and the artifact endpoints of `api/routers/admin.py` | `ops.artifacts` rows, archives and `.part` files, the BACKUP_SCHEDULE and BACKUP_JANITOR locks | the backup job, delete, expire, run-due | row and file change one after the other; four actors without a common lock; a path chosen long before it is filled; rows of jobs that end before their workers do | an available backup has its archive, the newest are kept, run-due has one backup queued or running |
| Restores: `run_restore_job` of `infra/backup.py` over `load_job_bridge.py` | the target database, the job's own row, the maintenance window, the log artifact, the candidate release | new_database and replace_current, with checks, clean-up, row reinsertion | a restore that wipes the tables which control it; two restores into one name | a job is cancelled only when asked; what a finished restore made stays |
| Source groups and match sets: `infra/source_group_service.py`, `infra/source_match_set_service.py`, `infra/source_rebuild_service.py` (rollback), `infra/source_reconcile.py` (resolve actions) | groups, sets, open transactions with their row locks, the SOURCE_MATCH_ACTIVATE lock | changes of a file, of its group, propagation to the sets, validate, activate, roll back, retire, relink, revalidate | READ COMMITTED: transactions that lock different rows and read each other's; changes of a file that the group is not told of | one active set, what a group loses is seen by every set, sets walk their lifecycle |
| Uploads: upload endpoints of `api/routers/admin.py`, `infra/source_upload_repo.py`, `register_upload_session`, `infra/source_janitor.py`, `infra/source_reconcile.py`, and what groups do to their files | sessions, slots, multipart uploads and objects of the storage, `ops.source_files`, the janitor's facts, the scan and its reports, deletions under way | create, initiate, put, complete, abort, replace, register; expire; soft-delete, restore, revalidate, quarantine; scan, resolve, delete, retry a deletion, bulk delete | many calls per request, none of them atomic with the next; retried and late requests; decisions on old views | progress is true, one session collects, the janitor ends nothing registered, the object of a registered file stays unless somebody deletes that file |

The job control plane, the batch and the result cache are complete up to the omissions
of section 8; the others are partly modelled, the notes in `PROJECT.json` say how far.

### Not modelled, or only through their neighbours

| Component | Why, and what is planned |
|---|---|
| Reconciler paging and starvation | `LoadJobs` models one page; limit, keyset cursor and time budget over many rows are planned (`ReconcilerScan`) |
| Advisory locks | where they are used: `ServingReleases`, `HotSwap`, `Backups`, `Sources`; the other names each make one command exclusive |
| Source restore (stubs of restored sets) | in `Sources`; the scan of a backup's manifest is I/O |
| Source rebuild and resume | the stale sweep is in `FullLoadBatch`, rollback and quarantine in `Sources`; resumption and repair are planned (`SourceRebuild`) |
| Loaders, consistency SQL, post-load SQL, warm-up | one step each that succeeds or fails; what they compute is data no modelled state depends on |
| Dagster definitions and resources | wiring; the engine is external and modelled from its use |
| Lookups, address parser | read-only SQL and pure string functions tested by tables of examples; their concurrency is in `LookupPath`, their freshness in `ServingReleases` and `HotSwapAnswers` |
| Public API keys, request security | one row per key and a process cache; planned last |
| External geocoders, GeoIP, inventory, observability, HTTP layer, DTOs, settings, CLI, UI, migrations, scripts | no shared state a property could be about |

`PROJECT.json` lists the components with their files, and 40 hazards: the places, by
line, where this code can go wrong in a way a unit test would hardly reach. Each names
the properties that would catch it or says why none does yet. The properties of the
modules were chosen from that list.

## 2 Modules and the code

| Module | Models | State and actions, and the code they stand for |
|---|---|---|
| `LoadJobRow` | one row of `load_jobs` | A guard (the WHERE clause) and a row (the SET clause) for each single-row writer: `CanAdopt`/`Adopted`, `CanMarkDone`, `CanMarkTerminal`, `CanMarkLaunchFailed`, `CanCancel`, `StillAsObserved`; `ReconcileOutcome` is the pure decision table `reconcile_load_job` |
| `LoadJobs` | the control plane | `InsertJob` … `SettleLaunchError`: `_launch_control_job` (request sent, answered, failed, settled are four steps, the request itself a message that can arrive late or never). `CancelRead`, `CancelWrite`, `CancelPropagate`: `cancel_load_job_converged`. `Adopt` … `MarkCancelled`: `execute_load_job` of the bridge and `LoadJobExecutor`. `FetchPage`, `Probe`, `Apply…`: `DagsterJobReconciler`. `AcceptLaunch`, `Reexecute`, `OperatorTerminate`, `PurgeRun`, `RecordEnd`, `RecordDeath`: Dagster, external |
| `JobLifecycle` | abstract | a job is claimed at most once, executed by its claimant only, decided once |
| `FullLoadBatch` | a batch and everybody who writes its rows | `pc`/`stage`/`exit` follow `_run_full_load_batch`, `_drive_child` and the bridge: `Raise` is an exception that passes `_cancel_queued_children`, `Leave` one that does not; `Publish` is a transaction with `load_job_publication_guard` in it. Admin cancel, reconciler, eviction and `_sweep_stale_jobs` are actions that may come between any two |
| `BatchPublication` | abstract | publication step by step, only while running; done only when everything was published |
| `ServingReleases` | ledger, loads, stamped lookups | `BeginPublish`, `Scan`, `Decide`, `Commit`: `record_mv_refresh_release` and `_insert_dataset_snapshot_and_release`, with the scan before and `Judged` under the advisory lock; `BeginBackfill`, `DecideBackfill`: `fingerprint_active_release`; `deleting` is the uncommitted deletion of `geo_cache`, which a hit or a store of the same row waits for. `UseStamp`/`ReadStamp`: `DatasetRefCache`; `Hit`, `Compute`, `Store`: the cached lookups of `client.py` |
| `ReleaseChain` | abstract | what the ledger promises consumers: releases are added at the end of one chain, only the token of the newest may still come, an answer is no older than the release it names |
| `Admission` | admission control | `ScopesFor`: `scopes_for_path`; `sem` is `asyncio.Semaphore` of CPython 3.12 with its FIFO queue and its grants (external); `Freed` is its `release`, `Left` the `finally` of its `acquire`, which wakes as many waiters as there are slots; `Proceed` is the loop over the scopes up to the next wait; `Timeout`, `CancelledWaiting`, `Finish` the three ways out. `lost` is a ghost |
| `ResultCache` | the process-memory cache | what a task does between two awaits is one action: `Hit`, `Join`, `Start`, `Bypass`; `LoadOk`/`LoadEnds` and `Finished` (the done callback) are separate, since other tasks run in between; `StopWaiting` is the `finally` of a waiter; `Clear`, `Close` |
| `LookupPath` | a public lookup | extends `ResultCache` and composes it with an instance of `Admission`: `AskCache` is the lookup of a request that is being served; `gone` are requests whose client has left (`ClientDisconnectCancellationMiddleware`); admission and the lookup are undone in either order, as the middlewares' tasks may be |
| `HotSwap` | swap and rollback | `catalog` binds names to databases, `db` is what each holds: content, active release, token, loads not yet released. `Plan` is every check before the lock; `Lock`, `FingerprintSource`, `StepAside`, `TakeName`, `Smoke` and `Record` follow the request under it, `AfterFailure` its compensations; `Crash` may come anywhere and frees the lock with the session. `was` (the catalog at the lock) and `accident` are ghosts |
| `HotSwapAnswers` | lookups during swaps | extends `HotSwap` by requests that read the stamp, compute and store in whatever database has the serving name at that moment |
| `Backups` | backup jobs and their archives | `Submit`, `Begin`, `Archive` … `Finalize`, `CleanUp`: the endpoint and `run_backup_job`, each a commit or a file operation. `job` is how far the worker is, `open` whether its row in `load_jobs` is queued or running: `EndRow` is a cancel, an eviction or the verdict, and the worker may go on after it. `FreePath` is `safe_artifact_path`; `Unlink`, `MarkDeleted`: the delete endpoint; `List`, `Take`, `MarkExpired`: a janitor's pass over the listing it has made; `Trigger`, `ReadLast`, `ReadActive`, `Enqueue`: run-due, which goes by the rows. `Submit` admits any retention class, `scheduled` too, without BACKUP_SCHEDULE. `cron` names the jobs of run-due, `excused` and `doomed` whose archive somebody else may have taken |
| `Restores` | restore jobs | `CheckNew`, `CheckReplace` … `Finish`, `CleanUp`: `run_restore_job`; `Poll` is the bridge's poll, heartbeat and progress check of the own row; `tables` is whether `pg_restore` has dropped, recreated or refilled `load_jobs` and `ops` |
| `Sources` | groups and match sets | a transaction is a walk `idle → changed → propagating` (a group; `derived` before it, if it reads the group unlocked and waits for its row only at the UPDATE) or `idle → checked → judged → weighed` (a set), its rows locked from the step that touches them and its writes visible at its last step. `file` is the row of the file, `group` what has been derived from it: `FileLost` (a reconcile run without mass loss) and `ResolveDuplicate` (a report without a group id) change the one and not the other. `Effect` is the propagation that `core/source_match_propagation.py` decides. `raced` collects the sets about which two transactions missed each other, `untold` the groups whose file has changed without them |
| `SourceUploads` | uploads, registration, janitor, reconciliation | a request is a walk from call to call: `FindSession`/`InsertSession`, `Initiate`/`Initiated`, `UploadPart`/`RecordPart`, `Complete` … `RecordCompleted`, `AbortUpload`/`Replace`/`ReplaceSlot`, `BeginRegister` … `FailRegister`; `Raises` ends one at any point. `LoadFacts` … `JanitorEnd`: a janitor's pass; `SoftDelete`, `Restore`, `Revalidate`, `Quarantine`: what a group does to its files; `ListObjects`, `LoadRows`, `Report`: a scan; `Resolve`: resolutions that only write the row. An object is deleted by `DeleteObject` and `RetryDelete`, of a report with or without a row and before the row is told, and by `PlanHardDelete` and `HardDelete`, the bulk deletion of a soft-deleted or quarantined file or of an object without a row; `CommitDeletion` tells the row, `DeletionDies` does not. `order` is a deletion under way. `revived`, `early` and `ordered` are ghosts: sessions written to after their end, files that became live under a decision made without them, files that somebody chose to delete |
| `MC…`, `…Proofs` | | instances for TLC; theorems and proofs |

Conventions. A definition has the name it has in the source where there is one. The
operators marked "Faulty" are plausible mistakes in the definition next to them;
`PROJECT.json` pairs each with the property that detects it. Model bounds are the
constants `Max…`, and only those.

Abstractions shared by all modules: a transaction is one action at its commit, unless
it holds a lock or acts on what it has read across steps that matter (`ServingReleases`,
`Sources`, and the counted or created session of `SourceUploads`); what a payload contains is
left out; a write that is refused (`lock_timeout`, lost connection) is an outcome of its
own.

## 3 Runs

| Run (`.cfg`) | Question and answer | Bounds and why they are enough |
|---|---|---|
| `LoadJobsSafety` | Does a job ever have two executors, work after a 502, a false or a changed verdict, an unjustified eviction; does the control plane implement `JobLifecycle`? No, no, yes. | One job: jobs share nothing but the reconciler's page. Two runs: a lost launch answer plus its repetition or re-execution is what can compete. `LeaseTTL` 1 and `MaxTime` 3: a lease can be renewed, observed, renewed again and expire. No restart: the API process's steps are already lost or delayed freely |
| `LoadJobsLiveness` | Does an abandoned running row end; does a run behind an ended row get terminated? Yes, under the fairness of section 4. | One run, one API restart; no symmetry, which would be unsound for liveness |
| `FullLoadBatch` | Order of stages, vetted publication, whole batches, implements `BatchPublication`; do all running rows end when the process is gone? All hold. | Two sources: with one there is no "next source" for an error to reach, with three nothing new happens; forced and unforced gates; one run, since `OneExecutor` of `LoadJobs` allows no second. `RunningRowsEnd` under the fairness of section 4 |
| `ServingReleases` | Chain of releases, truthful tokens, unchanged history, answers no older than their label. All hold. | Two writers race, two rows after the first make a chain with a middle, two loads make "overtaken" and "loaded back" possible. One lookup spans a whole activation, and rows stored by an earlier lookup stay in `geo_cache` for the next one (`Forget` starts it) |
| `LookupPathSafety` | Are slots conserved, global slots free of requests that wait elsewhere, loads always wanted? Yes. | Three requests on an endpoint of one slot under a global scope of two, one endpoint without a scope of its own and one outside of the global scope: one serves, one is granted, one waits. One load in flight, so bypasses happen; two keys; one clear |
| `LookupPathSlots` | Is the number of slots in use the number of requests that hold one? **No**, see section 6. | as above |
| `ResultCacheSafety` | Exact byte counter and budget, no stored answer of before a clear, one load per key, no request hurt by another's disconnect, no join of a load of before a clear. All hold. | Three requests (two share a load and one starts another), three keys, weights 1, 2 and 4 under a budget of 3 (fits with another, evicts, never fits), two loads in flight of three identities, one clear or close |
| `HotSwap` | Is the serving name ever lost without a crash or failed repair, does an undone swap restore the names, is the release recorded where the swap went, does a foreign token stay? No, yes, yes, no. | Two databases and three names: a source, a serving and an aside name; two requests: one holds a plan while the other swaps. One maintenance database. Four releases: two of before, one per request |
| `Backups` | Does an available backup have its own archive, does the janitor keep the newest, has run-due one backup queued or running at most? Yes. | Two backups that may ask for the same name, one archive to keep, so that the second is one too many; two calls of run-due; the janitor may crash and come again. Two scopes, which share no state but the artifacts: the schedule, with rows that end at any moment and backups submitted beside it, and retention. 7 million states |
| `Sources` | One active set, no unseen loss, the lifecycle. All hold. | Two transactions, in two scopes: one group and one set with everything that can happen to the file, told or untold; and two groups in two sets with the transactions that lock their group, where both sets refer to the group that is lost, and each pair of transactions overlaps in every order. Contents of files are in `SourcesHash`. 2.3 million states |
| `RestoresWiped` | Is a restore cancelled only when somebody asked? **No**, see section 6. | One restore, two databases |
| `SourceUploads` | True counters and states, one collecting session, nothing registered is ended, the object of a registered file goes only when somebody deletes that file, or by a decision without its row from before. All hold. | Everything at once is too large, so `MCSourceUploads` has six scopes: one session of two files with two uploads and two requests; two sessions of one category with two requests, or one with two uploads, beside the janitor; two sessions, or one with two uploads, of one request beside a reconciliation and deletions of objects without a row (requests share nothing with these but what they leave between their calls, and one request may be cut off at any of them); one session of one file with everything that may become of a registered file. A completion and a replacement race in the first; a late request, a new session and the janitor, a scan or a deletion in the others. One deletion at a time: a second one adds nothing that `early` and `ordered` tell apart. 1.5 million states |

`CHECK_DEADLOCK FALSE` stands in the runs where the system really stops: when time, runs,
releases, backups or sessions of the instance are used up and every actor is at rest
(`LoadJobs`, `FullLoadBatch`, `HotSwap`, `Backups`, `Restores`, `Sources`,
`SourceUploads`). The other models never stop and are checked for deadlock.

The runs of expectation "violation" check one property each, a sentence of the
repository's own documentation. The type invariants of the modules with proofs are
proved and not run, except for `ResultCache`, whose type invariant is run. The further
configurations of section 7 are not listed in `PROJECT.json`.

## 4 Fairness

Safety runs use `Spec`, without fairness. The recovery runs use `FairSpec`:

- `LoadJobs`: weak fairness of `Tick` and of the reconciler as a whole (a timer in a
  process that is restarted when it dies), of a launch or cancel request that has begun
  (a coroutine that nothing blocks for ever: its RPCs have timeouts), of `Interrupt`,
  `MarkCancelled`, `RecordEnd` and `RecordDeath` (Dagster's run launcher and run
  monitoring). Strong fairness, for each job, of a probe that gets an answer, of
  `ApplyConverge` and of `ApplyOrphan`: Dagster may be away and a write may be refused
  any number of times, but a row looked at again and again is not met by a failure
  every single time. Nothing is assumed of the leaf, which may hang, of the admin, or of
  a launch request that is under way in the network.
- `FullLoadBatch`: weak fairness of `Converge(n)` (what `LoadJobs` shows of the
  reconciler), of handlers that have begun to settle an error or a cancel, and of the
  worker's `Clean` and `Unwind`, which are already on their way out. `Crash` may still
  take the worker there.

Neither of the two assumes that anything is ever submitted, launched, or finished.

The other modules state no liveness: backups, swaps, restores and uploads promise no end.
An operator may leave a plan, a client an upload, and a crashed restore waits for
somebody to look at it. What the janitors do for them is repeated by timers that the
models leave out.

## 5 Proofs

`tlapm` checks all of them. The theorems to know are listed in `PROJECT.json`; the
others are lemmas. Assumptions are those of the modules, named at the constants:
`RowAssumption` and `LoadJobsAssumption` (null values are not ids, the lease is
positive), `BatchAssumption`, `ServingAssumption`, `CacheAssumption` (requests are
finitely many, limits and weights positive), `LookupAssumption`, `HotSwapAssumption`, `BackupAssumption`,
`SourcesAssumption`, `UploadsAssumption`. TLC evaluates each of them in a run. No
bound is assumed: the theorems hold for every number of jobs, runs, sources, writers,
requests, releases, keys, loads, databases, backups, groups, sets, transactions, sessions
and uploads. One assumption is about the deployment: `OneLockDb`, see `HotSwapProofs`.

**`LoadJobsProofs`**: `TypeOK`, `OneExecutor`, `RejectedNeverRuns`, `DoneIsSuccess`,
`VerdictIsFinal`, `EvictionJustified`, and that the control plane implements
`JobLifecycle`. None of these is inductive. The invariant adds that the row of a job
names exactly the run that entered its leaf (`OwnerInv`; hence one executor: two runs in
`ran` for one job would both be the row's owner), what run store and processes know of
each other (`RunsInv`: a `success` in Dagster implies a `done` row), what the launch
request may conclude (`ApiInv`: rejected means ended and unowned, for good), and that
what the reconciler saw and decided is still true where it cannot change (`RecInv`: a
lease found invalid stays invalid unless renewed, and then the compare-and-set fails).
The refinement maps phase and owner to the row and the executors to `ran`.

**`FullLoadBatchProofs`**, for any number of sources, none included: `TypeOK`,
`InOrder`, `PublishedIsVetted`, `DoneBatchIsWhole`, implementation of
`BatchPublication`. The invariant is about `stage`: rows before it are done and stay
done, rows after it have not begun (`StageInv`); from the swap on the gate was open and
each step of the publication is where it says (`PublishInv`). Other writers are treated
at once by a lemma: none of them makes a row running or done.

**`ServingReleasesProofs`**: `TypeOK`, `HonestFingerprint`, `LinearLineage`,
`FreshAnswers`, `HistoryIsFixed`. The ledger has one head (`HeadInv`), whoever holds the
lock has decided about the ledger as it still is (`TxnInv`), and a scan made for the
release that is still active is the scan of the data that is served, unless another
writer owes a release (`ScanInv`): that is why the comparison under the lock is enough
although the scan ran without it. `FreshInv` extends freshness to `geo_cache` and to the
stamp.

That the module implements `ReleaseChain` (`ImplementsChain`) follows from the same
invariant and one about the consumers (`ConsumerInv`: every stamp and every key of
`geo_cache` names a release that was activated, and no answer is newer than the data).
The mapping shows the activated releases without their state, and an answer from the
moment it is given under a label. A publication maps to `Publish` of its row, which may
lie several ids after its predecessor, since candidates have ids too;
a hit, a store or a store that is skipped is the `Answer`; scans, the lock, candidates,
stamps and queries are invisible.

**`LookupPathProofs`**, in four parts.

- Sharing: `OneLoadPerKey`, `SharedLoadsSurvive`, `JoinsCurrentLoads`. The waiter count
  of a load is the cardinality of the set of its waiters (`CountInv`), the registry holds
  a load under its own key and generation, every running load is in it, and a load that
  was told to stop is in it for an earlier generation only (`FlightInv`). That last
  clause is what makes the done callback's `is` comparison enough.
- Entries: `TypeOK`, `BudgetKept`, `ClearedStaysOut`. The weight of the entries is a sum,
  and the prover has no induction. `WeighIsBytes` therefore counts it as the cardinality
  of a set, the bytes of the entries one by one: putting, taking and evicting an entry
  adds or removes a block of that set.
- Slots: `SlotsConserved`, `GlobalSlotsServe` and `NoSlotIdles` (a slot is never free
  beside a waiter which nobody is going to wake). `AdmInv` says for each scope that free
  slots, grants, requests that hold one and lost ones together are its limit, and that
  ungranted waiters and free slots coexist only while a grant is on its way; the second
  half is what `Left` is for.
- Both together: a lookup is a use of the cache and of admission
  (`LookupsUseBoth`: the composed specification implies those of `ResultCache` and
  `Admission`, so that what is proved of a component alone holds of the lookup),
  a load that nobody stopped has a waiter that is being served or undone
  (`LoadsAreWanted`), and the types of the whole state (`PathTypeOK`).

**`HotSwapProofs`**. `ServingNameKept` needs no lock: a rename only takes a name that is
free, so that whoever has moved the serving database away has put it under a name of its
own. `HonestToken`, `RolledBackAsBefore`, `RecordedWhereSwapped` and `OneSwapAtATime` are
proved under `OneLockDb`: all requests name the same maintenance database. PostgreSQL's
advisory locks are local to a database, and without it the lock excludes nobody (section
7). The invariant of the walk says for each step of the holder of the lock what the
catalog has become since it took it (`Walk`): two bindings have moved, and no others.

**`BackupsProofs`**: `OneScheduledAtATime` (`ScheduleInv`: between its reading and its
insertion the holder of BACKUP_SCHEDULE still sees no queued or running backup of
run-due, since rows of that kind are only inserted under the lock and a row that has ended
does not open again; what others submit as scheduled is outside of the claim) and
`AvailableHasArchive`. The latter rests on `ClaimInv` and `FileInv`: of the unexcused
jobs at work on a path one at most has it, and what lies there is what its step says.
`MinimumKept` rests on `MinInv`, which TLC checked first: as long as nobody else has
interfered, every archive that the janitor has taken, and every row of its listing that
it has not come to yet, has at least `KeepMin` newer archives that exist. A row counts
among the newest of a listing although its archive may already have been taken; then
what was kept for that row is newer still, so that the newest such row has the whole
number above it (`ListedKept`). Taking an archive takes it from the older ones that
counted it, and they still have everything that was kept for it (`TakeKeeps`); a backup
that finishes during a pass only adds (`NothingLost`).

**`SourcesProofs`**: `OneActive`, `LossIsSeen`, `WalksLifecycle` and, checked with
`SourcesHash`, `ActivatesWhatWasValidated`. A row that a transaction holds is as it was
read (`Shape`); one transaction at a time is past its judgement (`SwapInv`). `LInv`
relates what a transaction has read without a lock to what is committed now, for the
sets outside `raced`: a loss that is being propagated has either found the set or makes
the set `raced` when it commits. `KInv` is about the files: a group outside `untold`
is bad when its file is lost, and so is what a transaction is about to write to it.
What is claimed is therefore less than the reconcile API promises: a file that is lost
without a word to its group is lost unseen (`SourcesFileLoss.cfg`, section 7).

**`SourceUploadsProofs`**: `ProgressIsTrue`, `OneLiveSession`, `EndedHasNoFiles`,
`RegisteredObjectKept`. A request that has counted holds the session, so that its count
is still that of the slots (`Works`, `Apart`), and one that creates a session holds its
category; a registered session is `registered` unless it was revived, which is why the
janitor's guarded update cannot touch it (`EInv`). `KInv` is about all that may yet take
the object of a registered file away, or has done so: an open report without a row, a
deletion that is under way, a scan that has read the rows and not yet reported. Each was
chosen for that file (`ordered`), or was there when the file was registered or restored
(`early`). What makes it inductive is that a run which reads the rows of a registered file
finds it, in whichever of its states, and never again reports it as without a row; that a
registration makes every report on the rows that it replaces one without a row; and that
a group changes files by steps after which the decisions are as they were
(`RewrittenKeeps`). One lemma carries all requests that only talk to the storage, one all
that end with a change of a session, one the janitor, one the groups, one the
reconciliation, one the deletions.

Every invariant and action property of the passing runs is stated by one of these
theorems, and so are the refinements. Only model-checked: liveness (`AbandonedRowEnds`,
`OrphanRunEnds`, `RunningRowsEnd`; out of the prover's reach, as is ENABLED); the two
violations; the properties of `Restores` and `HotSwapAnswers`, which are violated; and
the further configurations of section 7.

## 6 Where code and docs differ

`PROJECT.json` has them in full, with lines.

1. `LookupPathSlots`. A client that disconnects while its request holds the endpoint's
   slot and waits for the global one leaves through `CancelledError`, which the
   middleware does not handle there: the slot stays taken for the life of the process.
2. `RestoresWiped`. A restore over the current database wipes `load_jobs`. The bridge
   that polls the job's row finds none, takes that for a cancel and stops the restore
   half way, before the row is put back.

## 7 What else the models show

Configurations that are not runs of `PROJECT.json`: each states a sentence about the
code, and TLC finds the counterexample, except for `SourcesHash.cfg` (the properties of
`Sources` with changing files) and `ServingReleasesChain.cfg` (`ServingReleases` implements
`ReleaseChain`, beside `ServingReleases.cfg` because the two together take too long),
which pass.

| Configuration | Sentence | What happens |
|---|---|---|
| `LoadJobsQueuedOrphan.cfg` | `docs/architecture/dagster-boundary.md:123`: Dagster's verdict reaches the row | the reconciler scans running rows and ended rows with a run (`api/_reconciler.py:152`); a run that ends before its worker adopts the row leaves it queued, as does an API that dies between insert and launch |
| `FullLoadBatchStranded.cfg` | `infra/admin_repo.py:2172`: queued children end with their batch | they are cancelled only when an exception comes out of `_drive_child` (`batch_dag.py:850`); a batch that ends between two stages strands them |
| `ServingReleasesEqualTokens.cfg` | `dto/v2.py:48`: equal tokens, equal data | an answer computed between a load and its release (`batch_dag.py:472`) has the old token on new data |
| `HotSwapLocks.cfg` | the comment at the lock: a second call fails fast | two requests with different maintenance databases hold two locks, since advisory locks are local to a database |
| `HotSwapAnswers.cfg` | `dataset_ref.py:4`: a cached answer is of the release it is stored under | a request stamped before the swap computes on the new database; after a rollback its row is served |
| `SourcesFileLoss.cfg` | `source_reconcile.py:575-577`: a resolution that changes a state is followed by the sets | a reconcile run without mass loss marks a file missing and recomputes nothing (`source_reconcile.py:204`, `333`), and a report on a duplicate has no group to recompute (`311`, `710`): a validated set keeps a lost file |
| `SourcesReattach.cfg` | a restored set whose groups are all there is offered again | two groups relinked at once each see the other still missing |
| `SourcesInvalidated.cfg` | `docs/adr/049…:26`: an active set keeps its state when a group is lost | the group's transaction reads the set before an activation commits and then writes `invalid` by id (`_referencing_match_sets`, `_apply_transition`) |
| `RestoresKept.cfg` | a finished restore's database stays | two restores find the same name empty, the one that fails drops it by name |
| `SourceUploadsPending.cfg` | `core/source_reconcile.py:313`: what waits for its registration is never a candidate for deletion | the newest session of the whole bucket classifies every object, so that a registration elsewhere makes a pending object `object_missing_db` |
| `SourceUploadsOverwritten.cfg` | `_slot_object_key`: a later upload cannot touch a registered object | the key is that of session and slot; a late completion after the registration writes over it |
| `SourceUploadsEnded.cfg` | `dto/source.py:213`: an ended session cannot be resumed | a late initiate, replacement, failed completion or failed registration writes the state of any session |

Met while modelling, and inside the models as behaviour: a retried completion ends a
complete session as `failed_storage_state` (`admin.py:771`); a completion without a
recorded part stores its object and then fails; an abort that fails is not retried, since
the session is set `cancelled` in the same pass; objects are listed before rows are
loaded, so that a file registered in between is reported missing; a delete by an old row's
path removes the newer archive of the same name; a cancelled or evicted backup is no longer
active for run-due while its worker still dumps, and a backup that is submitted as
`scheduled` (`dto/admin.py:153`) takes no lock, so that two scheduled backups can be at work;
a report without a row is resolved by deletion after its object has been registered, and
`retry_delete_object` deletes the object of any report without looking at anything
(`source_reconcile.py:793`); `delete_object` deletes in the storage before its transaction
commits, so that a failure leaves an `available` row without an object; the bulk deletion
orders the reports on objects without a row by `created_at`, a column that
`ops.source_storage_reconcile_items` has not (the model lets it succeed); a backup that fails after it became
available flips to `failed` and leaves its archive; a failure after
`record_restore_candidate` drops the target and leaves the candidate pending; a retired
draft without a hash is refused by the CHECK on `source_set_hash` although
`decide_retire` allows it; `_backup_manifest_present` asks for an artifact state that the
table forbids.

## 8 What the models leave out

- `LoadJobs`: progress, stage, log tail; page limit and cursor of the reconciler; a
  commit that succeeds although its acknowledgement is lost (`WriteFails` is a refused
  write). Time is a clock of ticks, the same for database and processes.
- `FullLoadBatch`: the loaders, the report and the MV build are single steps. The
  admission of a resumption (whether an earlier batch may be resumed) is not modelled: a
  resumed batch is `NumSources = 0`. Time is absent: a lease may be found expired at any
  moment at which the run record may be missing, which is more than the code allows.
  The read that precedes an admin cancel is folded into the cancel; `LoadJobs` has it apart.
- `ServingReleases`: one database (`HotSwap` has several); the fingerprint is injective;
  an answer reads the data in one statement, while some lookups use several. The stamp
  may be used or expire at any moment, the ten seconds of the code bound that. The
  process-memory cache in front of `geo_cache` uses the same release in its key and is
  modelled apart.
- `Admission`: the order of middlewares other than those named; requests are asyncio
  tasks, so nothing happens between two awaits.
- `ResultCache`: payloads, metrics; `clear` is public, while the client reaches it
  through `aclose`. The budget is positive: with zero the client goes past the cache.
- `HotSwap`: the restore drill; the checks of windows, versions and schema revisions,
  which can only refuse; sessions that reconnect while connections are terminated.
- `Backups`: copies and verification of archives, free space, callbacks, scratch
  databases; an advisory lock whose session is lost while its holder goes on. `due` and
  `recent` stand for the clock.
- `Restores`: leases and the adoption by two runs (`LoadJobs`); partial restores.
- `Sources`: a group has one file and a transaction one group (mass loss and the bulk
  deletion take several, one after the other); aggregation over several files, omitted
  items, hashes other than "which content"; the audit rows. The bulk deletion reads its
  candidate in the step that deletes it; `SourceUploads` has the two apart. A loss that
  transactions miss (`raced`) or that a group is not told of (`untold`) is outside of
  `LossIsSeen`.
- `SourceUploads`: one part per multipart upload, no two of the same content; which limit
  a session has passed is open; deadlines that a reconciliation extends and the reports
  `registration_expired` that come of them are left out, and so are stubs of restored sets
  and the epost fetch, which does all steps in one request. Whether a file that is there
  is reported (size, hash, duplicate), and whether another report of the kind that is
  resolved is open, is left open. That the object of an active set is not deleted by a
  report (`_deletion_guard`) or in a bulk is left out: deletions are more than the code
  allows. TLC has one deletion at a time, the proofs any number. The janitor looks at one session and the scan at one key: what is
  decided for the others does not depend on it. The S3 client is external.
- `JobLifecycle`, `BatchPublication` and `ReleaseChain` are specifications, not models of code.

The models are of the code that keeps shared state. Most of the repository is not: SQL
text, loaders, parsers, DTOs, routers, the UI client, benchmarks and scripts. They make
up the lines that no definition is mapped to.

## 9 Plan

1. `ReconcilerScan`: pages, cursor, budget; every row is looked at in the end.
2. `SourceRebuild`: launch under its lock, resumption of a failed batch, repair of the
   children's rows; the post-load maintenance steps run alone.
3. API keys: revocation against the process cache. Lost acknowledgements in `LoadJobs`.
4. Proofs: an abstract swap (one serving database, its ledger tells which) with its
   refinement; an abstract janitor for `Backups`; what `Restores` does keep.

## 10 Reproducing

    tlasany LoadJobs.tla
    tlc -workers 2 -config LoadJobsSafety.cfg MCLoadJobs.tla
    tlapm LoadJobsProofs.tla

Each run ends within a few minutes on two workers. The module of a run is in
`PROJECT.json`; `HotSwapLocks.cfg` belongs to `MCHotSwap`, `HotSwapAnswers.cfg` to
`HotSwapAnswers`, `Sources….cfg` to `MCSources`, `RestoresKept.cfg` to `Restores`,
`SourceUploads….cfg` to `MCSourceUploads`, `LoadJobsQueuedOrphan.cfg` to `MCLoadJobs`,
`FullLoadBatchStranded.cfg` to `FullLoadBatch`, `ServingReleasesEqualTokens.cfg` and
`ServingReleasesChain.cfg` to `MCServingReleases`.
