# AuraScholar: TLA+ models, model checking and proofs

AuraScholar is a local-first research desktop application (Electron, TypeScript, SQLite). This directory
holds TLA+ modules translated from its source, TLC configurations that check them on small instances, and
TLAPS proofs of theorems about them for every value of the constants. `PROJECT.json` is the index: which
definition models which lines, what each run checks, which bug in the code each property would notice, the
disagreements found, the hazards of the code and the theorems.

Run a model with `tlc -config <name>.cfg <MC module>.tla` and a proof with `tlapm <module>.tla`, in this
directory. Abbreviations below: `main/` is `apps/desktop/electron/main/`, `repos/` is `packages/db/src/repos/`,
`sync/` is `packages/sync/src/`.

## 1. Inventory of the system

One main process owns the database (SQLite through a coordinator that runs one unit of work at a time), files
and network; one renderer shows pages and talks to it over IPC. Background work runs in the main process, between
the renderer's commands.

| Component | State | Operations | Talks to | Hard behaviour | What makes it correct | Status |
|---|---|---|---|---|---|---|
| Knowledge outbox, jobs, worker, executor (`repos/knowledge-*.ts`, `knowledge-worker.ts`, `main/knowledge-executor*.ts`, `main/knowledge-outbox-dispatcher.ts`) | `knowledge_changes`, `knowledge_jobs` (status, attempts, lease), derived ContentUnits, `extraction_status` | append on edit, dispatch, claim, start, renew, execute, complete, fail, cancel, recover | canonical repositories append rows; dispatcher timer runs workers | leases expire under a live worker; source edited between read and write; crash at every step | settled job means fresh units; only the newest change writes; nothing strands; every change settles | `KnowledgeQueue` |
| Row synchronization (`sync/engine.ts`, `apps/desktop/src/shared/sqlite-sync-storage.ts`, `main/sync-runner.ts`) | rows, row clocks, push sequence and watermark, pull cursors, remote journals | project, pull, merge, recover, push, acknowledge | WebDAV store shared with other devices | run stops between upload and acknowledgement; devices interleave; clocks differ | segments immutable, no wedge, nothing forgotten, cursor means merged, merge by recency | `SyncRows` (partly) |
| Close lifecycle (`main/close-lifecycle*.ts`, `electron/preload/close-lifecycle.ts`, `services/exit-barriers.ts`, `SpatialCanvasPage.tsx`) | pending/held/replayed request, permits, timer, dialog; in the renderer the runs, the document lock, the dirty document | close, quit, replay, respond, hold, time out, force, stay; receive, cancel, flush, prompt | main and renderer over IPC; stops the dispatcher | answers cross cancellations; timer races the answer; flush hangs; page vetoes its unload | closed means saved or forced; permits are one-shot; lock released; request decided | `CloseLifecycle` |
| PDF staging and blob collection (`main/library-pdf-staging*.ts`, `library-pdf-blob-gc.ts`, `library-staged-pdf-claim.ts`) | receipts, reservations, pins; journal of staged counts and orphaned hashes; blobs on disk; rows that refer to them | stage, retire, claim, verify, release, consume, collect, recover | ingest and purge transactions, sync, file system | crash between journal, file, receipt and commit; a collection races a stage or an import of the same bytes | no receipt and no row loses its bytes, every blob is known to a row or the journal, limits count calls in flight | `PdfStaging` |
| Database coordinator, write lock (`main/database-coordinator.ts`, `repos/write-lock.ts`) | queue of work, open connection, `poisonedError` | run, transaction, rollback, suspend, drain | every repository | a rollback fails; close or restore while work is queued | mutual exclusion, no work on a poisoned or closed library | partly, in `PdfStaging` |
| Research downloads (`main/research-download-*.ts`, `services/research-downloads.ts`) | in-flight permits, receipts, leased paths, cleanups under way and failed, consume gate | admit, observe, finish, register, announce, consume, expire, close and reopen, recover | browser sessions, renderer, file system | registrations, expiry, window close and a consumer meet on one path | accounts balance, no cleanup under a consumer, every file has an owner, permits come back | `ResearchDownloads` (partly) |
| Sync reference storage (`sync/memory-storage.ts`) | rows with field stamps, tombstones | apply upsert, apply delete | engine | entries in any order | replicas converge | planned |
| Local semantic index (`main/local-semantic-index-*.ts`, `sqlite-vec-index.ts`, `repos/knowledge-indexes.ts`) | generations and their entries, vectors, the active one, an embed job each | enqueue, claim, list, embed, persist, activate, invalidate, discard | jobs, outbox, embedding provider | edits during a build; a lease that runs out while the model embeds; crash between any two transactions | writes are fenced, the active generation is complete, a search of a current one is exact, but for restored sources | `SemanticGenerations` (partly) |
| Canvas document (`features/canvas`, `repos/canvas.ts`) | document, undo history, revision | command, undo, save, conflict | repository, close lifecycle | optimistic save races edits | undo inverse, no lost update | planned |
| Late-answer controllers (discovery, reader sessions, library refresh, evidence inbox) | request generation, shown result | search, answer, cancel | main commands | answers out of order | the shown result is the latest request's | planned |
| Sentinel runs, embedding artifacts | run rows; artifact files | run, cancel; download, verify, rename | network, file system | cancel or delete during a run | no result of a deleted sentinel; only verified files | later |
| Evidence shelf, projects, collections, tags, snippets | tables | one transaction each | library | idempotent promotion | referential facts | later, small |
| AI, scholarly, translation, connectors, cite, anchors, homepage, reader model, knowledge text functions, UI, tokens, smoke harness | none that persists across calls, or presentation | pure functions, outside requests | | | unit tests | not modelled |

## 2. Plan

Order by importance: what could lose a user's work or serve stale knowledge comes first.

Done:

1. `KnowledgeQueue`, the core, and the abstract specification `KnowledgeIndex` it implements; proof modules
   `KnowledgeQueue_proofs`, `KnowledgeIndex_proofs`.
2. `SyncRows`, but for delete entries and conflict records, and the abstract specification `RowReplication` it implements;
   proof module `SyncRows_proofs`.
3. `CloseLifecycle`, and the abstract specification `GuardedClose` it implements; proof modules `CloseLifecycle_proofs`,
   `CloseSafety_proofs`.
4. `PdfStaging`: receipts, journal, collector and the transactions they share, with crashes, and the abstract specification
   `BlobStore` it implements; proof module `PdfStaging_proofs`.
5. `ResearchDownloads`: admission, receipts, consumption and cleanup, with closing windows and crashes; proof module
   `ResearchDownloads_proofs`.
6. `SemanticGenerations`: builds of the semantic index beside edits; proof module `SemanticGenerations_proofs`.

Left, in this order:

7. `SyncMerge`, the engine's per-entry merge over the reference adapter, with deletes; abstract specification
   `LastWriterWins` that it should implement; convergence as a candidate theorem.
8. `DatabaseCoordinator`: the exclusion that lets the other modules take one repository call as one step.
9. `CanvasDocument`, `LatestRequest`, `SentinelRuns`.
10. Abstract specifications for `SemanticGenerations` (a search that answers from one snapshot at a time) and `ResearchDownloads`
    (a bounded store of files with one owner each), as the other modules have them.

Modules that compose: `CloseLifecycle` composes the two processes, their channels and the state of the
dispatcher. `KnowledgeQueue` composes the repositories' outbox, the queue and any number of workers. `PdfStaging` composes the
registry, its journal, the collector, the import and the coordinator's transactions. `ResearchDownloads` composes the event
handlers, the receipt store, the renderer's consumer and the window. `SemanticGenerations` composes builds, embed jobs and
what the Library and the Knowledge pipeline do meanwhile; `Extract` stands there for all of `KnowledgeQueue`, whose
`SettledFresh` is the reason it may.

## 3. KnowledgeQueue

**Code to model.** One action is one transaction, or one in-memory step of a worker between two transactions;
the database coordinator serializes transactions.

| Model | Code |
|---|---|
| `content`, `deleted`, `trashed` | a source row (annotation, evidence, document revision) as a version number, its `deleted_at`, its Work's `deleted_at` |
| `changes`, `job` | `knowledge_changes` in seq order; `knowledge_jobs`, one per change |
| `derived`, `extraction` | the version whose ContentUnits are stored; `extraction_status` of a revision |
| `worker` | where `runOnceUnlocked` and the executor are, with the claim and snapshot they remember |
| `Save`, `SoftDelete`, `Restore` | canonical mutation plus its outbox row |
| `TrashWork`, `RestoreWork` | `works.ts` soft delete and restore, which append nothing |
| `Dispatch`, `ClaimNext`, `Start`, `Heartbeat`, `Complete`, `Fail`, `Cancel`, `CancelForSource` | the jobs repository, `ClaimNext` with the recovery of expired leases it begins with |
| `PrepareExtract`, `PersistExtract`, `ExtractThrows`, `MarkRevisionFailed`, `PrepareRemove`, `Retire`, `Reindex` | the executor's handlers, cut where it leaves a transaction |
| `LeaseExpires`, `BecomesDue` | the two comparisons the code makes with the clock |
| `Crash` | the process dies or a database error leaves `runOnce`; only the database survives |

**Abstractions.** Time is the two booleans `live` and `due` of a row. `claimNext` orders eligible jobs; the model
lets it take any, which includes the code's choice. Content is a version number; units are the version they were built
from. `matchesExpected` (the hash in a job against its source) always agrees. The `unsupported` extraction result,
`embed` jobs, `purge` and merging of works are not modelled. `Init` is an empty library or one the migration gave a
full rebuild. `cancel` and `cancelForSource` have no caller in the application; they are public
operations of the repository and therefore actions.

**What it promises.** `KnowledgeIndex` is the queue as a reader of the units sees it. A source has the version it calls for (`wanted`:
its content, or none when it is deleted), the version whose units are stored (`units`) and whether its newest change is
carried out (`settled`). `Refresh` stores the units of the source as it is, in one step, and only while a change of it is unsettled; `Settle` needs
the two to agree; `Change` is an edit or a rebuild. `ImplementsIndex` says that the queue implements this, with `settled` the existence of a
completed job for the newest outbox row: the read in one transaction and the write in another, under a lease
that may be lost in between, look like one step.

**Runs.**

| Run | Instance | Shows |
|---|---|---|
| `knowledge_claims` | 2 workers, 1 annotation, 3 edits, 2 attempts | `SettledFresh`, `UnitsNeverRegress`, `ImplementsIndex`: no interleaving of readers, writers and expiring leases leaves stale units behind a settled job, or stores units that are not the source's at that moment |
| `knowledge_workers` | 2 workers, an evidence item whose Work is trashed and restored and a document revision, 2 changes, 1 edit, 1 crash or cancellation, 2 attempts; fair | `SettledRevisionReady`, `LostIsFinal`, `NoStrandedRetry`, `JobHistory`, `FencedWrites`, `EveryChangeSettles` |
| `knowledge_restore` | 1 worker, 1 annotation, its Work trashed | a violation: `RestoredSourceIndexed` (see 9) |

Two workers and two attempts are the smallest instance in which a claim is lost, taken over and lost again while the
first owner still runs; three changes let a change be overtaken twice. `MaxChanges`, `MaxEdits`, `MaxFaults` bound
the outbox, the edits and the crashes plus cancellations. `SettledFresh` is stated for sources whose Work is not
trashed because of the finding, and the mapping of `ImplementsIndex` shows only those.

**Fairness.** `RunOnce` of each worker and `Clock` of each job are weakly fair: `runScheduledPass` schedules the next pass in
its `finally`, and time passes. No fairness is assumed of edits, of crashes, of a heartbeat or of one branch of a step: an extraction
may throw on every attempt. `main.ts` breaks the assumption after a prevented quit: see `close_dispatcher`.

## 4. SyncRows

**Code to model.** Each device has a wall clock `now`, its rows, `sync_row_clocks`, `last_pushed_seq`, `last_pushed_at` and a
cursor for each other device; `remote[d]` is the set of segments under the device's path. `StartSync`, `MergeSegment`
are `pull` with `applyRemoteSegment` (one transaction: cursor check, merge, cursor); `Recover`, `Collect`, `Put`,
`Ack`, `Settle` are `recoverPublishedSegments` and `push`; `RunStops` ends a run anywhere. `LocalEdit` is a repository that
writes one column and `updated_at`; `Bumping` are tables that write `MAX(updated_at + 1, now)`.

**Abstractions.** A value is the number of the edit that wrote it. `deleted_at` is one of `Fields`: the application's
repositories write it as a column, and all columns of a projected row carry one stamp. Delete entries and the
legacy `sync_log` path, the copy of a legacy journal into a scoped one, conflict records and the compare-and-set of
`current_revision_id` are not modelled. The queries of one snapshot are taken together. The remote store's listing and put are atomic
(WebDAV uploads to a temporary name and MOVEs). Wall clocks of different devices are independent and never go back. Runs of one library
coalesce, so a device has at most one.

**What it promises.** `RowReplication` is what the users of several devices may count on: each device has a log that only grows, of
whole rows under its own stamps; it appends only when it knows all of its log; it reads every other log from the front, without a gap or
a repetition; and of what it reads about a row the latest stamp wins the whole row. An edit may leave the stamp of an earlier entry in
force: that is what the code does (finding `MergesMoveForward`). `ReplicatesRows` says that the engine over the SQLite adapter implements this:
`LogOf` reads the entries of a journal off its segments, and `StampOf` is the stamp that `rowClocks` gives. That columns
are merged one by one does not show, because all columns of a row carry one stamp.

**Runs.**

| Run | Instance | Shows |
|---|---|---|
| `sync_journal` | 2 devices, 2 rows (one bumping), 3 ticks, 2 edits, 1 stopped run, segments of one entry | `ReplicatesRows`, `NeverWedged`, `PendingOrPublished`, `CursorMeansMerged` |
| `sync_fields` | 2 devices, 1 row, 2 fields, 3 edits | a violation: `FieldEditsSurvive` |
| `sync_stale_clocks` | 2 devices, 1 row, 3 edits | a violation: `MergesMoveForward` |

Segments of one entry make the upload of a two-row snapshot partial, one fault stops it between any two steps, and one more run
recovers. The proofs (section 10) hold for segments of any length and any number of devices, rows and stops. No liveness is claimed: a sync only starts when the user asks for it.

## 5. CloseLifecycle

**Code to model.** The first group of variables is `AppCloseLifecycleState` and the closure of `close-lifecycle.ts` (request,
hold, replay, permits, timer, dialog); `replays` are the callbacks `setImmediate` has queued. The second is the renderer: `waiting` and `run` of the preload
coordinator and the exit barriers, `lock` (`exitPreparationRequestIdRef`) and `dirty` of the canvas page. `toRenderer` and
`toMain` are the IPC channels, in order. One action is one event-loop callback: events of the window and application
(`UserCloses`, `UserQuits`, `ReplayClose`, `Unload`), messages (`HandleMessage`, `Receive`), the timer and the dialog
(`TimerFires`, `DialogAnswered`), and the barriers' promises (`EditorsPrepared`, `Flushed`, `FlushFails`, `PromptAnswered`).

**Abstractions.** One life of one window: reopening it (macOS) is a new instance. The canvas page is mounted while the
application is subscribed; navigation, unmounting and undo of a failed optimistic change are left out. A page's
`beforeunload` handlers are a choice of `Unload`. A flush is one step that succeeds or fails, and may never be taken in
the safety runs.

**What it promises.** `GuardedClose` is a close as the user sees it: asked, granted (saved, or forced), leaving, closed, or back to work
with nothing left of the request; the document may change until it counts as saved for the exit. `ExitsAreGuarded` says that the two
processes implement this. `Phase` and `Intent` read the request in progress off `pending`, `replay` and `window`, a decision is that of
the replay, and the document is saved while it is not `dirty`. Permits, messages, timer, dialog and barriers are not to be seen: a permit that
outlived its request, the "permanent escape hatch" of the code's comment, shows as a window that leaves without a grant.

**Runs.**

| Run | Instance | Shows |
|---|---|---|
| `close_window` | 3 requests; fair | `ClosedMeansSaved`, `ExitsAreGuarded`, `LockIsReleased`, `BarriersRunOnce`, `CloseIsDecided` |
| `close_stranded` | 2 requests | a violation: `NeverStranded` |
| `close_dispatcher` | 1 request | a violation: `DispatcherKeepsRunning` |

Three requests allow an answer to the first to arrive during the second while a dialog of the first is still shown, and a third
after both; `MaxRequests` is the only bound. Once the window is closed the system stops: `Closed` is the only stutter
allowed there, so that any other deadlock is an error.

**Fairness.** Queued messages and callbacks run, the application mounts, the page unloads or refuses, and each barrier or
prompt ends. None is assumed of the user's closing or editing, of the timer or of the native dialog: `CloseIsDecided`
holds without them if saves end. A save that hangs is what the timer is for; `close_stranded` shows where that fails.

## 6. PdfStaging

**Code to model.** One action is what runs between two awaits of the main process; a journal operation and the continuation of the
call that awaits it are one.

| Model | Code |
|---|---|
| `pc` | a call of `stage()` and then the receipt it returned: `waiting` (for a collection), `recording` (in the journal), `writing`, then `live`, `claimed`, `ingesting`, `committed` or `retiring`; `failing` is a call whose write failed |
| `reserved`, `pins` | `pendingStageReservations`, `stagedShaPins` |
| `staged`, `orphaned`, `requests` | the durable journal (a count per hash, orphaned hashes) and the promise chain of its operations |
| `candidates`, `recovered`, `due`, `gc` | `orphanCandidates`, `recoveryCandidates`, the collections asked for, and the one of a hash past its guards |
| `tx`, `poisoned` | the open transaction of the coordinator and its `poisonedError` |
| `files`, `refs` | canonical blobs on disk; hashes an attachment or revision row refers to |
| `Stage`, `RecordStage`, `WriteBlob`, `WriteFails`, `Retire`, `Claim`, `VerifyClaim`, `ReleaseClaim`, `Consume` | the registry's operations |
| `Journal*` | `recordStage`, `markOrphaned`, `markCommitted`, `clearOrphanCandidate`, each of which may fail |
| `StartCollection` to `CommitCollect`, `Begin*`, `Commit*`, `Rollback`, `Reject*` | the collector and the transactions of the import, a pulled row, a purge and the collection |
| `Crash`, `Recover`, `RecoveryDone` | a crash keeps the journal, files and rows; recovery precedes every handler |

**Abstractions.** The coordinator's queue of promises is a single open transaction with strong fairness for those that wait, which is first in, first out
seen from outside. All PDFs have one size, so that the byte quota is the receipt limit. Several collections queued for
one hash are merged in `due`. `erased` is history: hashes whose last row a purge removed, since a purge nominates no blob for collection.

**What it promises.** `BlobStore` is staging without its machinery: bytes, receipts, rows, and the hashes `noted` durably for the next
start. Bytes are stored only when noted, and a note is given up only when there are no bytes or a row (or the history `erased`) answers for
them; a collection takes no bytes of a receipt or a row; a crash costs the receipts. `ImplementsBlobStore` says that the registry, its journal,
the collector and the transactions implement this, with `Receipts` the calls that returned and were not imported, and `Noted` the hashes the
journal names.

**Run.** `pdf_staging`: three calls of `stage()` with the same bytes, two receipts at most, a journal count of at most two, one failure and one crash
anywhere; fair. Two receipts and a call in flight are what a race between expiry, a new stage and a
collection of one hash needs; the third call exceeds each limit. Different hashes share only the journal's order, the
coordinator and the receipt limit, so one hash is the hard case for TLC, and the proofs hold for any number. It checks
`ReceiptHasBytes`, `JournalCoversStages`, `BlobsAccountedFor`, `ReceiptsBounded`, `ImplementsBlobStore` and `JournalSettles`.

**Fairness.** Promises settle, the expiry timer fires (`Retire`) and the coordinator reaches every waiting transaction. Nobody has to
stage or claim. `JournalSettles` excuses failures, because the code leaves a failed collection to a later call.

## 7. ResearchDownloads

**Code to model.** A download's name is its stream directory and its receipt. `xfer`, `origin`, `permit` are the closure of the
`DownloadItem` handlers and the in-flight gate; `entry`, `pendingBytes`, `leased`, `sweep` the receipt store; `active`, `failed`, `sweeping` the cleanup
tracker and the deletions under way; `reading`, `consumers`, `inbox` the consume gate and the renderer that was told of a receipt. `WillDownload`,
`Observe`, `DoneCompleted`, `DoneFailed` are events of Electron; `RegisterPurged`, `RegisterEntry`, `RegisterRefused`, `Dropped` are the
continuations of `register()`; `ClaimReceipt` to `Cleaned` are `consume()`; `Expire` and `SweepNext` start a deletion and `Swept` ends it;
`CloseTab`, `CloseWindow`, `OpenWindow`, `Crash`, `RecoverPath`, `RecoveryDone` are the life of the window and the process.

**Abstractions.** A name is free again when nothing remembers it; the code draws random names. The payload's bytes and its type
check are left out. A cleanup has the outcomes of `discardSafePath`: all is gone, the payload check or unlink fails and the answer is false, or only the
directory is left, which is swallowed and answered with true (`DirectoryKept`). `leaked` is history: paths a cleanup left something of.
`consume()` awaits `purgeExpired()` before it claims, so a call may outlive its window: `CloseWindow` keeps any part of
`inbox`, and a purge that awaits is the step `Expire`. The user-intent gate, printed pages and the
renderer's own queue of receipts are not modelled.

**Run.** `research_downloads`: two downloads of one and two bytes, limits that one or both reach (2 permits, 3 bytes in
flight, 2 bytes pending, one consumer), one failure, one crash; fair. Two are enough for a limit to be reached, for a second
registration to overtake the first between its two awaits, and for a consumer to meet the sweep of another. The byte limits and the
consumer's permit are reached; two downloads cannot exceed two receipts or two permits, so that a burst of registrations keeps to
those two limits rests on the theorem `AccountsAlwaysBalance`, for any number of downloads. A safety run
of three downloads and one failure, without a crash (2.3 million states), holds as well. The run
checks `AccountsBalance`, `ConsumerUndisturbed`, `FilesOwned`, `StaleReceiptsSwept`, `PermitsReturned`, `PathsReclaimed`.

**Fairness.** Electron ends each transfer with a `done` event, promises settle and timers fire. `PathsReclaimed` excuses failures:
a cleanup that failed leaves its file to the next start.

## 8. SemanticGenerations

**Code to model.** One action is one transaction of `materialize()`, or the embedding between two of them.

| Model | Code |
|---|---|
| `canonical`, `trashed`, `restored`, `latest`, `todo` | what the sources say, which of their Works are trashed, or came back (history), `MAX(seq)` of the outbox, the changes no job has executed |
| `stored` | the live ContentUnit of a source (one each, named by its content) |
| `index`, `entry`, `vectors` | `knowledge_indexes` and what `begin()` pinned; `knowledge_index_entries`; the rows of the vec0 table |
| `job`, `worker` | the embed job of a generation; a worker's place in `materialize()` with its claim and batch |
| `EnqueueBuild` | `enqueueBuild`: pin, entries and job in one transaction |
| `Inspect`, `ListPending`, `Embed`, `Persist`, `Activate`, `Invalidate`, `Discard`, `CompleteJob`, `FailJob` | `materialize()` and the worker that finishes its job |
| `Extract` | `replaceForSource` or `retireSource` of the Knowledge pipeline, with the trigger that retires entries |
| `LeaseLost`, `AbandonedLeaseExpires`, `HeldLeaseExpires`, `ProviderFails`, `Crash` | what can go wrong |

**Abstractions.** The Library is one scope that never changes, the embedding profile never changes. `claimNext` and `start` are one step, a
retry is due at once (delays only narrow what the model allows), and an aborted heartbeat is `LeaseLost`. `drained` is history: nothing waited in
the outbox when the generation pinned its units. So is `restored`: the sources whose Work came back from the recycle bin and that no
job has brought up to date since.

**What a search finds.** `SearchIsExact` speaks of all sources, and of a generation that is active, current (no outbox row is newer) and
was begun with nothing waiting. A hit is always a visible source with what it says. A visible source is a hit with one exception, which the
code has: `restoreUnlocked` appends no outbox row, so a generation that did not pin a source, because its Work was in the recycle
bin then or when its units were last made, stays current after the restore and misses it (section 9). The exception is
`s \in restored /\ s \notin Pinned(g)`, no wider: a restored source that was pinned must be found again.

**Run.** `semantic_generations`: two sources (one of a Work that is trashed and restored), two workers, two builds, batches of one, two
attempts, one edit or trashing, one fault; fair. Two batches put the edit, the crash or the lost lease between
them; two builds let a newer generation replace, or be replaced by, an older one. It checks `ActiveIsComplete`,
`SearchIsExact`, `BuildsAreFenced` and `BuildsEnd`. The system may stop (all builds requested and ended), so deadlock is
not checked. A safety run with two edits (18 million states) holds as well.

**Fairness.** The dispatcher runs pass after pass, and the lease of a dead process runs out. `BuildsEnd` excuses faults: see the first
observation below.

## 9. What was found

* `RestoredSourceIndexed`: restoring a Work appends no outbox row; a job that ran while it was in the
  recycle bin leaves the restored sources without units (`repos/works.ts:1279`, against
  `docs/KNOWLEDGE_LAYER_RFC.md:885`).
* `FieldEditsSurvive`: the projection stamps all columns with the row's `updated_at`, so concurrent edits of different fields lose one
  (`sqlite-sync-storage.ts:182`, against `sync/types.ts:1`).
* `MergesMoveForward`: stored row clocks are not advanced by local edits, so a merge can replace a newer edit
  (`sqlite-sync-storage.ts:326`, against `README.md:95`).
* `NeverStranded`: the timeout of a request is dropped while an older request's dialog is open
  (`main/close-lifecycle.ts:130`, against `README.md:72`).
* `DispatcherKeepsRunning`: a prevented quit stops the outbox dispatcher for good (`electron/main.ts:130`, against
  `knowledge-outbox-dispatcher.ts:74`).

Met while modelling, and not stated by a line of the repository that a run could refute:

* A crash or an expired lease in the last attempt of an embed job ends the job and leaves its generation `building` for ever; the
  settings page (`LocalSemanticIndexControl.tsx:74`) keeps its button disabled while a current generation is building. Only
  an edit, which makes the generation stale, ends this. `BuildsEnd` therefore excuses faults.
* `enqueueBuild` pins `MAX(seq)` of the outbox, also of changes no job has executed yet. A generation begun before the pipeline has caught up is
  then "current" and misses units; `SearchIsExact` asks for `drained`.
* Trash a Work, build a generation, restore the Work: the generation is active and current and does not find the Work's sources
  until some outbox row makes it stale. It is the cause of `RestoredSourceIndexed` seen from the index: without the exception for restored sources
  `SearchIsExact` is violated by this trace of eleven states (trash, enqueue, restore, claim and build).
* An older generation can be activated after a newer one, when its build is the slower one and both are current.
* A crash between `Invalidate` and `Discard` leaves the vectors of a failed generation; the later pass that
  `local-semantic-index-service.ts:400` mentions has no caller. No search reads them.
* A purge of a Work nominates none of its blobs for collection: they stay on disk until the same bytes are staged and
  retired again. `BlobsAccountedFor` excuses them through `erased`.

## 10. Proofs

All proofs hold for every value of the constants, under the named assumptions `QueueAssumption` (the kinds of sources are subsets
of a finite `Sources`, `Library` and `NoOwner` are none of its sources and workers, the bounds are numbers),
`SyncAssumption` (devices are numbers, which orders their ids; rows are finitely many; `updated_at` is no other field; a segment has room
for an entry), `CloseAssumption` (`MaxRequests` is a number), `StagingAssumption`, `GenerationAssumption` and `DownloadAssumption` (below). They only say what
the constants are; the bounds may be arbitrarily large.

**KnowledgeQueue.** `KnowledgeQueue_proofs` proves `TypeCorrect`, one lemma per action. The type invariant already relates rows: a job has its
outbox row and a busy worker holds an existing job.

The same module proves `JobsKeepHistory`, `RetriesAreClaimable` and `LostClaimsStayLost`. The last is
not inductive alone: `LeaseInv` adds that an idle worker remembers nothing, and that a worker past `start` holds a job that was
started. The argument is that the claim epoch of a row only grows, so a claim once lost can never equal it again.

`KnowledgeIndex_proofs` proves `WritesAreFenced` (the worker that writes is itself the owner of the running job, at the epoch of the row, so a
claim that was taken over cannot hide behind its successor's), `SettledSourcesAreFresh`, `SettledRevisionsAreReady` and `UnitsOnlyAdvance`. `SettledFresh` speaks of
completed jobs only; `FreshInv` says, for the newest change of a source and each step a worker can be in, which version it read and which units are stored.
A writer passes the lease check only for the newest change, so what it read is still the canonical version; and
a change appended meanwhile makes the statement about the older job void. `ReadyInv` is the same argument for
`extraction_status`: two workers that pass the lease check on one job are one worker, and one that goes on to finish the newest
change's job has written "ready" itself, so no mark can land between its write and its completion.

It then proves `QueueImplementsIndex`: a step that changes units is a `Refresh` (from `FreshInv`), a step that completes a
job is a `Settle` or, when the job is not the newest of its source, a stutter, and any other step is a `Change`. The lemmas `MapKept` to
`MapInit` carry these facts through the refinement mapping.

**SyncRows.** `SyncRows_proofs` proves all five properties of `sync_journal` from four invariants, each the base of the next:

* `JournalInv`: the segments of a journal follow each other (`Ordered`), every cursor is the end of one (`Boundary`), and from recovery to upload a
  device knows the end of its own journal (`Pushing`). So a put never meets an existing path, which gives
  `SegmentsAreImmutable`, and what lies beyond a cursor continues it (`JournalsNeverWedge`);
* `PubInv`: watermarks stay below the clock (`Steady`), all columns of a row carry one stamp, so that an entry wins the whole row or nothing
  (`Uniform`), and a row that a push still owes is in the rest of its batch (`Covered`). This gives `NoChangeIsForgotten`;
* `CursorInv`: a snapshot has a row once, with a stamp above that of a missing row (`Snapped`), and a row that was never merged was written at the
  device's own clock (`OwnRows`). Then no step moves the stamps in force of a row back (`StampsGrow`), which gives
  `CursorsStandForMerges`. A clock that goes back would break `OwnRows` and `Steady`: the second hazard at the end of section 11;
* `LogInv`: a journal has no gap (`Gapless`) and a device pushes entries under its own stamps (`Stamped`). This gives `SyncReplicatesRows`, the
  refinement of `RowReplication`: a put is a `Publish` whose old entries stay in the segments they were in, a recovery or an
  acknowledgement is a `Learn`, a merged segment is the next piece of a log and a merge takes a whole row or nothing.

`Uniform` is also the reason for the finding `FieldEditsSurvive`: the proofs are about the rows the code sends, whole ones.

**CloseLifecycle.** `CloseLifecycle_proofs` proves `TypeCorrect`, and lemmas that reduce each handler to the few
effects it can have (`RequestCloseCases`, `EventCases`, `HandleMessageCases`, `DialogCases`, `ReceiveCases`, `FinishEffect`).

`CloseSafety_proofs` proves `WindowClosesSaved`, `ClosesAreGuarded`, `CanvasIsUnlocked` and `RunsOnceOnly`
from the invariant `Inv` (`ProtocolHolds`). None of the four is inductive, because each can be broken by a message that is still unread, so
`Protocol` describes the channels:

* `OneRequest`, `Sent`: main works on, or replays, only the newest request; its unread messages come in the order of their
  requests, with nothing after a cancellation of the same request and no announcement after its receipt;
* `Received`, `RunsOnce`, `HoldsOnce`: nothing older than what the renderer has seen is on its way, a run that ended is
  not announced again, and a hold has one message or answer in flight;
* `OverIsQuiet`: of a request that is over either the cancellation is on its way, or the renderer has retired its run and unlocked the canvas;
* `ReadyIsSaved`: while an unread `ready` is one that main would accept, and once it was accepted, the canvas is locked for that request and
  clean.

The lock could only be taken over by a run of another request that still works. `NewestRuns` excludes it: such a run is of an older
request, whose cancellation arrived before the newer request was even announced. `PermitInv` then ties permits and unloading to
the request being replayed.

`ClosesAreGuarded` is the refinement of `GuardedClose`, step by step: a pending request and a replay exclude each other, a window
that unloads belongs to a replay, and an accepted `ready` means a clean document (`ReadyIsSaved`), so that each handler is one abstract action
or a stutter. The effects of the handlers on the intent of the request (a quit may join a close of the window) are in the lemmas of
`CloseLifecycle_proofs`.

**PdfStaging.** `PdfStaging_proofs` proves all six safety properties, for any hashes, calls and limits, under
`StagingAssumption` (finitely many calls, each with a hash; limits are positive). Its invariant `Inv` (`RegistryHolds`) has
these parts:

* `Counted`: `reserved`, `pins` and the journal's counts are the cardinalities they stand for, which makes a decrement below zero, a leaked
  reservation and an unjournalled stage the same kind of error;
* `RequestsAwaited`, `RequestsOrdered`: every queued journal operation belongs to a call that waits for it, and the commit of a hash
  precedes its clear;
* `Quiet`: while a collection of a hash is past its guards, the calls with these bytes are idle or waiting, because the collection
  needs zero pins and a new call waits for it; this is what keeps the bytes of a receipt;
* `Decided`: a collection that is unlinking has found no row, in the transaction that is still open;
* `Exclusive`: what the open transaction is for agrees with the calls and the rows; a purge has a row to take.

`StagingIsBlobStore` is the refinement of `BlobStore`. A call in flight is journalled before it writes, so its receipt is issued for a noted
hash (`RecordedIsNoted`) and within the limit (`RoomForReceipt`); an unlink meets neither receipt (`Quiet`) nor row (`Decided`); and
whatever takes a hash from the journal leaves it answered for, which is `BlobsAccountedFor` of the next state.

**SemanticGenerations.** `SemanticGenerations_proofs` proves `TypeCorrect`, `BuildsFenced`, `SearchedIsComplete` and `SearchesAreExact`, under
`GenerationAssumption` (sources are finitely many, `NoOwner` is no worker, bounds are numbers). `BuildInv` adds to the type
invariant that a ready entry has its vector and pins the stored unit unless the generation was given up (`ReadyIsStored`), that a generation not
begun has no entries, and that an active one is alone and has no pending entry. `SearchInv` adds `Caught` (a source with no waiting
change has the unit its content asks for, or none when its Work is or was in the recycle bin) and `DrainedIsExact` (a generation pinned with
nothing waiting agrees with the sources until `latest` moves, or has no pin of such a source); both are kept because an edit moves `latest` in
the transaction that changes the source. So of a restored source `SearchesAreExact` proves what is left: the unit it had, or none.

**ResearchDownloads.** `ResearchDownloads_proofs` proves all five safety properties, for any downloads, sizes and limits, under
`DownloadAssumption` (finitely many downloads, of positive size; limits are positive). Its invariant `DownloadsInv` says of every path who holds
it, and of every account what it counts:

* `TransferAlone`, `ReceiptAlone`: a transfer that is not over has no consumer and no cleanup; a receipt is claimed exactly while its
  consumer works on it, and excludes every cleanup. `ConsumerUndisturbed` is a consequence of both with the next part;
* `HeldOnce`: the cleanup tracker holds a path exactly when one of the places that start a deletion has one under way, so that no handler
  settles what another has held;
* `PayloadThere`, `LeftoverOwned`, `StaleSwept`, `QuietRecovery`: which file is on disk in each state, who deletes it, and that nothing else
  runs during recovery;
* `PermitAccount`, `ReceiptAccount`, `ConsumerAccount`, `LeaseAccount`: each counter is the sum or cardinality it stands for. A release subtracts what
  the path itself added, so no byte account goes below zero. The receipt limit counts receipts and leases, which is why a burst of
  registrations, each between its awaits, cannot exceed it.

The byte accounts are sums over a set. The induction theorems of the library cannot be instantiated here, so `TotalIsCount` shows
once, by a smallest counterexample, that such a sum is the cardinality of a set of pairs; the laws the handlers need (`TotalUpdate`,
`TotalTakeOut`) follow from those of cardinality.

## 11. Only model-checked, and not modelled

The liveness properties `EveryChangeSettles`, `CloseIsDecided`, `JournalSettles`, `PermitsReturned`, `PathsReclaimed` and `BuildsEnd` stay
with TLC: the prover handles neither fairness nor ENABLED. All other properties of the passing runs are proved. The five violations are
counterexamples and need no proof.

Section 1 names the components without a module; sections 3 to 8 name what each module leaves out. The components left out
as a whole are of three kinds: pages and presentation of the renderer (two thirds of the source), whose
state is React's and whose rules are in the components above; pure functions over text and metadata (connectors,
citation formatting, chunking, anchoring), which unit tests with examples cover better than enumeration; and thin
adapters to network services.

Hazards without a property: a WebDAV MOVE that the server carries out after the client gave up (`put` is one step in `SyncRows`, which is
exact while the DELETE of the temporary file is answered, because that settles the MOVE either way), and a wall clock that is set
back (clocks only advance in `SyncRows`).
