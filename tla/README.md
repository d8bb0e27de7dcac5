# A TLA+ model of ctr-rosales-qc

ctr-rosales-qc reconciles the quantities a quality-control PDF declares with those of the
delivery notes (guías de remisión) scanned in it. A FastAPI backend runs an extraction pipeline
over an uploaded PDF and keeps the result on disk; an operator then reviews it in a Vue client,
correcting, reassigning and recovering guías, while every change is written to a sidecar file. This
directory models that backend: the pipeline from pages to rows, and everything in which several
threads, coroutines, files and restarts meet.

Paths below are relative to `backend/src/reconciliation/` of the repository unless they start with
`openspec/`, `frontend/` or `docker-`.

## 1. Inventory

### 1.1 Components

| Component | State it keeps | Operations | Correct when |
|---|---|---|---|
| Review of a run (`application/review_service.py`, sidecar in `run_context.py`) | lists of guías, errored guías and discarded pages, rows, audit trail; `review.json` | `apply_edit`, `apply_guia_line_edit`, `apply_reassignment`, `add_recovered_guia`, `recover_discarded_page`, `mark_retry_attempted`, `restore_from_sidecar` | no guía is counted twice, the trail explains the lists, saved edits survive a restart |
| Reprocess service (`application/reprocess_service.py`) | a semaphore and a commit lock | REINTENTAR (SUNAT), vision reprocess, discarded-page recovery | a recovery is committed once, vision calls are bounded |
| Run lifecycle (`infrastructure/api/routes.py`, `main.py`) | the registry of runs, background jobs | upload, list with lazy sweep, delete, retry, the pipeline job, the start-up scan | a run in flight has a job and its PDF; a completed run stays |
| Run history store (`infrastructure/run_history_store.py`) | `run_manifest.json` of each run directory | number and write a manifest, mark pending, scan, sweep after 48 h, delete | #N is unique in a day; a restart sees what was shown |
| Lazy hydration (`routes.py`, `container.py`) | `hydrated` flag, a lock | build the services of a past run at its first request | the review after it is the one before the restart |
| Batches (`routes.py`) | status records `{total, recovered, failed, done}` | start, count, finish, poll | every batch ends, counters add up |
| Pipeline (`application/pipeline.py`) | none across runs | decode, classify, extract, assemble blocks, SUNAT, vision, dates, normalise, reconcile, persist | every page in one block, caps respected |
| Reconciliation, dates, materials (`domain/`) | none | pure functions | quantities are conserved, dates lie in their window |
| Adapters (`adapters/`) | caches of remote answers | OCR, PDF, QR, SUNAT, vision, spreadsheet | |
| Settings (`application/config.py`, key store) | one key file | probe, write, clear; effective at a restart | |
| Client (`frontend/src`) | current run id and status, cached queries | upload, poll, edit, batches | shows what the server has |

### 1.2 How they interact, and where it is hard

* Plain `def` endpoints and background jobs run on a pool of threads; `async def` endpoints and
  async background tasks are coroutines of one event loop. All of them share the process's
  registry and, through it, one `ReviewService` per run. `ReviewService` has **no lock**. A coroutine
  gives the loop up only at an `await`, so its commit is atomic for other coroutines, not for threads.
* `_RETRY_LOCK` serialises retries, `_SEQ_LOCK` the numbering of manifests, `_HYDRATION_LOCK` the
  building of a past run's services. List, delete and the job take no lock for what they do to the
  registry and the directories.
* Memory and disk agree only at the end of an operation: a run is shown as completed before its
  manifest is written, an edit takes effect before it is in the sidecar. A crash, a failed write or a
  midnight may come between the two. A restart has the disk alone.
* The sweep decides on what it read a moment ago (the runs in flight, an old manifest).
* A batch of recoveries is a coroutine that gathers many calls; all batches and single recoveries of a run share
  its vision semaphore, its lists and one status record for each registro.
* The pipeline is sequential, but every outside call in it (QR, OCR, SUNAT, vision, language model) may come back empty, any
  stage may raise, and a retry meets the files of the attempt before.

`PROJECT.json` lists the hazards at their lines, with the property that covers each one.

## 2. Modules

| Module | Models | State and actions |
|---|---|---|
| `ReviewEdits` | what one edit does, as pure operators | records for guías and events; `Rejected`, `NoOp` (errors and early returns of every mutator), `Placed`, `ErroredAfter`, `DiscardedAfter` (its assignments), `Rebuilt` (a replay). The cache may hold several blocks of one guía |
| `ReviewService` | the review under concurrent callers | one action per read or write of an attribute of the service or of the file, `pc` saying where a caller stands; requests, answers of SUNAT, OCR and vision, crash, hydration, replay, and a write of the replay that fails |
| `ReviewLedger` | what a review promises | a list of saved edits that grows at its end and the set of those reported as saved; `Cut`, no part of the promise, is the loss of the newest |
| `RunLifecycle` | upload, pipeline job, list and sweep, delete, retry, crash, restart, days | one action per registry update or file operation, and a midnight between any two; `job` and `call` hold the locals of a worker and of a request |
| `RecoveryBatch` | the recovery calls and batches of one run: REINTENTAR, vision reprocess, discarded pages | the errored entries and discarded pages still listed; the free vision slots; `pc` of each call (one for each target and request), the batches with their counters, and for each registro (or `Discarded`) the batch its status record belongs to; one action per await of a call, one for the end of a batch |
| `Pipeline` | one run of `ReconciliationPipeline` over a document, its failure and its retry | `stage` and the locals of `run()`; one action per stage, one per page of block assembly, per wave of SUNAT requests, per vision call and per file written |
| `PageClassifier` | `domain/classifier.py` | the two ordered rule lists and `classify` |
| `Reconciliation` | `domain/reconciliation.py` | `reconcile`: grade-tolerant recovery, keys, rows with quantities, delta, status and review flag |
| `ReceptionDates` | the four date rules of `domain/` | `infer_reception_year`, floor, ceiling, divergence over dates written YYYYMMDD |
| `MC...` | the small instances the runs check | |
| `..._proofs` | the theorems (section 5) | |

`ReviewService` EXTENDS `ReviewEdits` and instantiates `ReviewLedger` with a refinement mapping:
the ledger is the file, or, during a replay, the trail rebuilt so far followed by the events still to
replay; the reported edits are those answered with 200. `KeepsPromise` says that each step is one of
`ReviewLedger`'s, except a step that cuts a replay short (`BreaksOff`: the process dies in it, or one of the
replay's own writes raises `OSError`, which `restore_from_sidecar` does not catch): that one may lose the newest edits
(`Cut`). The model has both, so what they lose is in the runs (finding 2). `KeepsPromise` is checked where the service
keeps it: with one caller, or with coroutines only.

`Pipeline` extends `Reconciliation` (which extends `ReceptionDates`) and `PageClassifier`: `Classify`, `NormalizeDates` and
`Reconcile` apply their operators to the pages and blocks of the run. What `Pipeline` persists is where `RunLifecycle` and
`ReviewService` start: `RunLifecycle` sees it as one step, `ReviewService` takes its guías. `RecoveryBatch` sees of the review only
whether a guía or page is still listed, which `ReviewService` models in detail.

Definitions marked `Fault:` are small mistakes a programmer could make at that line. They are
never part of `Next`; substituting one for the definition after it must make the property named
beside it in `PROJECT.json` fail, which shows that the property depends on that line.

### 2.1 Abstractions

* Names, registros, dates and materials are uninterpreted values; a line has a material and a
  quantity. `requires_review`, confidence values and provenance are left out, timestamps are
  left out of the review and are days in the lifecycle. Rows are represented by the list of guías
  they were reconciled from.
* An assignment of an attribute, one `dict` update and one `os.replace` are steps. `rmtree` is one
  step; a deletion that breaks off half-way is not modelled.
* In `RunLifecycle` the pipeline is a step that writes the cache, or one that fails at any point.
* `Pipeline`: a page is a record of what the adapters answer about it (marks of its text, QR, printed lines, form). The
  texts `_derive_numero` looks for are taken as the marks the classifier finds. URLs are asked in waves of the
  adapter's size, but which ones are in a wave is left open. Memory in the language model's resolver is kept as a condition on the
  answers: once it has answered for a description it answers so for each later line with it. An unresolved description stands
  for its lower-cased text. A SUNAT PDF that could not be written to its cache directory is not modelled.
* `RecoveryBatch`: a batch cancelled while it gathers is not modelled (listed as a hazard). OCR, SUNAT and vision answer with
  usable lines, something unusable, or nothing; the lists shrink also by the operator's own edits.
* A guía of several blocks (pages A, B, A, or one guía in two sections: `pipeline.py:982-1100` has no dedupe) is several entries of the
  review's list, with one name. `add_recovered_guia` looks at the first. If that one has lines it returns at once, although the caller is told that the guía
  was recovered; if it is empty it gets the lines, and the errored entries of all blocks of the guía go, so that of two empty blocks one stays empty
  unlisted, and beside a block with lines the quantities count twice. The models do the same (`NoOp`, `Unmarked`, `ErroredAfter` of `ReviewEdits`;
  `PassedOver`, `Namesakes` of `RecoveryBatch`), and the caches of the runs have such guías. `NothingListedAgain` therefore speaks of what
  recoveries add, and `ErroredMatchesPlaceholders` admits an unlisted empty block only beside one with lines.
* A refused request (404, 409, 422 with nothing looked up) changes nothing and is no action, except in
  the review, where the check is a step of its own.
* SUNAT, OCR and vision answer with usable lines, or with nothing.
* Midnight (`NextDay` of `RunLifecycle`) may fall between any two steps. Two runs take a specification with fewer behaviours, named in the module:
  - `PromptSpec` (`RunHistory`): no request, queued job or write lasts over midnight, and a pipeline not beyond the next day
    (`NothingBrief`). Without it the days a run has cover a request that lasts `KeepDays`: a retry that overlaps the failed job's write,
    whose second job completes two days later, is swept as the old failure before its manifest is written, and `ReviewHasCache` fails.
  - `PatientSpec` (`RunNumbers`): no retry while a job of the same run has still to end (`RetriesWait`), and no midnight while a
    retry takes its number from the manifest to the new job (`Overnight`). `SeqUnique` needs both (section 4).
* `TodayAssumption`, `ReadingAssumption` and `DeliveryAssumption` of `Pipeline`: a run's day is of this century, a reading that has a date has that
  date's day and month, an answer's delivery date is a number or none. `FetchAssumption`: the first wave of SUNAT requests is not empty
  (`max(1, concurrency)`, `adapters/sunat/descargaqr.py:227`). `AdapterAssumption`: lines read from a page or a form have a number and one of the
  four units a `MaterialLine` admits (`domain/models.py:23`), a parsed form has its numero, a page's URL is one of the document's; SUNAT's items have a
  number and any unit. The values of `Pipeline.cfg` satisfy them all (TLC evaluates them).
* Quantities are whole numbers; the code adds `Decimal`s. Lists filtered or collected in order are written
  with `Selected`, a recursive function, and sums with `SumFunction`, so that the proofs can follow them.

## 3. Runs

Deadlock is not checked: every run stops when its requests are used up or its document is done, and an idle server waits for ever.

| Run | Instance | Shows |
|---|---|---|
| `ReviewSequential` | 1 thread, 3 requests of 9 edits and the recoveries, 2 guías of 2 blocks each, 2 crashes, 1 failed write, both in calls and in replays | `TypeOK`; `TrailExplainsState` replaying the trail gives the lists; `RowsFresh`; `ErroredMatchesPlaceholders`; `RecoveryKeepsRegistro`; `KeepsPromise` implements the ledger but for replays cut short; `EveryCallReturns` |
| `ReviewLoop` | 2 coroutines, 2 pages, 4 requests, the same cache, 2 crashes, 1 failed write | the same with the event loop's interleavings, and `NothingListedAgain` |
| `ReviewMixed` | 2 threads (symmetric), 1 coroutine, 3 requests, a guía whose second block has the lines | what no lock is needed for: `NothingListedAgain`, `DroppedPageIsRecorded`, `SidecarIsPrefix` |
| `RunHistory` | `PromptSpec`, 1 run, 1 caller, 1 worker, 4 requests, 4 days, 2 crashes | `InFlightHasJob`, `InFlightKeepsPdf`, `ReviewHasCache`, `ShownSeqIsSaved`, `CompletedIsKept`, `DeletedStaysDeleted`, `RunsSettle` |
| `RunNumbers` | `PatientSpec`, 2 runs (symmetric), 1 caller, 2 workers, 3 requests, 2 days, 1 failed write | `SeqUnique`, over retries on the same and on the next day |
| `RunRaces` | 1 run, 2 callers, 2 workers, 2 requests, 3 days, 1 crash, 1 failed write | `TypeOK`, `InFlightHasJob` and `EverythingEnds` when list, delete and retry race each other and the job |
| `ReviewLostEdit` | 2 threads, 2 requests | `AckedDurable` fails (finding 1) |
| `ReviewReplayCrash` | 1 thread, 2 crashes, 1 failed write | `AckedDurable` fails (finding 2) |
| `RecoveryBatch` | 3 errored entries, 2 of them of one guía in two registros and 1 of a guía whose first block has lines, and 2 discarded pages, 2 requests, 1 vision slot, 1 failed write | `PageClaimedOnce` two calls on one page do not recover it twice; `CountersAddUp`; `DoneIsFinal`; `OneDiscardedBatch`; `SlotsAddUp` no slot is lost on any way out; `EveryBatchSettles` |
| `Pipeline` | 69 documents of 2 to 4 pages, 4 URLs, 2 official answers and an unreadable one, 4 stamps, 3 requests a wave, 2 vision calls, 1 failure | `PagesAccounted` no page is lost or doubled between decoding and persisting; `BlocksAreRuns`; `VisionWithinCap` (the calls the pipeline counts: an adapter whose batch fails asks the provider again for each image); `DatesAreLatest`; `MaterialConserved` in every registro and unit, whether it has rows or not; `UnflaggedRowsAreSure`; `StoredIsShown` |
| `RunLostCompletion` | 1 run, 1 caller, 1 crash | `CompletedRunsSurvive` fails (finding 3) |
| `RunSweptInFlight` | 1 run, 2 callers | `SweepSparesInFlight` fails (finding 4) |

Why the bounds suffice. Guías do not interact except through the lists, so one guía with lines and
one placeholder give each mutator its two cases, and a second block of each, empty or with lines, the cases of a guía listed twice; two pages let two recoveries race on one page or on
two. A race needs two callers, and its third request is there to see the damage. `KeepDays` is 2
as in the code; four days hold a failure, a retry, an interruption and the sweep after it. Numbers
collide between two runs; three requests hold the three retries, or the retry before midnight, with which they do collide under `Spec` (section 4).
A replay is cut short by the second crash or by the failed write.
`RecoveryBatch`: two targets of each kind give a batch a call that succeeds and one that does not, two requests overlap on the same
page or guía, one slot makes the second vision call wait. `Pipeline`: two pages
after the Protocolo give each ordered pair of page kinds (same guía, other guía, no QR with and without material, a photograph) and a
third page the block after; two registros, or pages before the first, give the section boundary; four guías without a compact QR fill more than a
wave and more than the cap, so that three failures shrink the next wave. The dates have 29 February, a year
to come, a stamp without a year and deliveries before and after the Protocolo; one material is parsed, one only resembles another, one is inferred.
Every
`Max...` constant is a bound and guards the action it bounds; `MaxSeq` is never reached by the runs'
instances.

Why callers are restricted. With two callers `InFlightKeepsPdf`, `CompletedIsKept` and `SeqUnique` do not
hold: a sweep or a delete that passed its checks removes what a retry has just been
given (finding 4). They are checked with one caller, which is how one operator's client
uses the server. `RowsFresh` and `InFlightKeepsPdf` therefore say nothing of rows computed from a list another thread has replaced,
or of a sweep that overlaps a retry. With two threads
`TrailExplainsState`, `RowsFresh` and `KeepsPromise` do not hold either (finding 1 and the lost update of
`self._guias`), so `ReviewMixed` checks what remains.

Fairness. `ReviewService`: weak fairness of each thread, the operating system runs it; strong
fairness of each coroutine, which is disabled while another holds the loop and which the loop's queue takes in
turn. `RunLifecycle`: weak fairness of each worker and each request (pool threads; the pipeline ends because its
outside calls have timeouts) and of the restart (`docker-compose.app.yml:57`, `restart: unless-stopped`).
`RecoveryBatch`: strong fairness of each call, whose OCR, SUNAT and vision requests have timeouts and which waits in the semaphore's first-in-first-out
queue, and weak fairness of the end of a batch, which the loop schedules once its calls are done. `Pipeline` states no liveness.
Users, crashes, failures and days have none.

## 4. Findings

1. **A newer sidecar is overwritten by an older one** (`review_service.py:960`, `ReviewLostEdit`).
   `_persist` serialises the trail and replaces the file without a lock; the thread that serialised first
   may replace last, after the other's edit was acknowledged.
2. **A replay cut short truncates the sidecar** (`review_service.py:742`, `ReviewReplayCrash`).
   The replay calls the mutators, which rewrite the file with the trail rebuilt so far. If the process dies in it, or one of these
   writes raises `OSError` (the request answers 500 and the run stays unhydrated, `routes.py:318-325`), the next replay finds the shortened file.
3. **A completed run can be swept** (`run_history_store.py:372`, `RunLostCompletion`). After a retry the manifest is
   "pending" with the completion date of the first failure until the last step of the job; a process
   that dies after showing the run as completed leaves a manifest the next start turns to "error" and an
   aged one the sweep removes.
4. **The sweep can remove a run in flight** (`routes.py:769`, `RunSweptInFlight`). Both of its guards
   are read before the retry they are meant to see.
Without a run of its own: two runs of one day can get one number, in two ways. Both are outside `PatientSpec`, and TLC finds either
when `RunNumbers.cfg` is given `Spec`.
* A failure is shown before its manifest is written (`routes.py:627`), so a retry may come in between and take for its run the number the
  manifest has, which the late job then overwrites with another. With three such retries in one day (`MaxDay = 0` as well) the number is free when
  the other run asks for one, and the last job writes it again.
* A retry keeps the number of today (`routes.py:955`), and its job begins after midnight and writes it under the new date, where another run
  may have it (also when every retry waits).

Not a finding but worth knowing: a line edit that selects its line by material is applied again when it is sent again
(`review_service.py:327`), since the edited line may then be another one; hazards without a property say so in their note.

## 5. Proofs

All theorems hold for every value of the constants that the named assumptions allow (`ConstantsAssumption`, `ActorsAssumption`,
`LifecycleAssumption`, `AbsentAssumption`, `BatchAssumption`, `NoBatchAssumption`, `CapAssumption`, `NameAssumption`,
`DeliveryAssumption`, `ReadingAssumption`, `TodayAssumption`, `FetchAssumption`, `AdapterAssumption`): any number of guías, pages, callers, workers,
runs, requests, documents and crashes.

* `ReviewService_proofs!TypeCorrect`: `Spec => []TypeOK`. The types of the locals need to know which event a
  caller at a given `pc` holds, so the lemmas about `Placed`, `Edited` and `Recorded` come first.
* `ReviewUnique_proofs!NoGuiaListedAgain`: `Spec => []NothingListedAgain`, for a cache with any number of blocks of one guía. It is not inductive: a caller holds
  a copy of the list which it assigns later, whatever happened to the list meanwhile. The
  strengthening says, for the list and for every held copy:
  - `OnePlace` a name has one position, in the list, in every copy and as every caller looked it up, unless all its positions are the cache's;
    cached guías stand at the position the cache gave them (`CachedPlace`), and no list is shorter than the cache (`LongEnough`);
  - `PageFresh` a page still in the discarded list has no guía yet, unless its coroutine stands between copying the
    list and dropping the page; `PageHeld` the page a coroutine is adding is still discarded; `CopyNamed` a caller that
    passed its checks knows a position, and its changed copy has the name of its event;
  - `ControlInv` only coroutines recover pages, a coroutine inside its commit holds the loop, and nobody is in a call while the
    process is down or replaying.

  The first of these is why threads without a lock may lose edits but never double a guía.
* `ReviewUnique_proofs!DroppedPagesAreRecorded` (`DroppedPageIsRecorded`) and `FileBeginsTrail` (`SidecarIsPrefix` until the
  first crash), for threads and coroutines in any interleaving. The trail only grows while the process lives, so every snapshot of it
  still to be written is a beginning of it (`FirstLifeInv`); a late write shortens the file but cannot reorder it.
* `ReviewPromise_proofs`, for callers of which no thread runs beside another (`Alone`: one thread, or coroutines only):
  `TrailIsEnough`, `RowsStayFresh`, `ErroredListAgrees`, `FileStaysAPrefix`, `RecoveriesKeepRegistro`, `ReviewKeepsPromise` (each step is the ledger's
  or cuts a replay short); and, in the behaviours in which no replay is cut short (`[][~BreaksOff]_vars`), `ReviewImplementsLedger` (the refinement of
  `ReviewLedger`, `Promise!Spec`) and `AckedStaysDurable`.
  The runs `ReviewLostEdit` and `ReviewReplayCrash` show `AckedDurable` violated without the one and without the other condition.
  The inductive invariant `LedgerInv` says that every event of the trail is one a replay accepts in the state its predecessors rebuild
  (`Clean`), and that a caller inside its commit has assigned the lists up to some point from that state and the rest not yet
  (`CommitInv`). `Rebuilt` is a recursive function over the trail. The prover cannot use an induction theorem, but it can
  use that a non-empty set of naturals has a least element: a least length at which the states do not exist, or at which two trails
  that agree rebuild different states, is contradictory (`StepsExist`, `StepsAgree`), which gives the two facts needed, that the replay
  of `Append(t, e)` is one more `Applied`, and that a beginning of a trail rebuilds what the trail rebuilds up to there.
* `RunLifecycle_proofs!RunTypeCorrect` and `InFlightAlwaysHasJob`, for any callers. `InFlightHasJob` is inductive relative to
  `TypeOK`: each action that sets an in-flight status queues a job or is one, each step that ends a job has changed the
  status or found the entry gone, a crash empties the registry, and a restart derives no in-flight
  entry from a directory (lemma on `DerivedEntry`, the coercion of `_derive_entry`).
* `RunOneCaller_proofs`, for one request at a time (`OneCaller`) and any runs, jobs, days, crashes and failed writes:
  `InFlightRunsKeepPdf`, `SweepSparesRuns`, `DeletedRunsStayDeleted`. The invariant `LifeInv` says that a stopped or fresh run has nothing
  (`DownInv`, `FreshInv`), that a run in flight has one job, queued or with a worker (`WorkInv`), that the request under way is
  about no run in flight, save a sweep, which then put it aside or found no manifest of it (`CallInv`), and that what has an entry or a job
  has its PDF (`DirInv`). `RunSweptInFlight` shows two requests at a time.
* `RunOneCaller_proofs!NumbersAreUnique`: `PatientSpec => []SeqUnique`, for one request at a time and any runs, jobs, days, crashes and failed writes. `PatientSpec` leaves
  out the retry that overtakes the failed job's write (`RetriesWait`) and the midnight that overtakes a retry with a number (`Overnight`).
  Section 4 says what happens otherwise. The invariant `NumberInv` follows the number a retry
  keeps: it is the run's own in the request, in the entry and in the job up to the write (`PreservedInv`), the scan and the write are one
  step for other jobs (`LockInv`), and a run is in one place (`JobsApart`).
* `RunOneCaller_proofs!ShownNumbersAreSaved`, for one request at a time in the behaviours of `Spec` with `[]RetriesWait`, and, if also no manifest write fails, `ReviewedRunsHaveCache` and
  `CompletedRunsAreKept`. The invariant `FinalInv` says that the manifest of a run which has a job, or is about to get one, does not
  say "review" (`Marked`), what a job has done to its entry and directory by each of its steps (`ConcludedBy`), and that
  where the manifest says "review" the entry, the number and the cache agree with it (`Agreed`) and no sweep is about the run (`Shown`). With failed
  writes the last two theorems do not hold: a retry whose manifest could not be marked "pending" keeps the old "error", and an aged one is
  swept after the run has completed.
* `RecoveryBatch_proofs`: `BatchTypeCorrect`, `PagesAreClaimedOnce`, `SlotsAlwaysAddUp`, `OneBatchOfDiscarded`, `CountersAlwaysAddUp`
  and `DoneStaysFinal`, every safety property of the module. Each of its actions has one of six shapes (lemma `Shapes`): a call is
  scheduled, a batch starts, the lists shrink, a call moves on, a call ends, a batch settles. `CountersAddUp` is inductive with `Unmade`
  (a batch that does not exist yet has no calls) and `Counted` (what a record has counted are its own ended calls, each once);
  `SlotsAddUp` with them, since a call that begins to see takes a slot and a call that ends gives back what it holds (and so vision has at most
  `MaxConcurrency` calls, `VisionStaysBounded`);
  `PageClaimedOnce` because a page leaves the discarded list in the step that claims it; `DoneIsFinal` because a batch settles only when
  none of its calls is left.
* `Pipeline_proofs!StoredIsAlwaysShown`: by stage, what each file holds (`FilesInv`): nothing before the cache is written, whatever the failed attempt left.
* `Pipeline_proofs!BlocksAlwaysRuns`. `BlocksAreRuns` needs `PagesInv` (what assembly reads is what the pages say) and `BlocksInv`: every block
  has pages already looked at (`Placed`), so the provisional name of a page without a compact QR is new when it starts a block;
  neighbours differ including the block still open. A page is absorbed only when its QR is the block's, so never into a
  block with a provisional name (`NameAssumption`). SUNAT's lines change nothing else of a block.
* `Pipeline_proofs!VisionStaysWithinCap`: the guías are those of the first blocks, in order, and the calls made are the first of them, all of them while
  there are fewer than the cap (`Read`); moving a date or a material touches neither reading nor pages.
* `Pipeline_proofs!DatesAreAlwaysLatest`: `Spec => []DatesAreLatest`. `infer_reception_year` tries seven years and the property looks at
  every year of the century. A stamp's day and month either exist in no year, or in every year, or (29 February) in every leap year, and
  of the four years before any year of this century one is a leap year (`LeapYearNear`), so the latest date not after today is always among the seven (`RecentDate`, `FitsNear`). The invariant
  `DateInv` says that SUNAT's answers are dates or none, that a guía carries its stamp as it was read (`Stamped`), and from the
  date stage on that its date is the latest that fits (`LatestDate`). It assumes that a run's day lies in 2000 to 2100 (`TodayAssumption`),
  that an answer's delivery date is a number or none (`DeliveryAssumption`), and that a reading with a date has the day and month of that date
  (`ReadingAssumption`: the code takes them from the date itself then, `application/pipeline.py:1472`).
* `Pipeline_proofs!UnflaggedRowsAlwaysSure`: `Spec => []UnflaggedRowsAreSure`. The invariant `FlagInv` says that a block or guía whose
  identity does not come from a compact QR has all its lines flagged for review (`Flagged`), that normalization leaves a line the parser did not
  understand flagged (`Understood`), and that the rows are those `reconcile` makes of the guías; with `DateInv` a row that sums up
  the flags of its guías and passes has none of them (`UnflaggedGuiaIsSure`, `RowsAreSure`).

* `PipelineTotals_proofs!PagesAlwaysAccounted`: `Spec => []PagesAccounted`. The blocks' pages, one block after the other, are the pages
  with evidence that assembly has taken, and the discarded list those without. `AccountInv` says so at every step of assembly and adds what
  the conclusion at the end needs: a page with a compact QR that is no Protocolo is classified as a guía and has evidence, and assembly ends only when
  every page has been looked at. A page is taken in one of three ways, and each makes the flattened list of pages longer by one element:
  in a new block, in the block still open (`PagesOfGrownBlock`), or in the discarded list.
* `PipelineTotals_proofs!TypeIsAlwaysOK`: `Spec => []TypeOK`. The row keys have a registro and a unit of the domain because every line has one
  (`LinesInv`: lines read from a page by `AdapterAssumption`, lines of SUNAT because `_apply_sunat_result` drops the others, normalised and
  recovered lines because neither changes the unit). `TypeInv` has the rest: kinds, URLs of blocks, the wave size, the answers kept.
* `PipelineTotals_proofs!MaterialIsConserved`: `Spec => []MaterialConserved`. The entries (document, line) of a registro and unit are divided by the
  rows' keys, each entry in the row of its key (`EntryKeys`), so that the sum over all is the sum of the rows' sums (`SumByClass`, `TotalByKey`).
  A row counts guías of one name as one contribution; the contributions of a row are again a division of its entries
  (`ContributionsSum`). The grade-tolerant recovery moves a line to another key, never to another registro or unit (`TotalOfCounted`).

  `Selected`, `FlattenSeq` and `SumFunction` are recursive functions. As for `Rebuilt`, what an induction would give comes from a least
  counterexample: a shortest prefix, or a smallest subset (`SmallestSubset`), at which the claim fails.

The pipeline's theorems rest on `RunInv` or the parts of it they need: the conjunction of `PagesInv`, `BlocksInv`, `CapInv`, `DateInv`, `FlagInv`, `AccountInv`, `LinesInv` and
`TypeInv`, which is inductive.

With these, every invariant that the passing runs check is a theorem: `EveryCallReturns`, `RunsSettle`, `EverythingEnds` and
`EveryBatchSettles`, which need fairness, are only model-checked. The theorems about `RunLifecycle` and `ReviewService` that name a condition (one request
at a time, no thread beside another caller) are checked under that condition or a weaker one, and section 4 shows why it is needed.

## 6. Not modelled

* Material names and units (`domain/material_key.py`, `box_row_parser.py`) beyond the unit map SUNAT's lines go through: string
  processing without state. The pipeline takes the parser as the constant `Parsed` and the resolver's answer as `Inferred`.
* OCR, PDF, QR and vision adapters: calls to libraries and models. What they may answer is an input of `Pipeline` and of the recoveries.
  Of the SUNAT adapter its cache and its waves are modelled, HTTP and PDF parsing are not.
* The spreadsheet export and the schemas of the API: a layout of data the models have.
* Configuration and the vision key: a file read once at start.
* The Vue client: its screens and polling. The server is checked against callers that send any request at any time,
  which includes what this client sends.
* A batch cancelled inside its gather, a deletion that breaks off half-way.

`PROJECT.json` gives each part with its status, and for each hazard without a property the reason in its note.
