---------------------------- MODULE RunLifecycle ----------------------------
(***************************************************************************)
(* The life of the runs of one server, in memory and on disk:              *)
(*   infrastructure/api/routes.py         upload, list, delete, retry and  *)
(*                                        the background pipeline job      *)
(*   infrastructure/run_history_store.py  manifests, scan, 48 h sweep      *)
(*   infrastructure/api/main.py           lifespan: what a restart does    *)
(*                                                                         *)
(* The registry is a dict of the process; a run directory holds the PDF,   *)
(* the extraction cache and run_manifest.json.  Plain "def" endpoints and  *)
(* background jobs run on pool threads, so a request and a job interleave  *)
(* between any two of the steps below; _RETRY_LOCK serialises retries and  *)
(* _SEQ_LOCK the numbering of manifests.  An entry is replaced in one      *)
(* dict update, a file in one os.replace.                                  *)
(*                                                                         *)
(* Abstractions: rmtree is one step; time is a count of days; the pipeline *)
(* is one step that writes the cache or one that fails; a refused request  *)
(* (404, 409) changes nothing and is no action; pages/ and review.json are *)
(* the review's (ReviewService).                                           *)
(***************************************************************************)
EXTENDS Naturals, FiniteSets

CONSTANTS
  Run,             \* run ids
  Callers,         \* pool threads serving list, delete and retry
  Workers,         \* pool threads running background pipelines
  None,
  KeepDays,        \* age in days at which a failed run is swept: 48 h
  MaxDay,          \* bound: days of a behaviour
  MaxSeq,          \* bound: numbers given in one day
  MaxRequests,     \* bound: list, delete and retry requests
  MaxCrashes,      \* bound: crashes
  MaxFailedWrites  \* bound: manifest writes that raise OSError

ASSUME LifecycleAssumption ==
  /\ {KeepDays, MaxDay, MaxSeq, MaxRequests, MaxCrashes, MaxFailedWrites} \subseteq Nat
  /\ None \notin Nat \cup Run \cup Callers \cup Workers /\ IsFiniteSet(Run)

VARIABLES
  up,         \* the process runs
  day,        \* today, UTC
  unused,     \* run ids uuid4 has not handed out
  uploading,  \* runs whose upload is streaming
  registry,   \* app.state.run_registry: each run's entry, or None
  disk,       \* output_dir/{run_id}: what it holds, or None
  queue,      \* runs whose background job has not begun
  job,        \* what each worker is doing
  call,       \* what each caller is doing
  retryLock,  \* _RETRY_LOCK's owner
  seqLock,    \* _SEQ_LOCK's owner
  published,  \* history: runs the server has shown as completed
  budget      \* requests, crashes and failed writes left

vars == <<up, day, unused, uploading, registry, disk, queue, job, call,
          retryLock, seqLock, published, budget>>

InFlightStatus == {"pending", "processing"}
Number == 1..MaxSeq
Today == 0..MaxDay

Entry == [status : InFlightStatus \cup {"review", "error"},
          started : Today \cup {None}, seq : Number \cup {None},
          preserved : Number \cup {None}]

\* started_at and completed_at by their day.
Manifest == [status : {"pending", "review", "error"}, started : Today, done : Today, seq : Number]

Directory == [pdf : BOOLEAN, cache : BOOLEAN, manifest : Manifest \cup {None}]
EmptyDir == [pdf |-> FALSE, cache |-> FALSE, manifest |-> None]

\* None stands for what is absent, and is none of these.
ASSUME AbsentAssumption == None \notin Entry \cup Manifest \cup Directory

Idle == [at |-> "idle"]

Job == {Idle}
  \cup [at : {"extracting", "publishing", "saving", "numbering"}, run : Run, started : Today,
        outcome : {"review", "error"}, seq : Number \cup {None}]
  \cup [at : {"writing", "noting"}, run : Run, started : Today,
        outcome : {"review", "error"}, seq : Number]

Call == {Idle}
  \cup [at : {"resetting", "marking", "firing"}, run : Run, entry : Entry,
        preserved : Number \cup {None}]
  \cup [at : {"removing", "popping"}, run : Run]
  \cup [at : {"sweeping"}, today : Today, skip : SUBSET Run, todo : SUBSET Run,
        target : Run \cup {None}, swept : SUBSET Run]

TypeOK ==
  /\ up \in BOOLEAN /\ day \in Today
  /\ unused \subseteq Run /\ uploading \subseteq Run /\ queue \subseteq Run
  /\ registry \in [Run -> Entry \cup {None}]
  /\ disk \in [Run -> Directory \cup {None}]
  /\ job \in [Workers -> Job]
  /\ call \in [Callers -> Call]
  /\ retryLock \in Callers \cup {None} /\ seqLock \in Workers \cup {None}
  /\ published \subseteq Run
  /\ budget \in [requests : Nat, crashes : Nat, failedWrites : Nat]

Init ==
  /\ up = TRUE /\ day = 0
  /\ unused = Run /\ uploading = {} /\ queue = {}
  /\ registry = [r \in Run |-> None]
  /\ disk = [r \in Run |-> None]
  /\ job = [w \in Workers |-> Idle]
  /\ call = [c \in Callers |-> Idle]
  /\ retryLock = None /\ seqLock = None
  /\ published = {}
  /\ budget = [requests |-> MaxRequests, crashes |-> MaxCrashes, failedWrites |-> MaxFailedWrites]

InFlight(r) == registry[r] # None /\ registry[r].status \in InFlightStatus
HasManifest(r) == disk[r] # None /\ disk[r].manifest # None
Saved(r) == HasManifest(r) /\ disk[r].manifest.status = "review"

WriteError ==
  /\ budget.failedWrites > 0
  /\ budget' = [budget EXCEPT !.failedWrites = @ - 1]

-----------------------------------------------------------------------------
(* Upload (create_run) *)

\* The run id and its directory are made, and the PDF is opened.
Upload(r) ==
  /\ up /\ r \in unused
  /\ unused' = unused \ {r}
  /\ uploading' = uploading \cup {r}
  /\ disk' = [disk EXCEPT ![r] = [EmptyDir EXCEPT !.pdf = TRUE]]
  /\ UNCHANGED <<up, day, registry, queue, job, call, retryLock, seqLock, published, budget>>

\* 413, or the upload broke off: unlink(missing_ok=True), the directory stays.
RefuseUpload(r) ==
  /\ up /\ r \in uploading
  /\ uploading' = uploading \ {r}
  /\ disk' = [disk EXCEPT ![r] = IF @ = None THEN @ ELSE [@ EXCEPT !.pdf = FALSE]]
  /\ UNCHANGED <<up, day, unused, registry, queue, job, call, retryLock, seqLock, published, budget>>

\* 202: the run is registered and its job added to the background tasks.
AcceptUpload(r) ==
  /\ up /\ r \in uploading
  /\ uploading' = uploading \ {r}
  /\ registry' = [registry EXCEPT ![r] =
                    [status |-> "pending", started |-> None, seq |-> None, preserved |-> None]]
  /\ queue' = queue \cup {r}
  /\ UNCHANGED <<up, day, unused, disk, job, call, retryLock, seqLock, published, budget>>

-----------------------------------------------------------------------------
(* The background job (_run_pipeline_background) *)

JobGoto(w, at) == job' = [job EXCEPT ![w].at = at]

\* The entry turns to "processing"; RunContext makes the directory if it is gone.
StartJob(w) ==
  /\ up /\ job[w] = Idle
  /\ \E r \in queue :
       /\ registry[r] # None
       /\ queue' = queue \ {r}
       /\ registry' = [registry EXCEPT ![r] = [@ EXCEPT !.status = "processing", !.started = day]]
       /\ disk' = [disk EXCEPT ![r] = IF @ = None THEN EmptyDir ELSE @]
       /\ job' = [job EXCEPT ![w] = [at |-> "extracting", run |-> r, started |-> day,
                                     outcome |-> "error", seq |-> None]]
  /\ UNCHANGED <<up, day, unused, uploading, call, retryLock, seqLock, published, budget>>

\* registry[run_id] raises KeyError, and again in the except branch.
StartGone(w) ==
  /\ up /\ job[w] = Idle
  /\ \E r \in queue : registry[r] = None /\ queue' = queue \ {r}
  /\ UNCHANGED <<up, day, unused, uploading, registry, disk, job, call, retryLock,
                 seqLock, published, budget>>

\* pipeline.run: the last stage writes the extraction cache.
Extract(w) ==
  LET r == job[w].run
  IN  /\ up /\ job[w].at = "extracting"
      /\ disk[r] # None /\ disk[r].pdf
      /\ disk' = [disk EXCEPT ![r].cache = TRUE]
      /\ JobGoto(w, "publishing")
      /\ UNCHANGED <<up, day, unused, uploading, registry, queue, call, retryLock,
                     seqLock, published, budget>>

\* One dict.update makes the run reviewable.
Publish(w) ==
  LET r == job[w].run
  IN  /\ up /\ job[w].at = "publishing"
      /\ registry[r] # None
      /\ registry' = [registry EXCEPT ![r].status = "review"]
      /\ published' = published \cup {r}
      /\ job' = [job EXCEPT ![w] = [@ EXCEPT !.at = "saving", !.outcome = "review"]]
      /\ UNCHANGED <<up, day, unused, uploading, disk, queue, call, retryLock, seqLock, budget>>

\* Fault: the failure is logged and written, the entry is not updated.
FailQuietly(w) ==
  /\ up /\ job[w].at \in {"extracting", "publishing"}
  /\ registry[job[w].run] # None
  /\ JobGoto(w, "saving")
  /\ UNCHANGED <<up, day, unused, uploading, registry, disk, queue, call, retryLock,
                 seqLock, published, budget>>

\* An exception of the pipeline or of building the services.
Fail(w) ==
  /\ up /\ job[w].at \in {"extracting", "publishing"}
  /\ registry[job[w].run] # None
  /\ registry' = [registry EXCEPT ![job[w].run].status = "error"]
  /\ JobGoto(w, "saving")
  /\ UNCHANGED <<up, day, unused, uploading, disk, queue, call, retryLock, seqLock,
                 published, budget>>

\* KeyError: the entry was popped under the job.
EntryGone(w) ==
  /\ up /\ job[w].at \in {"extracting", "publishing", "saving", "noting"}
  /\ registry[job[w].run] = None
  /\ job' = [job EXCEPT ![w] = Idle]
  /\ UNCHANGED <<up, day, unused, uploading, registry, disk, queue, call, retryLock,
                 seqLock, published, budget>>

\* registry[run_id].get("preserved_seq")
ReadPreserved(w) ==
  /\ up /\ job[w].at = "saving"
  /\ registry[job[w].run] # None
  /\ job' = [job EXCEPT ![w] = [@ EXCEPT !.at = "numbering",
                                             !.seq = registry[job[w].run].preserved]]
  /\ UNCHANGED <<up, day, unused, uploading, registry, disk, queue, call, retryLock,
                 seqLock, published, budget>>

\* _scan_max_seq: n is one more than the highest number of the day.
NextNumber(n, started) ==
  LET taken == {disk[r].manifest.seq :
                  r \in {q \in Run : HasManifest(q) /\ disk[q].manifest.started = started}}
  IN  /\ n = 1 \/ n - 1 \in taken
      /\ \A m \in taken : m < n

\* Fault: the scan is made outside _SEQ_LOCK.
AllocateUnlocked(w) ==
  /\ up /\ job[w].at = "numbering"
  /\ \E n \in Number :
       /\ IF job[w].seq # None THEN n = job[w].seq ELSE NextNumber(n, job[w].started)
       /\ job' = [job EXCEPT ![w] = [@ EXCEPT !.at = "writing", !.seq = n]]
  /\ UNCHANGED <<up, day, unused, uploading, registry, disk, queue, call, retryLock,
                 seqLock, published, budget>>

\* Takes _SEQ_LOCK; a preserved number is forced, else the day is scanned.
Allocate(w) ==
  /\ up /\ job[w].at = "numbering" /\ seqLock = None
  /\ seqLock' = w
  /\ \E n \in Number :
       /\ IF job[w].seq # None THEN n = job[w].seq ELSE NextNumber(n, job[w].started)
       /\ job' = [job EXCEPT ![w] = [@ EXCEPT !.at = "writing", !.seq = n]]
  /\ UNCHANGED <<up, day, unused, uploading, registry, disk, queue, call, retryLock,
                 published, budget>>

\* A job leaves the lock; only a completed run's job goes on to note its number.
LeaveSeqLock(w) ==
  /\ seqLock' = None
  /\ job' = [job EXCEPT ![w] = IF @.outcome = "review" THEN [@ EXCEPT !.at = "noting"] ELSE Idle]

\* Fault: the manifest takes the number of the entry, which a first run has not got.
WrittenUnnumbered(w) ==
  [status |-> job[w].outcome, started |-> job[w].started,
   done |-> day, seq |-> registry[job[w].run].seq]

WrittenBy(w) == [status |-> job[w].outcome, started |-> job[w].started,
                 done |-> day, seq |-> job[w].seq]

\* Fault: the write makes the directory it needs.
WriteAnywhere(w) ==
  LET r == job[w].run
  IN  /\ up /\ job[w].at = "writing"
      /\ disk' = [disk EXCEPT ![r] =
                    [(IF @ = None THEN EmptyDir ELSE @) EXCEPT !.manifest = WrittenBy(w)]]
      /\ LeaveSeqLock(w)
      /\ UNCHANGED <<up, day, unused, uploading, registry, queue, call, retryLock,
                     published, budget>>

WriteManifest(w) ==
  LET r == job[w].run
  IN  /\ up /\ job[w].at = "writing"
      /\ disk[r] # None
      /\ disk' = [disk EXCEPT ![r].manifest = WrittenBy(w)]
      /\ LeaveSeqLock(w)
      /\ UNCHANGED <<up, day, unused, uploading, registry, queue, call, retryLock,
                     published, budget>>

\* Fault: an error of the write leaves _SEQ_LOCK taken.
WriteFailsLocked(w) ==
  /\ up /\ job[w].at = "writing"
  /\ IF disk[job[w].run] = None THEN UNCHANGED budget ELSE WriteError
  /\ job' = [job EXCEPT ![w] = Idle]
  /\ UNCHANGED <<up, day, unused, uploading, registry, disk, queue, call, retryLock,
                 seqLock, published>>

\* OSError, caught: the directory is gone, or the disk is full.
WriteManifestFails(w) ==
  /\ up /\ job[w].at = "writing"
  /\ IF disk[job[w].run] = None THEN UNCHANGED budget ELSE WriteError
  /\ seqLock' = None
  /\ job' = [job EXCEPT ![w] = Idle]
  /\ UNCHANGED <<up, day, unused, uploading, registry, disk, queue, call, retryLock, published>>

\* Fault: the number is not merged into the entry.
NoteNothing(w) ==
  /\ up /\ job[w].at = "noting"
  /\ registry[job[w].run] # None
  /\ job' = [job EXCEPT ![w] = Idle]
  /\ UNCHANGED <<up, day, unused, uploading, registry, disk, queue, call, retryLock,
                 seqLock, published, budget>>

NoteSeq(w) ==
  /\ up /\ job[w].at = "noting"
  /\ registry[job[w].run] # None
  /\ registry' = [registry EXCEPT ![job[w].run].seq = job[w].seq]
  /\ job' = [job EXCEPT ![w] = Idle]
  /\ UNCHANGED <<up, day, unused, uploading, disk, queue, call, retryLock, seqLock,
                 published, budget>>

-----------------------------------------------------------------------------
(* Listing and its sweep (list_runs, sweep_failed) *)

Request(c, to) ==
  /\ up /\ call[c] = Idle
  /\ call' = [call EXCEPT ![c] = to]
  /\ budget.requests > 0
  /\ budget' = [budget EXCEPT !.requests = @ - 1]

Sweeping(skip) ==
  [at |-> "sweeping", today |-> day, skip |-> skip, todo |-> Run, target |-> None, swept |-> {}]

\* The cutoff is taken, and the runs in flight now are put aside.
ListRuns(c) ==
  /\ Request(c, Sweeping({r \in Run : InFlight(r)}))
  /\ UNCHANGED <<up, day, unused, uploading, registry, disk, queue, job, retryLock,
                 seqLock, published>>

Aged(r, today) == disk[r].manifest.done + KeepDays <= today

\* Fault: any old run is swept.
SweepableAny(r, today) == HasManifest(r) /\ Aged(r, today)

Sweepable(r, today) ==
  HasManifest(r) /\ disk[r].manifest.status = "error" /\ Aged(r, today)

\* _try_sweep_dir reads one manifest...
SweepInspect(c) ==
  /\ up /\ call[c].at = "sweeping" /\ call[c].target = None
  /\ \E r \in call[c].todo :
       call' = [call EXCEPT ![c].todo = @ \ {r},
                            ![c].target = IF r \notin call[c].skip /\ Sweepable(r, call[c].today)
                                       THEN r ELSE None]
  /\ UNCHANGED <<up, day, unused, uploading, registry, disk, queue, job, retryLock,
                 seqLock, published, budget>>

\* ...and removes the directory of a failed run that is old enough.
SweepRemove(c) ==
  LET r == call[c].target
  IN  /\ up /\ call[c].at = "sweeping" /\ r # None
      /\ disk' = [disk EXCEPT ![r] = None]
      /\ call' = [call EXCEPT ![c].target = None, ![c].swept = @ \cup {r}]
      /\ UNCHANGED <<up, day, unused, uploading, registry, queue, job, retryLock,
                     seqLock, published, budget>>

\* The swept runs leave the registry, and the list is returned.
SweepReturn(c) ==
  /\ up /\ call[c].at = "sweeping" /\ call[c].target = None /\ call[c].todo = {}
  /\ registry' = [r \in Run |-> IF r \in call[c].swept THEN None ELSE registry[r]]
  /\ call' = [call EXCEPT ![c] = Idle]
  /\ UNCHANGED <<up, day, unused, uploading, disk, queue, job, retryLock, seqLock,
                 published, budget>>

-----------------------------------------------------------------------------
(* Deletion (delete_run) *)

\* Fault: a run in flight is not refused.
DeleteAny(c, r) ==
  /\ registry[r] # None
  /\ Request(c, [at |-> "removing", run |-> r])
  /\ UNCHANGED <<up, day, unused, uploading, registry, disk, queue, job, retryLock,
                 seqLock, published>>

\* 409 for a run in flight.
DeleteRun(c, r) ==
  /\ registry[r] # None /\ ~InFlight(r)
  /\ Request(c, [at |-> "removing", run |-> r])
  /\ UNCHANGED <<up, day, unused, uploading, registry, disk, queue, job, retryLock,
                 seqLock, published>>

DeleteDirectory(c) ==
  /\ up /\ call[c].at = "removing"
  /\ disk' = [disk EXCEPT ![call[c].run] = None]
  /\ call' = [call EXCEPT ![c].at = "popping"]
  /\ published' = published \ {call[c].run}
  /\ UNCHANGED <<up, day, unused, uploading, registry, queue, job, retryLock, seqLock, budget>>

DeletePop(c) ==
  /\ up /\ call[c].at = "popping"
  /\ registry' = [registry EXCEPT ![call[c].run] = None]
  /\ call' = [call EXCEPT ![c] = Idle]
  /\ UNCHANGED <<up, day, unused, uploading, disk, queue, job, retryLock, seqLock,
                 published, budget>>

-----------------------------------------------------------------------------
(* Retry (retry_run), under _RETRY_LOCK from the check to the new entry *)

\* Fault: the status of the run itself is not checked.
RetryableAny(r) == registry[r] # None /\ \A q \in Run \ {r} : ~InFlight(q)

\* The run has failed, and no other run is in flight.
Retryable(r) ==
  /\ registry[r] # None /\ registry[r].status = "error"
  /\ \A q \in Run \ {r} : ~InFlight(q)

RetryRun(c, r) ==
  /\ retryLock = None /\ retryLock' = c
  /\ Retryable(r)
  /\ Request(c, [at |-> "resetting", run |-> r, entry |-> registry[r], preserved |-> None])
  /\ UNCHANGED <<up, day, unused, uploading, registry, disk, queue, job, seqLock, published>>

\* The number is kept on the day it was given; then the cache is unlinked.
ResetRun(c) ==
  LET r == call[c].run
  IN  /\ up /\ call[c].at = "resetting"
      /\ call' = [call EXCEPT ![c].at = "marking",
                    ![c].preserved = IF HasManifest(r) /\ disk[r].manifest.started = day
                                     THEN disk[r].manifest.seq ELSE None]
      /\ disk' = [disk EXCEPT ![r] = IF @ = None THEN @ ELSE [@ EXCEPT !.cache = FALSE]]
      /\ published' = published \ {r}
      /\ UNCHANGED <<up, day, unused, uploading, registry, queue, job, retryLock,
                     seqLock, budget>>

\* mark_pending: the manifest says "pending", if there is one.
MarkPending(c) ==
  LET r == call[c].run
  IN  /\ up /\ call[c].at = "marking"
      /\ disk' = [disk EXCEPT ![r] = IF HasManifest(r) THEN [@ EXCEPT !.manifest.status = "pending"]
                                     ELSE @]
      /\ call' = [call EXCEPT ![c].at = "firing"]
      /\ UNCHANGED <<up, day, unused, uploading, registry, queue, job, retryLock,
                     seqLock, published, budget>>

MarkPendingFails(c) ==
  /\ up /\ call[c].at = "marking" /\ HasManifest(call[c].run)
  /\ WriteError
  /\ call' = [call EXCEPT ![c].at = "firing"]
  /\ UNCHANGED <<up, day, unused, uploading, registry, disk, queue, job, retryLock,
                 seqLock, published>>

\* The entry is replaced, the lock left, and the job added to the background tasks.
FireRetry(c) ==
  LET r == call[c].run
  IN  /\ up /\ call[c].at = "firing"
      /\ registry' = [registry EXCEPT ![r] =
                        [call[c].entry EXCEPT !.status = "processing",
                                              !.preserved = call[c].preserved]]
      /\ queue' = queue \cup {r}
      /\ retryLock' = None
      /\ call' = [call EXCEPT ![c] = Idle]
      /\ UNCHANGED <<up, day, unused, uploading, disk, job, seqLock, published, budget>>

-----------------------------------------------------------------------------
(* Crash, restart, days *)

Crash ==
  /\ up /\ budget.crashes > 0
  /\ budget' = [budget EXCEPT !.crashes = @ - 1]
  /\ up' = FALSE
  /\ uploading' = {} /\ queue' = {}
  /\ registry' = [r \in Run |-> None]
  /\ job' = [w \in Workers |-> Idle] /\ call' = [c \in Callers |-> Idle]
  /\ retryLock' = None /\ seqLock' = None
  /\ UNCHANGED <<day, unused, disk, published>>

\* A manifest a dead process left in flight.
Interrupted(r) == HasManifest(r) /\ disk[r].manifest.status = "pending"

FromManifest(m, status) ==
  [status |-> status, started |-> m.started, seq |-> m.seq, preserved |-> None]
Degraded(status) == [status |-> status, started |-> None, seq |-> None, preserved |-> None]

\* Fault: the status of the manifest is taken as it is.
TrustedEntry(r) ==
  IF disk[r] = None THEN None
  ELSE IF HasManifest(r) THEN FromManifest(disk[r].manifest, disk[r].manifest.status)
  ELSE IF disk[r].cache THEN Degraded("review")
  ELSE IF disk[r].pdf THEN Degraded("error")
  ELSE None

\* _derive_entry: the manifest, else the cache, else the PDF.
DerivedEntry(r) ==
  IF disk[r] = None THEN None
  ELSE IF HasManifest(r)
       THEN FromManifest(disk[r].manifest,
              IF Interrupted(r) THEN "error" ELSE disk[r].manifest.status)
  ELSE IF disk[r].cache THEN Degraded("review")
  ELSE IF disk[r].pdf THEN Degraded("error")
  ELSE None

\* The lifespan scans the directories, turns interrupted manifests to "error"
\* (the rewrite may fail), and sweeps: completed_at stays that of the first failure.
Restart ==
  \E lost \in SUBSET {r \in Run : Interrupted(r)} :
    LET rewritten == {r \in Run : Interrupted(r)} \ lost
        swept == {r \in Run : Sweepable(r, day)} \cup {r \in rewritten : Aged(r, day)}
    IN  /\ ~up /\ up' = TRUE
        /\ Cardinality(lost) <= budget.failedWrites
        /\ budget' = [budget EXCEPT !.failedWrites = @ - Cardinality(lost)]
        /\ registry' = [r \in Run |-> IF r \in swept THEN None ELSE DerivedEntry(r)]
        /\ disk' = [r \in Run |->
                      IF r \in swept THEN None
                      ELSE IF r \in rewritten THEN [disk[r] EXCEPT !.manifest.status = "error"]
                      ELSE disk[r]]
        /\ UNCHANGED <<day, unused, uploading, queue, job, call, retryLock, seqLock, published>>

\* Midnight may fall between any two steps.
NextDay ==
  /\ day < MaxDay
  /\ day' = day + 1
  /\ UNCHANGED <<up, unused, uploading, registry, disk, queue, job, call, retryLock,
                 seqLock, published, budget>>

-----------------------------------------------------------------------------
JobStep(w) ==
  \/ StartJob(w) \/ StartGone(w) \/ Extract(w) \/ Publish(w) \/ Fail(w) \/ EntryGone(w)
  \/ ReadPreserved(w) \/ Allocate(w) \/ WriteManifest(w) \/ WriteManifestFails(w) \/ NoteSeq(w)

CallStep(c) ==
  \/ SweepInspect(c) \/ SweepRemove(c) \/ SweepReturn(c)
  \/ DeleteDirectory(c) \/ DeletePop(c)
  \/ ResetRun(c) \/ MarkPending(c) \/ MarkPendingFails(c) \/ FireRetry(c)

Next ==
  \/ \E r \in Run : Upload(r) \/ RefuseUpload(r) \/ AcceptUpload(r)
  \/ \E w \in Workers : JobStep(w)
  \/ \E c \in Callers : ListRuns(c) \/ CallStep(c)
  \/ \E c \in Callers, r \in Run : DeleteRun(c, r) \/ RetryRun(c, r)
  \/ Crash \/ Restart \/ NextDay

Spec == Init /\ [][Next]_vars

\* Pool threads are scheduled, a pipeline ends (it has timeouts on every outside
\* call), and docker-compose.app.yml restarts the process (unless-stopped).
Fairness ==
  /\ \A w \in Workers : WF_vars(JobStep(w))
  /\ \A c \in Callers : WF_vars(CallStep(c))
  /\ WF_vars(Restart)

FairSpec == Spec /\ Fairness

\* Nothing lasts until another day but an upload, a stopped server and a pipeline, and
\* that not beyond the next: requests, queued jobs and writes do not age by KeepDays.
NothingBrief ==
  /\ queue = {}
  /\ \A w \in Workers : job[w] = Idle \/ (job[w].at = "extracting" /\ job[w].started = day)
  /\ \A c \in Callers : call[c] = Idle

PromptSpec == Init /\ [][Next /\ (day' # day => NothingBrief)]_vars /\ Fairness

Works(w, r) == job[w].at # "idle" /\ job[w].run = r
Retries(c, r) == call[c].at \in {"resetting", "marking", "firing"} /\ call[c].run = r

\* A retry is accepted once the failed job has ended, not merely shown its failure.
RetriesWait == \A c \in Callers, w \in Workers, r \in Run : ~(Retries(c, r) /\ Works(w, r))

\* Midnight falls while a retry takes its run's number from the manifest to the new job.
Overnight ==
  /\ day' # day
  /\ \/ \E r \in queue : registry[r] # None /\ registry[r].preserved # None
     \/ \E c \in Callers, r \in Run : Retries(c, r) /\ call[c].preserved # None

\* The behaviours in which neither of the two happens that hand a number out twice: a
\* retry before the failed job's manifest is written, and a retry over midnight.
PatientSpec == Init /\ [][Next /\ RetriesWait' /\ ~Overnight]_vars

-----------------------------------------------------------------------------
(* Properties *)

\* A run shown as pending or processing has a job that will end it: no status
\* survives its job, a crash or a restart (the "pending zombie" of _derive_entry).
InFlightHasJob ==
  \A r \in Run : InFlight(r) =>
    \/ r \in queue
    \/ \E w \in Workers : job[w].at \in {"extracting", "publishing"} /\ job[w].run = r

\* Nothing takes the PDF away from a run in flight: not the sweep, whose skip
\* set and pending manifest are there for it, nor delete_run (409 in flight).
InFlightKeepsPdf ==
  \A r \in Run : InFlight(r) => disk[r] # None /\ disk[r].pdf

\* A run shown as reviewable can be hydrated: its cache is there, until a delete
\* request is about to take the entry away (build_review_service).
ReviewHasCache ==
  \A r \in Run : registry[r] # None /\ registry[r].status = "review" =>
    \/ disk[r] # None /\ disk[r].cache
    \/ \E c \in Callers : call[c].at = "popping" /\ call[c].run = r

\* The number shown for a completed run is the one in its manifest, once its job
\* is over, so that #N does not change at the next restart.
ShownSeqIsSaved ==
  \A r \in Run :
    /\ Saved(r) /\ registry[r] # None /\ registry[r].status = "review"
    /\ \A w \in Workers : job[w] = Idle \/ job[w].run # r
    => registry[r].seq = disk[r].manifest.seq

\* Two runs of one day never have one number (_SEQ_LOCK, preserved_seq), in the
\* behaviours of PatientSpec.  Spec does not promise it: a retry that overtakes the
\* failed job's write, or that midnight overtakes, lets two runs have one number.
SeqUnique ==
  \A q, r \in Run :
    HasManifest(q) /\ HasManifest(r)
      /\ disk[q].manifest.started = disk[r].manifest.started
      /\ disk[q].manifest.seq = disk[r].manifest.seq => q = r

\* A run the server has shown as completed is on disk until the operator deletes
\* or retries it, also when it completed at a retry (RH-008).
CompletedRunsSurvive == \A r \in published : disk[r] # None

\* Only a delete request removes the directory of a run in flight (the skip set
\* and the pending manifest of the sweep).
SweepSparesInFlight ==
  [][\A r \in Run : InFlight(r) /\ disk[r] # None =>
       \/ disk'[r] # None
       \/ \E c \in Callers : call[c].at = "removing" /\ call[c].run = r]_vars

\* The manifest of a completed run is final: no sweep, retry, restart or late job
\* touches it, only a delete request for that run.
CompletedIsKept ==
  [][\A r \in Run : Saved(r) =>
       \/ disk'[r] # None /\ disk'[r].manifest = disk[r].manifest
       \/ \E c \in Callers : call[c].at = "removing" /\ call[c].run = r]_vars

\* A run that was deleted or swept never comes back, neither as an entry nor as a
\* directory: a job still finishing does not write it again.
Gone(r) == r \notin unused /\ disk[r] = None /\ registry[r] = None
DeletedStaysDeleted == [][\A r \in Run : Gone(r) => Gone(r)']_vars

\* Every accepted run ends up completed, failed or removed, whatever crashes.
RunsSettle == \A r \in Run : InFlight(r) ~> (up /\ ~InFlight(r))

\* Every job and every call ends (or dies with the process), whoever pops entries
\* and removes directories under it: no lock stays taken.
EverythingEnds ==
  /\ \A w \in Workers : job[w] # Idle ~> job[w] = Idle
  /\ \A c \in Callers : call[c] # Idle ~> call[c] = Idle
=============================================================================
