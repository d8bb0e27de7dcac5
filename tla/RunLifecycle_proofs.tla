------------------------ MODULE RunLifecycle_proofs ------------------------
(***************************************************************************)
(* Proofs about RunLifecycle, for every set of runs, callers and workers   *)
(* and every bound:                                                        *)
(*   RunTypeCorrect         every variable keeps its type                  *)
(*   InFlightAlwaysHasJob   no run stays in flight without a job           *)
(***************************************************************************)
EXTENDS RunLifecycle, FiniteSetTheorems, TLAPS

-----------------------------------------------------------------------------
(* The records the steps build *)

\* A working job carries a run and a day; past the numbering it has a number.
LEMMA WorkingJob ==
  ASSUME TypeOK, NEW w \in Workers, job[w] # Idle
  PROVE  /\ job[w].run \in Run /\ job[w].started \in Today
         /\ job[w].outcome \in {"review", "error"}
         /\ job[w].seq \in Number \cup {None}
         /\ job[w].at \in {"writing", "noting"} => job[w].seq \in Number
         /\ job[w] = [at |-> job[w].at, run |-> job[w].run, started |-> job[w].started,
                      outcome |-> job[w].outcome, seq |-> job[w].seq]
  BY DEF TypeOK, Job

\* What a run directory and a registry entry consist of.
LEMMA HeldData ==
  ASSUME TypeOK, NEW r \in Run
  PROVE  /\ disk[r] # None => disk[r] \in Directory
         /\ HasManifest(r) => disk[r].manifest \in Manifest
         /\ registry[r] # None => registry[r] \in Entry
  BY DEF TypeOK, Directory, HasManifest

\* A restart derives an entry, and never one in flight, from any directory.
LEMMA DerivedType ==
  ASSUME TypeOK, NEW r \in Run
  PROVE  DerivedEntry(r) = None
           \/ (DerivedEntry(r) \in Entry /\ DerivedEntry(r).status \in {"review", "error"})
<1>1. CASE HasManifest(r)
  <2>1. disk[r].manifest \in Manifest
    BY <1>1, HeldData
  <2> QED
    BY <1>1, <2>1 DEF DerivedEntry, FromManifest, Interrupted, Entry, Manifest, HasManifest
<1>2. CASE ~HasManifest(r)
  BY <1>2 DEF DerivedEntry, Degraded, Entry
<1> QED
  BY <1>1, <1>2

\* The updates of records the steps make, each keeping its set.
LEMMA MovedJob ==
  ASSUME NEW j \in Job, j # Idle
  PROVE  /\ j.at \in {"extracting", "publishing", "saving", "numbering"} =>
              /\ [j EXCEPT !.at = "publishing"] \in Job
              /\ [j EXCEPT !.at = "saving"] \in Job
         /\ [j EXCEPT !.at = "saving", !.outcome = "review"] \in Job
         /\ j.at \in {"writing", "noting"} => [j EXCEPT !.at = "noting"] \in Job
  BY DEF Job

LEMMA NumberedJob ==
  ASSUME NEW j \in Job, j # Idle, NEW n \in Number \cup {None}
  PROVE  /\ [j EXCEPT !.at = "numbering", !.seq = n] \in Job
         /\ n \in Number => [j EXCEPT !.at = "writing", !.seq = n] \in Job
  BY DEF Job

LEMMA StatusChanged ==
  ASSUME NEW e \in Entry, NEW s \in {"review", "error"}
  PROVE  [e EXCEPT !.status = s] \in Entry
  BY DEF Entry

LEMMA StatusSet ==
  ASSUME NEW e \in Entry
  PROVE  /\ \A s \in {"review", "error"} : [e EXCEPT !.status = s].status = s
         /\ \A n : [e EXCEPT !.seq = n].status = e.status
  BY DEF Entry

LEMMA BegunEntry ==
  ASSUME NEW e \in Entry, NEW today \in Today
  PROVE  [e EXCEPT !.status = "processing", !.started = today] \in Entry
  BY DEF Entry, InFlightStatus

LEMMA NumberedEntry ==
  ASSUME NEW e \in Entry, NEW n \in Number \cup {None}
  PROVE  /\ [e EXCEPT !.seq = n] \in Entry
         /\ [e EXCEPT !.status = "processing", !.preserved = n] \in Entry
  BY DEF Entry, InFlightStatus

LEMMA UpdatedDirectory ==
  ASSUME NEW d \in Directory, NEW b \in BOOLEAN
  PROVE  [d EXCEPT !.pdf = b] \in Directory /\ [d EXCEPT !.cache = b] \in Directory
  BY DEF Directory

LEMMA RewrittenDirectory ==
  ASSUME NEW d \in Directory, NEW m \in Manifest
  PROVE  [d EXCEPT !.manifest = m] \in Directory
  BY DEF Directory

LEMMA RemarkedManifest ==
  ASSUME NEW d \in Directory, d.manifest # None, NEW s \in {"pending", "review", "error"}
  PROVE  [d EXCEPT !.manifest.status = s] \in Directory
<1>1. PICK m \in Manifest : m = d.manifest
  BY DEF Directory
<1>2. [m EXCEPT !.status = s] \in Manifest
  BY DEF Manifest
<1>3. [d EXCEPT !.manifest = [m EXCEPT !.status = s]] \in Directory
  BY <1>2, RewrittenDirectory
<1> QED
  BY <1>1, <1>3

LEMMA EmptyDirType == EmptyDir \in Directory
  BY DEF EmptyDir, Directory

-----------------------------------------------------------------------------
(* Types *)

LEMMA InitType == Init => TypeOK
  BY LifecycleAssumption DEF Init, TypeOK, Job, Call, Today, Idle

LEMMA UploadType ==
  ASSUME TypeOK, NEW r \in Run, Upload(r) \/ RefuseUpload(r) \/ AcceptUpload(r)
  PROVE  TypeOK'
<1>1. CASE Upload(r)
  <2> DEFINE made == [EmptyDir EXCEPT !.pdf = TRUE]
  <2>1. made \in Directory
    BY EmptyDirType, UpdatedDirectory, Zenon
  <2>2. disk' = [disk EXCEPT ![r] = made]
    BY <1>1 DEF Upload
  <2> HIDE DEF made
  <2> QED
    BY <1>1, <2>1, <2>2 DEF Upload, TypeOK
<1>2. CASE RefuseUpload(r)
  <2> DEFINE emptied == [disk[r] EXCEPT !.pdf = FALSE]
  <2>1. disk[r] # None => emptied \in Directory
    BY HeldData, UpdatedDirectory, Zenon
  <2>2. disk' = [disk EXCEPT ![r] = IF disk[r] = None THEN disk[r] ELSE emptied]
    BY <1>2 DEF RefuseUpload
  <2> HIDE DEF emptied
  <2> QED
    BY <1>2, <2>1, <2>2 DEF RefuseUpload, TypeOK
<1>3. CASE AcceptUpload(r)
  BY <1>3 DEF AcceptUpload, TypeOK, Entry, InFlightStatus
<1> QED
  BY <1>1, <1>2, <1>3

\* A job that has begun and not yet reached its manifest.
LEMMA EarlyJobType ==
  ASSUME TypeOK, NEW w \in Workers,
         StartJob(w) \/ StartGone(w) \/ Extract(w) \/ Publish(w) \/ Fail(w) \/ EntryGone(w)
           \/ ReadPreserved(w)
  PROVE  TypeOK'
<1> DEFINE r == job[w].run
<1>0. Idle.at = "idle" /\ job[w] \in Job /\ Idle \in Job
  BY DEF TypeOK, Idle, Job
<1>1. CASE StartJob(w)
  <2>1. PICK q \in queue :
          /\ registry[q] # None
          /\ queue' = queue \ {q}
          /\ registry' = [registry EXCEPT ![q] =
                            [registry[q] EXCEPT !.status = "processing", !.started = day]]
          /\ disk' = [disk EXCEPT ![q] = IF disk[q] = None THEN EmptyDir ELSE disk[q]]
          /\ job' = [job EXCEPT ![w] = [at |-> "extracting", run |-> q, started |-> day,
                                        outcome |-> "error", seq |-> None]]
    BY <1>1 DEF StartJob
  <2> DEFINE begun == [registry[q] EXCEPT !.status = "processing", !.started = day]
  <2>2. begun \in Entry
    <3>1. registry[q] \in Entry
      BY <2>1, HeldData DEF TypeOK
    <3>2. day \in Today
      BY DEF TypeOK
    <3> QED
      BY <3>1, <3>2, BegunEntry, Zenon
  <2> HIDE DEF begun
  <2>3. registry' \in [Run -> Entry \cup {None}]
    <3>1. registry' = [registry EXCEPT ![q] = begun]
      BY <2>1 DEF begun
    <3> QED
      BY <2>2, <3>1 DEF TypeOK
  <2>4. disk' \in [Run -> Directory \cup {None}]
    BY <2>1, EmptyDirType DEF TypeOK
  <2>5. job' \in [Workers -> Job]
    BY <2>1 DEF TypeOK, Job
  <2> QED
    BY <1>1, <2>1, <2>3, <2>4, <2>5 DEF StartJob, TypeOK
<1>2. CASE StartGone(w)
  BY <1>2 DEF StartGone, TypeOK
<1>3. CASE Extract(w)
  <2> DEFINE moved == [job[w] EXCEPT !.at = "publishing"]
             cached == [disk[r] EXCEPT !.cache = TRUE]
  <2>1. job[w] # Idle /\ job[w].at = "extracting"
    BY <1>0, <1>3 DEF Extract
  <2>2. r \in Run /\ cached \in Directory
    <3>1. r \in Run /\ disk[r] # None
      BY <1>3, <2>1, WorkingJob DEF Extract
    <3>2. disk[r] \in Directory
      BY <3>1, HeldData
    <3> QED
      BY <3>1, <3>2, UpdatedDirectory, Zenon
  <2>3. moved \in Job
    BY <1>0, <2>1, MovedJob
  <2>4. job' = [job EXCEPT ![w] = moved] /\ disk' = [disk EXCEPT ![r] = cached]
    BY <1>3 DEF Extract, JobGoto
  <2>5. UNCHANGED <<up, day, unused, uploading, registry, queue, call, retryLock,
                    seqLock, published, budget>>
    BY <1>3 DEF Extract
  <2> HIDE DEF moved, cached, r
  <2> QED
    BY <2>2, <2>3, <2>4, <2>5 DEF TypeOK
<1>4. CASE Publish(w)
  <2> DEFINE moved == [job[w] EXCEPT !.at = "saving", !.outcome = "review"]
             shown == [registry[r] EXCEPT !.status = "review"]
  <2>1. job[w] # Idle
    BY <1>0, <1>4 DEF Publish
  <2>2. r \in Run /\ shown \in Entry
    <3>1. r \in Run /\ registry[r] # None
      BY <1>4, <2>1, WorkingJob DEF Publish
    <3>2. registry[r] \in Entry
      BY <3>1, HeldData
    <3> QED
      BY <3>1, <3>2, StatusChanged, Zenon
  <2>3. moved \in Job
    BY <1>0, <2>1, MovedJob, Zenon
  <2>4. job' = [job EXCEPT ![w] = moved] /\ registry' = [registry EXCEPT ![r] = shown]
    BY <1>4 DEF Publish
  <2>5. /\ published' = published \cup {r}
        /\ UNCHANGED <<up, day, unused, uploading, disk, queue, call, retryLock, seqLock, budget>>
    BY <1>4 DEF Publish
  <2> HIDE DEF moved, shown, r
  <2> QED
    BY <2>2, <2>3, <2>4, <2>5 DEF TypeOK
<1>5. CASE Fail(w)
  <2> DEFINE moved == [job[w] EXCEPT !.at = "saving"]
             failed == [registry[r] EXCEPT !.status = "error"]
  <2>1. job[w] # Idle /\ job[w].at \in {"extracting", "publishing"}
    BY <1>0, <1>5 DEF Fail
  <2>2. r \in Run /\ failed \in Entry
    <3>1. r \in Run /\ registry[r] # None
      BY <1>5, <2>1, WorkingJob DEF Fail
    <3>2. registry[r] \in Entry
      BY <3>1, HeldData
    <3> QED
      BY <3>1, <3>2, StatusChanged, Zenon
  <2>3. moved \in Job
    BY <1>0, <2>1, MovedJob, Zenon
  <2>4. job' = [job EXCEPT ![w] = moved] /\ registry' = [registry EXCEPT ![r] = failed]
    BY <1>5 DEF Fail, JobGoto
  <2> HIDE DEF moved, failed, r
  <2> QED
    BY <1>5, <2>2, <2>3, <2>4 DEF Fail, TypeOK
<1>6. CASE EntryGone(w)
  BY <1>0, <1>6 DEF EntryGone, TypeOK
<1>7. CASE ReadPreserved(w)
  <2> DEFINE kept == registry[r].preserved
             moved == [job[w] EXCEPT !.at = "numbering", !.seq = kept]
  <2>1. job[w] # Idle
    BY <1>0, <1>7 DEF ReadPreserved
  <2>2. kept \in Number \cup {None}
    <3>1. r \in Run /\ registry[r] # None
      BY <1>7, <2>1, WorkingJob DEF ReadPreserved
    <3>2. registry[r] \in Entry
      BY <3>1, HeldData
    <3> QED
      BY <3>2 DEF Entry
  <2>4. job' = [job EXCEPT ![w] = moved]
    BY <1>7 DEF ReadPreserved
  <2> HIDE DEF kept
  <2>3. moved \in Job
    BY <1>0, <2>1, <2>2, NumberedJob, Zenon
  <2> HIDE DEF moved
  <2> QED
    BY <1>7, <2>3, <2>4 DEF ReadPreserved, TypeOK
<1> QED
  BY <1>1, <1>2, <1>3, <1>4, <1>5, <1>6, <1>7

\* A job that numbers, writes and notes its manifest.
LEMMA SavingJobType ==
  ASSUME TypeOK, NEW w \in Workers,
         Allocate(w) \/ WriteManifest(w) \/ WriteManifestFails(w) \/ NoteSeq(w)
  PROVE  TypeOK'
<1> DEFINE r == job[w].run
<1>0. Idle.at = "idle" /\ job[w] \in Job /\ Idle \in Job
  BY DEF TypeOK, Idle, Job
<1>1. CASE Allocate(w)
  <2>1. job[w] # Idle
    BY <1>0, <1>1 DEF Allocate
  <2>2. PICK n \in Number : job' = [job EXCEPT ![w] = [job[w] EXCEPT !.at = "writing", !.seq = n]]
    BY <1>1 DEF Allocate
  <2> DEFINE moved == [job[w] EXCEPT !.at = "writing", !.seq = n]
  <2>3. moved \in Job
    BY <1>0, <2>1, NumberedJob, Zenon
  <2>4. job' = [job EXCEPT ![w] = moved]
    BY <2>2
  <2>5. /\ seqLock' = w
        /\ UNCHANGED <<up, day, unused, uploading, registry, disk, queue, call, retryLock,
                       published, budget>>
    BY <1>1 DEF Allocate
  <2> HIDE DEF moved
  <2> QED
    BY <2>3, <2>4, <2>5 DEF TypeOK
<1>2. CASE WriteManifest(w)
  <2> DEFINE moved == [job[w] EXCEPT !.at = "noting"]
             written == [disk[r] EXCEPT !.manifest = WrittenBy(w)]
  <2>1. job[w] # Idle /\ job[w].at = "writing"
    BY <1>0, <1>2 DEF WriteManifest
  <2>2. r \in Run /\ written \in Directory
    <3>1. r \in Run /\ disk[r] # None
      BY <1>2, <2>1, WorkingJob DEF WriteManifest
    <3>2. disk[r] \in Directory
      BY <3>1, HeldData
    <3>3. WrittenBy(w) \in Manifest
      BY <2>1, WorkingJob DEF WrittenBy, Manifest, TypeOK
    <3> QED
      BY <3>1, <3>2, <3>3, RewrittenDirectory, Zenon
  <2>3. moved \in Job
    BY <1>0, <2>1, MovedJob
  <2>4. /\ job' = [job EXCEPT ![w] = IF job[w].outcome = "review" THEN moved ELSE Idle]
        /\ seqLock' = None
    BY <1>2 DEF WriteManifest, LeaveSeqLock
  <2>5. disk' = [disk EXCEPT ![r] = written]
    BY <1>2 DEF WriteManifest
  <2>6. UNCHANGED <<up, day, unused, uploading, registry, queue, call, retryLock,
                    published, budget>>
    BY <1>2 DEF WriteManifest
  <2> HIDE DEF moved, written, r
  <2> QED
    BY <1>0, <2>2, <2>3, <2>4, <2>5, <2>6 DEF TypeOK
<1>3. CASE WriteManifestFails(w)
  <2>1. budget' \in [requests : Nat, crashes : Nat, failedWrites : Nat]
    BY <1>3 DEF WriteManifestFails, WriteError, TypeOK
  <2> QED
    BY <1>0, <1>3, <2>1 DEF WriteManifestFails, TypeOK
<1>4. CASE NoteSeq(w)
  <2> DEFINE noted == [registry[r] EXCEPT !.seq = job[w].seq]
  <2>1. job[w] # Idle
    BY <1>0, <1>4 DEF NoteSeq
  <2>2. r \in Run /\ noted \in Entry
    <3>1. r \in Run /\ registry[r] # None /\ job[w].seq \in Number \cup {None}
      BY <1>4, <2>1, WorkingJob DEF NoteSeq
    <3>2. registry[r] \in Entry
      BY <3>1, HeldData
    <3> QED
      BY <3>1, <3>2, NumberedEntry, Zenon
  <2>3. registry' = [registry EXCEPT ![r] = noted] /\ job' = [job EXCEPT ![w] = Idle]
    BY <1>4 DEF NoteSeq
  <2>4. UNCHANGED <<up, day, unused, uploading, disk, queue, call, retryLock, seqLock,
                    published, budget>>
    BY <1>4 DEF NoteSeq
  <2> HIDE DEF noted, r
  <2> QED
    BY <1>0, <2>2, <2>3, <2>4 DEF TypeOK
<1> QED
  BY <1>1, <1>2, <1>3, <1>4

\* What a call carries, by where it stands.
LEMMA WorkingCall ==
  ASSUME TypeOK, NEW c \in Callers
  PROVE  /\ call[c].at \in {"resetting", "marking", "firing"} =>
              /\ call[c].run \in Run /\ call[c].entry \in Entry
              /\ call[c].preserved \in Number \cup {None}
         /\ call[c].at \in {"removing", "popping"} => call[c].run \in Run
         /\ call[c].at = "sweeping" =>
              /\ call[c].skip \subseteq Run /\ call[c].todo \subseteq Run
              /\ call[c].target \in Run \cup {None} /\ call[c].swept \subseteq Run
              /\ call[c].today \in Today
  BY DEF TypeOK, Call, Idle

\* The updates of a call's record.
LEMMA MovedCall ==
  ASSUME NEW k \in Call, NEW n \in Number \cup {None}
  PROVE  /\ k.at = "resetting" => [k EXCEPT !.at = "marking", !.preserved = n] \in Call
         /\ k.at = "marking" => [k EXCEPT !.at = "firing"] \in Call
         /\ k.at = "removing" => [k EXCEPT !.at = "popping"] \in Call
<1>1. ASSUME k.at \in {"resetting", "marking"}
      PROVE  /\ [k EXCEPT !.at = "marking", !.preserved = n] \in Call
             /\ [k EXCEPT !.at = "firing"] \in Call
  <2>1. k \in [at : {"resetting", "marking", "firing"}, run : Run, entry : Entry,
               preserved : Number \cup {None}]
    BY <1>1 DEF Call, Idle
  <2> QED
    BY <2>1 DEF Call
<1>2. ASSUME k.at = "removing" PROVE [k EXCEPT !.at = "popping"] \in Call
  <2>1. k \in [at : {"removing", "popping"}, run : Run]
    BY <1>2 DEF Call, Idle
  <2> QED
    BY <2>1 DEF Call
<1> QED
  BY <1>1, <1>2

LEMMA SweptFurther ==
  ASSUME NEW k \in Call, k.at = "sweeping", NEW t \in Run \cup {None}, NEW q \in Run
  PROVE  /\ [k EXCEPT !.todo = k.todo \ {q}, !.target = t] \in Call
         /\ [k EXCEPT !.target = None, !.swept = k.swept \cup {q}] \in Call
  BY DEF Call, Idle

LEMMA RequestType ==
  ASSUME TypeOK, NEW c \in Callers,
         ListRuns(c) \/ \E r \in Run : DeleteRun(c, r) \/ RetryRun(c, r)
  PROVE  TypeOK'
<1>1. ASSUME NEW k \in Call, Request(c, k)
      PROVE  /\ call' \in [Callers -> Call]
             /\ budget' \in [requests : Nat, crashes : Nat, failedWrites : Nat]
  BY <1>1 DEF Request, TypeOK
<1>2. CASE ListRuns(c)
  <2>1. Sweeping({q \in Run : InFlight(q)}) \in Call
    BY DEF Sweeping, Call, TypeOK
  <2> QED
    BY <1>1, <1>2, <2>1 DEF ListRuns, TypeOK
<1>3. ASSUME NEW r \in Run, DeleteRun(c, r) PROVE TypeOK'
  <2>1. [at |-> "removing", run |-> r] \in Call
    BY DEF Call
  <2> QED
    BY <1>1, <1>3, <2>1 DEF DeleteRun, TypeOK
<1>4. ASSUME NEW r \in Run, RetryRun(c, r) PROVE TypeOK'
  <2>1. registry[r] \in Entry
    BY <1>4, HeldData DEF RetryRun, Retryable
  <2>2. [at |-> "resetting", run |-> r, entry |-> registry[r], preserved |-> None] \in Call
    BY <2>1 DEF Call
  <2> QED
    BY <1>1, <1>4, <2>2 DEF RetryRun, TypeOK
<1> QED
  BY <1>2, <1>3, <1>4

LEMMA SweepAndDeleteType ==
  ASSUME TypeOK, NEW c \in Callers,
         SweepInspect(c) \/ SweepRemove(c) \/ SweepReturn(c) \/ DeleteDirectory(c) \/ DeletePop(c)
  PROVE  TypeOK'
<1>0. call[c] \in Call /\ Idle \in Call
  BY DEF TypeOK, Call
<1>1. CASE SweepInspect(c)
  <2>1. PICK q \in call[c].todo :
          call' = [call EXCEPT ![c] = [call[c] EXCEPT !.todo = call[c].todo \ {q},
                     !.target = IF q \notin call[c].skip /\ Sweepable(q, call[c].today)
                                THEN q ELSE None]]
    BY <1>1 DEF SweepInspect
  <2> DEFINE found == IF q \notin call[c].skip /\ Sweepable(q, call[c].today) THEN q ELSE None
             moved == [call[c] EXCEPT !.todo = call[c].todo \ {q}, !.target = found]
  <2>2. q \in Run /\ call[c].at = "sweeping"
    BY <1>1, WorkingCall DEF SweepInspect
  <2>3. found \in Run \cup {None}
    BY <2>2
  <2>4. call' = [call EXCEPT ![c] = moved]
    BY <2>1
  <2> HIDE DEF found
  <2>5. moved \in Call
    BY <1>0, <2>2, <2>3, SweptFurther, Zenon
  <2> HIDE DEF moved
  <2>6. UNCHANGED <<up, day, unused, uploading, registry, disk, queue, job, retryLock,
                    seqLock, published, budget>>
    BY <1>1 DEF SweepInspect
  <2> QED
    BY <2>4, <2>5, <2>6 DEF TypeOK
<1>2. CASE SweepRemove(c)
  <2> DEFINE r == call[c].target
             moved == [call[c] EXCEPT !.target = None, !.swept = call[c].swept \cup {r}]
  <2>1. r \in Run /\ call[c].at = "sweeping"
    BY <1>2, WorkingCall DEF SweepRemove
  <2>2. call' = [call EXCEPT ![c] = moved] /\ disk' = [disk EXCEPT ![r] = None]
    BY <1>2 DEF SweepRemove
  <2>3. UNCHANGED <<up, day, unused, uploading, registry, queue, job, retryLock,
                    seqLock, published, budget>>
    BY <1>2 DEF SweepRemove
  <2> HIDE DEF r
  <2>4. moved \in Call
    BY <1>0, <2>1, SweptFurther, Zenon
  <2> HIDE DEF moved
  <2> QED
    BY <2>2, <2>3, <2>4 DEF TypeOK
<1>3. CASE SweepReturn(c)
  BY <1>0, <1>3 DEF SweepReturn, TypeOK
<1>4. CASE DeleteDirectory(c)
  <2> DEFINE moved == [call[c] EXCEPT !.at = "popping"]
  <2>1. moved \in Call
    BY <1>0, <1>4, MovedCall DEF DeleteDirectory
  <2>2. /\ call' = [call EXCEPT ![c] = moved]
        /\ disk' = [disk EXCEPT ![call[c].run] = None]
        /\ published' \subseteq published
        /\ UNCHANGED <<up, day, unused, uploading, registry, queue, job, retryLock, seqLock, budget>>
    BY <1>4 DEF DeleteDirectory
  <2> HIDE DEF moved
  <2> QED
    BY <2>1, <2>2 DEF TypeOK
<1>5. CASE DeletePop(c)
  BY <1>0, <1>5 DEF DeletePop, TypeOK
<1> QED
  BY <1>1, <1>2, <1>3, <1>4, <1>5

LEMMA RetryType ==
  ASSUME TypeOK, NEW c \in Callers,
         ResetRun(c) \/ MarkPending(c) \/ MarkPendingFails(c) \/ FireRetry(c)
  PROVE  TypeOK'
<1> DEFINE r == call[c].run
<1>0. call[c] \in Call /\ Idle \in Call
  BY DEF TypeOK, Call
<1>1. CASE ResetRun(c)
  <2> DEFINE kept == IF HasManifest(r) /\ disk[r].manifest.started = day
                     THEN disk[r].manifest.seq ELSE None
             moved == [call[c] EXCEPT !.at = "marking", !.preserved = kept]
             unlinked == [disk[r] EXCEPT !.cache = FALSE]
  <2>1. r \in Run /\ call[c].at = "resetting"
    BY <1>1, WorkingCall DEF ResetRun
  <2>2. kept \in Number \cup {None}
    BY <2>1, HeldData DEF Manifest
  <2>3. disk[r] # None => unlinked \in Directory
    BY <2>1, HeldData, UpdatedDirectory, Zenon
  <2>4. /\ disk' = [disk EXCEPT ![r] = IF disk[r] = None THEN disk[r] ELSE unlinked]
        /\ published' \subseteq published
        /\ UNCHANGED <<up, day, unused, uploading, registry, queue, job, retryLock, seqLock, budget>>
    BY <1>1 DEF ResetRun
  <2>5. call' = [call EXCEPT ![c] = moved]
    BY <1>1 DEF ResetRun
  <2> HIDE DEF kept
  <2>6. moved \in Call
    BY <1>0, <2>1, <2>2, MovedCall, Zenon
  <2> HIDE DEF moved, unlinked, r
  <2> QED
    BY <2>1, <2>3, <2>4, <2>5, <2>6 DEF TypeOK
<1>2. CASE MarkPending(c)
  <2> DEFINE moved == [call[c] EXCEPT !.at = "firing"]
             marked == [disk[r] EXCEPT !.manifest.status = "pending"]
  <2>1. r \in Run /\ moved \in Call
    BY <1>0, <1>2, WorkingCall, MovedCall DEF MarkPending
  <2>2. HasManifest(r) => marked \in Directory
    BY <2>1, HeldData, RemarkedManifest, Zenon DEF HasManifest
  <2>3. /\ disk' = [disk EXCEPT ![r] = IF HasManifest(r) THEN marked ELSE disk[r]]
        /\ call' = [call EXCEPT ![c] = moved]
        /\ UNCHANGED <<up, day, unused, uploading, registry, queue, job, retryLock,
                       seqLock, published, budget>>
    BY <1>2, Zenon DEF MarkPending
  <2> HIDE DEF moved, marked, r
  <2> QED
    BY <2>1, <2>2, <2>3 DEF TypeOK
<1>3. CASE MarkPendingFails(c)
  <2> DEFINE moved == [call[c] EXCEPT !.at = "firing"]
  <2>1. moved \in Call
    BY <1>0, <1>3, MovedCall DEF MarkPendingFails
  <2>2. /\ call' = [call EXCEPT ![c] = moved]
        /\ budget' \in [requests : Nat, crashes : Nat, failedWrites : Nat]
        /\ UNCHANGED <<up, day, unused, uploading, registry, disk, queue, job, retryLock,
                       seqLock, published>>
    BY <1>3 DEF MarkPendingFails, WriteError, TypeOK
  <2> HIDE DEF moved
  <2> QED
    BY <2>1, <2>2 DEF TypeOK
<1>4. CASE FireRetry(c)
  <2> DEFINE fired == [call[c].entry EXCEPT !.status = "processing",
                                            !.preserved = call[c].preserved]
  <2>1. r \in Run /\ call[c].entry \in Entry /\ call[c].preserved \in Number \cup {None}
    BY <1>4, WorkingCall DEF FireRetry
  <2>2. fired \in Entry
    BY <2>1, NumberedEntry, Zenon
  <2>3. /\ registry' = [registry EXCEPT ![r] = fired]
        /\ queue' = queue \cup {r} /\ retryLock' = None
        /\ call' = [call EXCEPT ![c] = Idle]
        /\ UNCHANGED <<up, day, unused, uploading, disk, job, seqLock, published, budget>>
    BY <1>4 DEF FireRetry
  <2> HIDE DEF fired, r
  <2> QED
    BY <1>0, <2>1, <2>2, <2>3 DEF TypeOK
<1> QED
  BY <1>1, <1>2, <1>3, <1>4

LEMMA ProcessType ==
  ASSUME TypeOK, Crash \/ Restart \/ NextDay
  PROVE  TypeOK'
<1>1. CASE Crash
  <2>1. Idle \in Job /\ Idle \in Call
    BY DEF Job, Call
  <2>2. budget' \in [requests : Nat, crashes : Nat, failedWrites : Nat]
    BY <1>1 DEF Crash, TypeOK
  <2> QED
    BY <1>1, <2>1, <2>2 DEF Crash, TypeOK
<1>2. CASE Restart
  <2>1. PICK lost \in SUBSET {r \in Run : Interrupted(r)} :
          LET rewritten == {r \in Run : Interrupted(r)} \ lost
              swept == {r \in Run : Sweepable(r, day)} \cup {r \in rewritten : Aged(r, day)}
          IN  /\ Cardinality(lost) <= budget.failedWrites
              /\ budget' = [budget EXCEPT !.failedWrites = @ - Cardinality(lost)]
              /\ registry' = [r \in Run |-> IF r \in swept THEN None ELSE DerivedEntry(r)]
              /\ disk' = [r \in Run |->
                            IF r \in swept THEN None
                            ELSE IF r \in rewritten THEN [disk[r] EXCEPT !.manifest.status = "error"]
                            ELSE disk[r]]
    BY <1>2, Zenon DEF Restart
  <2>2. up' \in BOOLEAN /\ UNCHANGED <<day, unused, uploading, queue, job, call, retryLock,
                                       seqLock, published>>
    BY <1>2 DEF Restart
  <2>3. Cardinality(lost) \in Nat
    BY LifecycleAssumption, FS_Subset, FS_CardinalityType
  <2>4. budget' \in [requests : Nat, crashes : Nat, failedWrites : Nat]
    BY <2>1, <2>3 DEF TypeOK
  <2>5. registry' \in [Run -> Entry \cup {None}]
    BY <2>1, DerivedType, Zenon
  <2>6. disk' \in [Run -> Directory \cup {None}]
    <3>1. \A r \in Run : Interrupted(r) => [disk[r] EXCEPT !.manifest.status = "error"] \in Directory
      BY HeldData, RemarkedManifest, Zenon DEF Interrupted, HasManifest
    <3>2. disk \in [Run -> Directory \cup {None}]
      BY DEF TypeOK
    <3> QED
      BY <2>1, <3>1, <3>2, Zenon
  <2> QED
    BY <2>2, <2>4, <2>5, <2>6 DEF TypeOK
<1>3. CASE NextDay
  BY <1>3, LifecycleAssumption DEF NextDay, TypeOK, Today
<1> QED
  BY <1>1, <1>2, <1>3

LEMMA NextType == TypeOK /\ [Next]_vars => TypeOK'
<1> SUFFICES ASSUME TypeOK, [Next]_vars PROVE TypeOK'
  OBVIOUS
<1>1. CASE UNCHANGED vars
  BY <1>1 DEF vars, TypeOK
<1>2. ASSUME NEW w \in Workers, JobStep(w) PROVE TypeOK'
  BY <1>2, EarlyJobType, SavingJobType DEF JobStep
<1>3. ASSUME NEW c \in Callers, CallStep(c) PROVE TypeOK'
  BY <1>3, SweepAndDeleteType, RetryType DEF CallStep
<1> QED
  BY <1>1, <1>2, <1>3, UploadType, RequestType, ProcessType DEF Next

\* Every variable keeps its type: no interleaving of jobs, requests, crashes and
\* restarts leaves an entry, a manifest or a number of the wrong shape in the
\* registry or on disk (_run_pipeline_background, run_history_store.py).
THEOREM RunTypeCorrect == Spec => []TypeOK
  BY InitType, NextType, PTL DEF Spec

-----------------------------------------------------------------------------
(* No run is in flight without a job *)

\* Whether worker v has r's pipeline.
Runs(v, r) == job[v].at \in {"extracting", "publishing"} /\ job[v].run = r

\* A job that goes on to publish still has its run.
LEMMA PublishingKeepsRun ==
  ASSUME NEW j \in Job, j # Idle
  PROVE  /\ [j EXCEPT !.at = "publishing"].at = "publishing"
         /\ [j EXCEPT !.at = "publishing"].run = j.run
  BY DEF Job

\* A step that lets every run in flight be one that was in flight, and takes
\* neither its place in the queue nor its worker, keeps the invariant.
LEMMA JobsRemain ==
  ASSUME InFlightHasJob,
         NEW r \in Run, InFlight(r)',
         InFlight(r), queue \subseteq queue',
         \A v \in Workers : Runs(v, r) => Runs(v, r)'
  PROVE  r \in queue' \/ \E v \in Workers : Runs(v, r)'
  BY DEF InFlightHasJob, Runs

\* A job: only a step that ends the pipeline takes a run from its worker, and
\* that step settles the run's status first (Publish, Fail) or finds its entry gone.
LEMMA JobKeepsPromise ==
  ASSUME TypeOK, InFlightHasJob, NEW w \in Workers, JobStep(w), NEW r \in Run, InFlight(r)'
  PROVE  r \in queue' \/ \E v \in Workers : Runs(v, r)'
<1>0. /\ job \in [Workers -> Job] /\ registry \in [Run -> Entry \cup {None}]
      /\ Idle.at = "idle" /\ job[w] \in Job
  BY DEF TypeOK, Idle
<1>1. CASE StartJob(w)
  <2>1. PICK q \in queue :
          /\ queue' = queue \ {q}
          /\ registry' = [registry EXCEPT ![q] =
                            [registry[q] EXCEPT !.status = "processing", !.started = day]]
          /\ job' = [job EXCEPT ![w] = [at |-> "extracting", run |-> q, started |-> day,
                                        outcome |-> "error", seq |-> None]]
    BY <1>1 DEF StartJob
  <2>2. Runs(w, q)'
    BY <1>0, <2>1 DEF Runs
  <2>3. CASE r # q
    <3>1. InFlight(r)
      BY <1>0, <2>1, <2>3 DEF InFlight
    <3>2. \A v \in Workers : Runs(v, r) => Runs(v, r)'
      BY <1>0, <1>1, <2>1 DEF Runs, StartJob
    <3> QED
      BY <2>1, <2>3, <3>1, <3>2 DEF InFlightHasJob, Runs
  <2> QED
    BY <2>2, <2>3
<1>2. CASE StartGone(w)
  BY <1>2 DEF StartGone, InFlightHasJob, InFlight, Runs
<1>3. CASE Extract(w)
  <2>1. job[w] # Idle
    BY <1>0, <1>3 DEF Extract
  <2> DEFINE moved == [job[w] EXCEPT !.at = "publishing"]
  <2>2. moved.at = "publishing" /\ moved.run = job[w].run
    BY <1>0, <2>1, PublishingKeepsRun, Zenon
  <2>3. job' = [job EXCEPT ![w] = moved] /\ UNCHANGED <<registry, queue>>
    BY <1>3 DEF Extract, JobGoto
  <2> HIDE DEF moved
  <2>4. InFlight(r)
    BY <2>3 DEF InFlight
  <2>5. \A v \in Workers : Runs(v, r) => Runs(v, r)'
    BY <1>0, <2>2, <2>3 DEF Runs
  <2> QED
    BY <2>3, <2>4, <2>5, JobsRemain
<1>4. CASE Publish(w) \/ Fail(w)
  <2> DEFINE d == job[w].run
  <2>1. PICK s \in {"review", "error"} : registry' = [registry EXCEPT ![d] = [registry[d] EXCEPT !.status = s]]
    BY <1>4 DEF Publish, Fail
  <2>2. d \in Run /\ registry[d] \in Entry
    <3>1. d \in Run /\ registry[d] # None
      BY <1>0, <1>4, WorkingJob DEF Publish, Fail
    <3> QED
      BY <3>1, HeldData
  <2>3. queue' = queue /\ \A v \in Workers : v # w => job'[v] = job[v]
    <3>1. PICK moved : job' = [job EXCEPT ![w] = moved] /\ queue' = queue
      BY <1>4 DEF Publish, Fail, JobGoto
    <3> QED
      BY <1>0, <3>1
  <2> HIDE DEF d
  <2>4. registry'[d].status = s
    <3>1. [registry[d] EXCEPT !.status = s].status = s
      BY <2>2, StatusSet, Zenon
    <3> QED
      BY <1>0, <2>1, <2>2, <3>1
  <2>5. r # d
    BY <2>4 DEF InFlight, InFlightStatus
  <2>6. InFlight(r)
    BY <1>0, <2>1, <2>5 DEF InFlight
  <2>7. \A v \in Workers : Runs(v, r) => Runs(v, r)'
    BY <2>3, <2>5 DEF Runs, d
  <2> QED
    BY <2>3, <2>6, <2>7, JobsRemain
<1>5. CASE EntryGone(w)
  <2>1. InFlight(r) /\ queue' = queue
    BY <1>5 DEF EntryGone, InFlight
  <2>2. ~Runs(w, r)
    BY <1>5, <2>1 DEF EntryGone, InFlight, Runs
  <2>3. \A v \in Workers : Runs(v, r) => Runs(v, r)'
    BY <1>0, <1>5, <2>2 DEF EntryGone, Runs
  <2> QED
    BY <2>1, <2>3, JobsRemain
<1>6. CASE ReadPreserved(w) \/ Allocate(w) \/ WriteManifest(w) \/ WriteManifestFails(w) \/ NoteSeq(w)
  <2>1. job[w].at \in {"saving", "numbering", "writing", "noting"} /\ queue' = queue
    BY <1>6 DEF ReadPreserved, Allocate, WriteManifest, WriteManifestFails, NoteSeq
  <2>2. PICK moved : job' = [job EXCEPT ![w] = moved]
    BY <1>6, Zenon DEF ReadPreserved, Allocate, WriteManifest, LeaveSeqLock, WriteManifestFails, NoteSeq
  <2>3. \A v \in Workers : Runs(v, r) => Runs(v, r)'
    BY <1>0, <2>1, <2>2 DEF Runs
  <2>4. InFlight(r)
    <3>1. CASE NoteSeq(w)
      <4> DEFINE d == job[w].run
                 noted == [registry[d] EXCEPT !.seq = job[w].seq]
      <4>1. d \in Run /\ registry[d] # None
        BY <1>0, <2>1, <3>1, WorkingJob DEF NoteSeq
      <4>2. noted.status = registry[d].status
        BY <4>1, HeldData, StatusSet, Zenon
      <4>3. registry' = [registry EXCEPT ![d] = noted]
        BY <3>1 DEF NoteSeq
      <4> HIDE DEF noted, d
      <4> QED
        BY <1>0, <4>1, <4>2, <4>3 DEF InFlight
    <3>2. CASE ~NoteSeq(w)
      BY <1>6, <3>2 DEF ReadPreserved, Allocate, WriteManifest, WriteManifestFails, InFlight
    <3> QED
      BY <3>1, <3>2
  <2> QED
    BY <2>1, <2>3, <2>4, JobsRemain
<1> QED
  BY <1>1, <1>2, <1>3, <1>4, <1>5, <1>6 DEF JobStep

\* A retry queues the run it turns in flight; no other request turns one in flight.
LEMMA CallKeepsPromise ==
  ASSUME TypeOK, InFlightHasJob, NEW c \in Callers, NEW r \in Run, InFlight(r)',
         CallStep(c) \/ ListRuns(c) \/ \E q \in Run : DeleteRun(c, q) \/ RetryRun(c, q)
  PROVE  r \in queue' \/ \E v \in Workers : Runs(v, r)'
<1>0. registry \in [Run -> Entry \cup {None}]
  BY DEF TypeOK
<1>1. job' = job
  BY DEF CallStep, SweepInspect, SweepRemove, SweepReturn, DeleteDirectory, DeletePop, ResetRun,
         MarkPending, MarkPendingFails, FireRetry, ListRuns, DeleteRun, RetryRun
<1>2. CASE FireRetry(c)
  <2>1. call[c].run \in Run
    BY <1>2, WorkingCall DEF FireRetry
  <2>2. PICK fired : registry' = [registry EXCEPT ![call[c].run] = fired]
    BY <1>2, Zenon DEF FireRetry
  <2>3. queue' = queue \cup {call[c].run}
    BY <1>2 DEF FireRetry
  <2>4. CASE r # call[c].run
    BY <1>0, <1>1, <2>2, <2>3, <2>4 DEF InFlightHasJob, InFlight, Runs
  <2> QED
    BY <2>3, <2>4
<1>3. CASE ~FireRetry(c)
  <2>1. queue' = queue
    BY <1>3 DEF CallStep, SweepInspect, SweepRemove, SweepReturn, DeleteDirectory, DeletePop,
                ResetRun, MarkPending, MarkPendingFails, ListRuns, DeleteRun, RetryRun
  <2>2. registry'[r] \in {registry[r], None}
    BY <1>0, <1>3 DEF CallStep, SweepInspect, SweepRemove, SweepReturn, DeleteDirectory, DeletePop,
                ResetRun, MarkPending, MarkPendingFails, ListRuns, DeleteRun, RetryRun
  <2>3. InFlight(r)
    BY <2>2 DEF InFlight
  <2> QED
    BY <1>1, <2>1, <2>3 DEF InFlightHasJob, Runs
<1> QED
  BY <1>2, <1>3

\* An accepted upload is queued; a crash empties the registry; and a restart
\* derives no entry in flight, whatever status the manifest on disk has.
LEMMA ProcessKeepsPromise ==
  ASSUME TypeOK, InFlightHasJob, NEW r \in Run, InFlight(r)',
         Crash \/ Restart \/ NextDay
           \/ \E q \in Run : Upload(q) \/ RefuseUpload(q) \/ AcceptUpload(q)
  PROVE  r \in queue' \/ \E v \in Workers : Runs(v, r)'
<1>1. CASE Crash
  BY <1>1 DEF Crash, InFlight
<1>2. CASE Restart
  <2>1. registry'[r] \in {DerivedEntry(r), None}
    BY <1>2 DEF Restart
  <2>2. DerivedEntry(r) # None => DerivedEntry(r).status \in {"review", "error"}
    BY DerivedType
  <2> QED
    BY <2>1, <2>2 DEF InFlight, InFlightStatus
<1>3. CASE NextDay
  BY <1>3 DEF NextDay, InFlightHasJob, InFlight, Runs
<1>4. ASSUME NEW q \in Run, Upload(q) \/ RefuseUpload(q)
      PROVE  r \in queue' \/ \E v \in Workers : Runs(v, r)'
  BY <1>4 DEF Upload, RefuseUpload, InFlightHasJob, InFlight, Runs
<1>5. ASSUME NEW q \in Run, AcceptUpload(q)
      PROVE  r \in queue' \/ \E v \in Workers : Runs(v, r)'
  BY <1>5 DEF AcceptUpload, TypeOK, InFlightHasJob, InFlight, Runs
<1> QED
  BY <1>1, <1>2, <1>3, <1>4, <1>5

\* A run shown as pending or processing has a job that will end it, whatever
\* requests race and wherever the process dies: the coercion of _derive_entry and
\* the order of retry_run leave no zombie that neither delete nor retry accepts.
THEOREM InFlightAlwaysHasJob == Spec => []InFlightHasJob
<1>1. Init => InFlightHasJob
  BY DEF Init, InFlightHasJob, InFlight
<1>2. TypeOK /\ InFlightHasJob /\ [Next]_vars => InFlightHasJob'
  <2> SUFFICES ASSUME TypeOK, InFlightHasJob, [Next]_vars PROVE InFlightHasJob'
    OBVIOUS
  <2>1. CASE UNCHANGED vars
    BY <2>1 DEF vars, InFlightHasJob, InFlight
  <2>2. CASE Next
    <3>1. ASSUME NEW r \in Run, InFlight(r)'
          PROVE  r \in queue' \/ \E v \in Workers : Runs(v, r)'
      BY <2>2, <3>1, JobKeepsPromise, CallKeepsPromise, ProcessKeepsPromise DEF Next
    <3> QED
      BY <3>1 DEF InFlightHasJob, Runs
  <2> QED
    BY <2>1, <2>2
<1> QED
  BY <1>1, <1>2, RunTypeCorrect, PTL DEF Spec
=============================================================================
