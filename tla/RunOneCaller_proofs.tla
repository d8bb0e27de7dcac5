------------------------ MODULE RunOneCaller_proofs ------------------------
(***************************************************************************)
(* What the requests for one server keep when one of them runs at a time   *)
(* (OneCaller), for every number of runs, of background jobs and of days.  *)
(* With two callers a retry and a sweep, or a retry and a delete, overlap: *)
(* the run RunSweptInFlight shows what is lost.                            *)
(*                                                                         *)
(* The argument: a run in flight is nobody's to delete or to sweep.  Its   *)
(* job is the one in the queue or with a worker (WorkInv); a sweep that    *)
(* did not put it aside has found no manifest of it (CallInv); and what    *)
(* has an entry, a job or a manifest has its PDF (DirInv).                 *)
(*                                                                         *)
(* Numbers need one more condition, that no retry of a run is accepted     *)
(* while a job of that run has still to write its manifest (RetriesWait):  *)
(* without it, and with a midnight, a job that failed late writes the      *)
(* number its second retry was to keep under yesterday's date.  Under it a *)
(* number kept over a retry stays the run's own from the request to the    *)
(* write (PreservedInv), and no other write comes between the scan for a   *)
(* new one and its write (LockInv).                                        *)
(*                                                                         *)
(* Under the same conditions a completed run keeps what it shows: while a  *)
(* job or a retry is under way the manifest does not say "review" (Marked),*)
(* and where it does, entry, manifest and cache agree (Agreed, Shown).     *)
(***************************************************************************)
EXTENDS RunLifecycle_proofs

OneCaller == \A c, d \in Callers : c = d

-----------------------------------------------------------------------------
(* What a step of a job does, field by field *)

\* The step is one of w's job, and of no other's.
JobFrame(w) ==
  /\ up /\ up' = up /\ UNCHANGED <<day, unused, uploading, queue, call, retryLock>>
  /\ job \in [Workers -> Job] /\ job' \in [Workers -> Job] /\ job[w] # Idle
  /\ \A v \in Workers \ {w} : job'[v] = job[v]

\* Of the entries and directories it changes at most r's.
RunFrame(r) ==
  \A q \in Run \ {r} : registry'[q] = registry[q] /\ disk'[q] = disk[q]

JobAt(w, at, r, outcome, seq) ==
  [at |-> at, run |-> r, started |-> job[w].started, outcome |-> outcome, seq |-> seq]

\* The records after the updates the steps make.
LEMMA EntryUpdate ==
  ASSUME NEW e \in Entry, NEW s, NEW n
  PROVE  /\ [e EXCEPT !.status = s] =
              [status |-> s, started |-> e.started, seq |-> e.seq, preserved |-> e.preserved]
         /\ [e EXCEPT !.seq = n] =
              [status |-> e.status, started |-> e.started, seq |-> n, preserved |-> e.preserved]
  BY DEF Entry

LEMMA EntryBegun ==
  ASSUME NEW e \in Entry, NEW s, NEW n
  PROVE  [e EXCEPT !.status = s, !.started = n] =
           [status |-> s, started |-> n, seq |-> e.seq, preserved |-> e.preserved]
<1> DEFINE x == [e EXCEPT !.status = s, !.started = n]
<1>1. x.status = s /\ x.started = n /\ x.seq = e.seq /\ x.preserved = e.preserved
  BY DEF Entry
<1>2. x \in [status : {e.status, s}, started : {e.started, n}, seq : {e.seq},
             preserved : {e.preserved}]
  BY DEF Entry
<1> HIDE DEF x
<1>3. x = [status |-> x.status, started |-> x.started, seq |-> x.seq, preserved |-> x.preserved]
  BY <1>2
<1>4. x = [status |-> s, started |-> n, seq |-> e.seq, preserved |-> e.preserved]
  BY <1>1, <1>3
<1> QED
  BY <1>4 DEF x

LEMMA EntryFired ==
  ASSUME NEW e \in Entry, NEW s, NEW n
  PROVE  [e EXCEPT !.status = s, !.preserved = n] =
           [status |-> s, started |-> e.started, seq |-> e.seq, preserved |-> n]
<1> DEFINE x == [e EXCEPT !.status = s, !.preserved = n]
<1>1. x.status = s /\ x.started = e.started /\ x.seq = e.seq /\ x.preserved = n
  BY DEF Entry
<1>2. x \in [status : {e.status, s}, started : {e.started}, seq : {e.seq},
             preserved : {e.preserved, n}]
  BY DEF Entry
<1> HIDE DEF x
<1>3. x = [status |-> x.status, started |-> x.started, seq |-> x.seq, preserved |-> x.preserved]
  BY <1>2
<1>4. x = [status |-> s, started |-> e.started, seq |-> e.seq, preserved |-> n]
  BY <1>1, <1>3
<1> QED
  BY <1>4 DEF x

LEMMA DirectoryUpdate ==
  ASSUME NEW d \in Directory, NEW x
  PROVE  /\ [d EXCEPT !.pdf = x] = [pdf |-> x, cache |-> d.cache, manifest |-> d.manifest]
         /\ [d EXCEPT !.cache = x] = [pdf |-> d.pdf, cache |-> x, manifest |-> d.manifest]
         /\ [d EXCEPT !.manifest = x] = [pdf |-> d.pdf, cache |-> d.cache, manifest |-> x]
  BY DEF Directory

LEMMA JobUpdate ==
  ASSUME NEW j \in Job, j # Idle, NEW s, NEW o, NEW n
  PROVE  /\ [j EXCEPT !.at = s] =
              [at |-> s, run |-> j.run, started |-> j.started, outcome |-> j.outcome, seq |-> j.seq]
         /\ [j EXCEPT !.at = s, !.outcome = o] =
              [at |-> s, run |-> j.run, started |-> j.started, outcome |-> o, seq |-> j.seq]
         /\ [j EXCEPT !.at = s, !.seq = n] =
              [at |-> s, run |-> j.run, started |-> j.started, outcome |-> j.outcome, seq |-> n]
<1> DEFINE Narrow == [at : {j.at}, run : {j.run}, started : {j.started}, outcome : {j.outcome},
                      seq : {j.seq}]
           Wide == [at : {j.at, s}, run : {j.run}, started : {j.started}, outcome : {j.outcome, o},
                    seq : {j.seq, n}]
           x == [j EXCEPT !.at = s]
           y == [j EXCEPT !.at = s, !.outcome = o]
           z == [j EXCEPT !.at = s, !.seq = n]
<1>0. j \in Narrow
  BY DEF Job
<1>1. /\ x.at = s /\ x.run = j.run /\ x.started = j.started /\ x.outcome = j.outcome /\ x.seq = j.seq
      /\ y.at = s /\ y.run = j.run /\ y.started = j.started /\ y.outcome = o /\ y.seq = j.seq
      /\ z.at = s /\ z.run = j.run /\ z.started = j.started /\ z.outcome = j.outcome /\ z.seq = n
  BY <1>0
<1>2. x \in Wide /\ y \in Wide /\ z \in Wide
  BY <1>0
<1> HIDE DEF x, y, z
<1>3. \A u \in Wide : u = [at |-> u.at, run |-> u.run, started |-> u.started,
                           outcome |-> u.outcome, seq |-> u.seq]
  OBVIOUS
<1>4. x = [at |-> s, run |-> j.run, started |-> j.started, outcome |-> j.outcome, seq |-> j.seq]
  BY <1>1, <1>2, <1>3
<1>5. y = [at |-> s, run |-> j.run, started |-> j.started, outcome |-> o, seq |-> j.seq]
  BY <1>1, <1>2, <1>3
<1>6. z = [at |-> s, run |-> j.run, started |-> j.started, outcome |-> j.outcome, seq |-> n]
  BY <1>1, <1>2, <1>3
<1> QED
  BY <1>4, <1>5, <1>6 DEF x, y, z

LEMMA ExtractDoes ==
  ASSUME TypeOK, NEW w \in Workers, NEW r, r = job[w].run, Extract(w)
  PROVE  /\ JobFrame(w) /\ RunFrame(r) /\ r \in Run
         /\ job[w].at = "extracting"
         /\ job'[w] = JobAt(w, "publishing", r, job[w].outcome, job[w].seq)
         /\ registry' = registry /\ seqLock' = seqLock
         /\ disk[r] # None /\ disk[r].pdf
         /\ disk'[r] = [pdf |-> disk[r].pdf, cache |-> TRUE, manifest |-> disk[r].manifest]
         /\ disk'[r] # None
<1>1. job[w].at = "extracting" /\ job[w] # Idle /\ disk[r] # None /\ disk[r].pdf
  BY DEF Extract, Idle
<1>2. r \in Run /\ disk[r] \in Directory
  BY <1>1, WorkingJob, HeldData
<1>3. job' = [job EXCEPT ![w] = [job[w] EXCEPT !.at = "publishing"]]
      /\ disk' = [disk EXCEPT ![r] = [disk[r] EXCEPT !.cache = TRUE]]
  BY DEF Extract, JobGoto
<1>4. [job[w] EXCEPT !.at = "publishing"] = JobAt(w, "publishing", r, job[w].outcome, job[w].seq)
  BY <1>1, JobUpdate DEF JobAt, TypeOK
<1>5. [disk[r] EXCEPT !.cache = TRUE] = [pdf |-> disk[r].pdf, cache |-> TRUE, manifest |-> disk[r].manifest]
  BY <1>2, DirectoryUpdate
<1>6. TypeOK'
  BY EarlyJobType
<1>7. [pdf |-> disk[r].pdf, cache |-> TRUE, manifest |-> disk[r].manifest] # None
  <2>1. [pdf |-> disk[r].pdf, cache |-> TRUE, manifest |-> disk[r].manifest] \in Directory
    BY <1>2 DEF Directory
  <2> QED
    BY <2>1, AbsentAssumption
<1> QED
  BY <1>1, <1>2, <1>3, <1>4, <1>5, <1>6, <1>7 DEF Extract, TypeOK, JobFrame, RunFrame


LEMMA PublishDoes ==
  ASSUME TypeOK, NEW w \in Workers, NEW r, r = job[w].run, Publish(w)
  PROVE  /\ JobFrame(w) /\ RunFrame(r) /\ r \in Run
         /\ job[w].at = "publishing"
         /\ job'[w] = JobAt(w, "saving", r, "review", job[w].seq)
         /\ disk' = disk /\ seqLock' = seqLock
         /\ registry[r] # None /\ registry'[r] # None
         /\ registry'[r] = [status |-> "review", started |-> registry[r].started, seq |-> registry[r].seq,
                       preserved |-> registry[r].preserved]
<1> DEFINE moved == JobAt(w, "saving", r, "review", job[w].seq)
           entry == [status |-> "review", started |-> registry[r].started, seq |-> registry[r].seq,
                       preserved |-> registry[r].preserved]
<1>1. job[w].at = "publishing" /\ job[w] # Idle /\ registry[r] # None
  BY DEF Publish, Idle
<1>2. /\ r \in Run /\ registry[r] \in Entry /\ job[w] \in Job
      /\ job[w].seq \in Number \cup {None}
  BY <1>1, WorkingJob, HeldData DEF TypeOK
<1>3. job' = [job EXCEPT ![w] = moved]
  <2>1. [job[w] EXCEPT !.at = "saving", !.outcome = "review"] = moved
    BY <1>1, <1>2, JobUpdate, Zenon DEF JobAt
  <2> QED
    BY <2>1, Zenon DEF Publish
<1>4. registry' = [registry EXCEPT ![r] = entry]
  BY <1>2, EntryUpdate DEF Publish
<1>5. TypeOK'
  BY EarlyJobType
<1>6. entry # None
  BY <1>2, AbsentAssumption DEF Entry
<1> HIDE DEF moved, entry
<1> QED
  BY <1>1, <1>2, <1>3, <1>4, <1>5, <1>6 DEF Publish, TypeOK, JobFrame, RunFrame, moved, entry

LEMMA FailDoes ==
  ASSUME TypeOK, NEW w \in Workers, NEW r, r = job[w].run, Fail(w)
  PROVE  /\ JobFrame(w) /\ RunFrame(r) /\ r \in Run
         /\ job[w].at \in {"extracting", "publishing"}
         /\ job'[w] = JobAt(w, "saving", r, job[w].outcome, job[w].seq)
         /\ disk' = disk /\ seqLock' = seqLock
         /\ registry[r] # None /\ registry'[r] # None
         /\ registry'[r] = [status |-> "error", started |-> registry[r].started, seq |-> registry[r].seq,
                       preserved |-> registry[r].preserved]
<1> DEFINE moved == JobAt(w, "saving", r, job[w].outcome, job[w].seq)
           entry == [status |-> "error", started |-> registry[r].started, seq |-> registry[r].seq,
                       preserved |-> registry[r].preserved]
<1>1. job[w].at \in {"extracting", "publishing"} /\ job[w] # Idle /\ registry[r] # None
  BY DEF Fail, Idle
<1>2. /\ r \in Run /\ registry[r] \in Entry /\ job[w] \in Job
      /\ job[w].seq \in Number \cup {None}
  BY <1>1, WorkingJob, HeldData DEF TypeOK
<1>3. job' = [job EXCEPT ![w] = moved]
  BY <1>1, <1>2, JobUpdate DEF Fail, JobAt, JobGoto
<1>4. registry' = [registry EXCEPT ![r] = entry]
  BY <1>2, EntryUpdate DEF Fail
<1>5. TypeOK'
  BY EarlyJobType
<1>6. entry # None
  BY <1>2, AbsentAssumption DEF Entry
<1> HIDE DEF moved, entry
<1> QED
  BY <1>1, <1>2, <1>3, <1>4, <1>5, <1>6 DEF Fail, TypeOK, JobFrame, RunFrame, moved, entry

LEMMA NoteSeqDoes ==
  ASSUME TypeOK, NEW w \in Workers, NEW r, r = job[w].run, NoteSeq(w)
  PROVE  /\ JobFrame(w) /\ RunFrame(r) /\ r \in Run
         /\ job[w].at = "noting"
         /\ job'[w] = Idle
         /\ disk' = disk /\ seqLock' = seqLock
         /\ registry[r] # None /\ registry'[r] # None
         /\ registry'[r] = [status |-> registry[r].status, started |-> registry[r].started, seq |-> job[w].seq,
                       preserved |-> registry[r].preserved]
<1> DEFINE moved == Idle
           entry == [status |-> registry[r].status, started |-> registry[r].started, seq |-> job[w].seq,
                       preserved |-> registry[r].preserved]
<1>1. job[w].at = "noting" /\ job[w] # Idle /\ registry[r] # None
  BY DEF NoteSeq, Idle
<1>2. /\ r \in Run /\ registry[r] \in Entry /\ job[w] \in Job
      /\ job[w].seq \in Number \cup {None}
  BY <1>1, WorkingJob, HeldData DEF TypeOK
<1>3. job' = [job EXCEPT ![w] = moved]
  BY <1>1, <1>2, JobUpdate DEF NoteSeq, JobAt
<1>4. registry' = [registry EXCEPT ![r] = entry]
  BY <1>2, EntryUpdate DEF NoteSeq
<1>5. TypeOK'
  BY SavingJobType
<1>6. entry # None
  BY <1>2, AbsentAssumption DEF Entry
<1> HIDE DEF moved, entry
<1> QED
  BY <1>1, <1>2, <1>3, <1>4, <1>5, <1>6 DEF NoteSeq, TypeOK, JobFrame, RunFrame, moved, entry

\* The steps that change neither entries nor directories.
QuietStep(w) ==
  EntryGone(w) \/ ReadPreserved(w) \/ Allocate(w) \/ WriteManifestFails(w)

LEMMA QuietStepDoes ==
  ASSUME TypeOK, NEW w \in Workers, NEW r, r = job[w].run, QuietStep(w)
  PROVE  /\ JobFrame(w) /\ RunFrame(r) /\ r \in Run
         /\ registry' = registry /\ disk' = disk
         /\ \/ job'[w] = Idle
            \/ /\ job'[w].run = r /\ job'[w].at \in {"numbering", "writing"}
               /\ job[w].at \in {"saving", "numbering"}
         /\ EntryGone(w) => /\ job[w].at \in {"extracting", "publishing", "saving", "noting"}
                            /\ registry[r] = None /\ job'[w] = Idle /\ seqLock' = seqLock
         /\ ReadPreserved(w) =>
              /\ job[w].at = "saving" /\ registry[r] # None /\ seqLock' = seqLock
              /\ job'[w] = JobAt(w, "numbering", r, job[w].outcome, registry[r].preserved)
         /\ Allocate(w) =>
              /\ job[w].at = "numbering" /\ seqLock = None /\ seqLock' = w
              /\ \E n \in Number :
                   /\ IF job[w].seq # None THEN n = job[w].seq ELSE NextNumber(n, job[w].started)
                   /\ job'[w] = JobAt(w, "writing", r, job[w].outcome, n)
         /\ WriteManifestFails(w) => job[w].at = "writing" /\ job'[w] = Idle /\ seqLock' = None
<1>1. job[w] # Idle
  <2>1. job[w].at \in {"extracting", "publishing", "saving", "numbering", "writing", "noting"}
    BY DEF QuietStep, EntryGone, ReadPreserved, Allocate, WriteManifestFails
  <2> QED
    BY <2>1 DEF Idle
<1>2. r \in Run /\ job[w] \in Job /\ job \in [Workers -> Job]
  BY <1>1, WorkingJob DEF TypeOK
<1>3. TypeOK'
  BY EarlyJobType, SavingJobType DEF QuietStep
<1>4. /\ up /\ up' = up /\ UNCHANGED <<day, unused, uploading, queue, call, retryLock>>
      /\ registry' = registry /\ disk' = disk
  BY DEF QuietStep, EntryGone, ReadPreserved, Allocate, WriteManifestFails
<1>5. \A v \in Workers \ {w} : job'[v] = job[v]
  <2>1. PICK x : job' = [job EXCEPT ![w] = x]
    BY Zenon DEF QuietStep, EntryGone, ReadPreserved, Allocate, WriteManifestFails
  <2> QED
    BY <1>2, <2>1
<1>6. JobFrame(w) /\ RunFrame(r)
  BY <1>1, <1>3, <1>4, <1>5 DEF JobFrame, RunFrame, TypeOK
<1>11. ASSUME NEW at, NEW n
       PROVE  [job[w] EXCEPT !.at = at, !.seq = n] = JobAt(w, at, r, job[w].outcome, n)
  <2>1. [job[w] EXCEPT !.at = at, !.seq = n] =
          [at |-> at, run |-> job[w].run, started |-> job[w].started,
           outcome |-> job[w].outcome, seq |-> n]
    BY <1>1, <1>2, JobUpdate, Zenon
  <2> QED
    BY <2>1, Zenon DEF JobAt
<1>7. ASSUME EntryGone(w)
      PROVE  /\ job[w].at \in {"extracting", "publishing", "saving", "noting"}
             /\ registry[r] = None /\ job'[w] = Idle /\ seqLock' = seqLock
  BY <1>2, <1>7 DEF EntryGone
<1>8. ASSUME ReadPreserved(w)
      PROVE  /\ job[w].at = "saving" /\ registry[r] # None /\ seqLock' = seqLock
             /\ job'[w] = JobAt(w, "numbering", r, job[w].outcome, registry[r].preserved)
  <2> DEFINE moved == JobAt(w, "numbering", r, job[w].outcome, registry[r].preserved)
  <2>0. [job[w] EXCEPT !.at = "numbering", !.seq = registry[r].preserved] = moved
    BY <1>11, Zenon
  <2>1. job' = [job EXCEPT ![w] = moved]
    BY <1>8, <2>0, Zenon DEF ReadPreserved
  <2> HIDE DEF moved
  <2>2. job'[w] = moved
    BY <1>2, <2>1
  <2> QED
    BY <1>8, <2>2 DEF ReadPreserved, moved
<1>9. ASSUME Allocate(w)
      PROVE  /\ job[w].at = "numbering" /\ seqLock = None /\ seqLock' = w
             /\ \E n \in Number :
                  /\ IF job[w].seq # None THEN n = job[w].seq ELSE NextNumber(n, job[w].started)
                  /\ job'[w] = JobAt(w, "writing", r, job[w].outcome, n)
  <2>1. PICK n \in Number :
          /\ IF job[w].seq # None THEN n = job[w].seq ELSE NextNumber(n, job[w].started)
          /\ job' = [job EXCEPT ![w] = [job[w] EXCEPT !.at = "writing", !.seq = n]]
    BY <1>9, Zenon DEF Allocate
  <2> DEFINE moved == JobAt(w, "writing", r, job[w].outcome, n)
  <2>0. [job[w] EXCEPT !.at = "writing", !.seq = n] = moved
    BY <1>11, Zenon
  <2>2. job' = [job EXCEPT ![w] = moved]
    BY <2>0, <2>1, Zenon
  <2> HIDE DEF moved
  <2>3. job'[w] = moved
    BY <1>2, <2>2
  <2> QED
    BY <1>9, <2>1, <2>3 DEF Allocate, moved
<1>10. ASSUME WriteManifestFails(w)
       PROVE  job[w].at = "writing" /\ job'[w] = Idle /\ seqLock' = None
  BY <1>2, <1>10 DEF WriteManifestFails
<1>12. \/ job'[w] = Idle
       \/ /\ job'[w].run = r /\ job'[w].at \in {"numbering", "writing"}
          /\ job[w].at \in {"saving", "numbering"}
  <2>1. CASE ReadPreserved(w)
    BY <1>8, <2>1 DEF JobAt
  <2>2. CASE Allocate(w)
    <3>1. PICK n : job'[w] = JobAt(w, "writing", r, job[w].outcome, n) /\ job[w].at = "numbering"
      BY <1>9, <2>2, Zenon
    <3> QED
      BY <3>1 DEF JobAt
  <2> QED
    BY <1>7, <1>10, <2>1, <2>2 DEF QuietStep
<1> QED
  BY <1>2, <1>4, <1>6, <1>7, <1>8, <1>9, <1>10, <1>12

LEMMA WriteManifestDoes ==
  ASSUME TypeOK, NEW w \in Workers, NEW r, r = job[w].run, WriteManifest(w)
  PROVE  /\ JobFrame(w) /\ RunFrame(r) /\ r \in Run
         /\ job[w].at = "writing" /\ seqLock' = None
         /\ job'[w] = IF job[w].outcome = "review"
                      THEN JobAt(w, "noting", r, job[w].outcome, job[w].seq) ELSE Idle
         /\ registry' = registry
         /\ disk[r] # None /\ disk'[r] # None
         /\ disk'[r] = [pdf |-> disk[r].pdf, cache |-> disk[r].cache, manifest |-> WrittenBy(w)]
         /\ WrittenBy(w) # None
<1> DEFINE moved == JobAt(w, "noting", r, job[w].outcome, job[w].seq)
           written == [pdf |-> disk[r].pdf, cache |-> disk[r].cache, manifest |-> WrittenBy(w)]
<1>1. job[w].at = "writing" /\ job[w] # Idle /\ disk[r] # None
  BY DEF WriteManifest, Idle
<1>2. /\ r \in Run /\ disk[r] \in Directory /\ job[w] \in Job
      /\ WrittenBy(w) \in Manifest
  BY <1>1, WorkingJob, HeldData DEF TypeOK, WrittenBy, Manifest
<1>3. job' = [job EXCEPT ![w] = IF job[w].outcome = "review" THEN moved ELSE Idle]
  BY <1>1, <1>2, JobUpdate DEF WriteManifest, LeaveSeqLock, JobAt
<1>4. disk' = [disk EXCEPT ![r] = written]
  BY <1>2, DirectoryUpdate DEF WriteManifest
<1>5. TypeOK'
  BY SavingJobType
<1>6. written # None /\ WrittenBy(w) # None
  BY <1>2, AbsentAssumption DEF Directory
<1> HIDE DEF moved, written
<1> QED
  BY <1>1, <1>2, <1>3, <1>4, <1>5, <1>6
     DEF WriteManifest, LeaveSeqLock, TypeOK, JobFrame, RunFrame, moved, written

-----------------------------------------------------------------------------
(* What a step of a request does, field by field *)

CallFrame(c) ==
  /\ up /\ up' = up /\ UNCHANGED <<day, unused, uploading, job, seqLock>>
  /\ call \in [Callers -> Call] /\ call' \in [Callers -> Call]
  /\ \A d \in Callers \ {c} : call'[d] = call[d]

\* A sweep's step keeps its cutoff and the runs it put aside.
SweepFrame(c) ==
  /\ call[c].at = "sweeping" /\ call'[c].at = "sweeping"
  /\ call'[c].skip = call[c].skip /\ call'[c].today = call[c].today

LEMMA CallUpdate ==
  ASSUME NEW k \in Call, NEW x, NEW y
  PROVE  /\ k.at = "sweeping" =>
              /\ [k EXCEPT !.todo = x, !.target = y].at = "sweeping"
              /\ [k EXCEPT !.todo = x, !.target = y].skip = k.skip
              /\ [k EXCEPT !.todo = x, !.target = y].today = k.today
              /\ [k EXCEPT !.todo = x, !.target = y].swept = k.swept
              /\ [k EXCEPT !.todo = x, !.target = y].todo = x
              /\ [k EXCEPT !.todo = x, !.target = y].target = y
              /\ [k EXCEPT !.target = x, !.swept = y].at = "sweeping"
              /\ [k EXCEPT !.target = x, !.swept = y].skip = k.skip
              /\ [k EXCEPT !.target = x, !.swept = y].today = k.today
              /\ [k EXCEPT !.target = x, !.swept = y].todo = k.todo
              /\ [k EXCEPT !.target = x, !.swept = y].target = x
              /\ [k EXCEPT !.target = x, !.swept = y].swept = y
         /\ k.at = "removing" =>
              /\ [k EXCEPT !.at = "popping"].at = "popping"
              /\ [k EXCEPT !.at = "popping"].run = k.run
         /\ k.at \in {"resetting", "marking"} =>
              /\ [k EXCEPT !.at = "firing"].at = "firing"
              /\ [k EXCEPT !.at = "firing"].run = k.run
              /\ [k EXCEPT !.at = "firing"].entry = k.entry
              /\ [k EXCEPT !.at = "firing"].preserved = k.preserved
              /\ [k EXCEPT !.at = "marking", !.preserved = x].at = "marking"
              /\ [k EXCEPT !.at = "marking", !.preserved = x].run = k.run
              /\ [k EXCEPT !.at = "marking", !.preserved = x].entry = k.entry
              /\ [k EXCEPT !.at = "marking", !.preserved = x].preserved = x
<1>0. Idle.at = "idle"
  BY DEF Idle
<1>1. CASE k.at = "sweeping"
  <2>1. k \in [at : {"sweeping"}, today : Today, skip : SUBSET Run, todo : SUBSET Run,
               target : Run \cup {None}, swept : SUBSET Run]
    BY <1>0, <1>1 DEF Call
  <2> QED
    BY <1>1, <2>1
<1>2. CASE k.at = "removing"
  <2>1. k \in [at : {"removing", "popping"}, run : Run]
    BY <1>0, <1>2 DEF Call
  <2> QED
    BY <1>2, <2>1
<1>3. CASE k.at \in {"resetting", "marking"}
  <2>1. k \in [at : {"resetting", "marking", "firing"}, run : Run, entry : Entry,
               preserved : Number \cup {None}]
    BY <1>0, <1>3 DEF Call
  <2> QED
    BY <1>3, <2>1
<1> QED
  BY <1>1, <1>2, <1>3

LEMMA CallStepFrame ==
  ASSUME TypeOK, NEW c \in Callers,
         CallStep(c) \/ ListRuns(c) \/ \E r \in Run : DeleteRun(c, r) \/ RetryRun(c, r)
  PROVE  CallFrame(c) /\ TypeOK'
<1>1. TypeOK'
  BY RequestType, SweepAndDeleteType, RetryType DEF CallStep
<1>2. /\ up /\ up' = up /\ UNCHANGED <<day, unused, uploading, job, seqLock>>
      /\ \E x : call' = [call EXCEPT ![c] = x]
  BY Zenon DEF CallStep, SweepInspect, SweepRemove, SweepReturn, DeleteDirectory, DeletePop, ResetRun,
         MarkPending, MarkPendingFails, FireRetry, ListRuns, DeleteRun, RetryRun, Request
<1> QED
  BY <1>1, <1>2 DEF CallFrame, TypeOK

LEMMA ListRunsDoes ==
  ASSUME TypeOK, NEW c \in Callers, ListRuns(c)
  PROVE  /\ CallFrame(c) /\ call[c].at = "idle"
         /\ UNCHANGED <<registry, disk, queue>>
         /\ call'[c].at = "sweeping" /\ call'[c].skip = {r \in Run : InFlight(r)}
         /\ call'[c].target = None /\ call'[c].swept = {}
  BY CallStepFrame DEF ListRuns, Request, Sweeping, CallFrame, Idle

LEMMA DeleteRunDoes ==
  ASSUME TypeOK, NEW c \in Callers, NEW r \in Run, DeleteRun(c, r)
  PROVE  /\ CallFrame(c) /\ call[c].at = "idle"
         /\ UNCHANGED <<registry, disk, queue>>
         /\ registry[r] # None /\ ~InFlight(r)
         /\ call'[c] = [at |-> "removing", run |-> r]
<1>1. CallFrame(c)
  BY CallStepFrame, Zenon
<1>2. call[c] = Idle /\ call' = [call EXCEPT ![c] = [at |-> "removing", run |-> r]]
  BY DEF DeleteRun, Request
<1> QED
  BY <1>1, <1>2 DEF DeleteRun, CallFrame, Idle

LEMMA RetryRunDoes ==
  ASSUME TypeOK, NEW c \in Callers, NEW r \in Run, RetryRun(c, r)
  PROVE  /\ CallFrame(c) /\ call[c].at = "idle"
         /\ UNCHANGED <<registry, disk, queue>>
         /\ registry[r] # None /\ registry[r].status = "error"
         /\ \A q \in Run \ {r} : ~InFlight(q)
         /\ call'[c] = [at |-> "resetting", run |-> r, entry |-> registry[r], preserved |-> None]
<1>1. CallFrame(c)
  BY CallStepFrame, Zenon
<1>2. call[c] = Idle /\ call' = [call EXCEPT ![c] =
        [at |-> "resetting", run |-> r, entry |-> registry[r], preserved |-> None]]
  BY DEF RetryRun, Request
<1> QED
  BY <1>1, <1>2 DEF RetryRun, Retryable, CallFrame, Idle

LEMMA SweepInspectDoes ==
  ASSUME TypeOK, NEW c \in Callers, SweepInspect(c)
  PROVE  /\ CallFrame(c) /\ SweepFrame(c)
         /\ UNCHANGED <<registry, disk, queue>>
         /\ call'[c].swept = call[c].swept
         /\ call'[c].target # None =>
              /\ call'[c].target \in Run /\ call'[c].target \notin call[c].skip
              /\ Sweepable(call'[c].target, call[c].today)
<1>1. call[c].at = "sweeping" /\ call[c].todo \subseteq Run /\ call[c] \in Call
  BY WorkingCall DEF SweepInspect, TypeOK
<1>2. PICK q \in call[c].todo :
        call' = [call EXCEPT ![c] = [call[c] EXCEPT !.todo = call[c].todo \ {q},
                   !.target = IF q \notin call[c].skip /\ Sweepable(q, call[c].today)
                              THEN q ELSE None]]
  BY DEF SweepInspect
<1>3. CallFrame(c)
  BY CallStepFrame DEF CallStep
<1> DEFINE found == IF q \notin call[c].skip /\ Sweepable(q, call[c].today) THEN q ELSE None
           left == call[c].todo \ {q}
<1>4. call'[c] = [call[c] EXCEPT !.todo = left, !.target = found]
  BY <1>2, <1>3 DEF CallFrame
<1>5. found # None => found \in Run /\ found \notin call[c].skip /\ Sweepable(found, call[c].today)
  BY <1>1
<1> HIDE DEF found, left
<1>6. /\ call'[c].at = "sweeping" /\ call'[c].skip = call[c].skip /\ call'[c].today = call[c].today
      /\ call'[c].swept = call[c].swept /\ call'[c].target = found
  BY <1>1, <1>4, CallUpdate
<1> QED
  BY <1>1, <1>3, <1>5, <1>6 DEF SweepFrame, SweepInspect

LEMMA SweepRemoveDoes ==
  ASSUME TypeOK, NEW c \in Callers, NEW r, r = call[c].target, SweepRemove(c)
  PROVE  /\ CallFrame(c) /\ SweepFrame(c) /\ r \in Run
         /\ UNCHANGED <<registry, queue>>
         /\ disk' = [disk EXCEPT ![r] = None]
         /\ call'[c].swept = call[c].swept \cup {r} /\ call'[c].target = None
<1>1. call[c].at = "sweeping" /\ r \in Run /\ call[c] \in Call
  BY WorkingCall DEF SweepRemove, TypeOK
<1>2. CallFrame(c)
  BY CallStepFrame DEF CallStep
<1> DEFINE more == call[c].swept \cup {r}
<1>3. call'[c] = [call[c] EXCEPT !.target = None, !.swept = more]
  BY <1>2 DEF CallFrame, SweepRemove
<1> HIDE DEF more
<1>4. /\ call'[c].at = "sweeping" /\ call'[c].skip = call[c].skip /\ call'[c].today = call[c].today
      /\ call'[c].swept = more /\ call'[c].target = None
  BY <1>1, <1>3, CallUpdate
<1> QED
  BY <1>1, <1>2, <1>4 DEF SweepFrame, SweepRemove, more

LEMMA SweepReturnDoes ==
  ASSUME TypeOK, NEW c \in Callers, SweepReturn(c)
  PROVE  /\ CallFrame(c) /\ UNCHANGED <<disk, queue>>
         /\ call[c].at = "sweeping" /\ call'[c] = Idle
         /\ registry' = [r \in Run |-> IF r \in call[c].swept THEN None ELSE registry[r]]
  BY CallStepFrame DEF CallStep, SweepReturn, CallFrame

LEMMA DeleteDirectoryDoes ==
  ASSUME TypeOK, NEW c \in Callers, NEW r, r = call[c].run, DeleteDirectory(c)
  PROVE  /\ CallFrame(c) /\ r \in Run /\ UNCHANGED <<registry, queue>>
         /\ call[c].at = "removing" /\ call'[c].at = "popping" /\ call'[c].run = r
         /\ disk' = [disk EXCEPT ![r] = None]
<1>1. call[c].at = "removing" /\ r \in Run /\ call[c] \in Call
  BY WorkingCall DEF DeleteDirectory, TypeOK
<1>2. CallFrame(c)
  BY CallStepFrame DEF CallStep
<1>3. call'[c] = [call[c] EXCEPT !.at = "popping"]
  BY <1>2 DEF CallFrame, DeleteDirectory
<1>4. call'[c].at = "popping" /\ call'[c].run = r
  BY <1>1, <1>3, CallUpdate
<1> QED
  BY <1>1, <1>2, <1>4 DEF DeleteDirectory

LEMMA DeletePopDoes ==
  ASSUME TypeOK, NEW c \in Callers, NEW r, r = call[c].run, DeletePop(c)
  PROVE  /\ CallFrame(c) /\ r \in Run /\ UNCHANGED <<disk, queue>>
         /\ call[c].at = "popping" /\ call'[c] = Idle
         /\ registry' = [registry EXCEPT ![r] = None]
<1>1. call[c].at = "popping" /\ r \in Run
  BY WorkingCall DEF DeletePop
<1> QED
  BY <1>1, CallStepFrame DEF CallStep, DeletePop, CallFrame

LEMMA ResetRunDoes ==
  ASSUME TypeOK, NEW c \in Callers, NEW r, r = call[c].run, ResetRun(c)
  PROVE  /\ CallFrame(c) /\ r \in Run /\ UNCHANGED <<registry, queue>>
         /\ call[c].at = "resetting" /\ call'[c].at = "marking" /\ call'[c].run = r
         /\ call'[c].preserved = IF HasManifest(r) /\ disk[r].manifest.started = day
                                 THEN disk[r].manifest.seq ELSE None
         /\ \A q \in Run \ {r} : disk'[q] = disk[q]
         /\ disk[r] = None => disk'[r] = None
         /\ disk[r] # None =>
              /\ disk'[r] # None
              /\ disk'[r] = [pdf |-> disk[r].pdf, cache |-> FALSE, manifest |-> disk[r].manifest]
<1>1. call[c].at = "resetting" /\ r \in Run /\ call[c] \in Call
  BY WorkingCall DEF ResetRun, TypeOK
<1>2. CallFrame(c)
  BY CallStepFrame DEF CallStep
<1> DEFINE kept == IF HasManifest(r) /\ disk[r].manifest.started = day
                   THEN disk[r].manifest.seq ELSE None
           emptied == [pdf |-> disk[r].pdf, cache |-> FALSE, manifest |-> disk[r].manifest]
<1>3. call'[c] = [call[c] EXCEPT !.at = "marking", !.preserved = kept]
  BY <1>2 DEF CallFrame, ResetRun
<1>4. disk[r] # None => emptied \in Directory /\ [disk[r] EXCEPT !.cache = FALSE] = emptied
  BY <1>1, HeldData, DirectoryUpdate DEF Directory
<1>5. disk' = [disk EXCEPT ![r] = IF disk[r] = None THEN disk[r] ELSE [disk[r] EXCEPT !.cache = FALSE]]
  BY DEF ResetRun
<1> HIDE DEF kept, emptied
<1>6. call'[c].at = "marking" /\ call'[c].run = r /\ call'[c].preserved = kept
  BY <1>1, <1>3, CallUpdate
<1>7. disk' = [disk EXCEPT ![r] = IF disk[r] = None THEN None ELSE emptied]
  BY <1>4, <1>5
<1>8. disk[r] # None => emptied # None
  BY <1>4, AbsentAssumption
<1> QED
  BY <1>1, <1>2, <1>6, <1>7, <1>8 DEF ResetRun, TypeOK, kept, emptied

\* A directory whose manifest has another status.
Remarked(d, s) ==
  [pdf |-> d.pdf, cache |-> d.cache,
   manifest |-> [status |-> s, started |-> d.manifest.started, done |-> d.manifest.done,
                 seq |-> d.manifest.seq]]

LEMMA Remark ==
  ASSUME TypeOK, NEW r \in Run, HasManifest(r), NEW s \in {"pending", "review", "error"}
  PROVE  /\ [disk[r] EXCEPT !.manifest.status = s] = Remarked(disk[r], s)
         /\ Remarked(disk[r], s) # None /\ Remarked(disk[r], s).manifest # None
<1>1. PICK d \in Directory : d = disk[r]
  BY HeldData DEF HasManifest
<1>2. PICK m \in Manifest : m = d.manifest
  BY <1>1, HeldData
<1>3. [m EXCEPT !.status = s] =
        [status |-> s, started |-> m.started, done |-> m.done, seq |-> m.seq]
  BY DEF Manifest
<1>4. [d EXCEPT !.manifest = [m EXCEPT !.status = s]] =
        [pdf |-> d.pdf, cache |-> d.cache, manifest |-> [m EXCEPT !.status = s]]
  BY DirectoryUpdate, Zenon
<1>5. [d EXCEPT !.manifest = [m EXCEPT !.status = s]] = Remarked(d, s)
  BY <1>2, <1>3, <1>4, Zenon DEF Remarked
<1>6. [m EXCEPT !.status = s] \in Manifest
  BY DEF Manifest
<1>7. [d EXCEPT !.manifest = [m EXCEPT !.status = s]] \in Directory
  BY <1>6, RewrittenDirectory
<1>8. Remarked(d, s) # None
  BY <1>5, <1>7, AbsentAssumption
<1>9. Remarked(d, s).manifest # None
  BY <1>2, <1>3, <1>6, AbsentAssumption DEF Remarked
<1> QED
  BY <1>1, <1>2, <1>5, <1>8, <1>9

LEMMA MarkPendingDoes ==
  ASSUME TypeOK, NEW c \in Callers, NEW r, r = call[c].run, MarkPending(c) \/ MarkPendingFails(c)
  PROVE  /\ CallFrame(c) /\ r \in Run /\ UNCHANGED <<registry, queue>>
         /\ call[c].at = "marking" /\ call'[c].at = "firing" /\ call'[c].run = r
         /\ call'[c].preserved = call[c].preserved /\ call'[c].entry = call[c].entry
         /\ \A q \in Run \ {r} : disk'[q] = disk[q]
         /\ ~HasManifest(r) => disk'[r] = disk[r]
         /\ HasManifest(r) =>
              /\ disk'[r] # None /\ disk'[r].manifest # None
              /\ \/ disk'[r] = Remarked(disk[r], "pending")
                 \/ MarkPendingFails(c) /\ disk' = disk
<1>1. call[c].at = "marking" /\ r \in Run /\ call[c] \in Call
  BY WorkingCall DEF MarkPending, MarkPendingFails, TypeOK
<1>2. CallFrame(c)
  BY CallStepFrame DEF CallStep
<1>3. call'[c] = [call[c] EXCEPT !.at = "firing"]
  BY <1>2 DEF CallFrame, MarkPending, MarkPendingFails
<1>4. /\ call'[c].at = "firing" /\ call'[c].run = r
      /\ call'[c].preserved = call[c].preserved /\ call'[c].entry = call[c].entry
  BY <1>1, <1>3, CallUpdate
<1>5. UNCHANGED <<registry, queue>>
  BY DEF MarkPending, MarkPendingFails
<1>6. CASE MarkPending(c)
  <2>1. disk' = [disk EXCEPT ![r] = IF HasManifest(r) THEN [disk[r] EXCEPT !.manifest.status = "pending"]
                                    ELSE disk[r]]
    BY <1>6, Zenon DEF MarkPending
  <2>2. HasManifest(r) => /\ [disk[r] EXCEPT !.manifest.status = "pending"] = Remarked(disk[r], "pending")
                          /\ Remarked(disk[r], "pending") # None
                          /\ Remarked(disk[r], "pending").manifest # None
    BY <1>1, Remark, Zenon
  <2> DEFINE marked == Remarked(disk[r], "pending")
  <2>3. disk' = [disk EXCEPT ![r] = IF HasManifest(r) THEN marked ELSE disk[r]]
    BY <2>1, <2>2, Zenon
  <2> HIDE DEF marked
  <2> QED
    BY <1>1, <1>2, <1>4, <1>5, <2>2, <2>3 DEF TypeOK, marked
<1>7. CASE MarkPendingFails(c)
  BY <1>1, <1>2, <1>4, <1>5, <1>7 DEF MarkPendingFails, HasManifest
<1> QED
  BY <1>6, <1>7

LEMMA FireRetryDoes ==
  ASSUME TypeOK, NEW c \in Callers, NEW r, r = call[c].run, FireRetry(c)
  PROVE  /\ CallFrame(c) /\ r \in Run /\ disk' = disk
         /\ call[c].at = "firing" /\ call'[c] = Idle
         /\ queue' = queue \cup {r}
         /\ \A q \in Run \ {r} : registry'[q] = registry[q]
         /\ registry'[r] # None
         /\ registry'[r] = [status |-> "processing", started |-> call[c].entry.started,
                            seq |-> call[c].entry.seq, preserved |-> call[c].preserved]
<1>1. /\ call[c].at = "firing" /\ r \in Run /\ call[c].entry \in Entry
      /\ call[c].preserved \in Number \cup {None}
  BY WorkingCall DEF FireRetry
<1>2. CallFrame(c)
  BY CallStepFrame DEF CallStep
<1> DEFINE fired == [status |-> "processing", started |-> call[c].entry.started,
                     seq |-> call[c].entry.seq, preserved |-> call[c].preserved]
<1>3. [call[c].entry EXCEPT !.status = "processing", !.preserved = call[c].preserved] = fired
  BY <1>1, EntryFired, Zenon
<1>4. registry' = [registry EXCEPT ![r] = fired]
  BY <1>3, Zenon DEF FireRetry
<1>5. fired \in Entry
  BY <1>1, <1>3, NumberedEntry, Zenon
<1> HIDE DEF fired
<1>6. fired # None
  BY <1>5, AbsentAssumption
<1> QED
  BY <1>1, <1>2, <1>4, <1>6 DEF FireRetry, TypeOK, CallFrame, fired

-----------------------------------------------------------------------------
(* The invariant *)

Deletes(c, r) == call[c].at \in {"removing", "popping"} /\ call[c].run = r
Pops(c, r) == call[c].at = "popping" /\ call[c].run = r
Targets(c, r) == call[c].at = "sweeping" /\ call[c].target = r
Swept(c, r) == call[c].at = "sweeping" /\ r \in call[c].swept

DownInv ==
  ~up => /\ queue = {} /\ uploading = {}
         /\ \A r \in Run : registry[r] = None
         /\ \A w \in Workers : job[w] = Idle
         /\ \A c \in Callers : call[c] = Idle

\* An upload's directory.
JustPdf == [EmptyDir EXCEPT !.pdf = TRUE]

\* A run that is not accepted has at most its PDF.
FreshInv ==
  /\ unused \cap uploading = {}
  /\ \A r \in unused : disk[r] = None
  /\ \A r \in uploading : disk[r] # None /\ disk[r] = JustPdf
  /\ \A r \in unused \cup uploading :
       /\ registry[r] = None /\ r \notin queue
       /\ \A w \in Workers : ~Works(w, r)
       /\ \A c \in Callers : ~Retries(c, r) /\ ~Deletes(c, r) /\ ~Targets(c, r) /\ ~Swept(c, r)

\* What is queued or with a pipeline is in flight, and is in one place.
WorkInv ==
  /\ \A r \in queue : InFlight(r)
  /\ \A w \in Workers, r \in Run : Runs(w, r) =>
       InFlight(r) /\ r \notin queue /\ \A v \in Workers : Runs(v, r) => v = w

\* No request is about a run in flight, and a sweep that has not put one aside
\* has nothing to read of it.
CallInv ==
  \A c \in Callers, r \in Run :
    /\ Retries(c, r) => registry[r] # None /\ registry[r].status = "error"
    /\ Deletes(c, r) \/ Targets(c, r) \/ Swept(c, r) => ~InFlight(r)
    /\ call[c].at = "sweeping" /\ r \notin call[c].skip /\ InFlight(r) =>
         /\ ~HasManifest(r)
         /\ \A w \in Workers : Works(w, r) => Runs(w, r)

\* A registered run has its PDF until a request takes both away; a directory
\* without one is all that is left of a refused upload.
DirInv ==
  \A r \in Run :
    /\ registry[r] # None =>
         \/ disk[r] # None /\ disk[r].pdf
         \/ \E c \in Callers : Pops(c, r) \/ Swept(c, r)
    /\ disk[r] # None /\ ~disk[r].pdf =>
         /\ disk[r] = EmptyDir /\ registry[r] = None
         /\ \A w \in Workers : ~Works(w, r)

LifeInv == DownInv /\ FreshInv /\ WorkInv /\ CallInv /\ DirInv

LEMMA InitLife == Init => LifeInv
BY DEF Init, LifeInv, DownInv, FreshInv, WorkInv, CallInv, DirInv, InFlight, Works, Runs, Retries,
   Deletes, Pops, Targets, Swept, Idle

\* What a step of w's job may do to r: it takes no entry and no directory away,
\* settles only its own run, and writes a manifest only after settling it.
GoesOn(w, r) ==
  /\ Works(w, r)' => Works(w, r)
  /\ Runs(w, r)' => Runs(w, r) /\ InFlight(r)'
  /\ ~Works(w, r) => registry'[r] = registry[r] /\ disk'[r] = disk[r]
  /\ registry'[r] = None <=> registry[r] = None
  /\ InFlight(r)' => InFlight(r)
  /\ InFlight(r) /\ ~InFlight(r)' => Runs(w, r)
  /\ registry[r] # None /\ ~InFlight(r) => registry'[r].status = registry[r].status
  /\ Works(w, r)' /\ Runs(w, r) /\ InFlight(r)' => Runs(w, r)'
  /\ disk'[r] = None <=> disk[r] = None
  /\ disk[r] # None => disk'[r].pdf = disk[r].pdf
  /\ HasManifest(r)' => HasManifest(r) \/ (Works(w, r) /\ ~Runs(w, r))

LEMMA WorkGoesOn ==
  ASSUME TypeOK, LifeInv, NEW w \in Workers, JobFrame(w), \A r \in Run : GoesOn(w, r)
  PROVE  LifeInv'
<1> USE DEF LifeInv, JobFrame, GoesOn
<1>1. DownInv'
  BY DEF DownInv
<1>0. unused \subseteq Run /\ uploading \subseteq Run /\ queue \subseteq Run
  BY DEF TypeOK
<1>2. FreshInv'
  <2>1. \A r \in unused \cup uploading : registry'[r] = registry[r] /\ disk'[r] = disk[r]
    BY <1>0 DEF FreshInv
  <2>2. \A r \in unused \cup uploading, v \in Workers : ~Works(v, r)'
    BY <1>0 DEF FreshInv, Works
  <2>3. \A r \in unused \cup uploading, c \in Callers :
          ~Retries(c, r)' /\ ~Deletes(c, r)' /\ ~Targets(c, r)' /\ ~Swept(c, r)'
    BY DEF FreshInv, Retries, Deletes, Targets, Swept
  <2> QED
    BY <2>1, <2>2, <2>3 DEF FreshInv
<1>3. WorkInv'
  <2>1. \A v \in Workers, r \in Run : Runs(v, r)' => Runs(v, r)
    BY DEF Runs
  <2>2. \A r \in queue : InFlight(r)'
    BY <1>0 DEF WorkInv
  <2> QED
    BY <2>1, <2>2 DEF WorkInv
<1>4. CallInv'
  <2> SUFFICES ASSUME NEW c \in Callers, NEW r \in Run
               PROVE  /\ Retries(c, r)' => registry'[r] # None /\ registry'[r].status = "error"
                      /\ (Deletes(c, r) \/ Targets(c, r) \/ Swept(c, r))' => ~InFlight(r)'
                      /\ call[c].at = "sweeping" /\ r \notin call[c].skip /\ InFlight(r)' =>
                           /\ ~HasManifest(r)'
                           /\ \A v \in Workers : Works(v, r)' => Runs(v, r)'
    BY DEF CallInv
  <2>1. ASSUME Retries(c, r)' PROVE registry'[r] # None /\ registry'[r].status = "error"
    <3>1. Retries(c, r)
      BY <2>1 DEF Retries
    <3>2. registry[r] # None /\ registry[r].status = "error"
      BY <3>1 DEF CallInv
    <3> QED
      BY <3>2 DEF InFlight, InFlightStatus
  <2>2. (Deletes(c, r) \/ Targets(c, r) \/ Swept(c, r))' => ~InFlight(r)'
    BY DEF CallInv, Deletes, Targets, Swept
  <2>3. ASSUME call[c].at = "sweeping", r \notin call[c].skip, InFlight(r)'
        PROVE  ~HasManifest(r)' /\ \A v \in Workers : Works(v, r)' => Runs(v, r)'
    <3>1. ~HasManifest(r) /\ \A v \in Workers : Works(v, r) => Runs(v, r)
      BY <2>3 DEF CallInv
    <3>2. \A v \in Workers \ {w} : Works(v, r)' => Runs(v, r)'
      BY <3>1 DEF Works, Runs
    <3> QED
      BY <2>3, <3>1, <3>2
  <2> QED
    BY <2>1, <2>2, <2>3
<1>5. DirInv'
  BY DEF DirInv, Pops, Swept, Works
<1> QED
  BY <1>1, <1>2, <1>3, <1>4, <1>5

LEMMA JobGoesOn ==
  ASSUME TypeOK, LifeInv, NEW w \in Workers, JobStep(w), ~StartJob(w), ~StartGone(w)
  PROVE  JobFrame(w) /\ \A r \in Run : GoesOn(w, r)
<1>0. Idle.at = "idle"
  BY DEF Idle
<1>2. PICK d : d = job[w].run
  OBVIOUS
<1> DEFINE Goal == JobFrame(w) /\ \A r \in Run : GoesOn(w, r)
<1>1. ASSUME JobFrame(w), RunFrame(d), job'[w] = Idle \/ (job'[w].run = d /\ job'[w].at # "idle"),
             GoesOn(w, d)
      PROVE  Goal
  <2>1. ASSUME NEW q \in Run, q # d PROVE GoesOn(w, q)
    BY <1>0, <1>2, <1>1, <2>1 DEF GoesOn, JobFrame, RunFrame, Works, Runs, InFlight, HasManifest
  <2> QED
    BY <1>1, <2>1
<1>3. ASSUME Extract(w) PROVE Goal
  <2>1. /\ JobFrame(w) /\ RunFrame(d) /\ d \in Run /\ job[w].at = "extracting"
        /\ job'[w] = JobAt(w, "publishing", d, job[w].outcome, job[w].seq)
        /\ registry' = registry /\ disk[d] # None
        /\ disk'[d] = [pdf |-> disk[d].pdf, cache |-> TRUE, manifest |-> disk[d].manifest]
        /\ disk'[d] # None
    BY <1>2, <1>3, ExtractDoes, Zenon
  <2>2. GoesOn(w, d)
    BY <1>0, <1>2, <2>1 DEF JobFrame, JobAt, LifeInv, WorkInv, GoesOn, Works, Runs, InFlight, HasManifest
  <2> QED
    BY <1>0, <1>1, <2>1, <2>2 DEF JobAt
<1>4. ASSUME Publish(w) PROVE Goal
  <2>1. /\ JobFrame(w) /\ RunFrame(d) /\ d \in Run /\ job[w].at = "publishing"
        /\ job'[w] = JobAt(w, "saving", d, "review", job[w].seq)
        /\ disk' = disk /\ registry[d] # None /\ registry'[d] # None
        /\ registry'[d] = [status |-> "review", started |-> registry[d].started,
                           seq |-> registry[d].seq, preserved |-> registry[d].preserved]
    BY <1>2, <1>4, PublishDoes, Zenon
  <2>2. GoesOn(w, d)
    BY <1>0, <1>2, <2>1 DEF JobFrame, JobAt, LifeInv, WorkInv, InFlightStatus, GoesOn, Works, Runs, InFlight, HasManifest
  <2> QED
    BY <1>0, <1>1, <2>1, <2>2 DEF JobAt
<1>5. ASSUME Fail(w) PROVE Goal
  <2>1. /\ JobFrame(w) /\ RunFrame(d) /\ d \in Run /\ job[w].at \in {"extracting", "publishing"}
        /\ job'[w] = JobAt(w, "saving", d, job[w].outcome, job[w].seq)
        /\ disk' = disk /\ registry[d] # None /\ registry'[d] # None
        /\ registry'[d] = [status |-> "error", started |-> registry[d].started,
                           seq |-> registry[d].seq, preserved |-> registry[d].preserved]
    BY <1>2, <1>5, FailDoes, Zenon
  <2>2. GoesOn(w, d)
    BY <1>0, <1>2, <2>1 DEF JobFrame, JobAt, LifeInv, WorkInv, InFlightStatus, GoesOn, Works, Runs, InFlight, HasManifest
  <2> QED
    BY <1>0, <1>1, <2>1, <2>2 DEF JobAt
<1>6. ASSUME NoteSeq(w) PROVE Goal
  <2>1. /\ JobFrame(w) /\ RunFrame(d) /\ d \in Run /\ job[w].at = "noting" /\ job'[w] = Idle
        /\ disk' = disk /\ registry[d] # None /\ registry'[d] # None
        /\ registry'[d] = [status |-> registry[d].status, started |-> registry[d].started,
                           seq |-> job[w].seq, preserved |-> registry[d].preserved]
    BY <1>2, <1>6, NoteSeqDoes, Zenon
  <2>2. GoesOn(w, d)
    BY <1>0, <1>2, <2>1 DEF JobFrame, JobAt, GoesOn, Works, Runs, InFlight, HasManifest
  <2> QED
    BY <1>0, <1>1, <2>1, <2>2 DEF JobAt
<1>7. ASSUME QuietStep(w) PROVE Goal
  <2>1. /\ JobFrame(w) /\ RunFrame(d) /\ d \in Run /\ registry' = registry /\ disk' = disk
        /\ \/ job'[w] = Idle
           \/ /\ job'[w].run = d /\ job'[w].at \in {"numbering", "writing"}
              /\ job[w].at \in {"saving", "numbering"}
    BY <1>2, <1>7, QuietStepDoes, Zenon
  <2>2. GoesOn(w, d)
    BY <1>0, <1>2, <2>1 DEF JobFrame, JobAt, GoesOn, Works, Runs, InFlight, HasManifest
  <2> QED
    BY <1>0, <1>1, <2>1, <2>2 DEF JobAt
<1>8. ASSUME WriteManifest(w) PROVE Goal
  <2>1. /\ JobFrame(w) /\ RunFrame(d) /\ d \in Run /\ job[w].at = "writing" /\ registry' = registry
        /\ job'[w] = Idle \/ job'[w] = JobAt(w, "noting", d, job[w].outcome, job[w].seq)
        /\ disk[d] # None /\ disk'[d] # None
        /\ disk'[d] = [pdf |-> disk[d].pdf, cache |-> disk[d].cache, manifest |-> WrittenBy(w)]
    BY <1>2, <1>8, WriteManifestDoes
  <2>2. GoesOn(w, d)
    BY <1>0, <1>2, <2>1 DEF JobFrame, JobAt, GoesOn, Works, Runs, InFlight, HasManifest
  <2> QED
    BY <1>0, <1>1, <2>1, <2>2 DEF JobAt
<1> QED
  BY <1>3, <1>4, <1>5, <1>6, <1>7, <1>8 DEF JobStep, QuietStep

\* A job begins with the run it takes from the queue, which has its PDF.
LEMMA StartJobDoes ==
  ASSUME TypeOK, LifeInv, NEW w \in Workers, StartJob(w)
  PROVE  /\ up /\ up' = up /\ UNCHANGED <<day, unused, uploading, disk, call, retryLock, seqLock>>
         /\ job[w].at = "idle" /\ \A v \in Workers \ {w} : job'[v] = job[v]
         /\ \E q \in queue :
              /\ q \in Run /\ queue' = queue \ {q}
              /\ \A r \in Run \ {q} : registry'[r] = registry[r]
              /\ registry[q] # None /\ registry'[q] # None /\ disk[q] # None /\ disk[q].pdf
              /\ registry'[q] = [status |-> "processing", started |-> day, seq |-> registry[q].seq,
                                 preserved |-> registry[q].preserved]
              /\ job'[w] = [at |-> "extracting", run |-> q, started |-> day,
                            outcome |-> "error", seq |-> None]
<1>1. PICK q \in queue :
        /\ registry[q] # None
        /\ queue' = queue \ {q}
        /\ registry' = [registry EXCEPT ![q] =
                          [registry[q] EXCEPT !.status = "processing", !.started = day]]
        /\ disk' = [disk EXCEPT ![q] = IF disk[q] = None THEN EmptyDir ELSE disk[q]]
        /\ job' = [job EXCEPT ![w] = [at |-> "extracting", run |-> q, started |-> day,
                                      outcome |-> "error", seq |-> None]]
  BY DEF StartJob
<1>2. q \in Run /\ registry[q] \in Entry /\ day \in Today
  BY <1>1, HeldData DEF TypeOK
<1>3. disk[q] # None /\ disk[q].pdf
  <2>1. InFlight(q)
    BY <1>1 DEF LifeInv, WorkInv
  <2>2. \A c \in Callers : ~Pops(c, q) /\ ~Swept(c, q)
    BY <1>2, <2>1 DEF LifeInv, CallInv, Pops, Deletes
  <2> QED
    BY <1>1, <1>2, <2>2 DEF LifeInv, DirInv
<1>4. disk' = disk
  BY <1>1, <1>3 DEF TypeOK
<1> DEFINE begun == [status |-> "processing", started |-> day, seq |-> registry[q].seq,
                     preserved |-> registry[q].preserved]
<1>5. [registry[q] EXCEPT !.status = "processing", !.started = day] = begun
  BY <1>2, EntryBegun, Zenon
<1>6. registry' = [registry EXCEPT ![q] = begun]
  BY <1>1, <1>5, Zenon
<1>7. begun # None
  <2>1. begun \in Entry
    BY <1>2, <1>5, BegunEntry, Zenon
  <2> QED
    BY <2>1, AbsentAssumption
<1> HIDE DEF begun
<1>8. registry'[q] = begun /\ \A r \in Run \ {q} : registry'[r] = registry[r]
  BY <1>2, <1>6 DEF TypeOK
<1> QED
  BY <1>1, <1>2, <1>3, <1>4, <1>7, <1>8 DEF StartJob, TypeOK, Idle, begun

LEMMA StartLife ==
  ASSUME TypeOK, LifeInv, NEW w \in Workers, StartJob(w) \/ StartGone(w)
  PROVE  LifeInv'
<1> USE DEF LifeInv
<1>0. queue \subseteq Run /\ unused \subseteq Run /\ uploading \subseteq Run /\ \A r \in queue : InFlight(r)
  BY DEF TypeOK, WorkInv
<1>1. StartJob(w)
  BY <1>0 DEF StartGone, InFlight
<1>2. PICK q \in queue :
        /\ q \in Run /\ queue' = queue \ {q}
        /\ \A r \in Run \ {q} : registry'[r] = registry[r]
        /\ registry[q] # None /\ registry'[q] # None /\ disk[q] # None /\ disk[q].pdf
        /\ registry'[q] = [status |-> "processing", started |-> day, seq |-> registry[q].seq,
                           preserved |-> registry[q].preserved]
        /\ job'[w] = [at |-> "extracting", run |-> q, started |-> day, outcome |-> "error", seq |-> None]
  BY <1>1, StartJobDoes
<1>3. /\ up /\ up' = up /\ UNCHANGED <<unused, uploading, disk, call>>
      /\ job[w].at = "idle" /\ \A v \in Workers \ {w} : job'[v] = job[v]
  BY <1>1, StartJobDoes
<1>4. InFlight(q) /\ \A r \in Run : InFlight(r)' <=> InFlight(r)
  BY <1>0, <1>2 DEF InFlight, InFlightStatus
<1>5. /\ Runs(w, q)' /\ \A r \in Run \ {q} : ~Works(w, r)'
      /\ \A r \in Run : ~Works(w, r) /\ ~Runs(w, r)
      /\ \A v \in Workers \ {w}, r \in Run : (Works(v, r)' <=> Works(v, r)) /\ (Runs(v, r)' <=> Runs(v, r))
  BY <1>2, <1>3 DEF Runs, Works
<1>6. FreshInv'
  <2>1. q \notin unused \cup uploading
    BY <1>0, <1>2 DEF FreshInv
  <2>2. \A c \in Callers, r \in Run : /\ Retries(c, r)' <=> Retries(c, r)
                                      /\ Deletes(c, r)' <=> Deletes(c, r)
                                      /\ Targets(c, r)' <=> Targets(c, r)
                                      /\ Swept(c, r)' <=> Swept(c, r)
    BY <1>3 DEF Retries, Deletes, Targets, Swept
  <2> QED
    BY <1>0, <1>2, <1>3, <1>5, <2>1, <2>2 DEF FreshInv
<1>7. WorkInv'
  <2>1. \A v \in Workers : ~Runs(v, q)
    BY <1>2 DEF WorkInv
  <2>2. \A r \in queue' : InFlight(r)'
    BY <1>0, <1>2, <1>4
  <2>3. ASSUME NEW v \in Workers, NEW r \in Run, Runs(v, r)'
        PROVE  InFlight(r)' /\ r \notin queue' /\ \A u \in Workers : Runs(u, r)' => u = v
    <3>1. CASE v = w
      BY <1>2, <1>4, <1>5, <2>1, <2>3, <3>1 DEF Runs, Works
    <3>2. CASE v # w
      BY <1>2, <1>4, <1>5, <2>1, <2>3, <3>2 DEF WorkInv, Runs, Works
    <3> QED
      BY <3>1, <3>2
  <2> QED
    BY <2>2, <2>3 DEF WorkInv
<1>8. CallInv'
  <2> SUFFICES ASSUME NEW c \in Callers, NEW r \in Run
               PROVE  /\ Retries(c, r) => registry'[r] # None /\ registry'[r].status = "error"
                      /\ Deletes(c, r) \/ Targets(c, r) \/ Swept(c, r) => ~InFlight(r)'
                      /\ call[c].at = "sweeping" /\ r \notin call[c].skip /\ InFlight(r)' =>
                           /\ ~HasManifest(r)'
                           /\ \A v \in Workers : Works(v, r)' => Runs(v, r)'
    BY <1>3 DEF CallInv, Retries, Deletes, Targets, Swept
  <2>1. Retries(c, r) => r # q
    BY <1>4 DEF CallInv, InFlight, InFlightStatus
  <2>2. HasManifest(r)' <=> HasManifest(r)
    BY <1>3 DEF HasManifest
  <2> QED
    BY <1>2, <1>4, <1>5, <2>1, <2>2 DEF CallInv
<1>9. DirInv'
  <2>1. \A c \in Callers, r \in Run : (Pops(c, r)' <=> Pops(c, r)) /\ (Swept(c, r)' <=> Swept(c, r))
    BY <1>3 DEF Pops, Swept
  <2> QED
    BY <1>2, <1>3, <1>5, <2>1 DEF DirInv
<1> QED
  BY <1>3, <1>6, <1>7, <1>8, <1>9 DEF DownInv

\* Uploads: a run id is nobody else's until it is accepted.
LEMMA UploadLife ==
  ASSUME TypeOK, LifeInv, NEW q \in Run, Upload(q) \/ RefuseUpload(q) \/ AcceptUpload(q)
  PROVE  LifeInv'
<1> USE DEF LifeInv
<1>0. /\ unused \subseteq Run /\ uploading \subseteq Run /\ queue \subseteq Run
      /\ up /\ up' = up /\ UNCHANGED <<job, call>>
      /\ registry \in [Run -> Entry \cup {None}] /\ disk \in [Run -> Directory \cup {None}]
  BY DEF TypeOK, Upload, RefuseUpload, AcceptUpload
<1>1. DownInv'
  BY <1>0 DEF DownInv
<1>2. /\ \A r \in Run, w \in Workers : (Works(w, r)' <=> Works(w, r)) /\ (Runs(w, r)' <=> Runs(w, r))
      /\ \A r \in Run, c \in Callers :
           /\ Retries(c, r)' <=> Retries(c, r)
           /\ Deletes(c, r)' <=> Deletes(c, r)
           /\ Targets(c, r)' <=> Targets(c, r)
           /\ Swept(c, r)' <=> Swept(c, r)
           /\ Pops(c, r)' <=> Pops(c, r)
  BY <1>0 DEF Works, Runs, Retries, Deletes, Targets, Swept, Pops
<1>3. q \in unused \cup uploading
  BY DEF Upload, RefuseUpload, AcceptUpload
<1>4. /\ registry[q] = None /\ q \notin queue
      /\ \A w \in Workers : ~Works(w, q) /\ ~Runs(w, q)
      /\ \A c \in Callers : ~Retries(c, q) /\ ~Deletes(c, q) /\ ~Targets(c, q) /\ ~Swept(c, q)
  BY <1>3 DEF FreshInv, Works, Runs
<1>5. /\ JustPdf # None /\ JustPdf.pdf /\ JustPdf.manifest = None
      /\ [JustPdf EXCEPT !.pdf = FALSE] = EmptyDir /\ EmptyDir # None
  <2>1. JustPdf \in Directory /\ EmptyDir \in Directory
    BY EmptyDirType, UpdatedDirectory, Zenon DEF JustPdf
  <2>2. JustPdf.pdf /\ JustPdf.manifest = None /\ JustPdf.cache = FALSE
    BY DEF JustPdf, EmptyDir
  <2>3. [JustPdf EXCEPT !.pdf = FALSE] =
          [pdf |-> FALSE, cache |-> JustPdf.cache, manifest |-> JustPdf.manifest]
    BY <2>1, DirectoryUpdate, Zenon
  <2>4. [JustPdf EXCEPT !.pdf = FALSE] = EmptyDir
    BY <2>2, <2>3 DEF EmptyDir
  <2> QED
    BY <2>1, <2>2, <2>4, AbsentAssumption
<1>6. CASE Upload(q)
  <2>1. /\ disk' = [disk EXCEPT ![q] = JustPdf] /\ uploading' = uploading \cup {q}
        /\ unused' = unused \ {q} /\ registry' = registry /\ queue' = queue
    BY <1>6 DEF Upload, JustPdf
  <2>2. FreshInv'
    BY <1>0, <1>2, <1>4, <1>5, <2>1 DEF FreshInv
  <2>3. WorkInv'
    BY <1>2, <2>1 DEF WorkInv, InFlight
  <2>4. CallInv'
    BY <1>0, <1>2, <1>4, <1>5, <2>1 DEF CallInv, InFlight, HasManifest
  <2>5. DirInv'
    BY <1>0, <1>2, <1>4, <1>5, <2>1 DEF DirInv
  <2> QED
    BY <1>1, <2>2, <2>3, <2>4, <2>5
<1>7. CASE RefuseUpload(q)
  <2>0. disk[q] = JustPdf
    BY <1>7 DEF RefuseUpload, FreshInv
  <2>1. /\ disk' = [disk EXCEPT ![q] = EmptyDir] /\ uploading' = uploading \ {q}
        /\ unused' = unused /\ registry' = registry /\ queue' = queue /\ q \in uploading
    BY <1>5, <1>7, <2>0 DEF RefuseUpload
  <2>2. FreshInv'
    BY <1>0, <1>2, <1>4, <2>1 DEF FreshInv
  <2>3. WorkInv'
    BY <1>2, <2>1 DEF WorkInv, InFlight
  <2>4. CallInv'
    BY <1>0, <1>2, <1>4, <2>1 DEF CallInv, InFlight, HasManifest
  <2>5. DirInv'
    BY <1>0, <1>2, <1>4, <2>1 DEF DirInv
  <2> QED
    BY <1>1, <2>2, <2>3, <2>4, <2>5
<1>8. CASE AcceptUpload(q)
  <2> DEFINE begun == [status |-> "pending", started |-> None, seq |-> None, preserved |-> None]
  <2>0. begun # None /\ begun.status \in InFlightStatus
    BY AbsentAssumption DEF Entry, InFlightStatus
  <2>1. /\ registry' = [registry EXCEPT ![q] = begun] /\ uploading' = uploading \ {q}
        /\ unused' = unused /\ disk' = disk /\ queue' = queue \cup {q} /\ q \in uploading
    BY <1>8 DEF AcceptUpload
  <2> HIDE DEF begun
  <2>2. disk[q] = JustPdf
    BY <2>1 DEF FreshInv
  <2>3. InFlight(q)' /\ \A r \in Run \ {q} : InFlight(r)' <=> InFlight(r)
    BY <1>0, <2>0, <2>1 DEF InFlight
  <2>4. FreshInv'
    BY <1>0, <1>2, <1>4, <2>1 DEF FreshInv
  <2>5. WorkInv'
    BY <1>0, <1>2, <1>4, <2>1, <2>3 DEF WorkInv
  <2>6. CallInv'
    BY <1>0, <1>2, <1>4, <1>5, <2>1, <2>2, <2>3 DEF CallInv, HasManifest
  <2>7. DirInv'
    BY <1>0, <1>2, <1>4, <1>5, <2>1, <2>2 DEF DirInv
  <2> QED
    BY <1>1, <2>4, <2>5, <2>6, <2>7
<1> QED
  BY <1>6, <1>7, <1>8

\* A request that changes neither entries nor directories nor the queue.
LEMMA LookingLife ==
  ASSUME TypeOK, LifeInv, OneCaller, NEW c \in Callers, CallFrame(c),
         UNCHANGED <<registry, disk, queue>>,
         \A r \in Run : Pops(c, r) \/ Swept(c, r) => (Pops(c, r) \/ Swept(c, r))',
         \A r \in Run :
           /\ Retries(c, r)' => registry[r] # None /\ registry[r].status = "error"
           /\ (Deletes(c, r) \/ Targets(c, r) \/ Swept(c, r))' =>
                ~InFlight(r) /\ r \notin unused \cup uploading
           /\ call'[c].at = "sweeping" /\ r \notin call'[c].skip /\ InFlight(r) =>
                /\ ~HasManifest(r)
                /\ \A w \in Workers : Works(w, r) => Runs(w, r)
  PROVE  LifeInv'
<1> USE DEF LifeInv
<1>0. /\ up /\ up' = up /\ UNCHANGED <<unused, uploading, job>> /\ \A d \in Callers : d = c
      /\ unused \subseteq Run /\ uploading \subseteq Run /\ queue \subseteq Run
  BY DEF CallFrame, OneCaller, TypeOK
<1>1. DownInv'
  BY <1>0 DEF DownInv
<1>2. /\ \A r \in Run, w \in Workers : (Works(w, r)' <=> Works(w, r)) /\ (Runs(w, r)' <=> Runs(w, r))
      /\ \A r \in Run : (InFlight(r)' <=> InFlight(r)) /\ (HasManifest(r)' <=> HasManifest(r))
  BY <1>0 DEF Works, Runs, InFlight, HasManifest
<1>3. FreshInv'
  BY <1>0, <1>2 DEF FreshInv
<1>4. WorkInv'
  BY <1>0, <1>2 DEF WorkInv
<1>5. CallInv'
  BY <1>0, <1>2 DEF CallInv
<1>6. DirInv'
  BY <1>0, <1>2 DEF DirInv
<1> QED
  BY <1>1, <1>3, <1>4, <1>5, <1>6

LEMMA LookingStepsLife ==
  ASSUME TypeOK, LifeInv, OneCaller, NEW c \in Callers,
         ListRuns(c) \/ SweepInspect(c) \/ \E r \in Run : DeleteRun(c, r) \/ RetryRun(c, r)
  PROVE  LifeInv'
<1> USE DEF LifeInv
<1>0. \A r \in Run : registry[r] # None => r \notin unused \cup uploading
  BY DEF FreshInv
<1>1. CASE ListRuns(c)
  <2>1. /\ CallFrame(c) /\ call[c].at = "idle" /\ UNCHANGED <<registry, disk, queue>>
        /\ call'[c].at = "sweeping" /\ call'[c].skip = {r \in Run : InFlight(r)}
        /\ call'[c].target = None /\ call'[c].swept = {}
    BY <1>1, ListRunsDoes, Zenon
  <2>2. \A r \in Run : /\ ~Pops(c, r) /\ ~Swept(c, r) /\ ~Retries(c, r)' /\ ~Deletes(c, r)'
                       /\ ~Targets(c, r)' /\ ~Swept(c, r)'
    BY <2>1, LifecycleAssumption DEF Pops, Retries, Deletes, Targets, Swept
  <2>3. \A r \in Run : r \notin call'[c].skip => ~InFlight(r)
    BY <2>1
  <2> QED
    BY <2>1, <2>2, <2>3, LookingLife
<1>2. CASE SweepInspect(c)
  <2>1. /\ CallFrame(c) /\ SweepFrame(c)
        /\ UNCHANGED <<registry, disk, queue>>
        /\ call'[c].swept = call[c].swept
        /\ call'[c].target # None =>
              /\ call'[c].target \in Run /\ call'[c].target \notin call[c].skip
              /\ Sweepable(call'[c].target, call[c].today)
    BY <1>2, SweepInspectDoes, Zenon
  <2>2. \A r \in Run : /\ ~Pops(c, r) /\ (Swept(c, r)' <=> Swept(c, r))
                       /\ ~Retries(c, r)' /\ ~Deletes(c, r)'
    BY <2>1 DEF Pops, Retries, Deletes, Swept, SweepFrame
  <2>3. ASSUME NEW r \in Run, Targets(c, r)' PROVE ~InFlight(r) /\ r \notin unused \cup uploading
    <3>1. r \notin call[c].skip /\ HasManifest(r) /\ call[c].at = "sweeping"
      BY <2>1, <2>3, LifecycleAssumption DEF Targets, Sweepable, SweepFrame
    <3>2. JustPdf.manifest = None
      BY DEF JustPdf, EmptyDir
    <3> QED
      BY <3>1, <3>2 DEF CallInv, FreshInv, HasManifest
  <2>4. \A r \in Run : Swept(c, r) => ~InFlight(r) /\ r \notin unused \cup uploading
    BY DEF CallInv, FreshInv
  <2>5. \A r \in Run : call'[c].at = "sweeping" /\ r \notin call'[c].skip /\ InFlight(r) =>
                         /\ ~HasManifest(r)
                         /\ \A w \in Workers : Works(w, r) => Runs(w, r)
    BY <2>1 DEF CallInv, SweepFrame
  <2> QED
    BY <2>1, <2>2, <2>3, <2>4, <2>5, LookingLife
<1>3. ASSUME NEW q \in Run, DeleteRun(c, q) PROVE LifeInv'
  <2>1. /\ CallFrame(c) /\ call[c].at = "idle" /\ UNCHANGED <<registry, disk, queue>>
        /\ registry[q] # None /\ ~InFlight(q) /\ call'[c] = [at |-> "removing", run |-> q]
    BY <1>3, DeleteRunDoes, Zenon
  <2>2. \A r \in Run : /\ ~Pops(c, r) /\ ~Swept(c, r) /\ ~Retries(c, r)'
                       /\ ~Targets(c, r)' /\ ~Swept(c, r)' /\ (Deletes(c, r)' => r = q)
    BY <2>1 DEF Pops, Retries, Deletes, Targets, Swept
  <2>3. call'[c].at # "sweeping"
    BY <2>1
  <2> QED
    BY <1>0, <2>1, <2>2, <2>3, LookingLife
<1>4. ASSUME NEW q \in Run, RetryRun(c, q) PROVE LifeInv'
  <2>1. /\ CallFrame(c) /\ call[c].at = "idle" /\ UNCHANGED <<registry, disk, queue>>
        /\ registry[q] # None /\ registry[q].status = "error"
        /\ call'[c] = [at |-> "resetting", run |-> q, entry |-> registry[q], preserved |-> None]
    BY <1>4, RetryRunDoes, Zenon
  <2>2. \A r \in Run : /\ ~Pops(c, r) /\ ~Swept(c, r) /\ ~Deletes(c, r)'
                       /\ ~Targets(c, r)' /\ ~Swept(c, r)' /\ (Retries(c, r)' => r = q)
    BY <2>1 DEF Pops, Retries, Deletes, Targets, Swept
  <2>3. call'[c].at # "sweeping"
    BY <2>1
  <2> QED
    BY <1>0, <2>1, <2>2, <2>3, LookingLife
<1> QED
  BY <1>1, <1>2, <1>3, <1>4

\* rmtree of a directory a request has marked: the sweep's target or the run being
\* deleted, neither of them in flight.
LEMMA RemovingLife ==
  ASSUME TypeOK, LifeInv, OneCaller, NEW c \in Callers, NEW q \in Run, CallFrame(c),
         UNCHANGED <<registry, queue>>, disk' = [disk EXCEPT ![q] = None],
         Targets(c, q) \/ Deletes(c, q),
         \A r \in Run :
           /\ ~Retries(c, r)' /\ ~Pops(c, r) /\ ~Targets(c, r)'
           /\ Deletes(c, r)' \/ Swept(c, r)' => r = q \/ Swept(c, r)
           /\ Swept(c, r) \/ r = q => Swept(c, r)' \/ Pops(c, r)',
         call'[c].at = "sweeping" => SweepFrame(c)
  PROVE  LifeInv'
<1> USE DEF LifeInv
<1>0. /\ up /\ up' = up /\ UNCHANGED <<unused, uploading, job>> /\ \A d \in Callers : d = c
      /\ unused \subseteq Run /\ uploading \subseteq Run /\ queue \subseteq Run
      /\ disk \in [Run -> Directory \cup {None}]
  BY DEF CallFrame, OneCaller, TypeOK
<1>1. DownInv'
  BY <1>0 DEF DownInv
<1>2. /\ \A r \in Run, w \in Workers : (Works(w, r)' <=> Works(w, r)) /\ (Runs(w, r)' <=> Runs(w, r))
      /\ \A r \in Run : (InFlight(r)' <=> InFlight(r)) /\ (HasManifest(r)' => HasManifest(r))
  BY <1>0 DEF Works, Runs, InFlight, HasManifest
<1>3. q \notin unused \cup uploading /\ ~InFlight(q)
  BY DEF FreshInv, CallInv
<1>4. FreshInv'
  BY <1>0, <1>2, <1>3 DEF FreshInv
<1>5. WorkInv'
  BY <1>0, <1>2 DEF WorkInv
<1>6. CallInv'
  BY <1>0, <1>2, <1>3 DEF CallInv, SweepFrame
<1>7. DirInv'
  BY <1>0, <1>2 DEF DirInv
<1> QED
  BY <1>1, <1>4, <1>5, <1>6, <1>7

\* The entries of the removed runs leave the registry.
LEMMA PoppingLife ==
  ASSUME TypeOK, LifeInv, OneCaller, NEW c \in Callers, CallFrame(c),
         UNCHANGED <<disk, queue>>, call'[c] = Idle, NEW S \in SUBSET Run,
         registry' = [r \in Run |-> IF r \in S THEN None ELSE registry[r]],
         \A r \in Run : r \in S <=> Pops(c, r) \/ Swept(c, r)
  PROVE  LifeInv'
<1> USE DEF LifeInv
<1>0. /\ up /\ up' = up /\ UNCHANGED <<unused, uploading, job>> /\ \A d \in Callers : d = c
      /\ unused \subseteq Run /\ uploading \subseteq Run /\ queue \subseteq Run
  BY DEF CallFrame, OneCaller, TypeOK
<1>1. DownInv'
  BY <1>0 DEF DownInv
<1>2. /\ \A r \in Run : ~Retries(c, r)' /\ ~Deletes(c, r)' /\ ~Targets(c, r)' /\ ~Swept(c, r)'
      /\ \A r \in Run, w \in Workers : (Works(w, r)' <=> Works(w, r)) /\ (Runs(w, r)' <=> Runs(w, r))
      /\ call'[c].at = "idle"
  BY <1>0 DEF Retries, Deletes, Targets, Swept, Works, Runs, Idle
<1>3. \A r \in S : ~InFlight(r)
  BY DEF CallInv, Pops, Deletes
<1>4. \A r \in Run : InFlight(r)' <=> InFlight(r)
  BY <1>3 DEF InFlight
<1>5. FreshInv'
  BY <1>0, <1>2 DEF FreshInv
<1>6. WorkInv'
  BY <1>0, <1>2, <1>4 DEF WorkInv
<1>7. CallInv'
  BY <1>0, <1>2 DEF CallInv
<1>8. DirInv'
  BY <1>0, <1>2 DEF DirInv
<1> QED
  BY <1>1, <1>5, <1>6, <1>7, <1>8

LEMMA RemovingStepsLife ==
  ASSUME TypeOK, LifeInv, OneCaller, NEW c \in Callers,
         SweepRemove(c) \/ SweepReturn(c) \/ DeleteDirectory(c) \/ DeletePop(c)
  PROVE  LifeInv'
<1>1. CASE SweepRemove(c)
  <2>1. PICK q \in Run : /\ q = call[c].target /\ CallFrame(c) /\ SweepFrame(c)
                         /\ UNCHANGED <<registry, queue>> /\ disk' = [disk EXCEPT ![q] = None]
                         /\ call'[c].swept = call[c].swept \cup {q} /\ call'[c].target = None
    BY <1>1, SweepRemoveDoes
  <2>2. Targets(c, q)
    BY <2>1 DEF SweepFrame, Targets
  <2>3. \A r \in Run :
           /\ ~Retries(c, r)' /\ ~Pops(c, r) /\ ~Targets(c, r)'
           /\ Deletes(c, r)' \/ Swept(c, r)' => r = q \/ Swept(c, r)
           /\ Swept(c, r) \/ r = q => Swept(c, r)' \/ Pops(c, r)'
    BY <2>1, LifecycleAssumption DEF SweepFrame, Targets, Retries, Deletes, Swept, Pops
  <2> QED
    BY <2>1, <2>2, <2>3, RemovingLife
<1>2. CASE DeleteDirectory(c)
  <2>1. PICK q \in Run : /\ q = call[c].run /\ CallFrame(c)
                         /\ UNCHANGED <<registry, queue>> /\ disk' = [disk EXCEPT ![q] = None]
                         /\ call[c].at = "removing" /\ call'[c].at = "popping" /\ call'[c].run = q
    BY <1>2, DeleteDirectoryDoes
  <2>2. Deletes(c, q)
    BY <2>1 DEF Deletes
  <2>3. /\ \A r \in Run :
             /\ ~Retries(c, r)' /\ ~Pops(c, r) /\ ~Targets(c, r)'
             /\ Deletes(c, r)' \/ Swept(c, r)' => r = q \/ Swept(c, r)
             /\ Swept(c, r) \/ r = q => Swept(c, r)' \/ Pops(c, r)'
        /\ call'[c].at # "sweeping"
    BY <2>1 DEF Targets, Retries, Deletes, Swept, Pops
  <2> QED
    BY <2>1, <2>2, <2>3, RemovingLife
<1>3. CASE SweepReturn(c)
  <2>1. /\ CallFrame(c) /\ UNCHANGED <<disk, queue>>
        /\ call[c].at = "sweeping" /\ call'[c] = Idle
        /\ registry' = [r \in Run |-> IF r \in call[c].swept THEN None ELSE registry[r]]
    BY <1>3, SweepReturnDoes, Zenon
  <2>2. call[c].swept \in SUBSET Run
    BY <2>1, WorkingCall
  <2>3. \A r \in Run : r \in call[c].swept <=> Pops(c, r) \/ Swept(c, r)
    BY <2>1 DEF Pops, Swept
  <2> QED
    BY <2>1, <2>2, <2>3, PoppingLife
<1>4. CASE DeletePop(c)
  <2>1. PICK q \in Run : /\ q = call[c].run /\ CallFrame(c) /\ UNCHANGED <<disk, queue>>
                         /\ call[c].at = "popping" /\ call'[c] = Idle
                         /\ registry' = [registry EXCEPT ![q] = None]
    BY <1>4, DeletePopDoes
  <2>2. registry' = [r \in Run |-> IF r \in {q} THEN None ELSE registry[r]]
    BY <2>1 DEF TypeOK
  <2>3. \A r \in Run : r \in {q} <=> Pops(c, r) \/ Swept(c, r)
    BY <2>1 DEF Pops, Swept
  <2>4. {q} \in SUBSET Run
    OBVIOUS
  <2> QED
    BY <2>1, <2>2, <2>3, <2>4, PoppingLife
<1> QED
  BY <1>1, <1>2, <1>3, <1>4

\* A retry works on the directory of a failed run, and queues it again.
LEMMA RetryStepsLife ==
  ASSUME TypeOK, LifeInv, OneCaller, NEW c \in Callers,
         ResetRun(c) \/ MarkPending(c) \/ MarkPendingFails(c) \/ FireRetry(c)
  PROVE  LifeInv'
<1> USE DEF LifeInv
<1>1. CallFrame(c)
  BY CallStepFrame DEF CallStep
<1>2. PICK q \in Run : q = call[c].run /\ call[c].at \in {"resetting", "marking", "firing"}
  BY WorkingCall DEF ResetRun, MarkPending, MarkPendingFails, FireRetry
<1>0. /\ up /\ up' = up /\ UNCHANGED <<unused, uploading, job>> /\ \A d \in Callers : d = c
      /\ unused \subseteq Run /\ uploading \subseteq Run /\ queue \subseteq Run
      /\ registry \in [Run -> Entry \cup {None}]
  BY <1>1 DEF CallFrame, OneCaller, TypeOK
<1>3. DownInv'
  BY <1>0 DEF DownInv
<1>4. /\ Retries(c, q) /\ \A r \in Run : Retries(c, r) => r = q
      /\ \A r \in Run : ~Pops(c, r) /\ ~Swept(c, r) /\ ~Targets(c, r) /\ ~Deletes(c, r)
  BY <1>2 DEF Retries, Pops, Swept, Targets, Deletes
<1>5. /\ registry[q] # None /\ registry[q].status = "error" /\ ~InFlight(q)
      /\ q \notin unused \cup uploading
      /\ disk[q] # None => disk[q].pdf
      /\ disk[q] # None
  BY <1>0, <1>4 DEF CallInv, FreshInv, InFlight, InFlightStatus, DirInv
<1>6. \A r \in Run, w \in Workers : (Works(w, r)' <=> Works(w, r)) /\ (Runs(w, r)' <=> Runs(w, r))
  BY <1>0 DEF Works, Runs
<1>7. ASSUME UNCHANGED <<registry, queue>>, call'[c].at \in {"marking", "firing"}, call'[c].run = q,
             \A r \in Run \ {q} : disk'[r] = disk[r],
             disk'[q] # None, disk'[q].pdf, HasManifest(q)' => HasManifest(q)
      PROVE  LifeInv'
  <2>1. /\ \A r \in Run : /\ ~Pops(c, r)' /\ ~Swept(c, r)' /\ ~Targets(c, r)' /\ ~Deletes(c, r)'
                          /\ Retries(c, r)' => r = q
                          /\ InFlight(r)' <=> InFlight(r)
        /\ call'[c].at # "sweeping"
    BY <1>7 DEF Retries, Pops, Swept, Targets, Deletes, InFlight
  <2>2. FreshInv'
    BY <1>0, <1>5, <1>6, <1>7, <2>1 DEF FreshInv
  <2>3. WorkInv'
    BY <1>0, <1>6, <1>7, <2>1 DEF WorkInv
  <2>4. CallInv'
    BY <1>0, <1>5, <1>7, <2>1 DEF CallInv
  <2>5. DirInv'
    BY <1>0, <1>4, <1>6, <1>7, <2>1 DEF DirInv
  <2> QED
    BY <1>3, <2>2, <2>3, <2>4, <2>5
<1>8. CASE ResetRun(c)
  <2>1. /\ UNCHANGED <<registry, queue>> /\ call'[c].at = "marking" /\ call'[c].run = q
        /\ \A r \in Run \ {q} : disk'[r] = disk[r]
        /\ disk'[q] # None
        /\ disk'[q] = [pdf |-> disk[q].pdf, cache |-> FALSE, manifest |-> disk[q].manifest]
    BY <1>2, <1>5, <1>8, ResetRunDoes
  <2>2. disk'[q].pdf /\ (HasManifest(q)' => HasManifest(q))
    BY <1>5, <2>1 DEF HasManifest
  <2> QED
    BY <1>7, <2>1, <2>2
<1>9. CASE MarkPending(c) \/ MarkPendingFails(c)
  <2>1. /\ UNCHANGED <<registry, queue>> /\ call'[c].at = "firing" /\ call'[c].run = q
        /\ \A r \in Run \ {q} : disk'[r] = disk[r]
        /\ ~HasManifest(q) => disk'[q] = disk[q]
        /\ HasManifest(q) => /\ disk'[q] # None
                             /\ disk'[q] = Remarked(disk[q], "pending") \/ disk' = disk
    BY <1>2, <1>9, MarkPendingDoes
  <2>2. disk'[q] # None /\ disk'[q].pdf /\ (HasManifest(q)' => HasManifest(q))
    BY <1>5, <2>1 DEF HasManifest, Remarked
  <2> QED
    BY <1>7, <2>1, <2>2
<1>10. CASE FireRetry(c)
  <2>1. /\ disk' = disk /\ call'[c] = Idle /\ queue' = queue \cup {q}
        /\ \A r \in Run \ {q} : registry'[r] = registry[r]
        /\ registry'[q] # None
        /\ registry'[q] = [status |-> "processing", started |-> call[c].entry.started,
                           seq |-> call[c].entry.seq, preserved |-> call[c].preserved]
    BY <1>2, <1>10, FireRetryDoes, Zenon
  <2>2. InFlight(q)' /\ \A r \in Run \ {q} : InFlight(r)' <=> InFlight(r)
    BY <2>1 DEF InFlight, InFlightStatus
  <2>3. /\ \A r \in Run : ~Retries(c, r)' /\ ~Deletes(c, r)' /\ ~Targets(c, r)' /\ ~Swept(c, r)'
        /\ call'[c].at = "idle"
    BY <2>1 DEF Retries, Deletes, Targets, Swept, Idle
  <2>4. FreshInv'
    BY <1>0, <1>5, <1>6, <2>1, <2>3 DEF FreshInv
  <2>5. WorkInv'
    BY <1>0, <1>5, <1>6, <2>1, <2>2 DEF WorkInv
  <2>6. CallInv'
    BY <1>0, <2>3 DEF CallInv
  <2>7. DirInv'
    BY <1>0, <1>4, <1>5, <1>6, <2>1 DEF DirInv
  <2> QED
    BY <1>3, <2>4, <2>5, <2>6, <2>7
<1> QED
  BY <1>8, <1>9, <1>10

\* What a restart makes of each directory: it is swept, rewritten or left.
LEMMA RestartDoes ==
  ASSUME TypeOK, Restart
  PROVE  /\ ~up /\ up' /\ UNCHANGED <<day, unused, uploading, queue, job, call, retryLock, seqLock, published>>
         /\ budget.failedWrites = 0 => \A r \in Run : disk'[r] # None => ~Interrupted(r)'
         /\ \A r \in Run :
              \/ /\ disk'[r] = None /\ registry'[r] = None
                 /\ (disk[r] # None /\ Interrupted(r)) \/ (disk[r] # None /\ Sweepable(r, day))
              \/ /\ registry'[r] = DerivedEntry(r)
                 /\ \/ disk'[r] = disk[r]
                    \/ /\ Interrupted(r) /\ disk'[r] = Remarked(disk[r], "error")
                       /\ disk'[r] # None /\ disk'[r].manifest # None
<1>1. PICK lost \in SUBSET {r \in Run : Interrupted(r)} :
        LET rewritten == {r \in Run : Interrupted(r)} \ lost
            swept == {r \in Run : Sweepable(r, day)} \cup {r \in rewritten : Aged(r, day)}
        IN  /\ Cardinality(lost) <= budget.failedWrites
            /\ registry' = [r \in Run |-> IF r \in swept THEN None ELSE DerivedEntry(r)]
            /\ disk' = [r \in Run |->
                          IF r \in swept THEN None
                          ELSE IF r \in rewritten THEN [disk[r] EXCEPT !.manifest.status = "error"]
                          ELSE disk[r]]
  BY Zenon DEF Restart
<1> DEFINE rewritten == {r \in Run : Interrupted(r)} \ lost
           swept == {r \in Run : Sweepable(r, day)} \cup {r \in rewritten : Aged(r, day)}
<1>2. /\ ~up /\ up' /\ UNCHANGED <<day, unused, uploading, queue, job, call, retryLock, seqLock, published>>
  BY DEF Restart
<1>3. \A r \in Run : Interrupted(r) =>
        /\ [disk[r] EXCEPT !.manifest.status = "error"] = Remarked(disk[r], "error")
        /\ Remarked(disk[r], "error") # None /\ Remarked(disk[r], "error").manifest # None
  BY Remark, Zenon DEF Interrupted
<1>4. /\ \A r \in Run : registry'[r] = IF r \in swept THEN None ELSE DerivedEntry(r)
      /\ \A r \in swept : disk'[r] = None
      /\ \A r \in rewritten \ swept : disk'[r] = Remarked(disk[r], "error")
      /\ \A r \in Run \ (swept \cup rewritten) : disk'[r] = disk[r]
      /\ swept \subseteq Run /\ rewritten \subseteq Run
  BY <1>1, <1>3
<1>5. ASSUME budget.failedWrites = 0 PROVE \A r \in Run : Interrupted(r) => r \in rewritten
  <2>1. IsFiniteSet(lost)
    BY LifecycleAssumption, FS_Subset
  <2>2. Cardinality(lost) = 0
    BY <1>1, <1>5, <2>1, FS_CardinalityType
  <2>3. lost = {}
    BY <2>1, <2>2, FS_EmptySet
  <2> QED
    BY <2>3
<1>6. \A r \in rewritten : Interrupted(r)
  OBVIOUS
<1>7. \A r \in swept : Interrupted(r) \/ Sweepable(r, day)
  OBVIOUS
<1> HIDE DEF rewritten, swept
<1>8. ASSUME budget.failedWrites = 0, NEW r \in Run, disk'[r] # None PROVE ~Interrupted(r)'
  <2>1. CASE r \in rewritten
    <3>1. disk'[r] = Remarked(disk[r], "error")
      BY <1>4, <1>8, <2>1
    <3> QED
      BY <3>1 DEF Interrupted, Remarked
  <2>2. CASE r \notin rewritten
    BY <1>4, <1>5, <1>8, <2>2 DEF Interrupted, HasManifest
  <2> QED
    BY <2>1, <2>2
<1>9. ASSUME NEW r \in Run
      PROVE  \/ /\ disk'[r] = None /\ registry'[r] = None
                /\ (disk[r] # None /\ Interrupted(r)) \/ (disk[r] # None /\ Sweepable(r, day))
             \/ /\ registry'[r] = DerivedEntry(r)
                /\ \/ disk'[r] = disk[r]
                   \/ /\ Interrupted(r) /\ disk'[r] = Remarked(disk[r], "error")
                      /\ disk'[r] # None /\ disk'[r].manifest # None
  <2>1. CASE r \in swept
    BY <1>4, <1>7, <2>1 DEF Interrupted, Sweepable, HasManifest
  <2>2. CASE r \in rewritten \ swept
    BY <1>3, <1>4, <1>6, <2>2
  <2>3. CASE r \notin swept \cup rewritten
    BY <1>4, <2>3
  <2> QED
    BY <2>1, <2>2, <2>3
<1> QED
  BY <1>2, <1>8, <1>9

LEMMA ProcessLife ==
  ASSUME TypeOK, LifeInv, Crash \/ Restart \/ NextDay
  PROVE  LifeInv'
<1> USE DEF LifeInv
<1>0. unused \subseteq Run /\ uploading \subseteq Run /\ queue \subseteq Run
  BY DEF TypeOK
<1>1. CASE Crash
  BY <1>0, <1>1 DEF Crash, DownInv, FreshInv, WorkInv, CallInv, DirInv, InFlight, Works, Runs, Retries,
     Deletes, Pops, Targets, Swept, Idle
<1>2. CASE NextDay
  BY <1>2 DEF NextDay, DownInv, FreshInv, WorkInv, CallInv, DirInv, InFlight, HasManifest, Works, Runs,
     Retries, Deletes, Pops, Targets, Swept
<1>3. CASE Restart
  <2>1. /\ ~up /\ up' /\ UNCHANGED <<unused, uploading, queue, job, call>>
        /\ \A r \in Run :
              \/ /\ disk'[r] = None /\ registry'[r] = None
                 /\ disk[r] # None /\ HasManifest(r)
              \/ /\ registry'[r] = DerivedEntry(r)
                 /\ \/ disk'[r] = disk[r]
                    \/ /\ Interrupted(r) /\ disk'[r] = Remarked(disk[r], "error")
                       /\ disk'[r] # None /\ disk'[r].manifest # None
    BY <1>3, RestartDoes DEF Interrupted, Sweepable
  <2>2. /\ queue = {} /\ uploading = {}
        /\ \A w \in Workers : job[w].at = "idle"
        /\ \A c \in Callers : call[c].at = "idle"
    BY <2>1 DEF DownInv, Idle
  <2>3. /\ \A r \in Run, w \in Workers : ~Works(w, r)' /\ ~Runs(w, r)'
        /\ \A r \in Run, c \in Callers :
             ~Retries(c, r)' /\ ~Deletes(c, r)' /\ ~Pops(c, r)' /\ ~Targets(c, r)' /\ ~Swept(c, r)'
    BY <2>1, <2>2 DEF Works, Runs, Retries, Deletes, Pops, Targets, Swept
  <2>4. \A r \in Run : ~InFlight(r)'
    <3>1. \A r \in Run : DerivedEntry(r) # None => DerivedEntry(r).status \in {"review", "error"}
      BY DerivedType
    <3> QED
      BY <2>1, <3>1 DEF InFlight, InFlightStatus
  <2>5. \A r \in Run : disk[r] = None => DerivedEntry(r) = None
    BY DEF DerivedEntry
  <2>6. \A r \in Run : disk[r] # None /\ ~disk[r].pdf => DerivedEntry(r) = None /\ ~HasManifest(r)
    BY DEF DerivedEntry, DirInv, EmptyDir, HasManifest
  <2>7. \A r \in Run : HasManifest(r) => disk[r] # None /\ Remarked(disk[r], "error").pdf = disk[r].pdf
    BY DEF HasManifest, Remarked
  <2>8. FreshInv'
    <3>1. \A r \in unused : disk'[r] = None /\ registry'[r] = None
      BY <1>0, <2>1, <2>5 DEF FreshInv, Interrupted, HasManifest
    <3> QED
      BY <1>0, <2>1, <2>2, <2>3, <3>1 DEF FreshInv
  <2>9. WorkInv' /\ CallInv'
    BY <2>1, <2>2, <2>3, <2>4 DEF WorkInv, CallInv
  <2>10. DirInv'
    <3> SUFFICES ASSUME NEW r \in Run
                 PROVE  /\ registry'[r] # None => disk'[r] # None /\ disk'[r].pdf
                        /\ disk'[r] # None /\ ~disk'[r].pdf => disk'[r] = EmptyDir /\ registry'[r] = None
      BY <2>3 DEF DirInv
    <3>1. disk'[r] # None => disk[r] # None /\ disk'[r].pdf = disk[r].pdf
      BY <2>1, <2>7 DEF Interrupted
    <3>2. CASE registry'[r] = None /\ disk'[r] = None
      BY <3>2
    <3>3. CASE registry'[r] = DerivedEntry(r)
      BY <2>1, <2>5, <2>6, <3>1, <3>3 DEF DirInv, Interrupted
    <3> QED
      BY <2>1, <3>2, <3>3
  <2> QED
    BY <2>1, <2>8, <2>9, <2>10 DEF DownInv
<1> QED
  BY <1>1, <1>2, <1>3

LEMMA NextLife ==
  ASSUME TypeOK, LifeInv, OneCaller, [Next]_vars
  PROVE  LifeInv'
<1>1. CASE UNCHANGED vars
  BY <1>1 DEF vars, LifeInv, DownInv, FreshInv, WorkInv, CallInv, DirInv, InFlight, HasManifest, Works,
     Runs, Retries, Deletes, Pops, Targets, Swept
<1>2. ASSUME NEW w \in Workers, JobStep(w) PROVE LifeInv'
  <2>1. CASE StartJob(w) \/ StartGone(w)
    BY <2>1, StartLife
  <2>2. CASE ~StartJob(w) /\ ~StartGone(w)
    BY <1>2, <2>2, JobGoesOn, WorkGoesOn
  <2> QED
    BY <2>1, <2>2
<1>3. ASSUME NEW c \in Callers, CallStep(c) PROVE LifeInv'
  BY <1>3, LookingStepsLife, RemovingStepsLife, RetryStepsLife DEF CallStep
<1>4. CASE Crash \/ Restart \/ NextDay
  BY <1>4, ProcessLife
<1>5. ASSUME NEW r \in Run, Upload(r) \/ RefuseUpload(r) \/ AcceptUpload(r) PROVE LifeInv'
  BY <1>5, UploadLife
<1>6. ASSUME NEW c \in Callers, ListRuns(c) \/ \E r \in Run : DeleteRun(c, r) \/ RetryRun(c, r)
      PROVE  LifeInv'
  BY <1>6, LookingStepsLife
<1> QED
  BY <1>1, <1>2, <1>3, <1>4, <1>5, <1>6 DEF Next

\* With one caller a run in flight has its one job, and nobody is about to delete or
\* to sweep it (DownInv, FreshInv, WorkInv, CallInv and DirInv).
THEOREM LifeHolds ==
  ASSUME OneCaller
  PROVE  Spec => []LifeInv
<1>1. TypeOK /\ LifeInv /\ [Next]_vars => LifeInv'
  BY NextLife
<1> QED
  BY <1>1, InitLife, RunTypeCorrect, PTL DEF Spec

-----------------------------------------------------------------------------
(* What follows *)

\* Nothing takes the PDF away from a run in flight, neither the sweep nor a delete
\* request, while requests run one at a time.
THEOREM InFlightRunsKeepPdf ==
  ASSUME OneCaller
  PROVE  Spec => []InFlightKeepsPdf
<1>1. LifeInv => InFlightKeepsPdf
  BY DEF LifeInv, DirInv, CallInv, Pops, Deletes, InFlightKeepsPdf, InFlight
<1> QED
  BY <1>1, LifeHolds, PTL

\* No step brings back a directory or an entry, and none takes a directory away
\* from a run in flight.
LEMMA StepKeepsDirectories ==
  ASSUME TypeOK, LifeInv, OneCaller, Next, NEW r \in Run
  PROVE  (Gone(r) => Gone(r)') /\ (InFlight(r) => disk'[r] # None)
<1> USE DEF LifeInv
<1>0. InFlight(r) => disk[r] # None
  BY DEF DirInv, CallInv, Pops, Deletes, InFlight
<1> DEFINE Goal == (Gone(r) => Gone(r)') /\ (InFlight(r) => disk'[r] # None)
<1>1. ASSUME unused' = unused,
             disk[r] = None /\ registry[r] = None => disk'[r] = None /\ registry'[r] = None,
             InFlight(r) => disk'[r] # None
      PROVE  Goal
  BY <1>1 DEF Gone
<1>2. ASSUME NEW w \in Workers, JobStep(w) PROVE Goal
  <2>1. CASE StartJob(w)
    <3>1. PICK q \in queue : /\ registry[q] # None
                             /\ \A u \in Run \ {q} : registry'[u] = registry[u]
      BY <2>1, StartJobDoes
    <3>2. disk' = disk /\ unused' = unused
      BY <2>1, StartJobDoes
    <3> QED
      BY <1>0, <1>1, <3>1, <3>2
  <2>2. CASE StartGone(w)
    BY <1>0, <1>1, <2>2 DEF StartGone
  <2>3. CASE ~StartJob(w) /\ ~StartGone(w)
    <3>1. JobFrame(w) /\ GoesOn(w, r)
      BY <1>2, <2>3, JobGoesOn
    <3> QED
      BY <1>0, <1>1, <3>1 DEF JobFrame, GoesOn
  <2> QED
    BY <2>1, <2>2, <2>3
<1>3. ASSUME NEW c \in Callers, CallStep(c) PROVE Goal
  <2>0. unused' = unused
    BY <1>3, CallStepFrame DEF CallFrame
  <2>1. CASE SweepInspect(c)
    BY <1>0, <1>1, <2>0, <2>1 DEF SweepInspect
  <2>2. CASE SweepRemove(c)
    <3>1. PICK q \in Run : /\ q = call[c].target /\ SweepFrame(c)
                           /\ registry' = registry /\ disk' = [disk EXCEPT ![q] = None]
      BY <2>2, SweepRemoveDoes
    <3>2. ~InFlight(q)
      BY <3>1 DEF CallInv, Targets, SweepFrame
    <3> QED
      BY <1>0, <1>1, <2>0, <3>1, <3>2 DEF TypeOK
  <2>3. CASE SweepReturn(c)
    BY <1>0, <1>1, <2>0, <2>3, SweepReturnDoes
  <2>4. CASE DeleteDirectory(c)
    <3>1. PICK q \in Run : /\ q = call[c].run /\ call[c].at = "removing"
                           /\ registry' = registry /\ disk' = [disk EXCEPT ![q] = None]
      BY <2>4, DeleteDirectoryDoes
    <3>2. ~InFlight(q)
      BY <3>1 DEF CallInv, Deletes
    <3> QED
      BY <1>0, <1>1, <2>0, <3>1, <3>2 DEF TypeOK
  <2>5. CASE DeletePop(c)
    <3>1. PICK q \in Run : disk' = disk /\ registry' = [registry EXCEPT ![q] = None]
      BY <2>5, DeletePopDoes
    <3> QED
      BY <1>0, <1>1, <2>0, <3>1 DEF TypeOK
  <2>6. CASE ResetRun(c)
    <3>1. PICK q \in Run : /\ registry' = registry
                           /\ \A u \in Run \ {q} : disk'[u] = disk[u]
                           /\ disk[q] = None <=> disk'[q] = None
      BY <2>6, ResetRunDoes
    <3> QED
      BY <1>0, <1>1, <2>0, <3>1
  <2>7. CASE MarkPending(c) \/ MarkPendingFails(c)
    <3>1. PICK q \in Run : /\ registry' = registry
                           /\ \A u \in Run \ {q} : disk'[u] = disk[u]
                           /\ ~HasManifest(q) => disk'[q] = disk[q]
                           /\ HasManifest(q) => disk'[q] # None
      BY <2>7, MarkPendingDoes
    <3> QED
      BY <1>0, <1>1, <2>0, <3>1 DEF HasManifest
  <2>8. CASE FireRetry(c)
    <3>1. PICK q \in Run : /\ q = call[c].run /\ call[c].at = "firing" /\ disk' = disk
                           /\ \A u \in Run \ {q} : registry'[u] = registry[u]
      BY <2>8, FireRetryDoes
    <3>2. registry[q] # None
      BY <3>1 DEF CallInv, Retries
    <3> QED
      BY <1>0, <1>1, <2>0, <3>1, <3>2
  <2> QED
    BY <1>3, <2>1, <2>2, <2>3, <2>4, <2>5, <2>6, <2>7, <2>8 DEF CallStep
<1>4. ASSUME NEW c \in Callers, ListRuns(c) \/ \E q \in Run : DeleteRun(c, q) \/ RetryRun(c, q)
      PROVE  Goal
  BY <1>0, <1>1, <1>4 DEF ListRuns, DeleteRun, RetryRun
<1>5. ASSUME NEW q \in Run, Upload(q) \/ RefuseUpload(q) \/ AcceptUpload(q) PROVE Goal
  <2>1. q \in unused => q \notin queue /\ ~InFlight(q) /\ disk[q] = None
    BY DEF FreshInv, InFlight
  <2>2. q \in uploading => q \notin unused /\ disk[q] # None /\ ~InFlight(q)
    BY DEF FreshInv, InFlight
  <2>3. CASE Upload(q)
    BY <1>0, <2>1, <2>3 DEF Upload, Gone, TypeOK
  <2>4. CASE RefuseUpload(q)
    BY <1>0, <2>2, <2>4 DEF RefuseUpload, Gone, TypeOK
  <2>5. CASE AcceptUpload(q)
    BY <1>0, <2>2, <2>5 DEF AcceptUpload, Gone, TypeOK
  <2> QED
    BY <1>5, <2>3, <2>4, <2>5
<1>6. CASE Crash
  BY <1>0, <1>6 DEF Crash, Gone
<1>7. CASE Restart
  <2>1. ~InFlight(r)
    BY <1>7 DEF Restart, DownInv, InFlight
  <2>2. disk[r] = None => DerivedEntry(r) = None /\ ~Interrupted(r)
    BY DEF DerivedEntry, Interrupted, HasManifest
  <2> QED
    BY <1>7, <2>1, <2>2, RestartDoes DEF Gone
<1>8. CASE NextDay
  BY <1>0, <1>8 DEF NextDay, Gone
<1> QED
  BY <1>2, <1>3, <1>4, <1>5, <1>6, <1>7, <1>8 DEF Next

\* Only a delete request takes the directory of a run in flight away, and none is
\* accepted for it: the sweep spares what it put aside and what has no manifest.
\* With two callers a retry slips between the two reads (run RunSweptInFlight).
THEOREM SweepSparesRuns ==
  ASSUME OneCaller
  PROVE  Spec => SweepSparesInFlight
<1>1. TypeOK /\ LifeInv /\ [Next]_vars =>
        [\A r \in Run : InFlight(r) /\ disk[r] # None =>
           \/ disk'[r] # None
           \/ \E c \in Callers : call[c].at = "removing" /\ call[c].run = r]_vars
  BY StepKeepsDirectories
<1> QED
  BY <1>1, LifeHolds, RunTypeCorrect, PTL DEF Spec, SweepSparesInFlight

\* A run that was deleted or swept stays away: no job still finishing, no retry and
\* no restart brings its entry or its directory back.
THEOREM DeletedRunsStayDeleted ==
  ASSUME OneCaller
  PROVE  Spec => DeletedStaysDeleted
<1>1. TypeOK /\ LifeInv /\ [Next]_vars => [\A r \in Run : Gone(r) => Gone(r)']_vars
  BY StepKeepsDirectories
<1> QED
  BY <1>1, LifeHolds, RunTypeCorrect, PTL DEF Spec, DeletedStaysDeleted

-----------------------------------------------------------------------------
(* The numbers of the manifests *)

\* A run is in one place: the queue or one job.
JobsApart ==
  /\ \A v, w \in Workers, r \in Run : Works(v, r) /\ Works(w, r) => v = w
  /\ \A w \in Workers, r \in queue : ~Works(w, r)

LockInv == \A w \in Workers : job[w].at = "writing" => seqLock = w

\* Number n of day s is r's as long as r has a directory.
Holds(r, s, n) ==
  disk[r] # None => HasManifest(r) /\ disk[r].manifest.started = s /\ disk[r].manifest.seq = n

\* No other run has number n of day s.
Free(r, s, n) ==
  \A q \in Run \ {r} : HasManifest(q) =>
    ~(disk[q].manifest.started = s /\ disk[q].manifest.seq = n)

\* The number a retry keeps is the run's own on its way from the request to the
\* entry, from the entry to the job, and up to the write.
PreservedInv ==
  /\ \A c \in Callers, r \in Run :
       Retries(c, r) /\ call[c].preserved # None => Holds(r, day, call[c].preserved)
  /\ \A r \in queue :
       registry[r] # None /\ registry[r].preserved # None => Holds(r, day, registry[r].preserved)
  /\ \A w \in Workers, r \in Run :
       Works(w, r) /\ job[w].at # "noting" /\ registry[r] # None /\ registry[r].preserved # None =>
         Holds(r, job[w].started, registry[r].preserved)
  /\ \A w \in Workers, r \in Run :
       Works(w, r) /\ job[w].at = "numbering" /\ job[w].seq # None =>
         Holds(r, job[w].started, job[w].seq)
  /\ \A w \in Workers, r \in Run :
       Works(w, r) /\ job[w].at = "writing" /\ disk[r] # None => Free(r, job[w].started, job[w].seq)

NumberInv == JobsApart /\ LockInv /\ PreservedInv /\ SeqUnique

LEMMA InitNumber == Init => NumberInv
BY DEF Init, NumberInv, JobsApart, LockInv, PreservedInv, SeqUnique, Works, Retries, HasManifest, Idle

\* The manifest of r, if it stays, stays with its number.
KeepsNumber(r) ==
  \/ disk'[r] = None
  \/ /\ disk[r] # None /\ (HasManifest(r)' <=> HasManifest(r))
     /\ HasManifest(r) => /\ disk'[r].manifest.started = disk[r].manifest.started
                          /\ disk'[r].manifest.seq = disk[r].manifest.seq

LEMMA NumbersStay ==
  ASSUME \A r \in Run : KeepsNumber(r) \/ (disk[r] = None /\ ~HasManifest(r)'), NEW r \in Run,
         NEW s, NEW n
  PROVE  /\ KeepsNumber(r) /\ Holds(r, s, n) => Holds(r, s, n)'
         /\ Free(r, s, n) => Free(r, s, n)'
         /\ SeqUnique => SeqUnique'
<1>1. \A q \in Run : HasManifest(q)' =>
        /\ HasManifest(q)
        /\ disk'[q].manifest.started = disk[q].manifest.started
        /\ disk'[q].manifest.seq = disk[q].manifest.seq
  BY DEF KeepsNumber, HasManifest
<1>2. KeepsNumber(r) /\ Holds(r, s, n) => Holds(r, s, n)'
  BY DEF KeepsNumber, Holds
<1>3. Free(r, s, n) => Free(r, s, n)'
  BY <1>1 DEF Free
<1>4. SeqUnique => SeqUnique'
  BY <1>1 DEF SeqUnique
<1> QED
  BY <1>2, <1>3, <1>4

\* A step that writes no number keeps NumberInv if what it hands over is held.
LEMMA NumbersHandedOver ==
  ASSUME NumberInv,
         \A r \in Run : KeepsNumber(r) \/ (disk[r] = None /\ ~HasManifest(r)'),
         JobsApart', LockInv', queue' \subseteq Run,
         \A r \in Run : ~KeepsNumber(r) =>
           /\ r \notin queue' /\ \A w \in Workers : ~Works(w, r)'
           /\ \A c \in Callers : ~Retries(c, r)',
         \A c \in Callers, r \in Run :
           Retries(c, r)' /\ call'[c].preserved # None => Holds(r, day', call'[c].preserved),
         \A r \in queue' :
           registry'[r] # None /\ registry'[r].preserved # None => Holds(r, day', registry'[r].preserved),
         \A w \in Workers, r \in Run : Works(w, r)' =>
           /\ job'[w].at # "noting" /\ registry'[r] # None /\ registry'[r].preserved # None =>
                Holds(r, job'[w].started, registry'[r].preserved)
           /\ job'[w].at = "numbering" /\ job'[w].seq # None => Holds(r, job'[w].started, job'[w].seq)
           /\ job'[w].at = "writing" /\ disk'[r] # None => Free(r, job'[w].started, job'[w].seq)
  PROVE  NumberInv'
<1>1. \A r \in Run : \A s, n : KeepsNumber(r) /\ Holds(r, s, n) => Holds(r, s, n)'
  BY NumbersStay, Zenon
<1>2. \A r \in Run : \A s, n : Free(r, s, n) => Free(r, s, n)'
  BY NumbersStay, Zenon
<1>3. SeqUnique'
  BY NumbersStay DEF NumberInv, SeqUnique
<1>4. PreservedInv'
  BY <1>1, <1>2 DEF PreservedInv
<1> QED
  BY <1>3, <1>4 DEF NumberInv

\* A job's step that writes no number.
LEMMA JobHandsOver ==
  ASSUME TypeOK, NumberInv, NEW w \in Workers, NEW d \in Run, JobFrame(w), RunFrame(d),
         d = job[w].run, job[w].at # "noting" \/ job'[w].at = "idle",
         job'[w].at = "idle" \/ (job'[w].run = d /\ job'[w].started = job[w].started),
         registry'[d] = None <=> registry[d] = None,
         registry[d] # None => registry'[d].preserved = registry[d].preserved,
         \A r \in Run : KeepsNumber(r),
         LockInv',
         job'[w].at = "numbering" /\ job'[w].seq # None => Holds(d, job[w].started, job'[w].seq),
         job'[w].at = "writing" /\ disk'[d] # None => Free(d, job[w].started, job'[w].seq)
  PROVE  NumberInv'
<1> USE DEF NumberInv
<1>0. /\ queue \subseteq Run /\ queue' = queue /\ call' = call /\ day' = day
      /\ \A v \in Workers \ {w} : job'[v] = job[v]
      /\ \A r \in Run \ {d} : registry'[r] = registry[r] /\ disk'[r] = disk[r]
  BY DEF TypeOK, JobFrame, RunFrame
<1>1. job[w].at # "idle"
  BY WorkingJob DEF JobFrame, TypeOK, Job, Idle
<1>2. /\ \A v \in Workers \ {w}, r \in Run : Works(v, r)' <=> Works(v, r)
      /\ Works(w, d) /\ \A r \in Run : Works(w, r)' => r = d /\ job'[w].at # "idle"
      /\ \A c \in Callers, r \in Run : Retries(c, r)' <=> Retries(c, r)
  BY <1>0, <1>1 DEF Works, Retries
<1>3. JobsApart'
  BY <1>0, <1>2 DEF JobsApart
<1>4. \A c \in Callers, r \in Run :
        Retries(c, r)' /\ call'[c].preserved # None => Holds(r, day', call'[c].preserved)
  BY <1>0, <1>2 DEF PreservedInv
<1>5. \A r \in queue' :
        registry'[r] # None /\ registry'[r].preserved # None => Holds(r, day', registry'[r].preserved)
  BY <1>0, <1>2 DEF PreservedInv, JobsApart
<1>6. ASSUME NEW v \in Workers, NEW r \in Run, Works(v, r)'
      PROVE  /\ job'[v].at # "noting" /\ registry'[r] # None /\ registry'[r].preserved # None =>
                  Holds(r, job'[v].started, registry'[r].preserved)
             /\ job'[v].at = "numbering" /\ job'[v].seq # None => Holds(r, job'[v].started, job'[v].seq)
             /\ job'[v].at = "writing" /\ disk'[r] # None => Free(r, job'[v].started, job'[v].seq)
  <2>1. CASE v = w
    BY <1>0, <1>2, <1>6, <2>1 DEF PreservedInv
  <2>2. CASE v # w
    <3>1. Works(v, r) /\ r # d
      BY <1>2, <1>6, <2>2 DEF JobsApart
    <3> QED
      BY <1>0, <2>2, <3>1 DEF PreservedInv
  <2> QED
    BY <2>1, <2>2
<1> QED
  BY <1>0, <1>3, <1>4, <1>5, <1>6, NumbersHandedOver

LEMMA JobKeepsNumbers ==
  ASSUME TypeOK, LifeInv, NumberInv, RetriesWait, NEW w \in Workers, JobStep(w),
         ~StartJob(w), ~StartGone(w), ~WriteManifest(w)
  PROVE  NumberInv'
<1> USE DEF NumberInv
<1>0. Idle.at = "idle"
  BY DEF Idle
<1>1. PICK d : d = job[w].run
  OBVIOUS
<1>2. \A r \in Run : disk'[r] = disk[r] => KeepsNumber(r)
  BY DEF KeepsNumber, HasManifest
<1>3. ASSUME JobFrame(w), \/ seqLock' = seqLock /\ (job'[w].at = "writing" => job[w].at = "writing")
                          \/ seqLock' = w /\ seqLock = None
                          \/ seqLock' = None /\ job[w].at = "writing" /\ job'[w].at # "writing"
      PROVE  LockInv'
  BY <1>3, LifecycleAssumption DEF JobFrame, LockInv
<1>4. CASE Extract(w)
  <2>1. /\ JobFrame(w) /\ RunFrame(d) /\ d \in Run /\ job[w].at = "extracting"
        /\ job'[w] = JobAt(w, "publishing", d, job[w].outcome, job[w].seq)
        /\ registry' = registry /\ seqLock' = seqLock /\ disk[d] # None
        /\ disk'[d] = [pdf |-> disk[d].pdf, cache |-> TRUE, manifest |-> disk[d].manifest]
        /\ disk'[d] # None
    BY <1>1, <1>4, ExtractDoes, Zenon
  <2>2. \A r \in Run : KeepsNumber(r)
    BY <1>2, <2>1 DEF KeepsNumber, HasManifest, RunFrame
  <2>3. LockInv'
    BY <1>3, <2>1 DEF JobAt
  <2> QED
    BY <1>1, <2>1, <2>2, <2>3, JobHandsOver DEF JobAt
<1>5. CASE Publish(w)
  <2>1. /\ JobFrame(w) /\ RunFrame(d) /\ d \in Run /\ job[w].at = "publishing"
        /\ job'[w] = JobAt(w, "saving", d, "review", job[w].seq)
        /\ disk' = disk /\ seqLock' = seqLock /\ registry[d] # None /\ registry'[d] # None
        /\ registry'[d] = [status |-> "review", started |-> registry[d].started,
                           seq |-> registry[d].seq, preserved |-> registry[d].preserved]
    BY <1>1, <1>5, PublishDoes, Zenon
  <2>2. LockInv'
    BY <1>3, <2>1 DEF JobAt
  <2> QED
    BY <1>1, <1>2, <2>1, <2>2, JobHandsOver DEF JobAt
<1>6. CASE Fail(w)
  <2>1. /\ JobFrame(w) /\ RunFrame(d) /\ d \in Run /\ job[w].at \in {"extracting", "publishing"}
        /\ job'[w] = JobAt(w, "saving", d, job[w].outcome, job[w].seq)
        /\ disk' = disk /\ seqLock' = seqLock /\ registry[d] # None /\ registry'[d] # None
        /\ registry'[d] = [status |-> "error", started |-> registry[d].started,
                           seq |-> registry[d].seq, preserved |-> registry[d].preserved]
    BY <1>1, <1>6, FailDoes, Zenon
  <2>2. LockInv'
    BY <1>3, <2>1 DEF JobAt
  <2> QED
    BY <1>1, <1>2, <2>1, <2>2, JobHandsOver DEF JobAt
<1>7. CASE NoteSeq(w)
  <2>1. /\ JobFrame(w) /\ RunFrame(d) /\ d \in Run /\ job[w].at = "noting" /\ job'[w] = Idle
        /\ disk' = disk /\ seqLock' = seqLock /\ registry[d] # None /\ registry'[d] # None
        /\ registry'[d] = [status |-> registry[d].status, started |-> registry[d].started,
                           seq |-> job[w].seq, preserved |-> registry[d].preserved]
    BY <1>1, <1>7, NoteSeqDoes, Zenon
  <2>2. LockInv'
    BY <1>0, <1>3, <2>1
  <2> QED
    BY <1>0, <1>1, <1>2, <2>1, <2>2, JobHandsOver
<1>8. CASE EntryGone(w) \/ ReadPreserved(w) \/ Allocate(w) \/ WriteManifestFails(w)
  <2>0. QuietStep(w)
    BY <1>8 DEF QuietStep
  <2>1. /\ JobFrame(w) /\ RunFrame(d) /\ d \in Run /\ registry' = registry /\ disk' = disk
        /\ EntryGone(w) => job'[w] = Idle /\ seqLock' = seqLock
        /\ ReadPreserved(w) =>
             /\ job[w].at = "saving" /\ registry[d] # None /\ seqLock' = seqLock
             /\ job'[w] = JobAt(w, "numbering", d, job[w].outcome, registry[d].preserved)
        /\ Allocate(w) =>
             /\ job[w].at = "numbering" /\ seqLock = None /\ seqLock' = w
             /\ \E n \in Number :
                  /\ IF job[w].seq # None THEN n = job[w].seq ELSE NextNumber(n, job[w].started)
                  /\ job'[w] = JobAt(w, "writing", d, job[w].outcome, n)
        /\ WriteManifestFails(w) => job[w].at = "writing" /\ job'[w] = Idle /\ seqLock' = None
    BY <1>1, <2>0, QuietStepDoes
  <2>2. CASE EntryGone(w) \/ WriteManifestFails(w)
    <3>1. LockInv'
      BY <1>0, <1>3, <2>1, <2>2
    <3> QED
      BY <1>0, <1>1, <1>2, <2>1, <2>2, <3>1, JobHandsOver
  <2>3. CASE ReadPreserved(w)
    <3>1. LockInv'
      BY <1>3, <2>1, <2>3 DEF JobAt
    <3>2. registry[d].preserved # None => Holds(d, job[w].started, registry[d].preserved)
      BY <1>1, <2>1, <2>3 DEF PreservedInv, Works
    <3> QED
      BY <1>1, <1>2, <2>1, <2>3, <3>1, <3>2, JobHandsOver DEF JobAt
  <2>4. CASE Allocate(w)
    <3>1. PICK n \in Number :
            /\ IF job[w].seq # None THEN n = job[w].seq ELSE NextNumber(n, job[w].started)
            /\ job'[w] = JobAt(w, "writing", d, job[w].outcome, n)
      BY <2>1, <2>4, Zenon
    <3>2. LockInv'
      BY <1>3, <2>1, <2>4 DEF JobAt
    <3>3. ASSUME disk[d] # None PROVE Free(d, job[w].started, n)
      <4>1. CASE job[w].seq # None
        <5>1. Holds(d, job[w].started, n)
          BY <1>1, <2>1, <2>4, <3>1, <4>1 DEF PreservedInv, Works
        <5> QED
          BY <2>1, <3>3, <5>1 DEF Holds, Free, SeqUnique
      <4>2. CASE job[w].seq = None
        <5>1. NextNumber(n, job[w].started)
          BY <3>1, <4>2
        <5>2. \A q \in Run : HasManifest(q) /\ disk[q].manifest.started = job[w].started =>
                disk[q].manifest.seq < n /\ disk[q].manifest.seq \in Nat
          BY <5>1, HeldData DEF NextNumber, Manifest, Number
        <5> QED
          BY <5>2 DEF Free
      <4> QED
        BY <4>1, <4>2
    <3> QED
      BY <1>1, <1>2, <2>1, <2>4, <3>1, <3>2, <3>3, JobHandsOver DEF JobAt
  <2> QED
    BY <1>8, <2>2, <2>3, <2>4
<1> QED
  BY <1>4, <1>5, <1>6, <1>7, <1>8 DEF JobStep

\* A job begins on the day its run's number was kept for.
LEMMA StartKeepsNumbers ==
  ASSUME TypeOK, LifeInv, NumberInv, NEW w \in Workers, StartJob(w)
  PROVE  NumberInv'
<1> USE DEF NumberInv
<1>1. PICK q \in queue :
        /\ q \in Run /\ queue' = queue \ {q}
        /\ \A r \in Run \ {q} : registry'[r] = registry[r]
        /\ registry[q] # None /\ registry'[q] # None
        /\ registry'[q] = [status |-> "processing", started |-> day, seq |-> registry[q].seq,
                           preserved |-> registry[q].preserved]
        /\ job'[w] = [at |-> "extracting", run |-> q, started |-> day, outcome |-> "error", seq |-> None]
  BY StartJobDoes
<1>2. /\ UNCHANGED <<day, disk, call, seqLock>>
      /\ job[w].at = "idle" /\ \A v \in Workers \ {w} : job'[v] = job[v]
      /\ queue \subseteq Run
  BY StartJobDoes DEF TypeOK
<1>3. /\ \A v \in Workers \ {w}, r \in Run : Works(v, r)' <=> Works(v, r)
      /\ \A r \in Run : Works(w, r)' <=> r = q
      /\ \A c \in Callers, r \in Run : Retries(c, r)' <=> Retries(c, r)
  BY <1>1, <1>2 DEF Works, Retries
<1>4. \A v \in Workers : ~Works(v, q)
  BY <1>1 DEF JobsApart
<1>5. JobsApart'
  BY <1>1, <1>2, <1>3, <1>4 DEF JobsApart
<1>6. LockInv'
  BY <1>1, <1>2 DEF LockInv
<1>7. \A r \in Run : KeepsNumber(r)
  BY <1>2 DEF KeepsNumber, HasManifest
<1>8. \A c \in Callers, r \in Run :
        Retries(c, r)' /\ call'[c].preserved # None => Holds(r, day', call'[c].preserved)
  BY <1>2, <1>3 DEF PreservedInv
<1>9. \A r \in queue' :
        registry'[r] # None /\ registry'[r].preserved # None => Holds(r, day', registry'[r].preserved)
  BY <1>1, <1>2 DEF PreservedInv
<1>10. ASSUME NEW v \in Workers, NEW r \in Run, Works(v, r)'
      PROVE  /\ job'[v].at # "noting" /\ registry'[r] # None /\ registry'[r].preserved # None =>
                  Holds(r, job'[v].started, registry'[r].preserved)
             /\ job'[v].at = "numbering" /\ job'[v].seq # None => Holds(r, job'[v].started, job'[v].seq)
             /\ job'[v].at = "writing" /\ disk'[r] # None => Free(r, job'[v].started, job'[v].seq)
  <2>1. CASE v = w
    BY <1>1, <1>3, <1>10, <2>1 DEF PreservedInv
  <2>2. CASE v # w
    BY <1>1, <1>2, <1>3, <1>4, <1>10, <2>2 DEF PreservedInv
  <2> QED
    BY <2>1, <2>2
<1> QED
  BY <1>2, <1>1, <1>5, <1>6, <1>7, <1>8, <1>9, <1>10, NumbersHandedOver

\* The write: its number is free, nobody else is at the lock, and nothing on its way
\* is the run's.
LEMMA WriteKeepsNumbers ==
  ASSUME TypeOK, LifeInv, NumberInv, RetriesWait, NEW w \in Workers, WriteManifest(w)
  PROVE  NumberInv'
<1> USE DEF NumberInv
<1>1. PICK d \in Run :
        /\ d = job[w].run /\ JobFrame(w) /\ RunFrame(d)
        /\ job[w].at = "writing" /\ seqLock' = None
        /\ \/ job'[w] = JobAt(w, "noting", d, job[w].outcome, job[w].seq) \/ job'[w] = Idle
        /\ registry' = registry /\ disk[d] # None /\ disk'[d] # None
        /\ disk'[d] = [pdf |-> disk[d].pdf, cache |-> disk[d].cache, manifest |-> WrittenBy(w)]
  BY WriteManifestDoes
<1>2. /\ queue \subseteq Run /\ queue' = queue /\ call' = call /\ day' = day
      /\ \A v \in Workers \ {w} : job'[v] = job[v]
      /\ \A r \in Run \ {d} : disk'[r] = disk[r] /\ (HasManifest(r)' <=> HasManifest(r))
      /\ disk'[d].manifest.started = job[w].started /\ disk'[d].manifest.seq = job[w].seq
  BY <1>1 DEF TypeOK, JobFrame, RunFrame, WrittenBy, HasManifest
<1>3. /\ \A v \in Workers \ {w}, r \in Run : Works(v, r)' <=> Works(v, r)
      /\ Works(w, d) /\ \A r \in Run : Works(w, r)' => r = d /\ job'[w].at = "noting"
      /\ \A c \in Callers, r \in Run : Retries(c, r)' <=> Retries(c, r)
  BY <1>1, <1>2 DEF Works, Retries, JobAt, Idle
<1>4. JobsApart'
  BY <1>2, <1>3 DEF JobsApart
<1>5. \A v \in Workers : job'[v].at # "writing"
  BY <1>1, <1>2 DEF LockInv, JobAt, Idle
<1>6. LockInv'
  BY <1>5 DEF LockInv
<1>7. \A r \in Run \ {d} : \A s, n : Holds(r, s, n)' <=> Holds(r, s, n)
  BY <1>2 DEF Holds
<1>8. PreservedInv'
  <2>1. ASSUME NEW c \in Callers, NEW r \in Run, Retries(c, r)', call'[c].preserved # None
        PROVE  Holds(r, day, call[c].preserved)'
    <3>1. Retries(c, r) /\ r # d
      BY <1>3, <2>1 DEF RetriesWait
    <3> QED
      BY <1>2, <1>7, <2>1, <3>1 DEF PreservedInv
  <2>2. ASSUME NEW r \in queue', registry'[r] # None, registry'[r].preserved # None
        PROVE  Holds(r, day, registry[r].preserved)'
    <3>1. r \in Run /\ r # d
      BY <1>2, <1>3 DEF JobsApart
    <3> QED
      BY <1>1, <1>2, <1>7, <2>2, <3>1 DEF PreservedInv
  <2>3. ASSUME NEW v \in Workers, NEW r \in Run, Works(v, r)'
        PROVE  /\ (job[v].at # "noting" /\ registry[r] # None /\ registry[r].preserved # None =>
                    Holds(r, job[v].started, registry[r].preserved))'
               /\ (job[v].at = "numbering" /\ job[v].seq # None =>
                    Holds(r, job[v].started, job[v].seq))'
    <3>1. CASE v = w
      BY <1>3, <2>3, <3>1
    <3>2. CASE v # w
      <4>1. Works(v, r) /\ r # d /\ job'[v] = job[v]
        BY <1>2, <1>3, <2>3, <3>2 DEF JobsApart
      <4> QED
        BY <1>1, <1>7, <4>1 DEF PreservedInv
    <3> QED
      BY <3>1, <3>2
  <2> QED
    BY <1>5, <2>1, <2>2, <2>3 DEF PreservedInv
<1>9. SeqUnique'
  <2>1. Free(d, job[w].started, job[w].seq)
    BY <1>1, <1>3 DEF PreservedInv
  <2> QED
    BY <1>2, <2>1 DEF SeqUnique, Free
<1> QED
  BY <1>4, <1>6, <1>8, <1>9

\* Requests: a retry keeps the number its manifest has on that day.
LEMMA CallKeepsNumbers ==
  ASSUME TypeOK, LifeInv, NumberInv, RetriesWait, OneCaller, NEW c \in Callers,
         CallStep(c) \/ ListRuns(c) \/ \E r \in Run : DeleteRun(c, r) \/ RetryRun(c, r)
  PROVE  NumberInv'
<1> USE DEF NumberInv
<1>0. /\ UNCHANGED <<day, job, seqLock>> /\ \A b \in Callers : b = c
      /\ queue \subseteq Run /\ queue' \subseteq Run
  BY CallStepFrame DEF CallFrame, OneCaller, TypeOK
<1>1. /\ \A w \in Workers, r \in Run : Works(w, r)' <=> Works(w, r)
      /\ LockInv'
  BY <1>0 DEF Works, LockInv
<1>2. ASSUME queue' = queue,
             \A r \in Run : registry'[r] = registry[r] \/ registry'[r] = None,
             \A r \in Run : KeepsNumber(r),
             \A r \in Run : Retries(c, r)' /\ call'[c].preserved # None =>
               Holds(r, day, call'[c].preserved)
      PROVE  NumberInv'
  <2>1. JobsApart'
    BY <1>0, <1>1, <1>2 DEF JobsApart
  <2>2. \A b \in Callers, r \in Run :
          Retries(b, r)' /\ call'[b].preserved # None => Holds(r, day', call'[b].preserved)
    BY <1>0, <1>2
  <2>3. \A r \in queue' :
          registry'[r] # None /\ registry'[r].preserved # None => Holds(r, day', registry'[r].preserved)
    BY <1>0, <1>2 DEF PreservedInv
  <2>4. \A w \in Workers, r \in Run : Works(w, r)' =>
          /\ job'[w].at # "noting" /\ registry'[r] # None /\ registry'[r].preserved # None =>
               Holds(r, job'[w].started, registry'[r].preserved)
          /\ job'[w].at = "numbering" /\ job'[w].seq # None => Holds(r, job'[w].started, job'[w].seq)
          /\ job'[w].at = "writing" /\ disk'[r] # None => Free(r, job'[w].started, job'[w].seq)
    BY <1>0, <1>1, <1>2 DEF PreservedInv, KeepsNumber
  <2> QED
    BY <1>0, <1>1, <1>2, <2>1, <2>2, <2>3, <2>4, NumbersHandedOver
<1>3. /\ \A r \in Run : disk'[r] = disk[r] \/ disk'[r] = None => KeepsNumber(r)
  BY DEF KeepsNumber, HasManifest
<1>4. CASE ListRuns(c) \/ SweepInspect(c)
  <2>1. UNCHANGED <<registry, disk, queue>> /\ call'[c].at = "sweeping"
    BY <1>4, ListRunsDoes, SweepInspectDoes DEF SweepFrame
  <2> QED
    BY <1>2, <1>3, <2>1 DEF Retries
<1>5. CASE SweepRemove(c)
  <2>1. PICK q \in Run : /\ UNCHANGED <<registry, queue>> /\ disk' = [disk EXCEPT ![q] = None]
                         /\ call'[c].at = "sweeping"
    BY <1>5, SweepRemoveDoes DEF SweepFrame
  <2> QED
    BY <1>2, <1>3, <2>1 DEF Retries, TypeOK
<1>6. CASE DeleteDirectory(c)
  <2>1. PICK q \in Run : /\ UNCHANGED <<registry, queue>> /\ disk' = [disk EXCEPT ![q] = None]
                         /\ call'[c].at = "popping"
    BY <1>6, DeleteDirectoryDoes
  <2> QED
    BY <1>2, <1>3, <2>1 DEF Retries, TypeOK
<1>7. CASE SweepReturn(c)
  <2>1. /\ UNCHANGED <<disk, queue>> /\ call'[c] = Idle
        /\ \A r \in Run : registry'[r] = registry[r] \/ registry'[r] = None
    BY <1>7, SweepReturnDoes
  <2> QED
    BY <1>2, <1>3, <2>1 DEF Retries, Idle
<1>8. CASE DeletePop(c)
  <2>1. PICK q \in Run : /\ UNCHANGED <<disk, queue>> /\ call'[c] = Idle
                         /\ registry' = [registry EXCEPT ![q] = None]
    BY <1>8, DeletePopDoes
  <2>2. \A r \in Run : registry'[r] = registry[r] \/ registry'[r] = None
    BY <2>1 DEF TypeOK
  <2> QED
    BY <1>2, <1>3, <2>1, <2>2 DEF Retries, Idle
<1>9. ASSUME NEW q \in Run, DeleteRun(c, q) PROVE NumberInv'
  <2>1. UNCHANGED <<registry, disk, queue>> /\ call'[c] = [at |-> "removing", run |-> q]
    BY <1>9, DeleteRunDoes, Zenon
  <2> QED
    BY <1>2, <1>3, <2>1 DEF Retries
<1>10. ASSUME NEW q \in Run, RetryRun(c, q) PROVE NumberInv'
  <2>1. /\ UNCHANGED <<registry, disk, queue>>
        /\ call'[c] = [at |-> "resetting", run |-> q, entry |-> registry[q], preserved |-> None]
    BY <1>10, RetryRunDoes, Zenon
  <2> QED
    BY <1>2, <1>3, <2>1 DEF Retries
<1>11. CASE ResetRun(c)
  <2>1. PICK q \in Run :
          /\ UNCHANGED <<registry, queue>> /\ call'[c].run = q
          /\ call'[c].preserved = IF HasManifest(q) /\ disk[q].manifest.started = day
                                  THEN disk[q].manifest.seq ELSE None
          /\ \A r \in Run \ {q} : disk'[r] = disk[r]
          /\ disk[q] = None => disk'[q] = None
          /\ disk[q] # None =>
               disk'[q] = [pdf |-> disk[q].pdf, cache |-> FALSE, manifest |-> disk[q].manifest] /\ disk'[q] # None
    BY <1>11, ResetRunDoes
  <2>2. \A r \in Run : KeepsNumber(r)
    BY <1>3, <2>1 DEF KeepsNumber, HasManifest
  <2>3. \A r \in Run : Retries(c, r)' /\ call'[c].preserved # None => Holds(r, day, call'[c].preserved)
    BY <2>1 DEF Retries, Holds
  <2> QED
    BY <1>2, <2>1, <2>2, <2>3
<1>12. CASE MarkPending(c) \/ MarkPendingFails(c)
  <2>1. PICK q \in Run :
          /\ q = call[c].run /\ call[c].at = "marking"
          /\ UNCHANGED <<registry, queue>> /\ call'[c].run = q /\ call'[c].preserved = call[c].preserved
          /\ \A r \in Run \ {q} : disk'[r] = disk[r]
          /\ ~HasManifest(q) => disk'[q] = disk[q]
          /\ HasManifest(q) => /\ disk'[q] # None /\ disk'[q].manifest # None
                               /\ disk'[q] = Remarked(disk[q], "pending") \/ disk' = disk
    BY <1>12, MarkPendingDoes
  <2>2. \A r \in Run : KeepsNumber(r)
    BY <1>3, <2>1 DEF KeepsNumber, HasManifest, Remarked
  <2>3. \A r \in Run : Retries(c, r)' /\ call'[c].preserved # None => Holds(r, day, call'[c].preserved)
    BY <2>1 DEF Retries, PreservedInv
  <2> QED
    BY <1>2, <2>1, <2>2, <2>3
<1>13. CASE FireRetry(c)
  <2>1. PICK q \in Run :
          /\ q = call[c].run /\ call[c].at = "firing"
          /\ disk' = disk /\ call'[c] = Idle /\ queue' = queue \cup {q}
          /\ \A r \in Run \ {q} : registry'[r] = registry[r]
          /\ registry'[q] # None
          /\ registry'[q] = [status |-> "processing", started |-> call[c].entry.started,
                             seq |-> call[c].entry.seq, preserved |-> call[c].preserved]
    BY <1>13, FireRetryDoes
  <2>2. Retries(c, q) /\ \A w \in Workers : ~Works(w, q)
    BY <2>1 DEF Retries, RetriesWait
  <2>3. JobsApart'
    BY <1>0, <1>1, <2>1, <2>2 DEF JobsApart
  <2>4. \A b \in Callers, r \in Run : ~Retries(b, r)'
    BY <1>0, <2>1 DEF Retries, Idle
  <2>5. \A r \in queue' :
          registry'[r] # None /\ registry'[r].preserved # None => Holds(r, day', registry'[r].preserved)
    BY <1>0, <2>1, <2>2 DEF PreservedInv
  <2>6. \A w \in Workers, r \in Run : Works(w, r)' =>
          /\ job'[w].at # "noting" /\ registry'[r] # None /\ registry'[r].preserved # None =>
               Holds(r, job'[w].started, registry'[r].preserved)
          /\ job'[w].at = "numbering" /\ job'[w].seq # None => Holds(r, job'[w].started, job'[w].seq)
          /\ job'[w].at = "writing" /\ disk'[r] # None => Free(r, job'[w].started, job'[w].seq)
    BY <1>0, <1>1, <2>1, <2>2 DEF PreservedInv
  <2>7. \A r \in Run : KeepsNumber(r)
    BY <1>3, <2>1
  <2> QED
    BY <1>0, <1>1, <2>3, <2>4, <2>5, <2>6, <2>7, NumbersHandedOver
<1> QED
  BY <1>4, <1>5, <1>6, <1>7, <1>8, <1>9, <1>10, <1>11, <1>12, <1>13 DEF CallStep

LEMMA UploadKeepsNumbers ==
  ASSUME TypeOK, LifeInv, NumberInv, NEW q \in Run, Upload(q) \/ RefuseUpload(q) \/ AcceptUpload(q)
  PROVE  NumberInv'
<1> USE DEF NumberInv
<1>0. /\ UNCHANGED <<day, job, call, seqLock>> /\ queue \subseteq Run /\ queue' \subseteq Run
      /\ registry \in [Run -> Entry \cup {None}] /\ disk \in [Run -> Directory \cup {None}]
  BY DEF TypeOK, Upload, RefuseUpload, AcceptUpload
<1>1. /\ \A w \in Workers, r \in Run : Works(w, r)' <=> Works(w, r)
      /\ \A c \in Callers, r \in Run : Retries(c, r)' <=> Retries(c, r)
      /\ LockInv'
  BY <1>0 DEF Works, Retries, LockInv
<1>2. /\ q \notin queue /\ \A w \in Workers : ~Works(w, q)
      /\ \A c \in Callers : ~Retries(c, q)
  BY DEF LifeInv, FreshInv, Upload, RefuseUpload, AcceptUpload
<1>3. /\ \A r \in Run \ {q} : registry'[r] = registry[r] /\ disk'[r] = disk[r]
      /\ ~HasManifest(q)'
      /\ KeepsNumber(q) \/ (disk[q] = None /\ q \notin queue')
      /\ q \in queue' => registry'[q].preserved = None
      /\ queue' \ {q} \subseteq queue
  <2>1. CASE Upload(q)
    <3>1. [EmptyDir EXCEPT !.pdf = TRUE].manifest = None
      BY DEF EmptyDir
    <3>2. disk'[q].manifest = None /\ disk[q] = None
      BY <1>0, <2>1, <3>1 DEF Upload, LifeInv, FreshInv
    <3> QED
      BY <1>0, <1>2, <2>1, <3>2 DEF Upload, HasManifest
  <2>2. CASE RefuseUpload(q)
    <3>1. /\ JustPdf.manifest = None /\ [JustPdf EXCEPT !.pdf = FALSE].manifest = None
      BY DEF JustPdf, EmptyDir
    <3>2. disk[q] # None /\ disk[q] = JustPdf /\ disk'[q] = [JustPdf EXCEPT !.pdf = FALSE]
      BY <1>0, <2>2 DEF RefuseUpload, LifeInv, FreshInv
    <3>3. disk'[q].manifest = None /\ disk[q].manifest = None
      BY <3>1, <3>2
    <3> QED
      BY <1>0, <1>2, <2>2, <3>2, <3>3 DEF RefuseUpload, HasManifest, KeepsNumber
  <2>3. CASE AcceptUpload(q)
    <3>1. disk[q] = JustPdf /\ JustPdf.manifest = None
      BY <2>3 DEF AcceptUpload, LifeInv, FreshInv, JustPdf, EmptyDir
    <3> QED
      BY <1>0, <2>3, <3>1 DEF AcceptUpload, HasManifest, KeepsNumber
  <2> QED
    BY <2>1, <2>2, <2>3
<1>4. JobsApart'
  BY <1>0, <1>1, <1>2, <1>3 DEF JobsApart
<1>5. \A r \in Run \ {q} : KeepsNumber(r)
  BY <1>3 DEF KeepsNumber, HasManifest
<1>6. \A c \in Callers, r \in Run :
        Retries(c, r)' /\ call'[c].preserved # None => Holds(r, day', call'[c].preserved)
  BY <1>0, <1>1 DEF PreservedInv
<1>7. \A r \in queue' :
        registry'[r] # None /\ registry'[r].preserved # None => Holds(r, day', registry'[r].preserved)
  BY <1>0, <1>3 DEF PreservedInv
<1>8. \A w \in Workers, r \in Run : Works(w, r)' =>
        /\ job'[w].at # "noting" /\ registry'[r] # None /\ registry'[r].preserved # None =>
             Holds(r, job'[w].started, registry'[r].preserved)
        /\ job'[w].at = "numbering" /\ job'[w].seq # None => Holds(r, job'[w].started, job'[w].seq)
        /\ job'[w].at = "writing" /\ disk'[r] # None => Free(r, job'[w].started, job'[w].seq)
  BY <1>0, <1>1, <1>2, <1>3 DEF PreservedInv
<1> QED
  BY <1>0, <1>1, <1>2, <1>3, <1>4, <1>5, <1>6, <1>7, <1>8, NumbersHandedOver

LEMMA ProcessKeepsNumbers ==
  ASSUME TypeOK, LifeInv, NumberInv, ~Overnight, Crash \/ Restart \/ NextDay
  PROVE  NumberInv'
<1> USE DEF NumberInv
<1>1. CASE Crash
  BY <1>1 DEF Crash, JobsApart, LockInv, PreservedInv, SeqUnique, Works, Retries, HasManifest, Idle
<1>2. CASE NextDay
  <2>1. day' # day /\ UNCHANGED <<registry, disk, queue, job, call, seqLock>>
    BY <1>2 DEF NextDay, TypeOK, Today
  <2>2. /\ \A r \in queue : ~(registry[r] # None /\ registry[r].preserved # None)
        /\ \A c \in Callers, r \in Run : ~(Retries(c, r) /\ call[c].preserved # None)
    BY <2>1 DEF Overnight
  <2>3. PreservedInv'
    BY <2>1, <2>2 DEF PreservedInv, Works, Retries, HasManifest, Holds, Free
  <2> QED
    BY <2>1, <2>3 DEF JobsApart, LockInv, SeqUnique, Works, HasManifest
<1>3. CASE Restart
  <2>1. /\ UNCHANGED <<queue, job, call>>
        /\ queue = {}
        /\ \A w \in Workers : job[w].at = "idle"
        /\ \A c \in Callers : call[c].at = "idle"
    BY <1>3, RestartDoes DEF LifeInv, DownInv, Idle
  <2>2. \A r \in Run : \/ disk'[r] = None \/ disk'[r] = disk[r]
                       \/ /\ HasManifest(r) /\ disk'[r] = Remarked(disk[r], "error")
                          /\ disk'[r] # None /\ disk'[r].manifest # None
    BY <1>3, RestartDoes DEF Interrupted
  <2>3. ASSUME NEW r \in Run PROVE KeepsNumber(r)
    <3>1. CASE disk'[r] = None
      BY <3>1 DEF KeepsNumber
    <3>2. CASE disk'[r] = disk[r]
      BY <3>1, <3>2 DEF KeepsNumber, HasManifest
    <3>3. CASE HasManifest(r) /\ disk'[r] = Remarked(disk[r], "error") /\ disk'[r] # None /\ disk'[r].manifest # None
      <4>1. disk[r] # None /\ HasManifest(r)'
        BY <3>3 DEF HasManifest
      <4>2. /\ disk'[r].manifest.started = disk[r].manifest.started
            /\ disk'[r].manifest.seq = disk[r].manifest.seq
        BY <3>3 DEF Remarked
      <4> QED
        BY <3>3, <4>1, <4>2 DEF KeepsNumber
    <3> QED
      BY <2>2, <3>1, <3>2, <3>3
  <2>4. SeqUnique'
    BY <2>3, NumbersStay DEF SeqUnique
  <2>5. /\ queue' = {}
        /\ \A w \in Workers : job'[w].at = "idle"
        /\ \A w \in Workers, r \in Run : ~Works(w, r)'
        /\ \A c \in Callers, r \in Run : ~Retries(c, r)'
    BY <2>1 DEF Works, Retries
  <2>6. JobsApart'
    BY <2>5 DEF JobsApart
  <2>7. LockInv'
    BY <2>5 DEF LockInv
  <2>8. PreservedInv'
    BY <2>5 DEF PreservedInv
  <2> QED
    BY <2>4, <2>6, <2>7, <2>8
<1> QED
  BY <1>1, <1>2, <1>3

LEMMA NextKeepsNumbers ==
  ASSUME TypeOK, LifeInv, NumberInv, RetriesWait, OneCaller, ~Overnight, [Next]_vars
  PROVE  NumberInv'
<1>1. CASE UNCHANGED vars
  BY <1>1 DEF vars, NumberInv, JobsApart, LockInv, PreservedInv, SeqUnique, Works, Retries, Holds, Free,
     HasManifest
<1>2. ASSUME NEW w \in Workers, JobStep(w) PROVE NumberInv'
  <2>1. CASE StartGone(w)
    BY <2>1 DEF StartGone, LifeInv, WorkInv, InFlight
  <2> QED
    BY <1>2, <2>1, StartKeepsNumbers, WriteKeepsNumbers, JobKeepsNumbers
<1>3. ASSUME NEW c \in Callers, CallStep(c) \/ ListRuns(c) \/ \E r \in Run : DeleteRun(c, r) \/ RetryRun(c, r)
      PROVE  NumberInv'
  BY <1>3, CallKeepsNumbers
<1> QED
  BY <1>1, <1>2, <1>3, UploadKeepsNumbers, ProcessKeepsNumbers DEF Next

LEMMA InitWaits == Init => RetriesWait
BY DEF Init, RetriesWait, Retries, Idle

\* In the behaviours of PatientSpec a number that a retry keeps is the run's own on its
\* way from the request to the manifest (preserved_seq).
THEOREM NumberInvHolds ==
  ASSUME OneCaller
  PROVE  PatientSpec => []NumberInv
<1>1. TypeOK /\ LifeInv /\ RetriesWait /\ NumberInv /\ [Next /\ RetriesWait' /\ ~Overnight]_vars =>
        RetriesWait' /\ NumberInv'
  <2>1. ASSUME RetriesWait, UNCHANGED vars PROVE RetriesWait'
    BY <2>1 DEF vars, RetriesWait, Retries, Works
  <2>2. UNCHANGED vars => ~Overnight
    BY DEF vars, Overnight
  <2> QED
    BY <2>1, <2>2, NextKeepsNumbers
<1>2. PatientSpec => Spec
  <2>1. [Next /\ RetriesWait' /\ ~Overnight]_vars => [Next]_vars
    OBVIOUS
  <2> QED
    BY <2>1, PTL DEF PatientSpec, Spec
<1> QED
  BY <1>1, <1>2, InitNumber, InitWaits, LifeHolds, RunTypeCorrect, PTL DEF PatientSpec

\* Two runs of one day never have one number, as long as requests run one at a time
\* and no retry is overtaken by midnight or overtakes the job whose failure it saw: the
\* scan and the write are one step under _SEQ_LOCK, and a number kept over a retry is
\* the run's own until the write.
THEOREM NumbersAreUnique ==
  ASSUME OneCaller
  PROVE  PatientSpec => []SeqUnique
<1>1. NumberInv => SeqUnique
  BY DEF NumberInv
<1> QED
  BY <1>1, NumberInvHolds, PTL

-----------------------------------------------------------------------------
(* Completed runs *)

\* A run goes to the queue from an upload or a retry, which waits for its job, and from
\* there to one job; a job ends or stays with its run.
LEMMA NextKeepsApart ==
  ASSUME TypeOK, LifeInv, JobsApart, RetriesWait, [Next]_vars
  PROVE  JobsApart'
<1>0. Idle.at = "idle"
  BY DEF Idle
<1>1. ASSUME queue' = queue, job' = job PROVE JobsApart'
  BY <1>1 DEF JobsApart, Works
<1>2. ASSUME NEW w \in Workers, JobStep(w) PROVE JobsApart'
  <2>1. CASE StartJob(w)
    <3>1. PICK q \in queue :
            /\ q \in Run /\ queue' = queue \ {q}
            /\ job'[w] = [at |-> "extracting", run |-> q, started |-> day, outcome |-> "error", seq |-> None]
      BY <2>1, StartJobDoes
    <3>2. \A v \in Workers \ {w} : job'[v] = job[v]
      BY <2>1, StartJobDoes
    <3>3. \A v \in Workers : ~Works(v, q)
      BY <3>1 DEF JobsApart
    <3>4. \A r \in Run : Works(w, r)' <=> r = q
      BY <3>1 DEF Works
    <3>5. \A v \in Workers \ {w}, r \in Run : Works(v, r)' <=> Works(v, r)
      BY <3>2 DEF Works
    <3>6. queue \subseteq Run
      BY DEF TypeOK
    <3> QED
      BY <3>1, <3>3, <3>4, <3>5, <3>6 DEF JobsApart
  <2>2. CASE StartGone(w)
    BY <2>2 DEF StartGone, JobsApart, Works
  <2>3. CASE ~StartJob(w) /\ ~StartGone(w)
    <3>1. JobFrame(w) /\ \A r \in Run : GoesOn(w, r)
      BY <1>2, <2>3, JobGoesOn
    <3>2. \A v \in Workers, r \in Run : Works(v, r)' => Works(v, r)
      BY <3>1 DEF JobFrame, GoesOn, Works
    <3>3. queue' = queue /\ queue \subseteq Run
      BY <3>1 DEF JobFrame, TypeOK
    <3> QED
      BY <3>2, <3>3 DEF JobsApart
  <2> QED
    BY <2>1, <2>2, <2>3
<1>3. ASSUME NEW c \in Callers, FireRetry(c) PROVE JobsApart'
  <2>1. PICK q \in Run : q = call[c].run /\ call[c].at = "firing" /\ queue' = queue \cup {q}
    BY <1>3, FireRetryDoes
  <2>2. job' = job /\ queue \subseteq Run
    BY <1>3 DEF FireRetry, TypeOK
  <2>3. \A w \in Workers : ~Works(w, q)
    BY <2>1 DEF Retries, RetriesWait
  <2>4. \A w \in Workers, r \in Run : Works(w, r)' <=> Works(w, r)
    BY <2>2 DEF Works
  <2> QED
    BY <2>1, <2>2, <2>3, <2>4 DEF JobsApart
<1>4. ASSUME NEW c \in Callers, CallStep(c) \/ ListRuns(c) \/ \E r \in Run : DeleteRun(c, r) \/ RetryRun(c, r),
             ~FireRetry(c)
      PROVE  JobsApart'
  <2>1. queue' = queue /\ job' = job
    BY <1>4 DEF CallStep, SweepInspect, SweepRemove, SweepReturn, DeleteDirectory, DeletePop, ResetRun,
       MarkPending, MarkPendingFails, ListRuns, DeleteRun, RetryRun
  <2> QED
    BY <1>1, <2>1
<1>5. ASSUME NEW r \in Run, AcceptUpload(r) PROVE JobsApart'
  <2>1. queue' = queue \cup {r} /\ job' = job /\ \A w \in Workers : ~Works(w, r)
    BY <1>5 DEF AcceptUpload, LifeInv, FreshInv
  <2> QED
    BY <2>1 DEF JobsApart, Works
<1>6. ASSUME NEW r \in Run, Upload(r) \/ RefuseUpload(r) PROVE JobsApart'
  BY <1>1, <1>6 DEF Upload, RefuseUpload
<1>7. CASE Crash
  BY <1>0, <1>7 DEF Crash, JobsApart, Works
<1>8. CASE Restart \/ NextDay \/ UNCHANGED vars
  BY <1>1, <1>8 DEF Restart, NextDay, vars
<1> QED
  BY <1>2, <1>3, <1>4, <1>5, <1>6, <1>7, <1>8 DEF Next

LEMMA JobsStayApart ==
  ASSUME OneCaller
  PROVE  Spec /\ []RetriesWait => []JobsApart
<1>1. Init => JobsApart
  BY DEF Init, JobsApart, Works, Idle
<1> QED
  BY <1>1, NextKeepsApart, LifeHolds, RunTypeCorrect, PTL DEF Spec


NoFailedWrites == MaxFailedWrites = 0

Fires(c, r) == call[c].at = "firing" /\ call[c].run = r

\* The manifest of r, if it has one, waits for a job to write it anew.
Waits(r) ==
  HasManifest(r) => /\ disk[r].manifest.status # "review"
                    /\ NoFailedWrites => disk[r].manifest.status = "pending"

\* So does that of a run which has a job, or is about to.
Marked(r) ==
  /\ r \in queue => Waits(r)
  /\ \A w \in Workers : Works(w, r) /\ job[w].at # "noting" => Waits(r)
  /\ \A c \in Callers : Fires(c, r) => Waits(r)

\* What w's job has done so far to r's entry and directory.
ConcludedBy(w, r) ==
  /\ job[w].at \in {"extracting", "publishing"} => job[w].outcome = "error"
  /\ job[w].at \in {"saving", "numbering", "writing"} /\ registry[r] # None =>
       registry[r].status = job[w].outcome
  /\ disk[r] # None =>
       /\ job[w].at = "publishing" => disk[r].cache
       /\ job[w].at \in {"saving", "numbering", "writing"} /\ job[w].outcome = "review" => disk[r].cache
       /\ job[w].at = "noting" => Saved(r) /\ disk[r].manifest.seq = job[w].seq

\* Entry, manifest and cache of a completed run agree.
Agreed(r) ==
  Saved(r) => /\ disk[r].cache
              /\ registry[r] # None =>
                   /\ registry[r].status = "review"
                   /\ (\A w \in Workers : ~Works(w, r)) => registry[r].seq = disk[r].manifest.seq

\* A run shown as completed has its cache, and no sweep is about it.
Shown(r) ==
  /\ \A c \in Callers :
       /\ Targets(c, r) => HasManifest(r) /\ disk[r].manifest.status = "error"
       /\ Targets(c, r) \/ Swept(c, r) => registry[r] = None \/ registry[r].status # "review"
  /\ registry[r] # None /\ registry[r].status = "review" =>
       /\ HasManifest(r) => disk[r].manifest.status # "error"
       /\ (disk[r] # None /\ disk[r].cache) \/ \E c \in Callers : Pops(c, r)

RunFinal(r) ==
  /\ Marked(r) /\ Agreed(r)
  /\ \A w \in Workers : Works(w, r) => ConcludedBy(w, r)
  /\ NoFailedWrites => Shown(r)

FinalInv ==
  /\ NoFailedWrites => budget.failedWrites = 0
  /\ \A r \in Run : RunFinal(r)

LEMMA InitFinal == Init => FinalInv
BY DEF Init, FinalInv, RunFinal, Marked, Waits, Agreed, Shown, Saved, HasManifest, Works, Fires, Targets,
   Swept, Idle, NoFailedWrites

\* What a step does not touch stays as it was.
LEMMA FinalStays ==
  ASSUME NEW r \in Run, RunFinal(r), registry'[r] = registry[r], disk'[r] = disk[r],
         r \in queue' => r \in queue,
         \A w \in Workers : Works(w, r)' <=> Works(w, r),
         \A w \in Workers : Works(w, r) => job'[w] = job[w],
         \A c \in Callers : /\ Fires(c, r)' => Fires(c, r)
                            /\ Targets(c, r)' => Targets(c, r)
                            /\ Swept(c, r)' => Swept(c, r)
                            /\ Pops(c, r) => Pops(c, r)'
  PROVE  RunFinal(r)'
<1> USE DEF RunFinal
<1>1. (HasManifest(r)' <=> HasManifest(r)) /\ (Saved(r)' <=> Saved(r)) /\ (Waits(r)' <=> Waits(r))
  BY DEF HasManifest, Saved, Waits
<1>2. Marked(r)'
  BY <1>1 DEF Marked
<1>3. Agreed(r)'
  BY <1>1 DEF Agreed
<1>4. \A w \in Workers : Works(w, r)' => ConcludedBy(w, r)'
  BY <1>1 DEF ConcludedBy
<1>5. NoFailedWrites => Shown(r)'
  BY <1>1 DEF Shown
<1> QED
  BY <1>2, <1>3, <1>4, <1>5

\* A step of w's job touches its run d alone, about which there is no other job and
\* no retry.
LEMMA JobFinishes ==
  ASSUME TypeOK, JobsApart, RetriesWait, FinalInv, NEW w \in Workers, NEW d \in Run,
         JobFrame(w), RunFrame(d), d = job[w].run,
         job'[w].at = "idle" \/ job'[w].run = d,
         job'[w].at \notin {"idle", "noting"} => Waits(d)',
         job'[w].at # "idle" => ConcludedBy(w, d)',
         Agreed(d)', NoFailedWrites => Shown(d)'
  PROVE  \A r \in Run : RunFinal(r)'
<1>0. /\ queue' = queue /\ call' = call /\ \A v \in Workers \ {w} : job'[v] = job[v]
      /\ \A r \in Run \ {d} : registry'[r] = registry[r] /\ disk'[r] = disk[r]
  BY DEF JobFrame, RunFrame
<1>1. job[w].at # "idle"
  BY WorkingJob DEF JobFrame, TypeOK, Job, Idle
<1>2. /\ Works(w, d) /\ \A r \in Run : Works(w, r) \/ Works(w, r)' => r = d
      /\ \A v \in Workers \ {w}, r \in Run : Works(v, r)' <=> Works(v, r)
      /\ \A v \in Workers \ {w} : ~Works(v, d)
      /\ d \notin queue /\ \A c \in Callers : ~Retries(c, d)
  BY <1>0, <1>1 DEF Works, JobsApart, RetriesWait
<1>3. ASSUME NEW r \in Run \ {d} PROVE RunFinal(r)'
  <2>1. /\ \A v \in Workers : Works(v, r)' <=> Works(v, r)
        /\ \A v \in Workers : Works(v, r) => job'[v] = job[v]
    BY <1>0, <1>2
  <2>2. \A c \in Callers : /\ Fires(c, r)' => Fires(c, r)
                           /\ Targets(c, r)' => Targets(c, r)
                           /\ Swept(c, r)' => Swept(c, r)
                           /\ Pops(c, r) => Pops(c, r)'
    BY <1>0 DEF Fires, Targets, Swept, Pops
  <2> QED
    BY <1>0, <2>1, <2>2, FinalStays DEF FinalInv
<1>4. RunFinal(d)'
  <2>1. Marked(d)'
    <3>1. \A c \in Callers : ~Fires(c, d)'
      BY <1>0, <1>2 DEF Fires, Retries
    <3>2. \A v \in Workers : Works(v, d)' => v = w /\ job'[w].at # "idle"
      BY <1>2 DEF Works
    <3> QED
      BY <1>0, <1>2, <3>1, <3>2 DEF Marked
  <2>2. \A v \in Workers : Works(v, d)' => ConcludedBy(v, d)'
    <3>1. \A v \in Workers : Works(v, d)' => v = w /\ job'[w].at # "idle"
      BY <1>2 DEF Works
    <3> QED
      BY <3>1
  <2> QED
    BY <2>1, <2>2 DEF RunFinal
<1> QED
  BY <1>3, <1>4

LEMMA JobKeepsFinal ==
  ASSUME TypeOK, LifeInv, JobsApart, RetriesWait, FinalInv, NEW w \in Workers, JobStep(w),
         ~StartJob(w), ~StartGone(w)
  PROVE  \A r \in Run : RunFinal(r)'
<1>0. Idle.at = "idle"
  BY DEF Idle
<1>1. PICK d : d = job[w].run
  OBVIOUS
<1>2. ASSUME JobFrame(w), d \in Run
      PROVE  /\ Works(w, d) /\ RunFinal(d) /\ ConcludedBy(w, d) /\ Agreed(d)
             /\ job[w].at # "noting" => Waits(d)
             /\ NoFailedWrites => Shown(d)
  <2>1. Works(w, d)
    BY <1>1, <1>2, WorkingJob DEF JobFrame, TypeOK, Job, Idle, Works
  <2> QED
    BY <1>2, <2>1 DEF FinalInv, RunFinal, Marked
<1>3. ASSUME JobFrame(w), d \in Run, job[w].at \in {"extracting", "publishing"}
      PROVE  \A c \in Callers : ~Targets(c, d) /\ ~Swept(c, d) /\ ~Pops(c, d)
  <2>1. Runs(w, d)
    BY <1>1, <1>3 DEF Runs
  <2>2. InFlight(d)
    BY <1>3, <2>1 DEF LifeInv, WorkInv
  <2> QED
    BY <1>3, <2>2 DEF LifeInv, CallInv, Deletes, Pops
<1>4. CASE Extract(w)
  <2>1. /\ JobFrame(w) /\ RunFrame(d) /\ d \in Run /\ job[w].at = "extracting"
        /\ job'[w] = JobAt(w, "publishing", d, job[w].outcome, job[w].seq)
        /\ registry' = registry /\ disk[d] # None
        /\ disk'[d] = [pdf |-> disk[d].pdf, cache |-> TRUE, manifest |-> disk[d].manifest]
        /\ disk'[d] # None
    BY <1>1, <1>4, ExtractDoes, Zenon
  <2>2. /\ disk'[d].cache /\ disk'[d].manifest = disk[d].manifest
        /\ job'[w].at = "publishing" /\ job'[w].run = d /\ job'[w].outcome = job[w].outcome
        /\ call' = call
    BY <2>1 DEF JobAt, JobFrame
  <2>3. (HasManifest(d)' <=> HasManifest(d)) /\ (Saved(d)' <=> Saved(d))
    BY <2>1, <2>2 DEF HasManifest, Saved
  <2>4. Waits(d)'
    BY <1>2, <2>1, <2>2, <2>3 DEF Waits
  <2>5. ConcludedBy(w, d)'
    BY <1>2, <2>1, <2>2, <2>3 DEF ConcludedBy
  <2>6. Agreed(d)'
    BY <1>2, <2>1, <2>3, <2>4 DEF Agreed, Saved, Waits, HasManifest
  <2>7. NoFailedWrites => Shown(d)'
    BY <1>2, <2>1, <2>2, <2>3 DEF Shown, Targets, Swept, Pops
  <2> QED
    BY <1>1, <2>1, <2>2, <2>4, <2>5, <2>6, <2>7, JobFinishes
<1>5. CASE Publish(w)
  <2>1. /\ JobFrame(w) /\ RunFrame(d) /\ d \in Run /\ job[w].at = "publishing"
        /\ job'[w] = JobAt(w, "saving", d, "review", job[w].seq)
        /\ disk' = disk /\ registry[d] # None /\ registry'[d] # None
        /\ registry'[d] = [status |-> "review", started |-> registry[d].started,
                           seq |-> registry[d].seq, preserved |-> registry[d].preserved]
    BY <1>1, <1>5, PublishDoes, Zenon
  <2>2. /\ registry'[d].status = "review" /\ call' = call
        /\ job'[w].at = "saving" /\ job'[w].run = d /\ job'[w].outcome = "review"
    BY <2>1 DEF JobAt, JobFrame
  <2>3. /\ HasManifest(d)' <=> HasManifest(d)
        /\ ~Saved(d)'
    BY <1>2, <2>1 DEF HasManifest, Saved, Waits
  <2>4. Waits(d)'
    BY <1>2, <2>1, <2>3 DEF Waits
  <2>5. disk[d] # None
    BY <1>3, <2>1 DEF LifeInv, DirInv, Swept, Pops
  <2>6. ConcludedBy(w, d)'
    BY <1>2, <2>1, <2>2, <2>5 DEF ConcludedBy
  <2>7. Agreed(d)'
    BY <2>3 DEF Agreed
  <2>8. NoFailedWrites => Shown(d)'
    BY <1>2, <1>3, <2>1, <2>2, <2>3, <2>5 DEF Shown, ConcludedBy, Waits, Targets, Swept, Pops
  <2> QED
    BY <1>1, <2>1, <2>2, <2>4, <2>6, <2>7, <2>8, JobFinishes
<1>6. CASE Fail(w)
  <2>1. /\ JobFrame(w) /\ RunFrame(d) /\ d \in Run /\ job[w].at \in {"extracting", "publishing"}
        /\ job'[w] = JobAt(w, "saving", d, job[w].outcome, job[w].seq)
        /\ disk' = disk /\ registry[d] # None /\ registry'[d] # None
        /\ registry'[d] = [status |-> "error", started |-> registry[d].started,
                           seq |-> registry[d].seq, preserved |-> registry[d].preserved]
    BY <1>1, <1>6, FailDoes, Zenon
  <2>2. /\ registry'[d].status = "error" /\ call' = call
        /\ job'[w].at = "saving" /\ job'[w].run = d /\ job'[w].outcome = job[w].outcome
    BY <2>1 DEF JobAt, JobFrame
  <2>3. /\ HasManifest(d)' <=> HasManifest(d)
        /\ ~Saved(d)'
    BY <1>2, <2>1 DEF HasManifest, Saved, Waits
  <2>4. Waits(d)'
    BY <1>2, <2>1, <2>3 DEF Waits
  <2>6. ConcludedBy(w, d)'
    BY <1>2, <2>1, <2>2 DEF ConcludedBy
  <2>7. Agreed(d)'
    BY <2>3 DEF Agreed
  <2>8. NoFailedWrites => Shown(d)'
    BY <1>3, <2>1, <2>2 DEF Shown, Targets, Swept
  <2> QED
    BY <1>1, <2>1, <2>2, <2>4, <2>6, <2>7, <2>8, JobFinishes
<1>7. CASE EntryGone(w)
  <2>1. /\ JobFrame(w) /\ RunFrame(d) /\ d \in Run
        /\ registry' = registry /\ disk' = disk /\ registry[d] = None /\ job'[w] = Idle
    BY <1>1, <1>7, QuietStepDoes, Zenon DEF QuietStep
  <2>2. call' = call /\ (Saved(d)' <=> Saved(d))
    BY <2>1 DEF JobFrame, Saved, HasManifest
  <2>3. Agreed(d)'
    BY <1>2, <2>1, <2>2 DEF Agreed
  <2>4. NoFailedWrites => Shown(d)'
    BY <1>2, <2>1, <2>2 DEF Shown, Targets, Swept, HasManifest
  <2> QED
    BY <1>0, <1>1, <2>1, <2>3, <2>4, JobFinishes
<1>8. CASE ReadPreserved(w) \/ Allocate(w)
  <2>1. /\ JobFrame(w) /\ RunFrame(d) /\ d \in Run
        /\ registry' = registry /\ disk' = disk
        /\ job[w].at \in {"saving", "numbering"}
        /\ \E at \in {"numbering", "writing"} : \E n : job'[w] = JobAt(w, at, d, job[w].outcome, n)
    BY <1>1, <1>8, QuietStepDoes DEF QuietStep
  <2>2. /\ job'[w].at \in {"numbering", "writing"} /\ job'[w].run = d
        /\ job'[w].outcome = job[w].outcome /\ call' = call
    BY <2>1 DEF JobAt, JobFrame
  <2>3. (HasManifest(d)' <=> HasManifest(d)) /\ (Saved(d)' <=> Saved(d)) /\ (Waits(d)' <=> Waits(d))
    BY <2>1 DEF HasManifest, Saved, Waits
  <2>4. ConcludedBy(w, d)'
    BY <1>2, <2>1, <2>2 DEF ConcludedBy
  <2>5. Agreed(d)'
    BY <1>2, <2>1, <2>3 DEF Agreed, Waits, Saved
  <2>6. NoFailedWrites => Shown(d)'
    BY <1>2, <2>1, <2>2, <2>3 DEF Shown, Targets, Swept, Pops
  <2> QED
    BY <1>1, <1>2, <2>1, <2>2, <2>3, <2>4, <2>5, <2>6, JobFinishes
<1>9. CASE WriteManifest(w)
  <2>1. /\ JobFrame(w) /\ RunFrame(d) /\ d \in Run /\ job[w].at = "writing"
        /\ job'[w] = IF job[w].outcome = "review"
                     THEN JobAt(w, "noting", d, job[w].outcome, job[w].seq) ELSE Idle
        /\ registry' = registry /\ disk[d] # None /\ disk'[d] # None
        /\ disk'[d] = [pdf |-> disk[d].pdf, cache |-> disk[d].cache, manifest |-> WrittenBy(w)]
        /\ WrittenBy(w) # None
    BY <1>1, <1>9, WriteManifestDoes, Zenon
  <2>2. /\ disk'[d].cache = disk[d].cache /\ disk'[d].manifest # None
        /\ disk'[d].manifest.status = job[w].outcome /\ disk'[d].manifest.seq = job[w].seq
        /\ call' = call
    BY <2>1 DEF WrittenBy, JobFrame
  <2>3. HasManifest(d)' /\ (Saved(d)' <=> job[w].outcome = "review")
    BY <2>1, <2>2 DEF HasManifest, Saved
  <2>4. job[w].outcome = "review" =>
          job'[w].at = "noting" /\ job'[w].run = d /\ job'[w].seq = job[w].seq
    BY <2>1 DEF JobAt
  <2>5. job'[w].at # "idle" => ConcludedBy(w, d)'
    BY <1>0, <2>1, <2>2, <2>3, <2>4 DEF ConcludedBy
  <2>6. Agreed(d)'
    <3>1. SUFFICES ASSUME job[w].outcome = "review" PROVE Agreed(d)'
      BY <2>3 DEF Agreed
    <3>2. Works(w, d)'
      BY <2>4, <3>1 DEF Works
    <3> QED
      BY <1>2, <2>1, <2>2, <3>1, <3>2 DEF Agreed, ConcludedBy
  <2>7. NoFailedWrites => Shown(d)'
    <3>1. NoFailedWrites => \A c \in Callers : ~Targets(c, d)
      BY <1>2, <2>1 DEF Shown, Waits
    <3> QED
      BY <1>2, <2>1, <2>2, <3>1 DEF Shown, ConcludedBy, Targets, Swept, Pops
  <2> QED
    BY <1>0, <1>1, <2>1, <2>4, <2>5, <2>6, <2>7, JobFinishes
<1>10. CASE WriteManifestFails(w)
  <2>1. /\ JobFrame(w) /\ RunFrame(d) /\ d \in Run
        /\ registry' = registry /\ disk' = disk /\ job[w].at = "writing" /\ job'[w] = Idle
    BY <1>1, <1>10, QuietStepDoes, Zenon DEF QuietStep
  <2>2. call' = call /\ ~Saved(d)' /\ (HasManifest(d)' <=> HasManifest(d))
    BY <1>2, <2>1 DEF JobFrame, Saved, HasManifest, Waits
  <2>3. Agreed(d)'
    BY <2>2 DEF Agreed
  <2>4. NoFailedWrites => Shown(d)'
    BY <1>2, <2>1, <2>2 DEF Shown, Targets, Swept, Pops
  <2> QED
    BY <1>0, <1>1, <2>1, <2>3, <2>4, JobFinishes
<1>11. CASE NoteSeq(w)
  <2>1. /\ JobFrame(w) /\ RunFrame(d) /\ d \in Run /\ job[w].at = "noting" /\ job'[w] = Idle
        /\ disk' = disk /\ registry[d] # None /\ registry'[d] # None
        /\ registry'[d] = [status |-> registry[d].status, started |-> registry[d].started,
                           seq |-> job[w].seq, preserved |-> registry[d].preserved]
    BY <1>1, <1>11, NoteSeqDoes, Zenon
  <2>2. registry'[d].status = registry[d].status /\ registry'[d].seq = job[w].seq /\ call' = call
    BY <2>1 DEF JobFrame
  <2>3. (HasManifest(d)' <=> HasManifest(d)) /\ (Saved(d)' <=> Saved(d)) /\ (Saved(d) => disk[d] # None)
    BY <2>1 DEF HasManifest, Saved
  <2>4. Agreed(d)'
    BY <1>2, <2>1, <2>2, <2>3 DEF Agreed, ConcludedBy
  <2>5. NoFailedWrites => Shown(d)'
    BY <1>2, <2>1, <2>2, <2>3 DEF Shown, Targets, Swept, Pops
  <2> QED
    BY <1>0, <1>1, <2>1, <2>4, <2>5, JobFinishes
<1> QED
  BY <1>4, <1>5, <1>6, <1>7, <1>8, <1>9, <1>10, <1>11 DEF JobStep

LEMMA StartKeepsFinal ==
  ASSUME TypeOK, LifeInv, JobsApart, FinalInv, NEW w \in Workers, StartJob(w) \/ StartGone(w)
  PROVE  \A r \in Run : RunFinal(r)'
<1>1. CASE StartGone(w)
  BY <1>1 DEF StartGone, LifeInv, WorkInv, InFlight
<1>2. CASE StartJob(w)
  <2>1. PICK q \in queue :
          /\ q \in Run /\ queue' = queue \ {q}
          /\ \A r \in Run \ {q} : registry'[r] = registry[r]
          /\ registry[q] # None /\ registry'[q] # None
          /\ registry'[q] = [status |-> "processing", started |-> day, seq |-> registry[q].seq,
                             preserved |-> registry[q].preserved]
          /\ job'[w] = [at |-> "extracting", run |-> q, started |-> day,
                        outcome |-> "error", seq |-> None]
    BY <1>2, StartJobDoes
  <2>2. /\ UNCHANGED <<disk, call>> /\ job[w].at = "idle"
        /\ \A v \in Workers \ {w} : job'[v] = job[v]
    BY <1>2, StartJobDoes
  <2>3. /\ registry'[q].status = "processing" /\ InFlight(q) /\ RunFinal(q)
        /\ job'[w].at = "extracting" /\ job'[w].run = q /\ job'[w].outcome = "error"
        /\ \A v \in Workers : ~Works(v, q)
        /\ \A c \in Callers : ~Retries(c, q) /\ ~Targets(c, q) /\ ~Swept(c, q)
    BY <2>1, <2>2 DEF JobsApart, LifeInv, WorkInv, CallInv, InFlight, FinalInv, InFlightStatus
  <2>4. \A v \in Workers, r \in Run : Works(v, r)' <=> Works(v, r) \/ (v = w /\ r = q)
    BY <2>1, <2>2, <2>3 DEF Works
  <2>5. ASSUME NEW r \in Run \ {q} PROVE RunFinal(r)'
    <3>1. /\ \A v \in Workers : Works(v, r)' <=> Works(v, r)
          /\ \A v \in Workers : Works(v, r) => job'[v] = job[v]
      BY <2>2, <2>4 DEF Works
    <3>2. \A c \in Callers : /\ Fires(c, r)' => Fires(c, r)
                             /\ Targets(c, r)' => Targets(c, r)
                             /\ Swept(c, r)' => Swept(c, r)
                             /\ Pops(c, r) => Pops(c, r)'
      BY <2>2 DEF Fires, Targets, Swept, Pops
    <3> QED
      BY <2>1, <2>2, <3>1, <3>2, FinalStays DEF FinalInv
  <2>6. Waits(q)' /\ ~Saved(q)'
    BY <2>1, <2>2, <2>3 DEF RunFinal, Marked, Waits, Saved, HasManifest
  <2>7. Marked(q)'
    BY <2>1, <2>6 DEF Marked
  <2>8. \A v \in Workers : Works(v, q)' => ConcludedBy(v, q)'
    <3>1. \A v \in Workers : Works(v, q)' => v = w
      BY <2>1, <2>3, <2>4
    <3> QED
      BY <2>3, <3>1 DEF ConcludedBy
  <2>9. NoFailedWrites => Shown(q)'
    BY <2>2, <2>3 DEF Shown, Targets, Swept
  <2> QED
    BY <2>5, <2>6, <2>7, <2>8, <2>9 DEF RunFinal, Agreed
<1> QED
  BY <1>1, <1>2

\* A step of c's request touches at most q.
LEMMA CallFinishes ==
  ASSUME TypeOK, FinalInv, OneCaller, NEW c \in Callers, CallFrame(c), NEW q,
         \A r \in Run \ {q} :
           /\ registry'[r] = registry[r] /\ disk'[r] = disk[r] /\ (r \in queue' => r \in queue)
           /\ Fires(c, r)' => Fires(c, r)
           /\ Targets(c, r)' => Targets(c, r)
           /\ Swept(c, r)' => Swept(c, r)
           /\ Pops(c, r) => Pops(c, r)',
         q \in Run => RunFinal(q)'
  PROVE  \A r \in Run : RunFinal(r)'
<1>1. ASSUME NEW r \in Run \ {q} PROVE RunFinal(r)'
  <2>1. /\ \A v \in Workers : Works(v, r)' <=> Works(v, r)
        /\ \A v \in Workers : Works(v, r) => job'[v] = job[v]
    BY DEF CallFrame, Works
  <2>2. \A b \in Callers : b = c
    BY DEF OneCaller
  <2>3. \A b \in Callers : /\ Fires(b, r)' => Fires(b, r)
                           /\ Targets(b, r)' => Targets(b, r)
                           /\ Swept(b, r)' => Swept(b, r)
                           /\ Pops(b, r) => Pops(b, r)'
    BY <2>2
  <2> QED
    BY <2>1, <2>3, FinalStays DEF FinalInv
<1> QED
  BY <1>1

LEMMA LookingKeepsFinal ==
  ASSUME TypeOK, LifeInv, FinalInv, OneCaller, NEW c \in Callers,
         ListRuns(c) \/ SweepInspect(c) \/ \E r \in Run : DeleteRun(c, r) \/ RetryRun(c, r)
  PROVE  \A r \in Run : RunFinal(r)'
<1>1. \A r \in Run : r # None
  BY LifecycleAssumption
<1>2. CASE ListRuns(c)
  <2>1. /\ CallFrame(c) /\ call[c].at = "idle" /\ UNCHANGED <<registry, disk, queue>>
        /\ call'[c].at = "sweeping" /\ call'[c].target = None /\ call'[c].swept = {}
    BY <1>2, ListRunsDoes
  <2> QED
    BY <1>1, <2>1, CallFinishes, LifecycleAssumption DEF Fires, Targets, Swept, Pops
<1>3. ASSUME NEW q \in Run, DeleteRun(c, q) PROVE \A r \in Run : RunFinal(r)'
  <2>1. /\ CallFrame(c) /\ call[c].at = "idle" /\ UNCHANGED <<registry, disk, queue>>
        /\ call'[c] = [at |-> "removing", run |-> q]
    BY <1>3, DeleteRunDoes, Zenon
  <2> QED
    BY <2>1, CallFinishes, LifecycleAssumption DEF Fires, Targets, Swept, Pops
<1>4. ASSUME NEW q \in Run, RetryRun(c, q) PROVE \A r \in Run : RunFinal(r)'
  <2>1. /\ CallFrame(c) /\ call[c].at = "idle" /\ UNCHANGED <<registry, disk, queue>>
        /\ call'[c] = [at |-> "resetting", run |-> q, entry |-> registry[q], preserved |-> None]
    BY <1>4, RetryRunDoes, Zenon
  <2> QED
    BY <2>1, CallFinishes, LifecycleAssumption DEF Fires, Targets, Swept, Pops
<1>5. CASE SweepInspect(c)
  <2>0. PICK q : q = call'[c].target
    OBVIOUS
  <2>1. /\ CallFrame(c) /\ call[c].at = "sweeping" /\ call'[c].at = "sweeping"
        /\ UNCHANGED <<registry, disk, queue>> /\ call'[c].swept = call[c].swept
        /\ q # None => q \in Run /\ Sweepable(q, call[c].today)
    BY <1>5, <2>0, SweepInspectDoes DEF SweepFrame
  <2>2. \A b \in Callers : b = c
    BY DEF OneCaller
  <2>3. \A r \in Run : /\ HasManifest(r)' <=> HasManifest(r)
                       /\ Saved(r)' <=> Saved(r)
                       /\ Waits(r)' <=> Waits(r)
                       /\ \A v \in Workers : Works(v, r)' <=> Works(v, r)
    BY <2>1 DEF HasManifest, Saved, Waits, CallFrame, Works
  <2>4. ASSUME q \in Run PROVE RunFinal(q)'
    <3>1. RunFinal(q) /\ q # None
      BY <1>1, <2>4 DEF FinalInv
    <3>2. Marked(q)'
      BY <2>1, <2>2, <2>3, <2>4, <3>1 DEF RunFinal, Marked, Fires, CallFrame
    <3>3. Agreed(q)'
      BY <2>1, <2>3, <2>4, <3>1 DEF RunFinal, Agreed
    <3>4. \A v \in Workers : Works(v, q)' => ConcludedBy(v, q)'
      BY <2>1, <2>3, <2>4, <3>1 DEF RunFinal, ConcludedBy, CallFrame
    <3>5. NoFailedWrites => Shown(q)'
      <4>1. HasManifest(q) /\ disk[q].manifest.status = "error"
        BY <2>1, <3>1 DEF Sweepable
      <4>2. \A b \in Callers : ~Pops(b, q)
        BY <2>1, <2>2 DEF Pops
      <4> QED
        BY <2>0, <2>1, <2>2, <2>3, <2>4, <3>1, <4>1, <4>2 DEF RunFinal, Shown, Targets, Swept
    <3> QED
      BY <3>2, <3>3, <3>4, <3>5 DEF RunFinal
  <2> QED
    BY <2>0, <2>1, <2>4, CallFinishes DEF Fires, Targets, Swept, Pops
<1> QED
  BY <1>2, <1>3, <1>4, <1>5

LEMMA RemovingKeepsFinal ==
  ASSUME TypeOK, LifeInv, FinalInv, OneCaller, NEW c \in Callers,
         SweepRemove(c) \/ SweepReturn(c) \/ DeleteDirectory(c) \/ DeletePop(c)
  PROVE  \A r \in Run : RunFinal(r)'
<1>0. /\ \A b \in Callers : b = c
      /\ \A r \in Run : r # None
      /\ Idle.at = "idle"
      /\ disk \in [Run -> Directory \cup {None}] /\ registry \in [Run -> Entry \cup {None}]
  BY LifecycleAssumption DEF OneCaller, Idle, TypeOK
<1>1. ASSUME NEW q \in Run, CallFrame(c), disk'[q] = None, q \in queue' => q \in queue,
             registry'[q] = registry[q], \A b \in Callers : ~Fires(b, q)',
             NoFailedWrites => Shown(q)'
      PROVE  RunFinal(q)'
  <2>1. ~HasManifest(q)' /\ ~Saved(q)' /\ Waits(q)'
    BY <1>1 DEF HasManifest, Saved, Waits
  <2>2. Marked(q)' /\ Agreed(q)'
    BY <2>1 DEF Marked, Agreed
  <2>3. \A v \in Workers : Works(v, q)' => ConcludedBy(v, q)'
    BY <1>1 DEF FinalInv, RunFinal, ConcludedBy, CallFrame, Works
  <2> QED
    BY <1>1, <2>2, <2>3 DEF RunFinal
<1>2. CASE SweepRemove(c)
  <2>1. PICK q \in Run :
          /\ q = call[c].target /\ CallFrame(c) /\ call[c].at = "sweeping" /\ call'[c].at = "sweeping"
          /\ UNCHANGED <<registry, queue>> /\ disk' = [disk EXCEPT ![q] = None]
          /\ call'[c].swept = call[c].swept \cup {q} /\ call'[c].target = None
    BY <1>2, SweepRemoveDoes DEF SweepFrame
  <2>2. disk'[q] = None /\ \A r \in Run \ {q} : disk'[r] = disk[r]
    BY <1>0, <2>1
  <2>3. NoFailedWrites => Shown(q)'
    BY <1>0, <2>1, <2>2 DEF FinalInv, RunFinal, Shown, Targets, Swept
  <2>4. RunFinal(q)'
    BY <1>0, <1>1, <2>1, <2>2, <2>3 DEF Fires
  <2> QED
    BY <1>0, <2>1, <2>2, <2>4, CallFinishes DEF Fires, Targets, Swept, Pops
<1>3. CASE DeleteDirectory(c)
  <2>1. PICK q \in Run :
          /\ q = call[c].run /\ CallFrame(c) /\ UNCHANGED <<registry, queue>>
          /\ call[c].at = "removing" /\ call'[c].at = "popping" /\ call'[c].run = q
          /\ disk' = [disk EXCEPT ![q] = None]
    BY <1>3, DeleteDirectoryDoes
  <2>2. disk'[q] = None /\ \A r \in Run \ {q} : disk'[r] = disk[r]
    BY <1>0, <2>1
  <2>3. NoFailedWrites => Shown(q)'
    BY <1>0, <2>1, <2>2 DEF Shown, Targets, Swept, Pops, HasManifest
  <2>4. RunFinal(q)'
    BY <1>0, <1>1, <2>1, <2>2, <2>3 DEF Fires
  <2> QED
    BY <1>0, <2>1, <2>2, <2>4, CallFinishes DEF Fires, Targets, Swept, Pops
<1>4. ASSUME CallFrame(c), UNCHANGED <<disk, queue>>, call'[c] = Idle, NEW S \in SUBSET Run,
             \A r \in S : registry'[r] = None,
             \A r \in Run \ S : registry'[r] = registry[r] /\ ~Pops(c, r)
      PROVE  \A r \in Run : RunFinal(r)'
  <2>1. \A r \in Run : /\ ~Fires(c, r)' /\ ~Targets(c, r)' /\ ~Swept(c, r)'
                       /\ HasManifest(r)' <=> HasManifest(r)
                       /\ Saved(r)' <=> Saved(r)
                       /\ Waits(r)' <=> Waits(r)
                       /\ \A v \in Workers : (Works(v, r)' <=> Works(v, r)) /\ job'[v] = job[v]
    BY <1>0, <1>4 DEF Fires, Targets, Swept, HasManifest, Saved, Waits, Works, CallFrame
  <2>2. ASSUME NEW r \in S PROVE RunFinal(r)'
    <3>1. RunFinal(r)
      BY DEF FinalInv
    <3>2. Marked(r)'
      BY <1>0, <1>4, <2>1, <3>1 DEF RunFinal, Marked
    <3>3. Agreed(r)'
      BY <1>4, <2>1, <2>2, <3>1 DEF RunFinal, Agreed
    <3>4. \A v \in Workers : Works(v, r)' => ConcludedBy(v, r)'
      BY <1>4, <2>1, <2>2, <3>1 DEF RunFinal, ConcludedBy
    <3>5. Shown(r)'
      BY <1>0, <1>4, <2>1, <2>2 DEF Shown
    <3> QED
      BY <3>2, <3>3, <3>4, <3>5 DEF RunFinal
  <2>3. ASSUME NEW r \in Run \ S PROVE RunFinal(r)'
    <3>1. \A b \in Callers : ~Fires(b, r)' /\ ~Targets(b, r)' /\ ~Swept(b, r)' /\ ~Pops(b, r)
      BY <1>0, <1>4, <2>1
    <3> QED
      BY <1>4, <2>1, <3>1, FinalStays DEF FinalInv
  <2> QED
    BY <2>2, <2>3
<1>5. CASE SweepReturn(c)
  <2>1. /\ CallFrame(c) /\ UNCHANGED <<disk, queue>> /\ call[c].at = "sweeping" /\ call'[c] = Idle
        /\ registry' = [r \in Run |-> IF r \in call[c].swept THEN None ELSE registry[r]]
    BY <1>5, SweepReturnDoes
  <2>2. PICK S \in SUBSET Run : S = Run \cap call[c].swept
    OBVIOUS
  <2>3. /\ \A r \in S : registry'[r] = None
        /\ \A r \in Run \ S : registry'[r] = registry[r] /\ ~Pops(c, r)
    BY <2>1, <2>2 DEF Pops
  <2> QED
    BY <1>4, <2>1, <2>3
<1>6. CASE DeletePop(c)
  <2>1. PICK q \in Run :
          /\ q = call[c].run /\ CallFrame(c) /\ UNCHANGED <<disk, queue>>
          /\ call[c].at = "popping" /\ call'[c] = Idle /\ registry' = [registry EXCEPT ![q] = None]
    BY <1>6, DeletePopDoes
  <2>2. PICK S \in SUBSET Run : S = {q}
    OBVIOUS
  <2>3. /\ \A r \in S : registry'[r] = None
        /\ \A r \in Run \ S : registry'[r] = registry[r] /\ ~Pops(c, r)
    BY <1>0, <2>1, <2>2 DEF Pops
  <2> QED
    BY <1>4, <2>1, <2>3
<1> QED
  BY <1>2, <1>3, <1>5, <1>6

LEMMA RetryKeepsFinal ==
  ASSUME TypeOK, LifeInv, RetriesWait, FinalInv, OneCaller, NEW c \in Callers,
         ResetRun(c) \/ MarkPending(c) \/ MarkPendingFails(c) \/ FireRetry(c)
  PROVE  \A r \in Run : RunFinal(r)'
<1>0. (\A b \in Callers : b = c) /\ Idle.at = "idle"
  BY DEF OneCaller, Idle
<1>1. ASSUME NEW q \in Run, Retries(c, q)
      PROVE  /\ registry[q] # None /\ registry[q].status = "error" /\ ~Saved(q) /\ RunFinal(q)
             /\ q \notin queue /\ \A v \in Workers : ~Works(v, q)
  BY <1>1 DEF LifeInv, CallInv, WorkInv, InFlight, InFlightStatus, FinalInv, RunFinal, Agreed, RetriesWait
<1>2. CASE ResetRun(c)
  <2>1. PICK q \in Run :
          /\ q = call[c].run /\ CallFrame(c) /\ UNCHANGED <<registry, queue>>
          /\ call[c].at = "resetting" /\ call'[c].at = "marking"
          /\ \A r \in Run \ {q} : disk'[r] = disk[r]
          /\ disk[q] = None => disk'[q] = None
          /\ disk[q] # None =>
               /\ disk'[q] # None
               /\ disk'[q] = [pdf |-> disk[q].pdf, cache |-> FALSE, manifest |-> disk[q].manifest]
    BY <1>2, ResetRunDoes
  <2>2. /\ Retries(c, q) /\ (HasManifest(q)' <=> HasManifest(q))
        /\ HasManifest(q) => disk'[q].manifest = disk[q].manifest
    BY <2>1 DEF Retries, HasManifest
  <2>3. /\ registry[q].status = "error" /\ ~Saved(q)' /\ q \notin queue' /\ registry' = registry
        /\ \A v \in Workers : ~Works(v, q)'
    BY <1>1, <2>1, <2>2 DEF Saved, CallFrame, Works
  <2>4. \A b \in Callers : ~Fires(b, q)' /\ ~Targets(b, q)' /\ ~Swept(b, q)'
    BY <1>0, <2>1 DEF Fires, Targets, Swept
  <2>5. RunFinal(q)'
    BY <2>3, <2>4 DEF RunFinal, Marked, Agreed, Shown
  <2> QED
    BY <2>1, <2>5, CallFinishes DEF Fires, Targets, Swept, Pops
<1>3. CASE MarkPending(c) \/ MarkPendingFails(c)
  <2>1. PICK q \in Run :
          /\ q = call[c].run /\ CallFrame(c) /\ UNCHANGED <<registry, queue>>
          /\ call[c].at = "marking" /\ call'[c].at = "firing" /\ call'[c].run = q
          /\ \A r \in Run \ {q} : disk'[r] = disk[r]
          /\ ~HasManifest(q) => disk'[q] = disk[q]
          /\ HasManifest(q) =>
               /\ disk'[q] # None /\ disk'[q].manifest # None
               /\ \/ disk'[q] = Remarked(disk[q], "pending")
                  \/ MarkPendingFails(c) /\ disk' = disk
    BY <1>3, MarkPendingDoes
  <2>2. Retries(c, q) /\ (HasManifest(q)' <=> HasManifest(q))
    BY <2>1 DEF Retries, HasManifest
  <2>3. /\ registry[q].status = "error" /\ ~Saved(q) /\ q \notin queue' /\ registry' = registry
        /\ \A v \in Workers : ~Works(v, q)'
    BY <1>1, <2>1, <2>2 DEF CallFrame, Works
  <2>4. Waits(q)'
    <3>1. SUFFICES ASSUME HasManifest(q) PROVE Waits(q)'
      BY <2>2 DEF Waits
    <3>2. CASE disk'[q] = Remarked(disk[q], "pending")
      <4>1. disk'[q].manifest.status = "pending"
        BY <3>2 DEF Remarked
      <4> QED
        BY <4>1 DEF Waits
    <3>3. CASE MarkPendingFails(c) /\ disk' = disk
      <4>1. ~NoFailedWrites
        BY <3>3 DEF MarkPendingFails, WriteError, FinalInv
      <4> QED
        BY <2>3, <3>1, <3>3, <4>1 DEF Waits, Saved
    <3> QED
      BY <2>1, <3>1, <3>2, <3>3
  <2>5. \A b \in Callers : ~Targets(b, q)' /\ ~Swept(b, q)'
    BY <1>0, <2>1 DEF Targets, Swept
  <2>6. Marked(q)'
    BY <2>3, <2>4 DEF Marked
  <2>7. ~Saved(q)'
    BY <2>4 DEF Waits, Saved
  <2>8. RunFinal(q)'
    BY <2>3, <2>5, <2>6, <2>7 DEF RunFinal, Agreed, Shown
  <2> QED
    BY <2>1, <2>8, CallFinishes DEF Fires, Targets, Swept, Pops
<1>4. CASE FireRetry(c)
  <2>1. PICK q \in Run :
          /\ q = call[c].run /\ CallFrame(c) /\ disk' = disk
          /\ call[c].at = "firing" /\ call'[c] = Idle /\ queue' = queue \cup {q}
          /\ \A r \in Run \ {q} : registry'[r] = registry[r]
          /\ registry'[q] # None
          /\ registry'[q] = [status |-> "processing", started |-> call[c].entry.started,
                             seq |-> call[c].entry.seq, preserved |-> call[c].preserved]
    BY <1>4, FireRetryDoes
  <2>2. Retries(c, q) /\ Fires(c, q) /\ registry'[q].status = "processing"
    BY <2>1 DEF Retries, Fires
  <2>3. /\ Waits(q)' /\ ~Saved(q)'
        /\ \A v \in Workers : ~Works(v, q)'
    BY <1>1, <2>1, <2>2 DEF RunFinal, Marked, Waits, Saved, HasManifest, CallFrame, Works
  <2>4. \A b \in Callers : ~Fires(b, q)' /\ ~Targets(b, q)' /\ ~Swept(b, q)'
    BY <1>0, <2>1 DEF Fires, Targets, Swept
  <2>5. RunFinal(q)'
    BY <2>2, <2>3, <2>4 DEF RunFinal, Marked, Agreed, Shown
  <2> QED
    BY <1>0, <2>1, <2>5, CallFinishes DEF Fires, Targets, Swept, Pops
<1> QED
  BY <1>2, <1>3, <1>4

LEMMA UploadKeepsFinal ==
  ASSUME TypeOK, LifeInv, FinalInv, NEW q \in Run, Upload(q) \/ RefuseUpload(q) \/ AcceptUpload(q)
  PROVE  \A r \in Run : RunFinal(r)'
<1>0. /\ UNCHANGED <<job, call>>
      /\ registry \in [Run -> Entry \cup {None}] /\ disk \in [Run -> Directory \cup {None}]
  BY DEF TypeOK, Upload, RefuseUpload, AcceptUpload
<1>1. \A r \in Run :
        /\ \A v \in Workers : (Works(v, r)' <=> Works(v, r)) /\ job'[v] = job[v]
        /\ \A b \in Callers : /\ Fires(b, r)' <=> Fires(b, r)
                              /\ Targets(b, r)' <=> Targets(b, r)
                              /\ Swept(b, r)' <=> Swept(b, r)
                              /\ Pops(b, r)' <=> Pops(b, r)
  BY <1>0 DEF Works, Fires, Targets, Swept, Pops
<1>2. \A r \in Run \ {q} : registry'[r] = registry[r] /\ disk'[r] = disk[r] /\ (r \in queue' => r \in queue)
  BY <1>0 DEF Upload, RefuseUpload, AcceptUpload
<1>3. ASSUME NEW r \in Run \ {q} PROVE RunFinal(r)'
  BY <1>1, <1>2, FinalStays DEF FinalInv
<1>4. /\ \A v \in Workers : ~Works(v, q)'
      /\ \A b \in Callers : ~Fires(b, q)' /\ ~Targets(b, q)' /\ ~Swept(b, q)'
  BY <1>1 DEF LifeInv, FreshInv, Upload, RefuseUpload, AcceptUpload, Fires, Retries
<1>5. disk'[q] # None => disk'[q].manifest = None
  <2>1. /\ JustPdf.manifest = None /\ [JustPdf EXCEPT !.pdf = FALSE].manifest = None
    BY DEF JustPdf, EmptyDir
  <2> QED
    BY <1>0, <2>1 DEF Upload, RefuseUpload, AcceptUpload, LifeInv, FreshInv, JustPdf
<1>6. registry'[q] = None \/ registry'[q].status = "pending"
  BY <1>0 DEF Upload, RefuseUpload, AcceptUpload, LifeInv, FreshInv
<1>7. ~HasManifest(q)' /\ ~Saved(q)' /\ Waits(q)'
  BY <1>5 DEF HasManifest, Saved, Waits
<1>8. RunFinal(q)'
  BY <1>4, <1>6, <1>7 DEF RunFinal, Marked, Agreed, Shown
<1> QED
  BY <1>3, <1>8

LEMMA ProcessKeepsFinal ==
  ASSUME TypeOK, LifeInv, FinalInv, Crash \/ Restart \/ NextDay
  PROVE  \A r \in Run : RunFinal(r)'
<1>1. CASE NextDay
  <2>1. UNCHANGED <<registry, disk, queue, job, call>>
    BY <1>1 DEF NextDay
  <2> QED
    BY <2>1, FinalStays DEF FinalInv, Works, Fires, Targets, Swept, Pops
<1>2. CASE Crash
  <2>1. /\ disk' = disk /\ queue' = {} /\ \A r \in Run : registry'[r] = None
        /\ \A w \in Workers : job'[w].at = "idle"
        /\ \A c \in Callers : call'[c].at = "idle"
    BY <1>2 DEF Crash, Idle
  <2> QED
    BY <2>1 DEF FinalInv, RunFinal, Marked, Agreed, Shown, Saved, HasManifest, Works, Fires, Targets, Swept
<1>3. CASE Restart
  <2>1. /\ UNCHANGED <<queue, job, call>>
        /\ queue = {}
        /\ \A w \in Workers : job[w].at = "idle"
        /\ \A c \in Callers : call[c].at = "idle"
    BY <1>3, RestartDoes DEF LifeInv, DownInv, Idle
  <2>2. /\ \A w \in Workers, r \in Run : ~Works(w, r)'
        /\ \A c \in Callers, r \in Run : ~Fires(c, r)' /\ ~Targets(c, r)' /\ ~Swept(c, r)'
    BY <2>1 DEF Works, Fires, Targets, Swept
  <2>3. ASSUME NEW r \in Run PROVE Agreed(r)' /\ (NoFailedWrites => Shown(r)')
    <3>1. CASE registry'[r] = None /\ disk'[r] = None
      BY <2>2, <3>1 DEF Agreed, Shown, Saved, HasManifest
    <3>2. CASE registry'[r] = DerivedEntry(r) /\ disk'[r] = disk[r]
      <4>1. (HasManifest(r)' <=> HasManifest(r)) /\ (Saved(r)' <=> Saved(r)) /\ (Interrupted(r)' <=> Interrupted(r))
        BY <3>2 DEF HasManifest, Saved, Interrupted
      <4>2. CASE HasManifest(r)
        <5>1. registry'[r] = FromManifest(disk[r].manifest,
                               IF Interrupted(r) THEN "error" ELSE disk[r].manifest.status)
          BY <3>2, <4>2 DEF DerivedEntry, HasManifest
        <5>2. /\ registry'[r].seq = disk[r].manifest.seq
              /\ registry'[r].status = IF Interrupted(r) THEN "error" ELSE disk[r].manifest.status
          BY <5>1 DEF FromManifest
        <5>3. Agreed(r)'
          BY <3>2, <4>1, <5>2 DEF Agreed, FinalInv, RunFinal, Saved, Interrupted
        <5>4. disk[r] # None /\ (disk[r].manifest.status = "review" => disk[r].cache)
          BY <4>2 DEF FinalInv, RunFinal, Agreed, Saved, HasManifest
        <5>5. Shown(r)'
          BY <2>2, <3>2, <4>1, <5>2, <5>4 DEF Shown
        <5> QED
          BY <5>3, <5>5
      <4>3. CASE ~HasManifest(r)
        <5>1. registry'[r] # None /\ registry'[r].status = "review" => disk[r] # None /\ disk[r].cache
          BY <3>2, <4>3 DEF DerivedEntry, Degraded
        <5> QED
          BY <2>2, <3>2, <4>1, <4>3, <5>1 DEF Agreed, Shown, Saved
      <4> QED
        BY <4>2, <4>3
    <3>3. CASE /\ registry'[r] = DerivedEntry(r) /\ Interrupted(r)
               /\ disk'[r] = Remarked(disk[r], "error") /\ disk'[r] # None /\ disk'[r].manifest # None
      <4>1. registry'[r].status = "error"
        BY <3>3 DEF DerivedEntry, Interrupted, HasManifest, FromManifest
      <4>2. disk'[r].manifest.status = "error"
        BY <3>3 DEF Remarked
      <4> QED
        BY <2>2, <4>1, <4>2 DEF Agreed, Shown, Saved
    <3> QED
      BY <1>3, <3>1, <3>2, <3>3, RestartDoes
  <2>4. ASSUME NEW r \in Run PROVE RunFinal(r)'
    BY <2>1, <2>2, <2>3 DEF RunFinal, Marked
  <2> QED
    BY <2>4
<1> QED
  BY <1>1, <1>2, <1>3

\* A write fails only when one may.
LEMMA BudgetStays ==
  ASSUME TypeOK, budget.failedWrites = 0, [Next]_vars
  PROVE  budget'.failedWrites = 0
<1>1. budget' \in [requests : Nat, crashes : Nat, failedWrites : Nat]
  BY NextType DEF TypeOK
<1>2. CASE Restart
  <2>1. PICK lost \in SUBSET {r \in Run : Interrupted(r)} :
          budget' = [budget EXCEPT !.failedWrites = @ - Cardinality(lost)]
    BY <1>2, Zenon DEF Restart
  <2>2. Cardinality(lost) \in Nat
    <3>1. IsFiniteSet(Run) /\ lost \subseteq Run
      BY LifecycleAssumption
    <3>2. IsFiniteSet(lost)
      BY <3>1, FS_Subset
    <3> QED
      BY <3>2, FS_CardinalityType
  <2>3. budget'.failedWrites = budget.failedWrites - Cardinality(lost)
    BY <2>1 DEF TypeOK
  <2> QED
    BY <1>1, <2>2, <2>3
<1>3. CASE UNCHANGED vars
  BY <1>3 DEF vars
<1>4. ASSUME NEW r \in Run, Upload(r) \/ RefuseUpload(r) \/ AcceptUpload(r) PROVE budget'.failedWrites = 0
  BY <1>4 DEF Upload, RefuseUpload, AcceptUpload
<1>5. ASSUME NEW w \in Workers, JobStep(w) PROVE budget'.failedWrites = 0
  <2>1. CASE WriteManifestFails(w)
    <3>1. UNCHANGED budget \/ WriteError
      BY <2>1 DEF WriteManifestFails
    <3> QED
      BY <3>1 DEF WriteError
  <2>2. CASE StartJob(w) \/ StartGone(w) \/ Extract(w) \/ Publish(w) \/ Fail(w)
    BY <2>2 DEF StartJob, StartGone, Extract, Publish, Fail
  <2>3. CASE EntryGone(w) \/ ReadPreserved(w) \/ Allocate(w) \/ WriteManifest(w) \/ NoteSeq(w)
    BY <2>3 DEF EntryGone, ReadPreserved, Allocate, WriteManifest, NoteSeq
  <2> QED
    BY <1>5, <2>1, <2>2, <2>3 DEF JobStep
<1>6. ASSUME NEW c \in Callers, CallStep(c) PROVE budget'.failedWrites = 0
  BY <1>6 DEF CallStep, SweepInspect, SweepRemove, SweepReturn, DeleteDirectory, DeletePop, ResetRun,
     MarkPending, MarkPendingFails, WriteError, FireRetry
<1>7. ASSUME NEW c \in Callers, ListRuns(c) \/ \E r \in Run : DeleteRun(c, r) \/ RetryRun(c, r)
      PROVE  budget'.failedWrites = 0
  <2>1. budget' = [budget EXCEPT !.requests = @ - 1]
    BY <1>7 DEF ListRuns, DeleteRun, RetryRun, Request
  <2> QED
    BY <2>1 DEF TypeOK
<1>8. CASE Crash
  <2>1. budget' = [budget EXCEPT !.crashes = @ - 1]
    BY <1>8 DEF Crash
  <2> QED
    BY <2>1 DEF TypeOK
<1>9. CASE NextDay
  BY <1>9 DEF NextDay
<1> QED
  BY <1>2, <1>3, <1>4, <1>5, <1>6, <1>7, <1>8, <1>9 DEF Next

LEMMA NextKeepsFinal ==
  ASSUME TypeOK, LifeInv, JobsApart, RetriesWait, FinalInv, OneCaller, [Next]_vars
  PROVE  FinalInv'
<1>1. CASE UNCHANGED vars
  BY <1>1, FinalStays DEF vars, FinalInv, Works, Fires, Targets, Swept, Pops
<1>2. ASSUME NEW w \in Workers, JobStep(w) PROVE \A r \in Run : RunFinal(r)'
  BY <1>2, StartKeepsFinal, JobKeepsFinal
<1>3. ASSUME NEW c \in Callers, CallStep(c) \/ ListRuns(c) \/ \E r \in Run : DeleteRun(c, r) \/ RetryRun(c, r)
      PROVE  \A r \in Run : RunFinal(r)'
  BY <1>3, LookingKeepsFinal, RemovingKeepsFinal, RetryKeepsFinal DEF CallStep
<1>4. NoFailedWrites => budget'.failedWrites = 0
  BY BudgetStays DEF FinalInv
<1>5. CASE Next
  BY <1>2, <1>3, <1>4, <1>5, UploadKeepsFinal, ProcessKeepsFinal DEF Next, FinalInv
<1> QED
  BY <1>1, <1>5

\* As long as retries wait for the job whose failure they saw, the manifest of a run
\* that has a job waits for it, and entry, manifest and cache of a completed run agree.
THEOREM FinalInvHolds ==
  ASSUME OneCaller
  PROVE  Spec /\ []RetriesWait => []FinalInv
<1>1. TypeOK /\ LifeInv /\ JobsApart /\ RetriesWait /\ FinalInv /\ [Next]_vars => FinalInv'
  BY NextKeepsFinal
<1> QED
  BY <1>1, InitFinal, LifeHolds, JobsStayApart, RunTypeCorrect, PTL DEF Spec

\* The number shown for a completed run is the one in its manifest, and so the one
\* it has after a restart (allocated_seq, _derive_entry).
THEOREM ShownNumbersAreSaved ==
  ASSUME OneCaller
  PROVE  Spec /\ []RetriesWait => []ShownSeqIsSaved
<1>1. FinalInv => ShownSeqIsSaved
  BY DEF FinalInv, RunFinal, Agreed, ShownSeqIsSaved, Works, Idle
<1> QED
  BY <1>1, FinalInvHolds, PTL

\* A run shown as completed can be hydrated from its cache, as long as no manifest
\* write fails: a retry that could not be marked is swept after it has succeeded.
THEOREM ReviewedRunsHaveCache ==
  ASSUME OneCaller, MaxFailedWrites = 0
  PROVE  Spec /\ []RetriesWait => []ReviewHasCache
<1>1. FinalInv => ReviewHasCache
  BY DEF FinalInv, RunFinal, Shown, NoFailedWrites, ReviewHasCache, Pops
<1> QED
  BY <1>1, FinalInvHolds, PTL

\* A step that may touch the directory of a completed run is an accepted delete.
LEMMA StepKeepsCompleted ==
  ASSUME TypeOK, LifeInv, JobsApart, RetriesWait, FinalInv, OneCaller, NoFailedWrites, Next,
         NEW r \in Run, Saved(r), \A c \in Callers : ~(call[c].at = "removing" /\ call[c].run = r)
  PROVE  disk'[r] # None /\ disk'[r].manifest = disk[r].manifest
<1>1. /\ disk[r] # None /\ disk[r].manifest # None /\ disk[r].manifest.status = "review"
      /\ RunFinal(r) /\ Shown(r) /\ disk \in [Run -> Directory \cup {None}]
      /\ registry[r] # None => registry[r].status = "review"
  BY DEF Saved, HasManifest, FinalInv, RunFinal, Agreed, TypeOK
<1>2. SUFFICES ASSUME disk'[r] # disk[r] PROVE disk'[r] # None /\ disk'[r].manifest = disk[r].manifest
  BY <1>1
<1>3. /\ r \notin queue /\ \A c \in Callers : ~Retries(c, r) /\ ~Targets(c, r)
      /\ \A w \in Workers : Works(w, r) => job[w].at = "noting"
  BY <1>1 DEF RunFinal, Marked, Waits, HasManifest, LifeInv, CallInv, Shown
<1>4. ASSUME NEW q \in Run, Upload(q) \/ RefuseUpload(q) \/ AcceptUpload(q)
      PROVE  disk'[r] # None /\ disk'[r].manifest = disk[r].manifest
  <2>1. q = r
    BY <1>1, <1>2, <1>4 DEF Upload, RefuseUpload, AcceptUpload
  <2>2. disk[r] = None \/ disk[r] = JustPdf
    BY <1>4, <2>1 DEF Upload, RefuseUpload, AcceptUpload, LifeInv, FreshInv
  <2>3. JustPdf.manifest = None
    BY DEF JustPdf, EmptyDir
  <2> QED
    BY <1>1, <2>2, <2>3
<1>5. ASSUME NEW w \in Workers, JobStep(w)
      PROVE  disk'[r] # None /\ disk'[r].manifest = disk[r].manifest
  <2>1. CASE StartJob(w)
    BY <1>2, <2>1, StartJobDoes
  <2>2. CASE Extract(w)
    <3>1. PICK d : d = job[w].run
      OBVIOUS
    <3>2. RunFrame(d) /\ disk'[d] = [pdf |-> disk[d].pdf, cache |-> TRUE, manifest |-> disk[d].manifest]
          /\ disk'[d] # None
      BY <2>2, <3>1, ExtractDoes, Zenon
    <3>3. CASE d = r
      BY <3>2, <3>3
    <3>4. CASE d # r
      BY <1>2, <3>2, <3>4 DEF RunFrame
    <3> QED
      BY <3>3, <3>4
  <2>3. CASE WriteManifest(w)
    <3>1. PICK d : d = job[w].run
      OBVIOUS
    <3>2. RunFrame(d) /\ job[w].at = "writing"
      BY <2>3, <3>1, WriteManifestDoes, Zenon
    <3>3. d # r
      BY <1>3, <3>1, <3>2 DEF Works
    <3> QED
      BY <1>2, <3>2, <3>3 DEF RunFrame
  <2>4. CASE StartGone(w) \/ Publish(w) \/ Fail(w) \/ EntryGone(w)
    BY <1>2, <2>4 DEF StartGone, Publish, Fail, EntryGone
  <2>5. CASE ReadPreserved(w) \/ Allocate(w) \/ WriteManifestFails(w) \/ NoteSeq(w)
    BY <1>2, <2>5 DEF ReadPreserved, Allocate, WriteManifestFails, NoteSeq
  <2> QED
    BY <1>5, <2>1, <2>2, <2>3, <2>4, <2>5 DEF JobStep
<1>6. ASSUME NEW c \in Callers, CallStep(c) \/ ListRuns(c) \/ \E q \in Run : DeleteRun(c, q) \/ RetryRun(c, q)
      PROVE  disk'[r] # None /\ disk'[r].manifest = disk[r].manifest
  <2>1. CASE SweepRemove(c)
    BY <1>1, <1>2, <1>3, <2>1 DEF SweepRemove, Targets
  <2>2. CASE DeleteDirectory(c)
    BY <1>1, <1>2, <2>2 DEF DeleteDirectory
  <2>3. CASE ResetRun(c) \/ MarkPending(c)
    BY <1>1, <1>2, <1>3, <2>3 DEF ResetRun, MarkPending, Retries
  <2>4. CASE SweepInspect(c) \/ SweepReturn(c) \/ DeletePop(c) \/ MarkPendingFails(c) \/ FireRetry(c)
    BY <1>2, <2>4 DEF SweepInspect, SweepReturn, DeletePop, MarkPendingFails, FireRetry
  <2>5. CASE ListRuns(c) \/ \E q \in Run : DeleteRun(c, q) \/ RetryRun(c, q)
    BY <1>2, <2>5 DEF ListRuns, DeleteRun, RetryRun
  <2> QED
    BY <1>6, <2>1, <2>2, <2>3, <2>4, <2>5 DEF CallStep
<1>7. CASE Crash \/ NextDay
  BY <1>2, <1>7 DEF Crash, NextDay
<1>8. CASE Restart
  <2>1. ~Interrupted(r) /\ ~Sweepable(r, day)
    BY <1>1 DEF Interrupted, Sweepable
  <2> QED
    BY <1>2, <1>8, <2>1, RestartDoes
<1> QED
  BY <1>4, <1>5, <1>6, <1>7, <1>8 DEF Next

\* The manifest and so the number of a completed run stay until a delete of it is
\* accepted: no sweep, retry or restart takes them, and no job that is still at work.
THEOREM CompletedRunsAreKept ==
  ASSUME OneCaller, MaxFailedWrites = 0
  PROVE  Spec /\ []RetriesWait => CompletedIsKept
<1>1. ASSUME TypeOK, LifeInv, JobsApart, RetriesWait, FinalInv, [Next]_vars
      PROVE  [\A r \in Run : Saved(r) =>
                \/ disk'[r] # None /\ disk'[r].manifest = disk[r].manifest
                \/ \E c \in Callers : call[c].at = "removing" /\ call[c].run = r]_vars
  BY <1>1, StepKeepsCompleted DEF NoFailedWrites
<1> QED
  BY <1>1, FinalInvHolds, JobsStayApart, LifeHolds, RunTypeCorrect, PTL DEF Spec, CompletedIsKept
=============================================================================
