--------------------------- MODULE ReviewService ---------------------------
(***************************************************************************)
(* The review of one run while several callers edit it:                    *)
(*   application/review_service.py     ReviewService, the in-memory lists, *)
(*                                     the audit trail and its sidecar     *)
(*   application/reprocess_service.py  ReprocessService, the recoveries    *)
(*   infrastructure/api/routes.py      who calls them, and on which thread *)
(*                                                                         *)
(* FastAPI runs a plain "def" endpoint, and a plain background task, on a  *)
(* thread of its pool: the operator's edits and REINTENTAR (SUNAT) run on  *)
(* Threads.  It runs an "async def" endpoint as a coroutine of the one     *)
(* event loop: the vision recoveries of errored guías and the recoveries   *)
(* of discarded pages are Tasks.  ReviewService has no lock.  A task gives *)
(* up the loop only at an await, so its whole commit is atomic for other   *)
(* tasks; a thread can run between any two of anybody's steps.             *)
(*                                                                         *)
(* A mutation is cut into the steps at which it reads or writes an         *)
(* attribute of the service or the sidecar file.  pc[a] is where actor a   *)
(* stands:                                                                 *)
(*   idle         no call                                                  *)
(*   outside      waiting for SUNAT (thread) or for OCR/vision (task)      *)
(*   ready        about to look up its guía                                *)
(*   checked      holds the position and the copy of the guía it changes   *)
(*   copied       holds the new list of guías                              *)
(*   dropping     has assigned the guías; the side list is next            *)
(*   filtered     holds the new errored list                               *)
(*   reconciling  about to read the guías to reconcile                     *)
(*   computed     holds the rows                                           *)
(*   recording    about to append its event to the trail                   *)
(*   snapshotting about to serialise the trail                             *)
(*   writing      about to replace the sidecar file                        *)
(*                                                                         *)
(* Left out: the semaphore of the vision calls (Tasks never outnumber it   *)
(* here; RecoveryBatch is about it), the other keys of the sidecar, which  *)
(* _persist carries over unchanged, and timestamps.                        *)
(***************************************************************************)
EXTENDS ReviewEdits

CONSTANTS
  Threads,        \* pool threads serving the review of this run
  Tasks,          \* coroutines of the event loop serving it
  NoActor,        \* nobody holds the event loop
  Edits,          \* the operator edits a client may send
  RecoveredLines, \* the lines SUNAT, OCR or vision answers with
  SunatFecha,     \* the delivery date SUNAT answers with
  MaxRequests,    \* bound: requests of a behaviour
  MaxCrashes,     \* bound: crashes of a behaviour
  MaxFailedWrites \* bound: sidecar writes that raise OSError

ASSUME ActorsAssumption ==
  /\ NoActor \notin Threads \cup Tasks
  /\ Threads \cap Tasks = {}
  /\ Edits \subseteq OperatorEdit
  /\ RecoveredLines \in Seq(Line) /\ RecoveredLines # <<>>
  /\ SunatFecha \in Fecha \cup {None}
  /\ MaxRequests \in Nat /\ MaxCrashes \in Nat /\ MaxFailedWrites \in Nat

VARIABLES
  mode,       \* "serving", "down", or "replaying" the sidecar after a restart
  guias,      \* self._guias
  errored,    \* self._errored_guias
  discarded,  \* self._discarded_pages
  rows,       \* self._rows, as the list of guías they were reconciled from
  trail,      \* self._audit_trail
  sidecar,    \* review.json "edits", on disk
  replay,     \* the events a restart has still to replay
  loop,       \* the task that holds the event loop
  pc,         \* where each actor stands
  frame,      \* the local variables of each actor's call
  acked,      \* history: events whose caller was told they are saved
  budget      \* requests, crashes and failed writes left

Actors == Threads \cup Tasks
service == <<guias, errored, discarded, rows, trail>>
actors == <<loop, pc, frame>>
vars == <<mode, service, sidecar, replay, actors, acked, budget>>

Control ==
  {"idle", "outside", "ready", "checked", "copied", "dropping", "filtered",
   "reconciling", "computed", "recording", "snapshotting", "writing"}

NoEvent == [kind |-> "none"]
\* Locals of a call: its event, the position and the changed copy of its guía,
\* the list it builds (the new guías, then the guías it reconciles), the new
\* errored list, and the trail it serialised.
EmptyFrame ==
  [event |-> NoEvent, at |-> 0, changed |-> None, list |-> <<>>, marks |-> {}, saved |-> <<>>]

Frame ==
  [event : Event \cup {NoEvent}, at : Nat, changed : GuiaRecord \cup {None},
   list : Seq(GuiaRecord), marks : SUBSET ErroredRecord, saved : Seq(Event)]

State == [guias |-> guias, errored |-> errored, discarded |-> discarded]

TypeOK ==
  /\ mode \in {"serving", "down", "replaying"}
  /\ guias \in Seq(GuiaRecord)
  /\ errored \subseteq ErroredRecord
  /\ discarded \subseteq Page
  /\ rows \in Seq(GuiaRecord)
  /\ trail \in Seq(Event)
  /\ sidecar \in Seq(Event)
  /\ replay \in Seq(Event)
  /\ loop \in Tasks \cup {NoActor}
  /\ pc \in [Actors -> Control]
  /\ frame \in [Actors -> Frame]
  /\ acked \subseteq Event
  /\ budget \in [requests : Nat, crashes : Nat, failedWrites : Nat]

Init ==
  /\ mode = "serving"
  /\ guias = CachedGuias /\ errored = CachedErrored /\ discarded = Page
  /\ rows = CachedGuias
  /\ trail = <<>> /\ sidecar = <<>> /\ replay = <<>>
  /\ loop = NoActor
  /\ pc = [a \in Actors |-> "idle"]
  /\ frame = [a \in Actors |-> EmptyFrame]
  /\ acked = {}
  /\ budget = [requests |-> MaxRequests, crashes |-> MaxCrashes, failedWrites |-> MaxFailedWrites]

-----------------------------------------------------------------------------
(* Moving an actor *)

Goto(a, from, to) ==
  /\ pc[a] = from
  /\ pc' = [pc EXCEPT ![a] = to]

\* A thread may run at any time, a task when no other task holds the loop.
MayRun(a) == mode = "serving" /\ (a \in Tasks => loop \in {NoActor, a})

\* A call returns or raises: its locals go, and a task gives the loop back.
Return(a) ==
  /\ pc' = [pc EXCEPT ![a] = "idle"]
  /\ frame' = [frame EXCEPT ![a] = EmptyFrame]
  /\ loop' = IF loop = a THEN NoActor ELSE loop

Receive(a, to, e) ==
  /\ MayRun(a) /\ (a \in Tasks => loop = NoActor)
  /\ Goto(a, "idle", to)
  /\ frame' = [frame EXCEPT ![a].event = e]
  /\ budget.requests > 0
  /\ budget' = [budget EXCEPT !.requests = @ - 1]
  /\ UNCHANGED <<mode, service, sidecar, replay, loop, acked>>

-----------------------------------------------------------------------------
(* Requests *)

\* PATCH rows, PATCH lines, POST reassign.
OperatorRequest(t) == \E e \in Edits : Receive(t, "ready", e)

RecoveredFrom(g, source, fecha) ==
  [kind |-> "recovered_guia", guia_id |-> g,
   guia |-> [guia_id |-> g, registro |-> None, fecha |-> fecha,
             lines |-> RecoveredLines, identity_source |-> source]]

\* POST errored-guias/{id}/retry, and each guía of a registro's retry batch.
RetryRequest(t) ==
  \E x \in errored : Receive(t, "outside", RecoveredFrom(x.guia_id, "qr", SunatFecha))

\* POST errored-guias/{id}/reprocess, and each guía of a reprocess batch.  The
\* pipeline leaves ErroredGuia.fecha_entrega unset: the guía has no date.
ReprocessRequest(c) ==
  \E x \in errored : Receive(c, "outside", RecoveredFrom(x.guia_id, "vision", None))

\* POST discarded-pages/{page}/recover, and each page of a recovery batch.
PageRequest(c) ==
  \E p \in discarded :
    Receive(c, "outside",
      [kind |-> "recovered_discarded_page", guia_id |-> RecoveredId(p), page |-> p,
       guia |-> [guia_id |-> RecoveredId(p), registro |-> PageRegistro[p], fecha |-> None,
                 lines |-> RecoveredLines, identity_source |-> "operator"]])

\* SUNAT, OCR or vision answers with usable lines.
Answered(a) ==
  /\ mode = "serving"
  /\ Goto(a, "outside", "ready")
  /\ UNCHANGED <<mode, service, sidecar, replay, loop, frame, acked, budget>>

\* SUNAT answers nothing: the route marks the guía as retried.
RetryUnanswered(t) ==
  /\ mode = "serving"
  /\ Goto(t, "outside", "ready")
  /\ frame' = [frame EXCEPT ![t].event =
                 [kind |-> "retry_attempted", guia_id |-> frame[t].event.guia_id]]
  /\ UNCHANGED <<mode, service, sidecar, replay, loop, acked, budget>>

\* OCR and vision find no line: the entry stays where it is.
RecoveryUnanswered(c) ==
  /\ MayRun(c) /\ pc[c] = "outside"
  /\ Return(c)
  /\ UNCHANGED <<mode, service, sidecar, replay, acked, budget>>

-----------------------------------------------------------------------------
(* One mutation, step by step *)

\* Looks up the guía and copies it changed; recoveries run their idempotency
\* checks here, a page recovery after its task took the commit lock.
Check(a) ==
  LET e == frame[a].event
      at == FindGuia(guias, e.guia_id)
  IN  /\ MayRun(a)
      /\ ~Rejected(State, e) /\ ~NoOp(State, e)
      /\ IF e.kind = "retry_attempted"
         THEN /\ Goto(a, "ready", "filtered")
              /\ frame' = [frame EXCEPT ![a].marks = ErroredAfter(errored, e)]
         ELSE /\ Goto(a, "ready", "checked")
              /\ frame' = [frame EXCEPT ![a].at = at,
                             ![a].changed = IF e.kind \in {"recovered_guia", "recovered_discarded_page"}
                                            THEN None ELSE Edited(guias[at], e)]
      /\ loop' = IF a \in Tasks THEN a ELSE loop
      /\ UNCHANGED <<mode, service, sidecar, replay, acked, budget>>

\* Fault: a call with nothing to do does not return.
RefuseErrorsOnly(a) ==
  /\ MayRun(a) /\ pc[a] = "ready"
  /\ Rejected(State, frame[a].event)
  /\ Return(a)
  /\ UNCHANGED <<mode, service, sidecar, replay, acked, budget>>

\* ValueError (422/404), or an early return with nothing to do.
Refuse(a) ==
  /\ MayRun(a) /\ pc[a] = "ready"
  /\ Rejected(State, frame[a].event) \/ NoOp(State, frame[a].event)
  /\ Return(a)
  /\ UNCHANGED <<mode, service, sidecar, replay, acked, budget>>

\* The list got shorter since the lookup.  A reassignment does not go by position.
StalePosition(a) ==
  frame[a].event.kind # "reassignment" /\ frame[a].at > Len(guias)

\* new_guias = list(self._guias), with the changed guía in its place.
CopyGuias(a) ==
  LET e == Recorded(guias, frame[a].event)
  IN  /\ MayRun(a)
      /\ Goto(a, "checked", "copied")
      /\ ~StalePosition(a)
      /\ frame' = [frame EXCEPT ![a].event = e,
                     ![a].list = Placed(guias, frame[a].at, frame[a].changed, e)]
      /\ UNCHANGED <<mode, service, sidecar, replay, loop, acked, budget>>

\* IndexError: the call fails (500).
CopyOutOfRange(a) ==
  /\ MayRun(a) /\ pc[a] = "checked"
  /\ StalePosition(a)
  /\ Return(a)
  /\ UNCHANGED <<mode, service, sidecar, replay, acked, budget>>

\* Fault: the rows are not reconciled after an operator's edit.
SkipReconcile(a) ==
  /\ MayRun(a)
  /\ Goto(a, "copied",
       IF frame[a].event.kind \in {"recovered_guia", "recovered_discarded_page"}
       THEN "dropping" ELSE "recording")
  /\ guias' = frame[a].list
  /\ UNCHANGED <<mode, errored, discarded, rows, trail, sidecar, replay, loop, frame, acked, budget>>

\* self._guias = new_guias
AssignGuias(a) ==
  /\ MayRun(a)
  /\ Goto(a, "copied",
       IF frame[a].event.kind \in {"recovered_guia", "recovered_discarded_page"}
       THEN "dropping" ELSE "reconciling")
  /\ guias' = frame[a].list
  /\ UNCHANGED <<mode, errored, discarded, rows, trail, sidecar, replay, loop, frame, acked, budget>>

\* Fault: the errored entry of a recovered guía stays.
KeepErrored(a) ==
  /\ MayRun(a)
  /\ frame[a].event.kind = "recovered_guia"
  /\ Goto(a, "dropping", "filtered")
  /\ frame' = [frame EXCEPT ![a].marks = errored]
  /\ UNCHANGED <<mode, service, sidecar, replay, loop, acked, budget>>

\* [e for e in self._errored_guias if e.guia_id != guia.guia_id]
FilterErrored(a) ==
  /\ MayRun(a)
  /\ frame[a].event.kind = "recovered_guia"
  /\ Goto(a, "dropping", "filtered")
  /\ frame' = [frame EXCEPT ![a].marks = ErroredAfter(errored, frame[a].event)]
  /\ UNCHANGED <<mode, service, sidecar, replay, loop, acked, budget>>

\* Fault: a failed retry is flagged in memory only.
ForgetRetry(a) ==
  /\ MayRun(a) /\ pc[a] = "filtered"
  /\ errored' = frame[a].marks
  /\ IF frame[a].event.kind = "retry_attempted"
     THEN Return(a)
     ELSE Goto(a, "filtered", "reconciling") /\ UNCHANGED <<loop, frame>>
  /\ UNCHANGED <<mode, guias, discarded, rows, trail, sidecar, replay, acked, budget>>

\* self._errored_guias = that list.  A marked retry goes straight to the trail.
AssignErrored(a) ==
  /\ MayRun(a)
  /\ Goto(a, "filtered",
       IF frame[a].event.kind = "retry_attempted" THEN "recording" ELSE "reconciling")
  /\ errored' = frame[a].marks
  /\ UNCHANGED <<mode, guias, discarded, rows, trail, sidecar, replay, loop, frame, acked, budget>>

\* self._discarded_pages without the page: only the event loop does this.
DropPage(a) ==
  /\ MayRun(a)
  /\ frame[a].event.kind = "recovered_discarded_page"
  /\ Goto(a, "dropping", "reconciling")
  /\ discarded' = DiscardedAfter(discarded, frame[a].event)
  /\ UNCHANGED <<mode, guias, errored, rows, trail, sidecar, replay, loop, frame, acked, budget>>

\* reconcile(self._declared, self._guias, ...) takes the list it is given...
ReadGuias(a) ==
  /\ MayRun(a)
  /\ Goto(a, "reconciling", "computed")
  /\ frame' = [frame EXCEPT ![a].list = guias]
  /\ UNCHANGED <<mode, service, sidecar, replay, loop, acked, budget>>

\* ...and its result is assigned to self._rows when it is done.
AssignRows(a) ==
  /\ MayRun(a)
  /\ Goto(a, "computed", "recording")
  /\ rows' = frame[a].list
  /\ UNCHANGED <<mode, guias, errored, discarded, trail, sidecar, replay, loop, frame, acked, budget>>

\* Faults: the newest event goes first; the locals are dropped before the event
\* is recorded; the recovery of a page is not recorded; the file is written
\* before the event is recorded.
RecordFirst(a) ==
  /\ MayRun(a)
  /\ Goto(a, "recording", "snapshotting")
  /\ trail' = <<frame[a].event>> \o trail
  /\ UNCHANGED <<mode, guias, errored, discarded, rows, sidecar, replay, loop, frame, acked, budget>>
RecordNothing(a) ==
  /\ MayRun(a)
  /\ Goto(a, "recording", "snapshotting")
  /\ trail' = Append(trail, EmptyFrame.event)
  /\ UNCHANGED <<mode, guias, errored, discarded, rows, sidecar, replay, loop, frame, acked, budget>>
SkipPageEvent(a) ==
  /\ MayRun(a)
  /\ Goto(a, "recording", "snapshotting")
  /\ trail' = IF frame[a].event.kind = "recovered_discarded_page"
              THEN trail ELSE Append(trail, frame[a].event)
  /\ UNCHANGED <<mode, guias, errored, discarded, rows, sidecar, replay, loop, frame, acked, budget>>
PersistFirst(a) ==
  /\ MayRun(a)
  /\ Goto(a, "recording", "writing")
  /\ frame' = [frame EXCEPT ![a].saved = trail]
  /\ trail' = Append(trail, frame[a].event)
  /\ UNCHANGED <<mode, guias, errored, discarded, rows, sidecar, replay, loop, acked, budget>>

\* self._audit_trail.append(event)
RecordEvent(a) ==
  /\ MayRun(a)
  /\ Goto(a, "recording", "snapshotting")
  /\ trail' = Append(trail, frame[a].event)
  /\ UNCHANGED <<mode, guias, errored, discarded, rows, sidecar, replay, loop, frame, acked, budget>>

\* _persist serialises the whole trail...
SnapshotTrail(a) ==
  /\ MayRun(a)
  /\ Goto(a, "snapshotting", "writing")
  /\ frame' = [frame EXCEPT ![a].saved = trail]
  /\ UNCHANGED <<mode, service, sidecar, replay, loop, acked, budget>>

\* ...and replaces the file, after which the call answers 200.
WriteSidecar(a) ==
  /\ MayRun(a) /\ pc[a] = "writing"
  /\ sidecar' = frame[a].saved
  /\ acked' = acked \cup {frame[a].event}
  /\ Return(a)
  /\ UNCHANGED <<mode, service, replay, budget>>

\* The write raises OSError: the call answers 500, and the edit stays in memory.
WriteFails(a) ==
  /\ MayRun(a) /\ pc[a] = "writing"
  /\ budget.failedWrites > 0
  /\ budget' = [budget EXCEPT !.failedWrites = @ - 1]
  /\ Return(a)
  /\ UNCHANGED <<mode, service, sidecar, replay, acked>>

-----------------------------------------------------------------------------
(* Crash, restart, replay *)

\* Everything but the files is gone.
Forget ==
  /\ mode' = "down"
  /\ guias' = CachedGuias /\ errored' = CachedErrored /\ discarded' = Page
  /\ rows' = CachedGuias /\ trail' = <<>> /\ replay' = <<>>
  /\ loop' = NoActor
  /\ pc' = [a \in Actors |-> "idle"]
  /\ frame' = [a \in Actors |-> EmptyFrame]
  /\ UNCHANGED <<sidecar, acked>>

\* The process dies, while it serves or while it replays.
Crash ==
  /\ mode # "down"
  /\ budget.crashes > 0
  /\ budget' = [budget EXCEPT !.crashes = @ - 1]
  /\ Forget

\* The first request of a restarted server hydrates the run, under the
\* hydration lock: the service is not reachable until the replay is over.
Hydrate ==
  /\ mode = "down"
  /\ mode' = IF sidecar = <<>> THEN "serving" ELSE "replaying"
  /\ replay' = sidecar
  /\ UNCHANGED <<service, sidecar, actors, acked, budget>>

\* Fault: a replay rebuilds the lists and not the trail.
ReplayUnrecorded ==
  LET after == Applied(State, Head(replay))
  IN  /\ mode = "replaying"
      /\ guias' = after.guias /\ errored' = after.errored /\ discarded' = after.discarded
      /\ rows' = after.guias
      /\ replay' = Tail(replay)
      /\ mode' = IF Len(replay) = 1 THEN "serving" ELSE "replaying"
      /\ UNCHANGED <<trail, sidecar, actors, acked, budget>>

\* restore_from_sidecar replays one event by calling its mutator, which
\* rewrites the sidecar with the trail rebuilt so far.
ReplayEvent ==
  LET e == Head(replay)
      after == Applied(State, e)
      lost == Rejected(State, e) \/ NoOp(State, e)
  IN  /\ mode = "replaying"
      /\ guias' = after.guias /\ errored' = after.errored /\ discarded' = after.discarded
      /\ rows' = IF lost \/ e.kind = "retry_attempted" THEN rows ELSE after.guias
      /\ trail' = TrailAfter(State, trail, e)
      /\ sidecar' = IF lost THEN sidecar ELSE TrailAfter(State, trail, e)
      /\ replay' = Tail(replay)
      /\ mode' = IF Len(replay) = 1 THEN "serving" ELSE "replaying"
      /\ UNCHANGED <<actors, acked, budget>>

\* That write raises OSError, which restore_from_sidecar does not catch: the
\* request answers 500, the half-built service is dropped and the run stays
\* unhydrated, for the next request to replay the file as it now is.
ReplayFails ==
  /\ mode = "replaying"
  /\ ~Rejected(State, Head(replay)) /\ ~NoOp(State, Head(replay))
  /\ budget.failedWrites > 0
  /\ budget' = [budget EXCEPT !.failedWrites = @ - 1]
  /\ Forget

-----------------------------------------------------------------------------
(* Steps of a call that any actor takes once it has something to commit *)
Commit(a) ==
  \/ Check(a) \/ Refuse(a)
  \/ CopyGuias(a) \/ CopyOutOfRange(a) \/ AssignGuias(a)
  \/ FilterErrored(a) \/ AssignErrored(a)
  \/ ReadGuias(a) \/ AssignRows(a)
  \/ RecordEvent(a) \/ SnapshotTrail(a)
  \/ WriteSidecar(a) \/ WriteFails(a)

ThreadStep(t) == Answered(t) \/ RetryUnanswered(t) \/ Commit(t)
TaskStep(c) == Answered(c) \/ RecoveryUnanswered(c) \/ DropPage(c) \/ Commit(c)

Next ==
  \/ \E t \in Threads : OperatorRequest(t) \/ RetryRequest(t) \/ ThreadStep(t)
  \/ \E c \in Tasks : ReprocessRequest(c) \/ PageRequest(c) \/ TaskStep(c)
  \/ Crash \/ Hydrate \/ ReplayEvent \/ ReplayFails

Spec == Init /\ [][Next]_vars

\* The operating system runs every thread; the event loop takes ready
\* coroutines in order, so none waits for ever while others run.
Fairness ==
  /\ \A t \in Threads : WF_vars(ThreadStep(t))
  /\ \A c \in Tasks : SF_vars(TaskStep(c))

FairSpec == Spec /\ Fairness

-----------------------------------------------------------------------------
(* Safety *)

\* Whether a has not touched the service yet in its current call.
Untouched(a) == pc[a] \in {"idle", "outside", "ready"}

AtRest == mode = "serving" /\ \A a \in Actors : Untouched(a)

\* No guía is listed again, whatever the interleaving: its quantities would be
\* summed twice against the declared ones.  The blocks of the cache keep their
\* places and names, and two entries have one name only if both are such blocks.
\* The checks of add_recovered_guia and recover_discarded_page are there for this.
NothingListedAgain ==
  /\ Len(guias) >= Len(CachedGuias)
  /\ \A i \in DOMAIN CachedGuias : guias[i].guia_id = CachedGuias[i].guia_id
  /\ \A i, j \in DOMAIN guias :
       guias[i].guia_id = guias[j].guia_id => i = j \/ {i, j} \subseteq DOMAIN CachedGuias

\* A page leaves the discarded list only for good reason: its recovery is in
\* the audit trail, or the task that dropped it is about to write it there.
\* So a restart never forgets where a page went (recover_discarded_page).
DroppedPageIsRecorded ==
  \A p \in Page \ discarded :
    \/ \E i \in DOMAIN trail :
         trail[i].kind = "recovered_discarded_page" /\ trail[i].page = p
    \/ \E c \in Tasks :
         /\ pc[c] \in {"reconciling", "computed", "recording"}
         /\ frame[c].event.kind = "recovered_discarded_page"
         /\ frame[c].event.page = p

\* While it serves, the file holds a beginning of the trail: a late write may
\* take the newest events back, never an old one or their order (_persist).
SidecarIsPrefix ==
  mode = "serving" =>
    /\ Len(sidecar) <= Len(trail)
    /\ \A i \in DOMAIN sidecar : sidecar[i] = trail[i]

\* Between two calls the trail explains the whole state: replaying it from the
\* extraction cache gives back the lists in memory (restore_from_sidecar).
TrailExplainsState == AtRest => Rebuilt(trail) = State

\* Between two calls the table shows the guías as they are (self._rows).
RowsFresh == AtRest => rows = guias

\* An edit whose caller was answered 200 is in the file a restart would replay
\* (_persist runs before the mutators return).
AckedDurable ==
  mode = "serving" => \A e \in acked : \E i \in DOMAIN sidecar : sidecar[i] = e

\* Between two calls the two parallel lists of add_recovered_guia agree: an
\* errored entry stands for a block that has no line yet, and a block without
\* lines is errored unless another block of its guía has lines.
ErroredMatchesPlaceholders ==
  AtRest =>
    /\ \A x \in errored :
         /\ x.block \in DOMAIN guias
         /\ guias[x.block].guia_id = x.guia_id /\ guias[x.block].lines = <<>>
    /\ \A i \in DOMAIN guias :
         guias[i].lines = <<>> =>
           \/ \E x \in errored : x.block = i
           \/ \E j \in DOMAIN guias :
                guias[j].guia_id = guias[i].guia_id /\ guias[j].lines # <<>>

-----------------------------------------------------------------------------
(* Action and liveness properties *)

\* A recovery never moves a guía to another registro: the lines go to the
\* registro the placeholder had when they were put there (add_recovered_guia).
RecoveryKeepsRegistro ==
  [][mode = "serving" /\ mode' = "serving" =>
       \A i \in DOMAIN guias \cap DOMAIN guias' :
         guias[i].lines = <<>> /\ guias'[i].lines # <<>> =>
           guias'[i].registro = guias[i].registro]_vars

\* Every call returns (or dies with the process): no interleaving of threads,
\* event loop and crashes leaves one waiting for ever.
EveryCallReturns == \A a \in Actors : pc[a] # "idle" ~> pc[a] = "idle"

\* A replay cut short, by a crash or by a write of its own that fails.
BreaksOff == mode = "replaying" /\ mode' = "down"

\* The review implements the ledger it promises, whatever crashes and whichever
\* write fails, except where a replay is cut short: only there may saved edits be
\* lost, the newest first.  During a replay the saved edits are those replayed
\* and those still to replay.
Ledger == IF mode = "replaying" THEN trail \o replay ELSE sidecar
Promise == INSTANCE ReviewLedger WITH ledger <- Ledger, reported <- acked
KeepsPromise ==
  Promise!Init /\ [][Promise!Next \/ (BreaksOff /\ Promise!Cut)]_<<Ledger, acked>>
=============================================================================
