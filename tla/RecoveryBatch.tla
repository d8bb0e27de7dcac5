--------------------------- MODULE RecoveryBatch ---------------------------
(***************************************************************************)
(* The recoveries that run as coroutines of the event loop, alone or in a  *)
(* batch with a status record that the client polls:                       *)
(*   infrastructure/api/routes.py      reprocess_guia, reprocess_registro, *)
(*                                     recover_discarded_page,             *)
(*                                     recover_discarded_batch, their      *)
(*                                     status endpoints                    *)
(*   application/reprocess_service.py  apply_reprocess,                    *)
(*                                     apply_page_recovery                 *)
(*                                                                         *)
(* A coroutine runs from one await to the next without anybody else on the *)
(* loop: each action here is such a stretch.  It waits for a semaphore, or *)
(* for a thread of the executor that renders, reads or asks the model.  No *)
(* await lies between taking the commit lock and releasing it, so taking   *)
(* it never waits.  What a commit does to the review is ReviewService's    *)
(* matter; here the review is what is left in its two side lists.          *)
(*                                                                         *)
(* A request makes one call per target; <<target, request>> names a call.  *)
(* pc of a call:                                                           *)
(*   none       no such call yet                                           *)
(*   scheduled  created, not run yet (or waiting for its batch's turn)     *)
(*   reading    page: rendered and read by OCR in the executor             *)
(*   waiting    for a vision slot                                          *)
(*   seeing     vision reads the page in the executor                      *)
(*   ended      returned or raised                                         *)
(*                                                                         *)
(* Left out: cancelled batches.  Only a server going down cancels them,    *)
(* and it forgets every status record.                                     *)
(***************************************************************************)
EXTENDS Naturals, FiniteSets

CONSTANTS
  Guia,             \* the entries of the errored list: one per block without lines
  Id,               \* the guia_ids: pages A, B, A make two blocks of one
  IdOf,             \* the guia_id of each entry
  PassedOver,       \* ids whose first block has lines: their recovery does nothing
  Registro,
  RegistroOf,       \* the registro of each entry
  Page,             \* the discarded pages of the run
  CachedPages,      \* pages whose lines the pipeline kept
  Discarded,        \* the one key of entry["discarded_batches"]
  NoBatch,          \* the request is of a single guía or page
  MaxConcurrency,   \* ReprocessService._max_concurrency
  MaxRequests,      \* bound: requests of a behaviour
  MaxFailedWrites   \* bound: commits whose sidecar write raises

ASSUME BatchAssumption ==
  /\ Guia \cap Page = {} /\ IsFiniteSet(Guia) /\ IsFiniteSet(Page)
  /\ IdOf \in [Guia -> Id] /\ PassedOver \subseteq Id
  /\ RegistroOf \in [Guia -> Registro]
  /\ CachedPages \subseteq Page
  /\ Discarded \notin Registro
  /\ MaxConcurrency \in Nat \ {0}
  /\ MaxRequests \in Nat /\ MaxFailedWrites \in Nat

VARIABLES
  errored,    \* review_service.errored_guias
  discarded,  \* review_service.discarded_pages
  slots,      \* the value of ReprocessService._semaphore
  pc,         \* where each call of apply_reprocess / apply_page_recovery stands
  requests,   \* how many requests there were
  batches,    \* the status record of each request
  current,    \* entry["reprocess_batches"], entry["discarded_batches"]: the polled ones
  claims,     \* history: how often a caller was told that x was recovered
  failures    \* failed writes left

review == <<errored, discarded>>
vars == <<review, slots, pc, requests, batches, current, claims, failures>>

Target == Guia \cup Page
Request == 1 .. MaxRequests
Call == Target \X Request
Key == Registro \cup {Discarded}
Status == [key : Key, total : Nat, recovered : Nat, failed : Nat, done : BOOLEAN]
ASSUME NoBatchAssumption == NoBatch \notin Status

IsBatch(q) == batches[q] # NoBatch

TypeOK ==
  /\ errored \subseteq Guia
  /\ discarded \subseteq Page
  /\ slots \in Nat
  /\ pc \in [Call -> {"none", "scheduled", "reading", "waiting", "seeing", "ended"}]
  /\ requests \in 0 .. MaxRequests
  /\ batches \in [Request -> Status \cup {NoBatch}]
  /\ current \in [Key -> 0 .. requests]
  /\ claims \in [Target -> Nat]
  /\ failures \in 0 .. MaxFailedWrites

Init ==
  /\ errored = Guia /\ discarded = Page
  /\ slots = MaxConcurrency
  /\ pc = [c \in Call |-> "none"]
  /\ requests = 0
  /\ batches = [q \in Request |-> NoBatch]
  /\ current = [k \in Key |-> 0]
  /\ claims = [x \in Target |-> 0]
  /\ failures = MaxFailedWrites

-----------------------------------------------------------------------------
(* Requests *)

\* One call per target is scheduled on the loop.
Schedule(targets) ==
  /\ requests < MaxRequests
  /\ requests' = requests + 1
  /\ pc' = [c \in Call |-> IF c[1] \in targets /\ c[2] = requests' THEN "scheduled" ELSE pc[c]]
  /\ UNCHANGED <<review, slots, claims, failures>>

\* POST errored-guias/{id}/reprocess.  A guía not in the list answers 404.
ReprocessGuia(g) ==
  /\ g \in errored
  /\ Schedule({g})
  /\ UNCHANGED <<batches, current>>

\* POST discarded-pages/{page}/recover.
RecoverPage(p) ==
  /\ p \in discarded
  /\ Schedule({p})
  /\ UNCHANGED <<batches, current>>

\* Fault: the total is left for the background task to fill in.
StartBatchBare(k, targets) ==
  /\ Schedule(targets)
  /\ batches' = [batches EXCEPT ![requests'] =
                   [key |-> k, recovered |-> 0, failed |-> 0, done |-> FALSE]]
  /\ current' = [current EXCEPT ![k] = requests']

\* A new status record takes the place of the last one under its key.
StartBatch(k, targets) ==
  /\ Schedule(targets)
  /\ batches' = [batches EXCEPT ![requests'] =
                   [key |-> k, total |-> Cardinality(targets),
                    recovered |-> 0, failed |-> 0, done |-> FALSE]]
  /\ current' = [current EXCEPT ![k] = requests']

\* POST registros/{registro}/reprocess: nobody asks whether one is running.
ReprocessRegistro(r) ==
  LET targets == {g \in errored : RegistroOf[g] = r}
  IN  targets # {} /\ StartBatch(r, targets)

\* Fault: the check for a running batch precedes the await of the body, so two
\* requests pass it.
RecoverBatchChecksEarly(pages) ==
  /\ pages # {}
  /\ StartBatch(Discarded, pages)

\* POST discarded-pages/recover-batch: any pages the client names, each once;
\* 409 while the last batch is not done.
RecoverBatch(pages) ==
  /\ pages # {}
  /\ current[Discarded] # 0 => batches[current[Discarded]].done
  /\ StartBatch(Discarded, pages)

\* The errored entries of x's guia_id.
Namesakes(x) == {g \in Guia : x \in Guia /\ IdOf[g] = IdOf[x]}

\* add_recovered_guia leaves by its early return: the list stays as it is.
NoOp(x) == x \in Guia /\ IdOf[x] \in PassedOver

\* add_recovered_guia drops every entry of the id, recover_discarded_page the page.
Drop(x) ==
  /\ errored' = errored \ Namesakes(x)
  /\ discarded' = discarded \ {x}

\* REINTENTAR on a pool thread recovers a guía from SUNAT at any time.
RetryRecovers(g) ==
  /\ g \in errored /\ ~NoOp(g)
  /\ Drop(g)
  /\ UNCHANGED <<slots, pc, requests, batches, current, claims, failures>>

-----------------------------------------------------------------------------
(* Steps of a call *)

Goto(c, from, to) ==
  /\ pc[c] = from
  /\ pc' = [pc EXCEPT ![c] = to]
  /\ UNCHANGED <<review, requests, batches, current, claims, failures>>

\* Fault: the exception of a call is not counted.
EndUncounted(c, recovered) ==
  /\ pc' = [pc EXCEPT ![c] = "ended"]
  /\ batches' = IF IsBatch(c[2]) /\ recovered
                THEN [batches EXCEPT ![c[2]].recovered = @ + 1] ELSE batches
  /\ claims' = IF recovered THEN [claims EXCEPT ![c[1]] = @ + 1] ELSE claims
  /\ UNCHANGED <<requests, current>>

\* The call returns, recovered or not; its batch counts it before anybody else
\* runs.  A call that raises counts as failed.
End(c, recovered) ==
  /\ pc' = [pc EXCEPT ![c] = "ended"]
  /\ batches' = IF ~IsBatch(c[2]) THEN batches
                ELSE IF recovered THEN [batches EXCEPT ![c[2]].recovered = @ + 1]
                ELSE [batches EXCEPT ![c[2]].failed = @ + 1]
  /\ claims' = IF recovered THEN [claims EXCEPT ![c[1]] = @ + 1] ELSE claims
  /\ UNCHANGED <<requests, current>>

\* Not found, nothing read, or recovered by somebody else meanwhile.
EndInVain(c) == End(c, FALSE) /\ UNCHANGED <<review, failures>>

\* Fault: the discarded list is not looked at again under the commit lock.
CommitUnchecked(c) == Drop(c[1]) /\ End(c, TRUE) /\ UNCHANGED failures

\* The commit.  A page is looked up again under the lock; add_recovered_guia
\* passes over a guía that has lines, and the call says recovered all the same.
Commit(c) ==
  \/ c[1] \in Page \ discarded /\ EndInVain(c)
  \/ NoOp(c[1]) /\ End(c, TRUE) /\ UNCHANGED <<review, failures>>
  \/ /\ c[1] \notin Page \ discarded /\ ~NoOp(c[1])
     /\ Drop(c[1]) /\ End(c, TRUE)
     /\ UNCHANGED failures

\* The sidecar write of the commit raises OSError: the lists have changed and
\* the caller is told the opposite.
CommitRaises(c) ==
  /\ c[1] \in discarded \/ Namesakes(c[1]) \cap errored # {}
  /\ ~NoOp(c[1])
  /\ failures > 0
  /\ failures' = failures - 1
  /\ Drop(c[1]) /\ End(c, FALSE)

Finish(c) == Commit(c) \/ CommitRaises(c)

\* apply_reprocess finds its guía in the errored list, and queues for vision.
StartGuia(c) ==
  /\ c[1] \in Guia /\ pc[c] = "scheduled"
  /\ \/ Namesakes(c[1]) \cap errored # {} /\ Goto(c, "scheduled", "waiting")
     \/ Namesakes(c[1]) \cap errored = {} /\ EndInVain(c)
  /\ UNCHANGED slots

\* The calls of a request that are past its own semaphore.
Running(q) == {c \in Call : c[2] = q /\ pc[c] \in {"reading", "waiting", "seeing"}}

\* apply_page_recovery: lines the pipeline kept are committed at once, otherwise
\* the page is rendered and read again.
StartPage(c) ==
  /\ c[1] \in Page /\ pc[c] = "scheduled"
  /\ IsBatch(c[2]) => Cardinality(Running(c[2])) < MaxConcurrency
  /\ \/ c[1] \notin discarded /\ EndInVain(c)
     \/ c[1] \in discarded /\ c[1] \in CachedPages /\ Finish(c)
     \/ c[1] \in discarded /\ c[1] \notin CachedPages /\ Goto(c, "scheduled", "reading")
  /\ UNCHANGED slots

\* OCR answers usable lines, unusable ones, or none (or could not render).
ReadLines(c) == pc[c] = "reading" /\ Finish(c) /\ UNCHANGED slots
ReadUnusable(c) == pc[c] = "reading" /\ EndInVain(c) /\ UNCHANGED slots
ReadNothing(c) == Goto(c, "reading", "waiting") /\ UNCHANGED slots

Seeing == {c \in Call : pc[c] = "seeing"}

\* The one semaphore of the run's ReprocessService.
TakeSlot(c) ==
  /\ slots > 0 /\ slots' = slots - 1
  /\ Goto(c, "waiting", "seeing")

\* Vision answers usable lines, or nothing usable; "async with" gives the slot back
\* on each way out, an exception of render or vision included.
SeeLines(c) == pc[c] = "seeing" /\ slots' = slots + 1 /\ Finish(c)

\* Fault: the slot is not given back when vision has seen nothing.
SeeNothingLeaks(c) == pc[c] = "seeing" /\ EndInVain(c) /\ UNCHANGED slots

SeeNothing(c) == pc[c] = "seeing" /\ slots' = slots + 1 /\ EndInVain(c)

AllEnded(q) == \A x \in Target : pc[<<x, q>>] \in {"none", "ended"}

SetDone(q) ==
  /\ batches' = [batches EXCEPT ![q].done = TRUE]
  /\ UNCHANGED <<review, slots, pc, requests, current, claims, failures>>

\* Fault: an exception ends the gather, and the batch is done before its calls.
SettleOnFailure(q) ==
  /\ IsBatch(q) /\ ~batches[q].done
  /\ batches[q].failed > 0 \/ AllEnded(q)
  /\ SetDone(q)

\* Fault: done only when every target was recovered.
SettleOnSuccess(q) ==
  /\ IsBatch(q) /\ ~batches[q].done
  /\ batches[q].recovered = batches[q].total
  /\ SetDone(q)

\* gather returns: every call of the batch has.
Settle(q) ==
  /\ IsBatch(q) /\ ~batches[q].done
  /\ AllEnded(q)
  /\ SetDone(q)

-----------------------------------------------------------------------------
CallStep(c) ==
  \/ StartGuia(c) \/ StartPage(c)
  \/ ReadLines(c) \/ ReadUnusable(c) \/ ReadNothing(c)
  \/ TakeSlot(c) \/ SeeLines(c) \/ SeeNothing(c)

Next ==
  \/ \E g \in Guia : ReprocessGuia(g) \/ RetryRecovers(g)
  \/ \E p \in Page : RecoverPage(p)
  \/ \E r \in Registro : ReprocessRegistro(r)
  \/ \E pages \in SUBSET Page : RecoverBatch(pages)
  \/ \E c \in Call : CallStep(c)
  \/ \E q \in Request : Settle(q)

Spec == Init /\ [][Next]_vars

\* The loop runs every ready coroutine in turn, its semaphores are FIFO, and the
\* calls of OCR and vision end (the client of the model has a timeout).
Fairness ==
  /\ \A c \in Call : SF_vars(CallStep(c))
  /\ \A q \in Request : WF_vars(Settle(q))

FairSpec == Spec /\ Fairness

-----------------------------------------------------------------------------
(* Properties *)

\* A page is reported as recovered at most once, and never while it is still in
\* the discarded list, however many requests and batches name it (the check under
\* the commit lock of apply_page_recovery).
PageClaimedOnce ==
  \A p \in Page : claims[p] <= 1 /\ (claims[p] = 1 => p \notin discarded)

\* A batch that says it is done has counted each of its targets once, whichever
\* of them failed or raised (the counters of _run_reprocess_batch).
CountersAddUp ==
  \A q \in Request :
    IsBatch(q) /\ batches[q].done =>
      batches[q].recovered + batches[q].failed = batches[q].total

\* Each vision slot is free or held by one call that sees a page: none is lost on a
\* way out of the block and none is given back twice, whatever batches and single
\* requests share them, so vision never has more than MaxConcurrency calls.
SlotsAddUp == slots + Cardinality(Seeing) = MaxConcurrency

\* At most one batch of discarded pages is under way (recover_discarded_batch
\* answers 409), and it is the one the client polls.
OneDiscardedBatch ==
  \A q \in Request :
    IsBatch(q) /\ batches[q].key = Discarded /\ ~batches[q].done => current[Discarded] = q

\* A status that says done never changes again: a client that stops polling has
\* seen the last count (done only after the gather).
DoneIsFinal ==
  [][\A q \in Request : IsBatch(q) /\ batches[q].done => batches'[q] = batches[q]]_vars

\* Every batch is done some day, so its client never polls for ever and the next
\* batch of discarded pages is not refused for ever.
EveryBatchSettles == \A q \in Request : IsBatch(q) ~> IsBatch(q) /\ batches[q].done
=============================================================================
