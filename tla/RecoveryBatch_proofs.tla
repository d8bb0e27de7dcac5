------------------------ MODULE RecoveryBatch_proofs ------------------------
(***************************************************************************)
(* Every safety property of RecoveryBatch, for any guías, pages, requests  *)
(* and vision slots.                                                       *)
(*                                                                         *)
(* Each step has one of six shapes (lemma Shapes), and the invariants are  *)
(* proved for the shapes:                                                  *)
(*   a request of one call, a request that starts a batch, REINTENTAR,     *)
(*   a call that moves on, a call that ends, a batch that settles.         *)
(***************************************************************************)
EXTENDS RecoveryBatch, FiniteSetTheorems, TLAPS

PC == {"none", "scheduled", "reading", "waiting", "seeing", "ended"}
Busy == {"scheduled", "reading", "waiting", "seeing"}

OneCall == \E x \in Target : Schedule({x}) /\ UNCHANGED <<batches, current>>

BatchStarts ==
  \E k \in Key, targets \in SUBSET Target :
    /\ StartBatch(k, targets)
    /\ k = Discarded /\ current[k] # 0 => batches[current[k]].done

OutsideRecovery ==
  /\ errored' \subseteq errored
  /\ UNCHANGED <<discarded, slots, pc, requests, batches, current, claims, failures>>

Moves(c) ==
  /\ pc[c] \in Busy \ {"seeing"}
  /\ \E to \in {"reading", "waiting", "seeing"} :
       /\ to = "seeing" => slots > 0
       /\ slots' = IF to = "seeing" THEN slots - 1 ELSE slots
       /\ pc' = [pc EXCEPT ![c] = to]
  /\ UNCHANGED <<review, requests, batches, current, claims, failures>>

Ends(c) ==
  /\ pc[c] \in Busy
  /\ errored' \subseteq errored /\ discarded' \subseteq discarded
  /\ failures' \in 0 .. failures
  /\ slots' = IF pc[c] = "seeing" THEN slots + 1 ELSE slots
  /\ \/ End(c, FALSE)
     \/ End(c, TRUE) /\ (c[1] \in Page => c[1] \in discarded /\ c[1] \notin discarded')

\* What a call does to the slots when it ends.
GivesBack(c) == slots' = IF pc[c] = "seeing" THEN slots + 1 ELSE slots

\* Where the steps of a call come from.
LEMMA CallShapes ==
  ASSUME TypeOK, NEW c \in Call, CallStep(c)
  PROVE  Moves(c) \/ Ends(c)
<1> USE DEF PC, Busy
<1> failures \in Nat
  BY BatchAssumption DEF TypeOK
<1> c[1] \in Target /\ c[2] \in Request
  BY DEF Call
<1>1. ASSUME pc[c] \in Busy, GivesBack(c), EndInVain(c) PROVE Ends(c)
  <2>1. UNCHANGED <<errored, discarded, failures>> /\ End(c, FALSE)
    BY <1>1 DEF EndInVain, review
  <2>2. failures' \in 0 .. failures /\ errored' \subseteq errored /\ discarded' \subseteq discarded
    BY <2>1
  <2> QED BY <1>1, <2>1, <2>2, Zenon DEF Ends, GivesBack
<1>2. ASSUME pc[c] \in Busy, GivesBack(c), Commit(c) PROVE Ends(c)
  <2>1. CASE c[1] \in Page \ discarded /\ EndInVain(c)
    BY <2>1, <1>1, <1>2
  <2>2. CASE NoOp(c[1]) /\ End(c, TRUE) /\ UNCHANGED <<review, failures>>
    <3>1. /\ failures' \in 0 .. failures
          /\ errored' \subseteq errored /\ discarded' \subseteq discarded
      BY <2>2 DEF review
    <3>2. c[1] \notin Page
      BY <2>2, BatchAssumption DEF NoOp
    <3> QED BY <2>2, <1>2, <3>1, <3>2, Zenon DEF Ends, GivesBack
  <2>3. CASE /\ c[1] \notin Page \ discarded /\ ~NoOp(c[1])
             /\ Drop(c[1]) /\ End(c, TRUE)
             /\ UNCHANGED failures
    <3>1. failures' \in 0 .. failures
      BY <2>3
    <3>2. c[1] \in Page => c[1] \in discarded /\ c[1] \notin discarded'
      BY <2>3 DEF Drop
    <3>3. errored' \subseteq errored /\ discarded' \subseteq discarded
      BY <2>3 DEF Drop
    <3> QED BY <2>3, <1>2, <3>1, <3>2, <3>3, Zenon DEF Ends, GivesBack
  <2> QED BY <2>1, <2>2, <2>3, <1>2 DEF Commit
<1>3. ASSUME pc[c] \in Busy, GivesBack(c), CommitRaises(c) PROVE Ends(c)
  <2>1. failures' \in 0 .. failures
    BY <1>3 DEF CommitRaises
  <2>2. errored' \subseteq errored /\ discarded' \subseteq discarded /\ End(c, FALSE)
    BY <1>3 DEF CommitRaises, Drop
  <2> QED BY <1>3, <2>1, <2>2, Zenon DEF Ends, GivesBack
<1>4. ASSUME pc[c] \in Busy, GivesBack(c), Finish(c) PROVE Ends(c)
  BY <1>4, <1>2, <1>3 DEF Finish
<1>0. ASSUME NEW from \in Busy \ {"seeing"}, NEW to \in {"reading", "waiting", "seeing"},
             Goto(c, from, to), to = "seeing" => slots > 0,
             slots' = IF to = "seeing" THEN slots - 1 ELSE slots
      PROVE  Moves(c)
  BY <1>0 DEF Goto, Moves
<1>5. CASE StartGuia(c)
  BY <1>5, <1>1, <1>0 DEF StartGuia, GivesBack
<1>6. CASE StartPage(c)
  BY <1>6, <1>1, <1>4, <1>0 DEF StartPage, GivesBack
<1>7. CASE ReadLines(c) \/ SeeLines(c)
  BY <1>7, <1>4 DEF ReadLines, SeeLines, GivesBack
<1>8. CASE ReadUnusable(c) \/ SeeNothing(c)
  BY <1>8, <1>1 DEF ReadUnusable, SeeNothing, GivesBack
<1>9. CASE ReadNothing(c)
  BY <1>9, <1>0 DEF ReadNothing
<1>10. CASE TakeSlot(c)
  BY <1>10, <1>0 DEF TakeSlot
<1> QED BY <1>5, <1>6, <1>7, <1>8, <1>9, <1>10 DEF CallStep

LEMMA Shapes ==
  ASSUME TypeOK, Next
  PROVE  \/ OneCall \/ BatchStarts \/ OutsideRecovery
         \/ \E c \in Call : Moves(c) \/ Ends(c)
         \/ \E q \in Request : Settle(q)
<1>1. CASE \E g \in Guia : ReprocessGuia(g)
  BY <1>1 DEF ReprocessGuia, OneCall, Target
<1>2. CASE \E g \in Guia : RetryRecovers(g)
  <2>1. PICK g \in Guia : RetryRecovers(g)
    BY <1>2
  <2>2. errored' \subseteq errored
    BY <2>1 DEF RetryRecovers, Drop
  \* A guía is no page, so it is not in the discarded list.
  <2>3. discarded' = discarded
    BY <2>1, BatchAssumption DEF RetryRecovers, Drop, TypeOK
  <2> QED BY <2>1, <2>2, <2>3 DEF RetryRecovers, OutsideRecovery
<1>3. CASE \E p \in Page : RecoverPage(p)
  BY <1>3 DEF RecoverPage, OneCall, Target
<1>4. CASE \E r \in Registro : ReprocessRegistro(r)
  <2>1. PICK r \in Registro : ReprocessRegistro(r)
    BY <1>4
  <2> DEFINE targets == {g \in errored : RegistroOf[g] = r}
  <2>2. targets \in SUBSET Target /\ r \in Key /\ r # Discarded
    BY BatchAssumption DEF TypeOK, Target, Key
  <2>3. StartBatch(r, targets)
    BY <2>1 DEF ReprocessRegistro
  <2> QED BY <2>2, <2>3 DEF BatchStarts
<1>5. CASE \E pages \in SUBSET Page : RecoverBatch(pages)
  <2>1. PICK pages \in SUBSET Page : RecoverBatch(pages)
    BY <1>5
  <2>2. pages \in SUBSET Target /\ Discarded \in Key
    BY DEF Target, Key
  <2> QED BY <2>1, <2>2 DEF RecoverBatch, BatchStarts
<1>6. CASE \E c \in Call : CallStep(c)
  BY <1>6, CallShapes
<1>7. CASE \E q \in Request : Settle(q)
  BY <1>7
<1> QED BY <1>1, <1>2, <1>3, <1>4, <1>5, <1>6, <1>7 DEF Next

-----------------------------------------------------------------------------
(* Types. *)

LEMMA TargetsFinite == IsFiniteSet(Target)
BY BatchAssumption, FS_Union DEF Target

LEMMA CallsFinite == IsFiniteSet(Call)
<1>1. IsFiniteSet(Request)
  BY BatchAssumption, FS_Interval DEF Request
<1> QED BY <1>1, TargetsFinite, FS_Product DEF Call

\* What a request does to the variables of the calls.
LEMMA ScheduleTypes ==
  ASSUME TypeOK, NEW targets \in SUBSET Target, Schedule(targets)
  PROVE  /\ requests' \in Request /\ requests' = requests + 1
         /\ requests' \in 0 .. MaxRequests
         /\ pc' \in [Call -> PC]
         /\ \A x \in Target, q \in Request :
              pc'[<<x, q>>] = IF x \in targets /\ q = requests' THEN "scheduled"
                              ELSE pc[<<x, q>>]
<1>1. requests \in Nat /\ requests < MaxRequests /\ requests' = requests + 1
  BY BatchAssumption DEF TypeOK, Schedule
<1>2. requests' \in Request /\ requests' \in 0 .. MaxRequests
  BY <1>1, BatchAssumption DEF Request
<1>3. pc' = [c \in Call |-> IF c[1] \in targets /\ c[2] = requests' THEN "scheduled" ELSE pc[c]]
  BY DEF Schedule
<1>4. pc' \in [Call -> PC]
  BY <1>3 DEF TypeOK, PC
<1>5. ASSUME NEW x \in Target, NEW q \in Request
      PROVE  pc'[<<x, q>>] = IF x \in targets /\ q = requests' THEN "scheduled" ELSE pc[<<x, q>>]
  BY <1>3 DEF Call
<1> QED BY <1>1, <1>2, <1>4, <1>5

\* The end of a call touches at most its counters.
LEMMA EndTypes ==
  ASSUME TypeOK, NEW c \in Call, NEW recovered \in BOOLEAN, End(c, recovered)
  PROVE  /\ c[1] \in Target /\ c[2] \in Request /\ c = <<c[1], c[2]>>
         /\ pc' \in [Call -> PC]
         /\ \A x \in Target, q \in Request :
              pc'[<<x, q>>] = IF x = c[1] /\ q = c[2] THEN "ended" ELSE pc[<<x, q>>]
         /\ batches' \in [Request -> Status \cup {NoBatch}]
         /\ \A q \in Request : q # c[2] \/ ~IsBatch(q) => batches'[q] = batches[q]
         /\ IsBatch(c[2]) =>
              /\ batches'[c[2]] \in Status
              /\ batches'[c[2]].key = batches[c[2]].key
              /\ batches'[c[2]].done = batches[c[2]].done
              /\ batches'[c[2]].total = batches[c[2]].total
              /\ batches'[c[2]].recovered + batches'[c[2]].failed
                   = batches[c[2]].recovered + batches[c[2]].failed + 1
         /\ claims' \in [Target -> Nat]
         /\ \A x \in Target :
              claims'[x] = IF recovered /\ x = c[1] THEN claims[x] + 1 ELSE claims[x]
<1>1. c[1] \in Target /\ c[2] \in Request /\ c = <<c[1], c[2]>>
  BY DEF Call
<1>2. /\ pc' \in [Call -> PC]
      /\ \A x \in Target, q \in Request :
           pc'[<<x, q>>] = IF x = c[1] /\ q = c[2] THEN "ended" ELSE pc[<<x, q>>]
  <2>1. pc' = [pc EXCEPT ![c] = "ended"] /\ pc \in [Call -> PC]
    BY DEF End, TypeOK, PC
  <2> QED BY <2>1, <1>1 DEF PC, Call
<1>3. /\ claims' \in [Target -> Nat]
      /\ \A x \in Target :
           claims'[x] = IF recovered /\ x = c[1] THEN claims[x] + 1 ELSE claims[x]
  BY <1>1 DEF End, TypeOK
<1>4. CASE ~IsBatch(c[2])
  BY <1>1, <1>2, <1>3, <1>4 DEF End, TypeOK
<1>5. CASE IsBatch(c[2])
  <2>1. batches[c[2]] \in Status
    BY <1>1, <1>5 DEF TypeOK, IsBatch
  <2>2. CASE recovered
    <3>1. batches' = [batches EXCEPT ![c[2]].recovered = @ + 1]
      BY <2>2, <1>5 DEF End
    <3>2. batches'[c[2]] = [batches[c[2]] EXCEPT !.recovered = @ + 1]
      BY <3>1, <1>1 DEF TypeOK
    <3>3. \A q \in Request : q # c[2] => batches'[q] = batches[q]
      BY <3>1 DEF TypeOK
    <3>4. batches'[c[2]] \in Status
      BY <3>2, <2>1 DEF Status
    <3>5. /\ batches'[c[2]].key = batches[c[2]].key
          /\ batches'[c[2]].done = batches[c[2]].done
          /\ batches'[c[2]].total = batches[c[2]].total
          /\ batches'[c[2]].recovered + batches'[c[2]].failed
               = batches[c[2]].recovered + batches[c[2]].failed + 1
      BY <3>2, <2>1 DEF Status
    <3>6. batches' \in [Request -> Status \cup {NoBatch}]
      BY <3>1, <3>3, <3>4 DEF TypeOK
    <3> QED BY <1>1, <1>2, <1>3, <1>5, <3>3, <3>4, <3>5, <3>6
  <2>3. CASE ~recovered
    <3>1. batches' = [batches EXCEPT ![c[2]].failed = @ + 1]
      BY <2>3, <1>5 DEF End
    <3>2. batches'[c[2]] = [batches[c[2]] EXCEPT !.failed = @ + 1]
      BY <3>1, <1>1 DEF TypeOK
    <3>3. \A q \in Request : q # c[2] => batches'[q] = batches[q]
      BY <3>1 DEF TypeOK
    <3>4. batches'[c[2]] \in Status
      BY <3>2, <2>1 DEF Status
    <3>5. /\ batches'[c[2]].key = batches[c[2]].key
          /\ batches'[c[2]].done = batches[c[2]].done
          /\ batches'[c[2]].total = batches[c[2]].total
          /\ batches'[c[2]].recovered + batches'[c[2]].failed
               = batches[c[2]].recovered + batches[c[2]].failed + 1
      BY <3>2, <2>1 DEF Status
    <3>6. batches' \in [Request -> Status \cup {NoBatch}]
      BY <3>1, <3>3, <3>4 DEF TypeOK
    <3> QED BY <1>1, <1>2, <1>3, <1>5, <3>3, <3>4, <3>5, <3>6
  <2> QED BY <2>2, <2>3
<1> QED BY <1>4, <1>5

\* The same for a call of either outcome.
LEMMA EndsTypes ==
  ASSUME TypeOK, NEW c \in Call, Ends(c)
  PROVE  /\ c[1] \in Target /\ c[2] \in Request /\ c = <<c[1], c[2]>>
         /\ pc[<<c[1], c[2]>>] \in Busy
         /\ errored' \subseteq errored /\ discarded' \subseteq discarded
         /\ failures' \in 0 .. failures
         /\ slots' = IF pc[<<c[1], c[2]>>] = "seeing" THEN slots + 1 ELSE slots
         /\ UNCHANGED <<requests, current>>
         /\ pc' \in [Call -> PC]
         /\ \A x \in Target, q \in Request :
              pc'[<<x, q>>] = IF x = c[1] /\ q = c[2] THEN "ended" ELSE pc[<<x, q>>]
         /\ batches' \in [Request -> Status \cup {NoBatch}]
         /\ \A q \in Request : q # c[2] \/ ~IsBatch(q) => batches'[q] = batches[q]
         /\ IsBatch(c[2]) =>
              /\ batches'[c[2]] \in Status
              /\ batches'[c[2]].key = batches[c[2]].key
              /\ batches'[c[2]].done = batches[c[2]].done
              /\ batches'[c[2]].total = batches[c[2]].total
              /\ batches'[c[2]].recovered + batches'[c[2]].failed
                   = batches[c[2]].recovered + batches[c[2]].failed + 1
         /\ claims' \in [Target -> Nat]
         /\ \A x \in Target :
              \/ claims'[x] = claims[x]
              \/ /\ x = c[1] /\ claims'[x] = claims[x] + 1
                 /\ x \in Page => x \in discarded /\ x \notin discarded'
<1>1. /\ pc[c] \in Busy
      /\ errored' \subseteq errored /\ discarded' \subseteq discarded
      /\ failures' \in 0 .. failures
      /\ slots' = IF pc[c] = "seeing" THEN slots + 1 ELSE slots
  BY DEF Ends
<1>2. CASE End(c, FALSE)
  <2>1. UNCHANGED <<requests, current>>
    BY <1>2 DEF End
  <2> QED BY <1>1, <2>1, <1>2, EndTypes
<1>3. CASE End(c, TRUE) /\ (c[1] \in Page => c[1] \in discarded /\ c[1] \notin discarded')
  <2>1. UNCHANGED <<requests, current>>
    BY <1>3 DEF End
  <2> QED BY <1>1, <2>1, <1>3, EndTypes
<1> QED BY <1>2, <1>3 DEF Ends

\* A move of a call disturbs its pc, and the slots when it takes one.
LEMMA MovesTypes ==
  ASSUME TypeOK, NEW c \in Call, Moves(c)
  PROVE  /\ UNCHANGED <<errored, discarded, requests, batches, current, claims, failures>>
         /\ pc' \in [Call -> PC]
         /\ pc[c] \in Busy /\ pc[c] # "seeing"
         /\ \E to \in {"reading", "waiting", "seeing"} :
              /\ to = "seeing" => slots > 0
              /\ slots' = IF to = "seeing" THEN slots - 1 ELSE slots
              /\ \A d \in Call : pc'[d] = IF d = c THEN to ELSE pc[d]
BY DEF Moves, TypeOK, PC, Busy, review

\* A new status record has counted nothing.
LEMMA StartTypes ==
  ASSUME TypeOK, NEW k \in Key, NEW targets \in SUBSET Target, StartBatch(k, targets)
  PROVE  /\ Schedule(targets)
         /\ UNCHANGED <<errored, discarded, slots, claims, failures>>
         /\ requests' = requests + 1 /\ requests' \in Request
         /\ batches' \in [Request -> Status \cup {NoBatch}]
         /\ \A q \in Request : q # requests' => batches'[q] = batches[q]
         /\ batches'[requests'] \in Status
         /\ batches'[requests'].key = k /\ ~batches'[requests'].done
         /\ batches'[requests'].recovered = 0 /\ batches'[requests'].failed = 0
         /\ batches'[requests'].total = Cardinality(targets)
         /\ current' \in [Key -> 0 .. requests'] /\ current'[k] = requests'
         /\ \A l \in Key : l # k => current'[l] = current[l]
<1>1. Schedule(targets) /\ UNCHANGED <<errored, discarded, slots, claims, failures>>
  BY DEF StartBatch, Schedule, review
<1>2. requests' = requests + 1 /\ requests' \in Request /\ requests \in Nat
  BY <1>1, ScheduleTypes, BatchAssumption DEF TypeOK
<1> DEFINE new == [key |-> k, total |-> Cardinality(targets),
                   recovered |-> 0, failed |-> 0, done |-> FALSE]
<1>3. new \in Status
  <2>1. IsFiniteSet(targets)
    BY TargetsFinite, FS_Subset
  <2>2. Cardinality(targets) \in Nat
    BY <2>1, FS_CardinalityType
  <2> QED BY <2>2 DEF Status
<1>4. batches' = [batches EXCEPT ![requests'] = new]
  BY DEF StartBatch
<1>5. batches' \in [Request -> Status \cup {NoBatch}] /\ batches'[requests'] = new
  BY <1>2, <1>3, <1>4 DEF TypeOK
<1>6. \A q \in Request : q # requests' => batches'[q] = batches[q]
  BY <1>4 DEF TypeOK
<1>7. current' = [current EXCEPT ![k] = requests']
  BY DEF StartBatch
<1>8. /\ current' \in [Key -> 0 .. requests'] /\ current'[k] = requests'
      /\ \A l \in Key : l # k => current'[l] = current[l]
  BY <1>2, <1>7 DEF TypeOK
<1> QED BY <1>1, <1>2, <1>3, <1>5, <1>6, <1>8

\* And done is all that a settled batch changes.
LEMMA SettleTypes ==
  ASSUME TypeOK, NEW q \in Request, Settle(q)
  PROVE  /\ UNCHANGED <<errored, discarded, slots, pc, requests, current, claims, failures>>
         /\ IsBatch(q) /\ ~batches[q].done /\ AllEnded(q)
         /\ batches' \in [Request -> Status \cup {NoBatch}]
         /\ \A r \in Request : r # q => batches'[r] = batches[r]
         /\ batches[q] \in Status /\ batches'[q] \in Status
         /\ batches'[q] = [batches[q] EXCEPT !.done = TRUE]
<1>1. batches[q] \in Status
  BY DEF TypeOK, Settle, IsBatch
<1>2. batches' = [batches EXCEPT ![q].done = TRUE]
  BY DEF Settle, SetDone
<1>3. batches'[q] = [batches[q] EXCEPT !.done = TRUE]
  BY <1>2 DEF TypeOK
<1>4. batches'[q] \in Status
  BY <1>1, <1>3 DEF Status
<1>5. \A r \in Request : r # q => batches'[r] = batches[r]
  BY <1>2 DEF TypeOK
<1>6. batches' \in [Request -> Status \cup {NoBatch}]
  BY <1>2, <1>4, <1>5 DEF TypeOK
<1> QED BY <1>1, <1>3, <1>4, <1>5, <1>6 DEF Settle, SetDone, review

LEMMA TypesInitially == Init => TypeOK
BY BatchAssumption DEF Init, TypeOK, Key, Target

LEMMA TypesKept == TypeOK /\ [Next]_vars => TypeOK'
<1> SUFFICES ASSUME TypeOK, [Next]_vars PROVE TypeOK'
  OBVIOUS
<1>1. CASE UNCHANGED vars
  BY <1>1 DEF vars, review, TypeOK
<1>2. CASE OneCall
  <2>1. PICK x \in Target : Schedule({x}) /\ UNCHANGED <<batches, current>>
    BY <1>2 DEF OneCall
  <2>2. /\ requests' = requests + 1 /\ requests' \in 0 .. MaxRequests
        /\ pc' \in [Call -> PC]
    BY <2>1, ScheduleTypes
  <2>3. UNCHANGED <<errored, discarded, slots, claims, failures>>
    BY <2>1 DEF Schedule, review
  <2>4. current' \in [Key -> 0 .. requests']
    BY <2>1, <2>2 DEF TypeOK
  <2> QED BY <2>1, <2>2, <2>3, <2>4 DEF TypeOK, PC
<1>3. CASE BatchStarts
  <2>1. PICK k \in Key, targets \in SUBSET Target : StartBatch(k, targets)
    BY <1>3 DEF BatchStarts
  <2>2. /\ requests' \in 0 .. MaxRequests
        /\ pc' \in [Call -> PC]
    BY <2>1, ScheduleTypes DEF StartBatch
  <2> QED BY <2>1, <2>2, StartTypes DEF TypeOK, PC
<1>4. CASE OutsideRecovery
  BY <1>4 DEF OutsideRecovery, TypeOK
<1>5. ASSUME NEW c \in Call, Moves(c) PROVE TypeOK'
  <2>1. slots' \in Nat
    BY <1>5, MovesTypes DEF TypeOK
  <2> QED BY <2>1, <1>5, MovesTypes DEF TypeOK, PC
<1>6. ASSUME NEW c \in Call, Ends(c) PROVE TypeOK'
  <2>1. failures' \in 0 .. MaxFailedWrites
    <3>1. failures \in 0 .. MaxFailedWrites /\ MaxFailedWrites \in Nat
      BY BatchAssumption DEF TypeOK
    <3>2. failures' \in 0 .. failures
      BY <1>6, EndsTypes
    <3> QED BY <3>1, <3>2
  <2>2. slots' \in Nat
    BY <1>6 DEF Ends, TypeOK
  <2> QED BY <2>1, <2>2, <1>6, EndsTypes DEF TypeOK, PC
<1>7. ASSUME NEW q \in Request, Settle(q) PROVE TypeOK'
  BY <1>7, SettleTypes DEF TypeOK
<1> QED BY <1>1, <1>2, <1>3, <1>4, <1>5, <1>6, <1>7, Shapes

(* Errored guías, discarded pages, calls and status records have their types,
   whatever requests there are (the records of _run_reprocess_batch and of
   _run_discarded_recovery_batch). *)
THEOREM BatchTypeCorrect == Spec => []TypeOK
BY TypesInitially, TypesKept, PTL DEF Spec

-----------------------------------------------------------------------------
(* Pages are claimed once. *)

LEMMA PageClaimedOnceKept == TypeOK /\ PageClaimedOnce /\ [Next]_vars => PageClaimedOnce'
<1> SUFFICES ASSUME TypeOK, PageClaimedOnce, [Next]_vars, NEW p \in Page
             PROVE  claims'[p] <= 1 /\ (claims'[p] = 1 => p \notin discarded')
  BY DEF PageClaimedOnce
<1>0. /\ p \in Target /\ claims[p] \in Nat
      /\ claims[p] <= 1 /\ (claims[p] = 1 => p \notin discarded)
  BY DEF PageClaimedOnce, TypeOK, Target
<1>1. CASE UNCHANGED <<claims, discarded>>
  BY <1>0, <1>1
<1>2. CASE OneCall
  BY <1>1, <1>2 DEF OneCall, Schedule, review
<1>3. CASE BatchStarts
  BY <1>1, <1>3 DEF BatchStarts, StartBatch, Schedule, review
<1>4. CASE OutsideRecovery
  BY <1>1, <1>4 DEF OutsideRecovery
<1>5. ASSUME NEW c \in Call, Moves(c) PROVE UNCHANGED <<claims, discarded>>
  BY <1>5, MovesTypes
<1>6. ASSUME NEW c \in Call, Ends(c)
      PROVE  claims'[p] <= 1 /\ (claims'[p] = 1 => p \notin discarded')
  \* The count grows only with a page that was discarded, so it was 0.
  <2>1. \/ claims'[p] = claims[p]
        \/ claims'[p] = claims[p] + 1 /\ p \in discarded /\ p \notin discarded'
    BY <1>0, <1>6, EndsTypes
  <2>2. discarded' \subseteq discarded
    BY <1>6, EndsTypes
  <2> QED BY <1>0, <2>1, <2>2
<1>7. ASSUME NEW q \in Request, Settle(q) PROVE UNCHANGED <<claims, discarded>>
  BY <1>7, SettleTypes
<1>8. CASE UNCHANGED vars
  BY <1>1, <1>8 DEF vars, review
<1> QED BY <1>1, <1>2, <1>3, <1>4, <1>5, <1>6, <1>7, <1>8, Shapes

(* A discarded page is reported as recovered at most once, and never while it is
   still listed, however many requests race for it: the second look under the
   commit lock of apply_page_recovery suffices. *)
THEOREM PagesAreClaimedOnce == Spec => []PageClaimedOnce
<1>1. Init => PageClaimedOnce
  BY DEF Init, PageClaimedOnce, Target
<1> QED BY <1>1, PageClaimedOnceKept, BatchTypeCorrect, PTL DEF Spec

-----------------------------------------------------------------------------
(* One batch of discarded pages. *)

LEMMA OneDiscardedBatchKept == TypeOK /\ OneDiscardedBatch /\ [Next]_vars => OneDiscardedBatch'
<1> DEFINE Open(q) == IsBatch(q) /\ batches[q].key = Discarded /\ ~batches[q].done
<1> SUFFICES ASSUME TypeOK, OneDiscardedBatch, [Next]_vars, NEW r \in Request, Open(r)'
             PROVE  current'[Discarded] = r
  BY DEF OneDiscardedBatch
<1>0. Open(r) => current[Discarded] = r
  BY DEF OneDiscardedBatch
<1>1. CASE UNCHANGED <<batches, current>>
  BY <1>0, <1>1 DEF IsBatch
<1>2. CASE OneCall
  BY <1>1, <1>2 DEF OneCall
<1>3. CASE BatchStarts
  <2>1. PICK k \in Key, targets \in SUBSET Target :
          /\ StartBatch(k, targets)
          /\ k = Discarded /\ current[k] # 0 => batches[current[k]].done
    BY <1>3 DEF BatchStarts
  <2>2. CASE r = requests'
    BY <2>1, <2>2, StartTypes
  \* An open batch would be the current one, which a new one of its key finds done.
  <2>3. CASE r # requests'
    <3>1. batches'[r] = batches[r]
      BY <2>1, <2>3, StartTypes
    <3>2. Open(r) /\ current[Discarded] = r
      BY <1>0, <3>1 DEF IsBatch
    <3>3. k # Discarded
      BY <2>1, <3>2 DEF Request
    <3> QED BY <2>1, <3>2, <3>3, StartTypes DEF Key
  <2> QED BY <2>2, <2>3
<1>4. CASE OutsideRecovery
  BY <1>1, <1>4 DEF OutsideRecovery
<1>5. ASSUME NEW c \in Call, Moves(c) PROVE UNCHANGED <<batches, current>>
  BY <1>5, MovesTypes
<1>6. ASSUME NEW c \in Call, Ends(c) PROVE current'[Discarded] = r
  <2>1. current' = current
    BY <1>6, EndsTypes
  <2>2. CASE r # c[2] \/ ~IsBatch(r)
    <3>1. batches'[r] = batches[r]
      BY <1>6, <2>2, EndsTypes
    <3> QED BY <1>0, <2>1, <3>1 DEF IsBatch
  <2>3. CASE r = c[2] /\ IsBatch(r)
    <3>1. batches'[r].key = batches[r].key /\ batches'[r].done = batches[r].done
      BY <1>6, <2>3, EndsTypes
    <3> QED BY <1>0, <2>1, <2>3, <3>1
  <2> QED BY <2>2, <2>3
<1>7. ASSUME NEW q \in Request, Settle(q) PROVE current'[Discarded] = r
  <2>1. current' = current
    BY <1>7, SettleTypes
  <2>2. CASE r = q
    <3>1. batches'[r] = [batches[r] EXCEPT !.done = TRUE] /\ batches[r] \in Status
      BY <1>7, <2>2, SettleTypes
    <3>2. batches'[r].done
      BY <3>1 DEF Status
    <3> QED BY <3>2
  <2>3. CASE r # q
    <3>1. batches'[r] = batches[r]
      BY <1>7, <2>3, SettleTypes
    <3> QED BY <1>0, <2>1, <3>1 DEF IsBatch
  <2> QED BY <2>2, <2>3
<1>8. CASE UNCHANGED vars
  BY <1>1, <1>8 DEF vars
<1> QED BY <1>1, <1>2, <1>3, <1>4, <1>5, <1>6, <1>7, <1>8, Shapes

(* At most one batch of discarded pages is under way, and it is the one the client
   polls: the 409 of recover_discarded_batch, taken without an await before the
   new record, suffices. *)
THEOREM OneBatchOfDiscarded == Spec => []OneDiscardedBatch
<1>1. Init => OneDiscardedBatch
  BY DEF Init, OneDiscardedBatch, IsBatch
<1> QED BY <1>1, OneDiscardedBatchKept, BatchTypeCorrect, PTL DEF Spec

-----------------------------------------------------------------------------
(* Status records: what they count and when they are done. *)

Made(q) == {x \in Target : pc[<<x, q>>] # "none"}
EndedOf(q) == {x \in Target : pc[<<x, q>>] = "ended"}

\* A request that was not made has neither calls nor a record.
Unmade ==
  \A q \in Request : q > requests =>
    batches[q] = NoBatch /\ \A x \in Target : pc[<<x, q>>] = "none"

\* A record counts the calls of its request, and is done after the last.
Counted ==
  \A q \in Request : IsBatch(q) =>
    /\ batches[q].total = Cardinality(Made(q))
    /\ batches[q].recovered + batches[q].failed = Cardinality(EndedOf(q))
    /\ batches[q].done => AllEnded(q)

RecordInv == TypeOK /\ Unmade /\ Counted

LEMMA UnmadeKept == RecordInv /\ [Next]_vars => Unmade'
<1> SUFFICES ASSUME RecordInv, [Next]_vars, NEW r \in Request, r > requests'
             PROVE  batches'[r] = NoBatch /\ \A x \in Target : pc'[<<x, r>>] = "none"
  BY DEF Unmade
<1>0. TypeOK /\ requests \in Nat /\ r \in Nat
  BY BatchAssumption DEF RecordInv, TypeOK, Request
<1>1. r > requests => batches[r] = NoBatch /\ \A x \in Target : pc[<<x, r>>] = "none"
  BY DEF RecordInv, Unmade
<1>2. CASE UNCHANGED <<batches, pc, requests>>
  BY <1>1, <1>2
<1>3. ASSUME NEW targets \in SUBSET Target, Schedule(targets), batches'[r] = batches[r]
      PROVE  batches'[r] = NoBatch /\ \A x \in Target : pc'[<<x, r>>] = "none"
  BY <1>0, <1>1, <1>3, ScheduleTypes
<1>4. CASE OneCall
  BY <1>3, <1>4 DEF OneCall
<1>5. CASE BatchStarts
  <2>1. PICK k \in Key, targets \in SUBSET Target : StartBatch(k, targets)
    BY <1>5 DEF BatchStarts
  <2>2. batches'[r] = batches[r] /\ Schedule(targets)
    BY <1>0, <2>1, StartTypes
  <2> QED BY <1>3, <2>2
<1>6. CASE OutsideRecovery
  BY <1>2, <1>6 DEF OutsideRecovery
<1>7. ASSUME NEW c \in Call, Moves(c)
      PROVE  batches'[r] = NoBatch /\ \A x \in Target : pc'[<<x, r>>] = "none"
  <2>1. UNCHANGED <<batches, requests>> /\ pc[c] \in Busy
    BY <1>0, <1>7, MovesTypes
  <2>2. ASSUME NEW x \in Target PROVE pc'[<<x, r>>] = "none"
    <3>1. pc[<<x, r>>] = "none" /\ <<x, r>> \in Call
      BY <1>1, <2>1 DEF Call
    <3>2. <<x, r>> # c
      BY <2>1, <3>1 DEF Busy
    <3> QED BY <1>0, <1>7, <3>1, <3>2, MovesTypes
  <2> QED BY <1>1, <2>1, <2>2
<1>8. ASSUME NEW c \in Call, Ends(c)
      PROVE  batches'[r] = NoBatch /\ \A x \in Target : pc'[<<x, r>>] = "none"
  <2>1. /\ requests' = requests /\ c[1] \in Target /\ pc[<<c[1], c[2]>>] \in Busy
        /\ \A x \in Target, q \in Request :
             pc'[<<x, q>>] = IF x = c[1] /\ q = c[2] THEN "ended" ELSE pc[<<x, q>>]
    BY <1>0, <1>8, EndsTypes
  <2>2. batches[r] = NoBatch /\ \A x \in Target : pc[<<x, r>>] = "none"
    BY <1>1, <2>1
  <2>3. r # c[2]
    BY <2>1, <2>2 DEF Busy
  <2>4. batches'[r] = batches[r]
    BY <1>0, <1>8, <2>3, EndsTypes
  <2>5. \A x \in Target : pc'[<<x, r>>] = pc[<<x, r>>]
    BY <2>1, <2>3
  <2> QED BY <2>2, <2>4, <2>5
<1>9. ASSUME NEW q \in Request, Settle(q)
      PROVE  batches'[r] = NoBatch /\ \A x \in Target : pc'[<<x, r>>] = "none"
  <2>1. UNCHANGED <<pc, requests>> /\ IsBatch(q)
    BY <1>0, <1>9, SettleTypes
  <2>2. batches[r] = NoBatch /\ \A x \in Target : pc[<<x, r>>] = "none"
    BY <1>1, <2>1
  <2>3. r # q
    BY <2>2, <2>1 DEF IsBatch
  <2>4. batches'[r] = batches[r]
    BY <1>0, <1>9, <2>3, SettleTypes
  <2> QED BY <2>1, <2>2, <2>4
<1>10. CASE UNCHANGED vars
  BY <1>2, <1>10 DEF vars
<1> QED BY <1>0, <1>2, <1>4, <1>5, <1>6, <1>7, <1>8, <1>9, <1>10, Shapes

\* How the calls of a request are counted.
LEMMA MadeFinite ==
  ASSUME NEW q \in Request
  PROVE  IsFiniteSet(Made(q)) /\ IsFiniteSet(EndedOf(q))
BY TargetsFinite, FS_Subset DEF Made, EndedOf

LEMMA CountedKept == RecordInv /\ [Next]_vars => Counted'
<1> DEFINE CountedOne(q) ==
      IsBatch(q) =>
        /\ batches[q].total = Cardinality(Made(q))
        /\ batches[q].recovered + batches[q].failed = Cardinality(EndedOf(q))
        /\ batches[q].done => AllEnded(q)
<1> SUFFICES ASSUME RecordInv, [Next]_vars, NEW r \in Request PROVE CountedOne(r)'
  BY DEF Counted
<1>0. TypeOK /\ CountedOne(r) /\ requests \in Nat /\ r \in Nat
  BY BatchAssumption DEF RecordInv, TypeOK, Counted, Request
\* What leaves the record and the calls of r alone.
<1>1. ASSUME batches'[r] = batches[r], \A x \in Target : pc'[<<x, r>>] = pc[<<x, r>>]
      PROVE  CountedOne(r)'
  <2>1. Made(r)' = Made(r) /\ EndedOf(r)' = EndedOf(r) /\ (AllEnded(r)' <=> AllEnded(r))
    BY <1>1 DEF Made, EndedOf, AllEnded
  <2>2. IsBatch(r)' <=> IsBatch(r)
    BY <1>1 DEF IsBatch
  <2> QED BY <1>0, <1>1, <2>1, <2>2
<1>2. CASE OneCall
  <2>1. PICK x \in Target : Schedule({x}) /\ UNCHANGED <<batches, current>>
    BY <1>2 DEF OneCall
  <2>2. requests' = requests + 1
    BY <1>0, <2>1, ScheduleTypes
  <2>3. CASE r = requests'
    <3>1. batches[r] = NoBatch
      BY <1>0, <2>2, <2>3 DEF RecordInv, Unmade
    <3> QED BY <2>1, <3>1 DEF IsBatch
  <2>4. CASE r # requests'
    <3>1. \A y \in Target : pc'[<<y, r>>] = pc[<<y, r>>]
      BY <1>0, <2>1, <2>4, ScheduleTypes
    <3> QED BY <1>1, <2>1, <3>1
  <2> QED BY <2>3, <2>4
<1>3. CASE BatchStarts
  <2>1. PICK k \in Key, targets \in SUBSET Target : StartBatch(k, targets)
    BY <1>3 DEF BatchStarts
  <2>2. /\ requests' = requests + 1
        /\ \A x \in Target, q \in Request :
             pc'[<<x, q>>] = IF x \in targets /\ q = requests' THEN "scheduled" ELSE pc[<<x, q>>]
    BY <1>0, <2>1, StartTypes, ScheduleTypes
  <2>3. CASE r = requests'
    <3>1. \A x \in Target : pc[<<x, r>>] = "none"
      BY <1>0, <2>2, <2>3 DEF RecordInv, Unmade
    <3>2. \A x \in Target : pc'[<<x, r>>] = IF x \in targets THEN "scheduled" ELSE "none"
      BY <2>2, <2>3, <3>1
    <3>3. Made(r)' = targets /\ EndedOf(r)' = {}
      BY <3>2 DEF Made, EndedOf
    <3>4. /\ batches'[r].total = Cardinality(targets) /\ ~batches'[r].done
          /\ batches'[r].recovered = 0 /\ batches'[r].failed = 0
      BY <1>0, <2>1, <2>3, StartTypes
    <3> QED BY <3>3, <3>4, FS_EmptySet
  <2>4. CASE r # requests'
    <3>1. \A x \in Target : pc'[<<x, r>>] = pc[<<x, r>>]
      BY <2>2, <2>4
    <3>2. batches'[r] = batches[r]
      BY <1>0, <2>1, <2>4, StartTypes
    <3> QED BY <1>1, <3>1, <3>2
  <2> QED BY <2>3, <2>4
<1>4. CASE OutsideRecovery
  BY <1>1, <1>4 DEF OutsideRecovery
<1>5. ASSUME NEW c \in Call, Moves(c) PROVE CountedOne(r)'
  <2>1. batches'[r] = batches[r]
    BY <1>0, <1>5, MovesTypes
  <2>2. PICK to \in {"reading", "waiting", "seeing"} :
          \A d \in Call : pc'[d] = IF d = c THEN to ELSE pc[d]
    BY <1>0, <1>5, MovesTypes
  <2>3. pc[c] \in Busy
    BY <1>0, <1>5, MovesTypes
  <2>4. \A x \in Target : <<x, r>> \in Call
    BY DEF Call
  <2>5. Made(r)' = Made(r) /\ EndedOf(r)' = EndedOf(r)
    BY <2>2, <2>3, <2>4 DEF Made, EndedOf, Busy
  <2>6. AllEnded(r) => AllEnded(r)'
    BY <2>2, <2>3, <2>4 DEF AllEnded, Busy
  <2> QED BY <1>0, <2>1, <2>5, <2>6 DEF IsBatch
<1>6. ASSUME NEW c \in Call, Ends(c) PROVE CountedOne(r)'
  <2>1. /\ c[1] \in Target /\ c[2] \in Request /\ pc[<<c[1], c[2]>>] \in Busy
        /\ \A x \in Target, q \in Request :
             pc'[<<x, q>>] = IF x = c[1] /\ q = c[2] THEN "ended" ELSE pc[<<x, q>>]
    BY <1>0, <1>6, EndsTypes
  <2>2. CASE r # c[2]
    <3>1. batches'[r] = batches[r]
      BY <1>0, <1>6, <2>2, EndsTypes
    <3>2. \A x \in Target : pc'[<<x, r>>] = pc[<<x, r>>]
      BY <2>1, <2>2
    <3> QED BY <1>1, <3>1, <3>2
  <2>3. CASE r = c[2] /\ ~IsBatch(r)
    <3>1. batches'[r] = batches[r]
      BY <1>0, <1>6, <2>3, EndsTypes
    <3> QED BY <2>3, <3>1 DEF IsBatch
  \* One more call has ended, and one more is counted.
  <2>4. CASE r = c[2] /\ IsBatch(r)
    <3>1. /\ batches'[r].done = batches[r].done /\ batches'[r].total = batches[r].total
          /\ batches'[r].recovered + batches'[r].failed
               = batches[r].recovered + batches[r].failed + 1
      BY <1>0, <1>6, <2>4, EndsTypes
    <3>2. pc[<<c[1], r>>] \in Busy
      BY <2>1, <2>4
    <3>3. \A x \in Target : pc'[<<x, r>>] = IF x = c[1] THEN "ended" ELSE pc[<<x, r>>]
      BY <2>1, <2>4
    <3>4. Made(r)' = Made(r)
      BY <2>1, <3>2, <3>3 DEF Made, Busy
    <3>5. EndedOf(r)' = EndedOf(r) \cup {c[1]} /\ c[1] \notin EndedOf(r)
      BY <2>1, <3>2, <3>3 DEF EndedOf, Busy
    <3>6. Cardinality(EndedOf(r)') = Cardinality(EndedOf(r)) + 1
      BY <3>5, MadeFinite, FS_AddElement
    <3>7. ~batches[r].done
      BY <1>0, <2>1, <2>4, <3>2 DEF AllEnded, Busy
    <3> QED BY <1>0, <2>4, <3>1, <3>4, <3>6, <3>7
  <2> QED BY <2>2, <2>3, <2>4
<1>7. ASSUME NEW q \in Request, Settle(q) PROVE CountedOne(r)'
  <2>1. /\ pc' = pc /\ AllEnded(q) /\ IsBatch(q)
        /\ batches[q] \in Status /\ batches'[q] = [batches[q] EXCEPT !.done = TRUE]
    BY <1>0, <1>7, SettleTypes
  <2>2. CASE r # q
    <3>1. batches'[r] = batches[r]
      BY <1>0, <1>7, <2>2, SettleTypes
    <3> QED BY <1>1, <2>1, <3>1
  <2>3. CASE r = q
    <3>1. /\ batches'[r].total = batches[r].total
          /\ batches'[r].recovered = batches[r].recovered
          /\ batches'[r].failed = batches[r].failed
      BY <2>1, <2>3 DEF Status
    <3>2. Made(r)' = Made(r) /\ EndedOf(r)' = EndedOf(r) /\ AllEnded(r)'
      BY <2>1, <2>3 DEF Made, EndedOf, AllEnded
    <3> QED BY <1>0, <2>1, <2>3, <3>1, <3>2
  <2> QED BY <2>2, <2>3
<1>8. CASE UNCHANGED vars
  BY <1>1, <1>8 DEF vars
<1> QED BY <1>0, <1>2, <1>3, <1>4, <1>5, <1>6, <1>7, <1>8, Shapes

LEMMA RecordInvHolds == Spec => []RecordInv
<1>1. Init => RecordInv
  <2> SUFFICES ASSUME Init PROVE RecordInv
    OBVIOUS
  <2>1. Unmade
    BY DEF Init, Unmade, Call
  <2>2. Counted
    BY DEF Init, Counted, IsBatch
  <2> QED BY <2>1, <2>2, TypesInitially DEF RecordInv
<1>2. RecordInv /\ [Next]_vars => RecordInv'
  BY TypesKept, UnmadeKept, CountedKept DEF RecordInv
<1> QED BY <1>1, <1>2, PTL DEF Spec

(* A batch that says it is done has counted each target once, whichever of its
   calls failed or raised. *)
THEOREM CountersAlwaysAddUp == Spec => []CountersAddUp
<1>1. RecordInv => CountersAddUp
  <2> SUFFICES ASSUME RecordInv, NEW q \in Request, IsBatch(q), batches[q].done
               PROVE  batches[q].recovered + batches[q].failed = batches[q].total
    BY DEF CountersAddUp
  <2>1. AllEnded(q)
    BY DEF RecordInv, Counted
  <2>2. EndedOf(q) = Made(q)
    BY <2>1 DEF AllEnded, EndedOf, Made
  <2> QED BY <2>2 DEF RecordInv, Counted
<1> QED BY <1>1, RecordInvHolds, PTL

(* A status that says done never changes again: no call of a done batch is left
   to count, and no later request takes its record over. *)
THEOREM DoneStaysFinal == Spec => DoneIsFinal
<1> DEFINE Final == \A q \in Request : IsBatch(q) /\ batches[q].done => batches'[q] = batches[q]
<1>1. RecordInv /\ [Next]_vars => Final
  <2> SUFFICES ASSUME RecordInv, [Next]_vars, NEW r \in Request, IsBatch(r), batches[r].done
               PROVE  batches'[r] = batches[r]
    OBVIOUS
  <2>0. TypeOK /\ AllEnded(r)
    BY DEF RecordInv, Counted
  <2>1. CASE BatchStarts
    <3>1. PICK k \in Key, targets \in SUBSET Target : StartBatch(k, targets)
      BY <2>1 DEF BatchStarts
    <3>2. requests' = requests + 1 /\ requests \in Nat
      BY <2>0, <3>1, StartTypes, BatchAssumption DEF TypeOK
    <3>3. r # requests'
      BY <3>2 DEF RecordInv, Unmade, IsBatch
    <3> QED BY <2>0, <3>1, <3>3, StartTypes
  <2>2. ASSUME NEW c \in Call, Moves(c) PROVE batches'[r] = batches[r]
    BY <2>0, <2>2, MovesTypes
  <2>3. ASSUME NEW c \in Call, Ends(c) PROVE batches'[r] = batches[r]
    <3>1. c[1] \in Target /\ pc[<<c[1], c[2]>>] \in Busy
      BY <2>0, <2>3, EndsTypes
    <3>2. r # c[2]
      BY <2>0, <3>1 DEF AllEnded, Busy
    <3>3. \A q \in Request : q # c[2] \/ ~IsBatch(q) => batches'[q] = batches[q]
      BY <2>0, <2>3, EndsTypes
    <3> HIDE <2>3
    <3> QED BY <3>2, <3>3
  <2>4. ASSUME NEW q \in Request, Settle(q) PROVE batches'[r] = batches[r]
    <3>1. ~batches[q].done
      BY <2>0, <2>4, SettleTypes
    <3>2. r # q
      BY <3>1
    <3> QED BY <2>0, <2>4, <3>2, SettleTypes
  <2> QED BY <2>0, <2>1, <2>2, <2>3, <2>4, Shapes DEF OneCall, OutsideRecovery, vars
<1>2. Final => [\A q \in Request : IsBatch(q) /\ batches[q].done => batches'[q] = batches[q]]_vars
  OBVIOUS
<1> QED BY <1>1, RecordInvHolds, PTL DEF Spec, DoneIsFinal
-----------------------------------------------------------------------------
(* The vision slots. *)

LEMMA SeeingFinite == IsFiniteSet(Seeing) /\ Cardinality(Seeing) \in Nat
BY CallsFinite, FS_Subset, FS_CardinalityType DEF Seeing

LEMMA SlotsAddUpKept == RecordInv /\ SlotsAddUp /\ [Next]_vars => SlotsAddUp'
<1> SUFFICES ASSUME RecordInv, SlotsAddUp, [Next]_vars PROVE SlotsAddUp'
  OBVIOUS
<1>0. TypeOK /\ slots \in Nat /\ slots + Cardinality(Seeing) = MaxConcurrency
  BY DEF RecordInv, TypeOK, SlotsAddUp
<1>1. ASSUME UNCHANGED slots, \A c \in Call : pc'[c] = "seeing" <=> pc[c] = "seeing"
      PROVE  SlotsAddUp'
  <2>1. Seeing' = Seeing
    BY <1>1 DEF Seeing
  <2> QED BY <1>0, <1>1, <2>1 DEF SlotsAddUp
<1>2. CASE UNCHANGED <<pc, slots>>
  BY <1>1, <1>2
\* The calls of a new request did not exist, and see nothing yet.
<1>3. ASSUME NEW targets \in SUBSET Target, Schedule(targets) PROVE SlotsAddUp'
  <2>1. /\ requests' \in Request /\ requests' = requests + 1 /\ requests \in Nat
        /\ \A x \in Target, q \in Request :
             pc'[<<x, q>>] = IF x \in targets /\ q = requests' THEN "scheduled" ELSE pc[<<x, q>>]
    BY <1>0, <1>3, ScheduleTypes, BatchAssumption DEF TypeOK
  <2>2. \A x \in Target : pc[<<x, requests'>>] = "none"
    BY <2>1 DEF RecordInv, Unmade
  <2>3. ASSUME NEW x \in Target, NEW q \in Request
        PROVE  pc'[<<x, q>>] = "seeing" <=> pc[<<x, q>>] = "seeing"
    BY <2>1, <2>2
  <2>4. \A c \in Call : pc'[c] = "seeing" <=> pc[c] = "seeing"
    BY <2>3 DEF Call
  <2> QED BY <1>1, <1>3, <2>4 DEF Schedule
<1>4. CASE OneCall
  BY <1>3, <1>4 DEF OneCall
<1>5. CASE BatchStarts
  BY <1>3, <1>5 DEF BatchStarts, StartBatch
<1>6. CASE OutsideRecovery
  BY <1>2, <1>6 DEF OutsideRecovery
<1>7. ASSUME NEW c \in Call, Moves(c) PROVE SlotsAddUp'
  <2>1. PICK to \in {"reading", "waiting", "seeing"} :
          /\ to = "seeing" => slots > 0
          /\ slots' = IF to = "seeing" THEN slots - 1 ELSE slots
          /\ \A d \in Call : pc'[d] = IF d = c THEN to ELSE pc[d]
    BY <1>0, <1>7, MovesTypes
  <2>2. pc[c] # "seeing"
    BY <1>0, <1>7, MovesTypes
  <2>3. CASE to # "seeing"
    BY <1>1, <2>1, <2>2, <2>3
  \* The call takes a slot and is the one more that sees.
  <2>4. CASE to = "seeing"
    <3>1. Seeing' = Seeing \cup {c} /\ c \notin Seeing
      BY <2>1, <2>2, <2>4 DEF Seeing
    <3>2. Cardinality(Seeing') = Cardinality(Seeing) + 1
      BY <3>1, SeeingFinite, FS_AddElement
    <3>3. slots' = slots - 1
      BY <2>1, <2>4
    <3> QED BY <1>0, <3>2, <3>3, SeeingFinite DEF SlotsAddUp
  <2> QED BY <2>3, <2>4
<1>8. ASSUME NEW c \in Call, Ends(c) PROVE SlotsAddUp'
  <2>0. slots' = IF pc[c] = "seeing" THEN slots + 1 ELSE slots
    BY <1>8 DEF Ends
  <2>1. /\ c = <<c[1], c[2]>>
        /\ \A x \in Target, q \in Request :
             pc'[<<x, q>>] = IF x = c[1] /\ q = c[2] THEN "ended" ELSE pc[<<x, q>>]
    BY <1>0, <1>8, EndsTypes
  <2>2. ASSUME NEW d \in Call PROVE pc'[d] = IF d = c THEN "ended" ELSE pc[d]
    <3>1. d = <<d[1], d[2]>> /\ d[1] \in Target /\ d[2] \in Request
      BY DEF Call
    <3>2. pc'[<<d[1], d[2]>>] = IF d[1] = c[1] /\ d[2] = c[2] THEN "ended" ELSE pc[<<d[1], d[2]>>]
      BY <2>1, <3>1
    <3>3. d = c <=> d[1] = c[1] /\ d[2] = c[2]
      BY <2>1, <3>1
    <3> HIDE <2>1
    <3> QED BY <3>1, <3>2, <3>3
  <2>3. CASE pc[c] # "seeing"
    BY <1>1, <2>0, <2>2, <2>3
  \* The call gives its slot back.
  <2>4. CASE pc[c] = "seeing"
    <3>1. Seeing' = Seeing \ {c} /\ c \in Seeing
      BY <2>2, <2>4 DEF Seeing
    <3>2. Cardinality(Seeing') = Cardinality(Seeing) - 1
      BY <3>1, SeeingFinite, FS_RemoveElement
    <3>3. slots' = slots + 1
      BY <2>0, <2>4
    <3> QED BY <1>0, <3>2, <3>3, SeeingFinite DEF SlotsAddUp
  <2> QED BY <2>3, <2>4
<1>9. ASSUME NEW q \in Request, Settle(q) PROVE UNCHANGED <<pc, slots>>
  BY <1>0, <1>9, SettleTypes
<1>10. CASE UNCHANGED vars
  BY <1>2, <1>10 DEF vars
<1> QED BY <1>0, <1>2, <1>4, <1>5, <1>6, <1>7, <1>8, <1>9, <1>10, Shapes

(* No vision slot is lost or given back twice, however many requests and batches
   share the semaphore of ReprocessService and whichever way each call leaves it. *)
THEOREM SlotsAlwaysAddUp == Spec => []SlotsAddUp
<1>1. Init => SlotsAddUp
  <2> SUFFICES ASSUME Init PROVE SlotsAddUp
    OBVIOUS
  <2>1. Seeing = {}
    BY DEF Init, Seeing
  <2>2. Cardinality(Seeing) = 0 /\ slots = MaxConcurrency
    BY <2>1, FS_EmptySet DEF Init
  <2> QED BY <2>2, BatchAssumption DEF SlotsAddUp
<1> QED BY <1>1, SlotsAddUpKept, RecordInvHolds, PTL DEF Spec

(* So vision has at most MaxConcurrency calls at a time. *)
COROLLARY VisionStaysBounded == Spec => [](Cardinality(Seeing) <= MaxConcurrency)
<1>1. RecordInv /\ SlotsAddUp => Cardinality(Seeing) <= MaxConcurrency
  BY SeeingFinite DEF RecordInv, TypeOK, SlotsAddUp
<1> QED BY <1>1, RecordInvHolds, SlotsAlwaysAddUp, PTL
=============================================================================
