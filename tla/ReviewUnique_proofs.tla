------------------------ MODULE ReviewUnique_proofs ------------------------
(***************************************************************************)
(* What the review keeps whatever the threads, the event loop, the crashes *)
(* and the replays do, though the threads lock nothing and may install     *)
(* lists they copied long ago: no guía is ever listed again, a page that   *)
(* was dropped is in the trail, and until the process first dies the file  *)
(* holds a beginning of the trail.                                         *)
(*                                                                         *)
(* The argument for the first: the cache may list a guía once per block,   *)
(* and each block keeps its position for ever.  The guía of a page gets    *)
(* its position once, from the only task that recovers the page while it   *)
(* is discarded.  A position is "claimed" by the list in memory, by a new  *)
(* list not yet installed, and by the lookup of a call in progress; no     *)
(* step ever makes two claims of one guía disagree unless both are blocks  *)
(* of the cache, so no list holds a guía once more than the cache does.    *)
(* For the others: the trail only grows while the process lives, so every  *)
(* snapshot of it still to be written is a beginning.                      *)
(***************************************************************************)
EXTENDS ReviewService_proofs

Held == {"checked", "copied", "dropping", "filtered", "reconciling", "computed",
         "recording", "snapshotting", "writing"}
PageEvent(a) == frame[a].event.kind = "recovered_discarded_page"

\* A task inside its commit holds the loop; only tasks recover pages; while
\* the process is down or replaying nobody calls.
LoopHeld == \A c \in Tasks : pc[c] \in Held => loop = c
PagesOnLoop == \A a \in Actors : PageEvent(a) => a \in Tasks
IdleWhenDown == mode # "serving" => \A a \in Actors : pc[a] = "idle"
ControlInv == LoopHeld /\ PagesOnLoop /\ IdleWhenDown

\* Guía id is, will be, or was found, at position n.
Claims(id, n) ==
  \/ n \in DOMAIN guias /\ guias[n].guia_id = id
  \/ \E a \in Actors :
       pc[a] = "copied" /\ n \in DOMAIN frame[a].list /\ frame[a].list[n].guia_id = id
  \/ \E a \in Actors :
       pc[a] = "checked" /\ n # 0 /\ frame[a].at = n /\ frame[a].event.guia_id = id

\* Two claims of one guía agree, or both are of blocks of the cache.
OnePlace ==
  \A id \in GuiaId, m, n \in Nat :
    Claims(id, m) /\ Claims(id, n) => m = n \/ {m, n} \subseteq DOMAIN CachedGuias
CachedPlace ==
  \A id \in GuiaId, n \in DOMAIN CachedGuias : Claims(id, n) => id = CachedGuias[n].guia_id
LongEnough ==
  /\ Len(guias) >= Len(CachedGuias)
  /\ \A a \in Actors : pc[a] = "copied" => Len(frame[a].list) >= Len(CachedGuias)

\* A discarded page has no guía yet, unless its task is between the copy of
\* the list and the removal of the page.
PageFresh ==
  \A p \in discarded :
    \/ \A n \in Nat : ~Claims(RecoveredId(p), n)
    \/ \E c \in Tasks :
         pc[c] \in {"copied", "dropping"} /\ PageEvent(c) /\ frame[c].event.page = p
PageHeld ==
  \A c \in Tasks :
    pc[c] \in {"checked", "copied", "dropping"} /\ PageEvent(c)
      => frame[c].event.page \in discarded

\* What a call that passed its checks knows.
CopyNamed ==
  \A a \in Actors :
    pc[a] = "checked" =>
      /\ frame[a].event.kind # "retry_attempted"
      /\ ~PageEvent(a) => frame[a].at # 0
      /\ frame[a].event.kind \in Positional
           => frame[a].changed.guia_id = frame[a].event.guia_id

PlaceInv == OnePlace /\ CachedPlace /\ LongEnough /\ PageFresh /\ PageHeld /\ CopyNamed

-----------------------------------------------------------------------------
(* Control *)

LEMMA InitControl == Init => ControlInv
BY DEF Init, ControlInv, LoopHeld, PagesOnLoop, IdleWhenDown, PageEvent, EmptyFrame, NoEvent,
       Held, Actors

LEMMA ReceiveControl ==
  ASSUME TypeInv, ControlInv, NEW a \in Actors, NEW e \in Event,
         e.kind = "recovered_discarded_page" => a \in Tasks,
         NEW to \in {"outside", "ready"}, Receive(a, to, e)
  PROVE  ControlInv'
<1>1. pc' = [pc EXCEPT ![a] = to] /\ frame' = [frame EXCEPT ![a].event = e] /\ loop' = loop
  BY DEF Receive, Goto
<1>2. mode = "serving" /\ mode' = "serving"
  BY DEF Receive, MayRun
<1>3. LoopHeld'
  BY <1>1 DEF ControlInv, LoopHeld, Held, TypeInv, TypeOK, Actors
<1>4. PagesOnLoop'
  BY <1>1 DEF ControlInv, PagesOnLoop, PageEvent, TypeInv, TypeOK, Frame
<1> QED
  BY <1>2, <1>3, <1>4 DEF ControlInv, IdleWhenDown

LEMMA RequestsControl ==
  ASSUME TypeInv, ControlInv,
         \/ \E t \in Threads : OperatorRequest(t) \/ RetryRequest(t)
         \/ \E c \in Tasks : ReprocessRequest(c) \/ PageRequest(c)
  PROVE  ControlInv'
<1>1. ASSUME NEW t \in Threads, OperatorRequest(t) PROVE ControlInv'
  <2>1. PICK e \in Edits : Receive(t, "ready", e)
    BY <1>1 DEF OperatorRequest
  <2>2. e \in Event /\ e.kind # "recovered_discarded_page"
    BY ActorsAssumption DEF Event, OperatorEdit, FieldEdit, LineEdit, Correction, Reassignment
  <2> QED
    BY <2>1, <2>2, ReceiveControl DEF Actors
<1>2. ASSUME NEW t \in Threads, RetryRequest(t) PROVE ControlInv'
  <2>1. PICK x \in errored : Receive(t, "outside", RecoveredFrom(x.guia_id, "qr", SunatFecha))
    BY <1>2 DEF RetryRequest
  <2>2. /\ RecoveredFrom(x.guia_id, "qr", SunatFecha) \in Event
        /\ RecoveredFrom(x.guia_id, "qr", SunatFecha).kind # "recovered_discarded_page"
    BY RequestTypes, ActorsAssumption DEF Source, Event, RecoveredFrom
  <2> QED
    BY <2>1, <2>2, ReceiveControl DEF Actors
<1>3. ASSUME NEW c \in Tasks, ReprocessRequest(c) PROVE ControlInv'
  <2>1. PICK x \in errored : Receive(c, "outside", RecoveredFrom(x.guia_id, "vision", None))
    BY <1>3 DEF ReprocessRequest
  <2>2. RecoveredFrom(x.guia_id, "vision", None) \in Event
    BY RequestTypes DEF Source, Event
  <2> QED
    BY <2>1, <2>2, ReceiveControl DEF Actors
<1>4. ASSUME NEW c \in Tasks, PageRequest(c) PROVE ControlInv'
  <2>1. PICK e \in RecoveredPage : Receive(c, "outside", e)
    BY <1>4, RequestTypes DEF PageRequest
  <2> QED
    BY <2>1, ReceiveControl DEF Actors, Event
<1> QED
  BY <1>1, <1>2, <1>3, <1>4

\* Inside a call: the event keeps its kind, or becomes a failed retry.
LEMMA InnerControl ==
  ASSUME TypeInv, ControlInv, NEW a \in Actors, Check(a) \/ CopyGuias(a) \/ InnerStep(a)
  PROVE  ControlInv'
<1> USE DEF TypeInv, TypeOK, ControlInv
<1>1. mode = "serving" /\ mode' = mode
  BY DEF Check, CopyGuias, InnerStep, MayRun, Answered, RetryUnanswered, AssignGuias,
         FilterErrored, AssignErrored, DropPage, ReadGuias, AssignRows, RecordEvent, SnapshotTrail
<1>2. /\ \A b \in Actors \ {a} : pc'[b] = pc[b] /\ frame'[b].event = frame[b].event
      /\ frame'[a].event.kind \in {frame[a].event.kind, "retry_attempted"}
  <2>1. CASE Check(a)
    <3>1. \A b \in Actors \ {a} : pc'[b] = pc[b] /\ frame'[b] = frame[b]
      BY <2>1 DEF Check, Goto
    <3>2. frame[a] \in Frame
      OBVIOUS
    <3>3. frame'[a].event = frame[a].event
      BY <2>1, <3>2 DEF Check, Frame
    <3> QED
      BY <3>1, <3>3
  <2>2. CASE CopyGuias(a)
    <3>1. /\ frame'[a].event = Recorded(guias, frame[a].event)
          /\ \A b \in Actors \ {a} : pc'[b] = pc[b] /\ frame'[b] = frame[b]
      BY <2>2 DEF CopyGuias, Goto, Frame
    <3>2. frame[a].event \in Event
      BY <2>2 DEF CopyGuias, Goto, BusyHasEvent
    <3> QED
      BY <3>1, <3>2, RecordedType
  <2>3. CASE Answered(a) \/ RetryUnanswered(a)
    BY <2>3 DEF Answered, RetryUnanswered, Goto, Frame
  <2>4. CASE AssignGuias(a) \/ AssignErrored(a) \/ DropPage(a) \/ AssignRows(a) \/ RecordEvent(a)
    BY <2>4 DEF AssignGuias, AssignErrored, DropPage, AssignRows, RecordEvent, Goto
  <2>5. CASE FilterErrored(a) \/ ReadGuias(a) \/ SnapshotTrail(a)
    <3>1. frame[a] \in Frame
      OBVIOUS
    <3>2. CASE FilterErrored(a)
      BY <3>1, <3>2 DEF FilterErrored, Goto, Frame
    <3>3. CASE ReadGuias(a)
      BY <3>1, <3>3 DEF ReadGuias, Goto, Frame
    <3>4. CASE SnapshotTrail(a)
      BY <3>1, <3>4 DEF SnapshotTrail, Goto, Frame
    <3> QED
      BY <2>5, <3>2, <3>3, <3>4
  <2> QED
    BY <2>1, <2>2, <2>3, <2>4, <2>5 DEF InnerStep
<1>3. PagesOnLoop'
  BY <1>2 DEF PagesOnLoop, PageEvent
<1>4. CASE Check(a)
  <2>1. CASE a \in Threads
    <3>1. \A c \in Tasks : c \in Actors \ {a}
      BY <2>1, ActorsAssumption DEF Actors
    <3>2. loop' = loop
      BY <1>4, <2>1, ActorsAssumption DEF Check
    <3>3. LoopHeld'
      BY <1>2, <3>1, <3>2 DEF LoopHeld
    <3> QED
      BY <1>1, <1>3, <3>3 DEF IdleWhenDown
  <2>2. CASE a \in Tasks
    <3>1. \A c \in Tasks : c # a => pc'[c] \notin Held
      BY <1>2, <1>4, <2>2, ActorsAssumption DEF Check, MayRun, LoopHeld, Actors
    <3>2. loop' = a
      BY <1>4, <2>2 DEF Check
    <3> QED
      BY <1>1, <1>3, <3>1, <3>2 DEF LoopHeld, IdleWhenDown
  <2> QED
    BY <2>1, <2>2 DEF Actors
<1>5. CASE CopyGuias(a) \/ InnerStep(a)
  <2>1. loop' = loop
    <3>1. CASE CopyGuias(a) \/ Answered(a) \/ RetryUnanswered(a) \/ AssignGuias(a)
      BY <3>1 DEF CopyGuias, Answered, RetryUnanswered, AssignGuias
    <3>2. CASE FilterErrored(a) \/ AssignErrored(a) \/ DropPage(a) \/ ReadGuias(a)
      BY <3>2 DEF FilterErrored, AssignErrored, DropPage, ReadGuias
    <3>3. CASE AssignRows(a) \/ RecordEvent(a) \/ SnapshotTrail(a)
      BY <3>3 DEF AssignRows, RecordEvent, SnapshotTrail
    <3> QED
      BY <1>5, <3>1, <3>2, <3>3 DEF InnerStep
  <2>2. pc[a] \in Held \/ pc'[a] \notin Held
    BY <1>5 DEF CopyGuias, InnerStep, Answered, RetryUnanswered, AssignGuias, FilterErrored,
                AssignErrored, DropPage, ReadGuias, AssignRows, RecordEvent, SnapshotTrail,
                Goto, Held
  <2> QED
    BY <1>1, <1>2, <1>3, <2>1, <2>2 DEF LoopHeld, IdleWhenDown, Actors
<1> QED
  BY <1>4, <1>5

LEMMA EndingControl ==
  ASSUME TypeInv, ControlInv, NEW a \in Actors, EndingStep(a)
  PROVE  ControlInv'
<1>1. mode = "serving" /\ mode' = mode /\ Return(a)
  BY DEF EndingStep, RecoveryUnanswered, Refuse, CopyOutOfRange, WriteSidecar, WriteFails, MayRun
<1> QED
  BY <1>1 DEF ControlInv, LoopHeld, PagesOnLoop, IdleWhenDown, PageEvent, Return, EmptyFrame,
              NoEvent, Held, TypeInv, TypeOK, Actors

LEMMA NextControl == TypeInv /\ ControlInv /\ [Next]_vars => ControlInv'
<1> SUFFICES ASSUME TypeInv, ControlInv, [Next]_vars PROVE ControlInv'
  OBVIOUS
<1>1. CASE UNCHANGED vars
  BY <1>1 DEF vars, actors, ControlInv, LoopHeld, PagesOnLoop, IdleWhenDown, PageEvent
<1>2. ASSUME NEW a \in Actors, Commit(a) PROVE ControlInv'
  BY <1>2, CommitSteps, InnerControl, EndingControl
<1>3. ASSUME NEW t \in Threads, ThreadStep(t) PROVE ControlInv'
  <2>1. Commit(t) \/ InnerStep(t)
    BY <1>3 DEF ThreadStep, InnerStep
  <2> QED
    BY <1>2, <2>1, InnerControl DEF Actors
<1>4. ASSUME NEW c \in Tasks, TaskStep(c) PROVE ControlInv'
  <2>1. Commit(c) \/ InnerStep(c) \/ EndingStep(c)
    BY <1>4 DEF TaskStep, InnerStep, EndingStep
  <2> QED
    BY <1>2, <2>1, InnerControl, EndingControl DEF Actors
<1>5. CASE Crash \/ ReplayFails
  <2>1. Forget
    BY <1>5 DEF Crash, ReplayFails
  <2> QED
    BY <2>1 DEF Forget, ControlInv, LoopHeld, PagesOnLoop, IdleWhenDown, PageEvent, EmptyFrame,
                NoEvent, Held, Actors
<1>6. CASE Hydrate \/ ReplayEvent
  BY <1>6 DEF Hydrate, ReplayEvent, actors, ControlInv, LoopHeld, PagesOnLoop, IdleWhenDown,
              PageEvent
<1> QED
  BY <1>1, <1>3, <1>4, <1>5, <1>6, RequestsControl DEF Next

-----------------------------------------------------------------------------
(* Places *)

LEMMA CachedIds ==
  /\ CachedGuias \in Seq(GuiaRecord)
  /\ \A i \in DOMAIN CachedGuias : CachedGuias[i].guia_id \in GuiaId
  /\ \A p \in Page, i \in DOMAIN CachedGuias : CachedGuias[i].guia_id # RecoveredId(p)
BY ConstantsAssumption DEF GuiaId

LEMMA InitPlaces == Init => PlaceInv
<1> SUFFICES ASSUME Init PROVE PlaceInv
  OBVIOUS
<1>1. \A id, n : Claims(id, n) => n \in DOMAIN CachedGuias /\ CachedGuias[n].guia_id = id
  BY DEF Claims, Init
<1>2. OnePlace
  BY <1>1 DEF OnePlace
<1>3. CachedPlace
  BY <1>1 DEF CachedPlace
<1>4. LongEnough
  BY CachedIds DEF LongEnough, Init
<1>5. PageFresh
  BY <1>1, CachedIds DEF PageFresh, Init
<1>6. PageHeld /\ CopyNamed
  BY DEF PageHeld, CopyNamed, Init, Actors
<1> QED
  BY <1>2, <1>3, <1>4, <1>5, <1>6 DEF PlaceInv

\* A step that makes no new claim keeps every place.
LEMMA FewerClaims ==
  ASSUME PlaceInv, \A id \in GuiaId, n \in Nat : Claims(id, n)' => Claims(id, n)
  PROVE  OnePlace' /\ CachedPlace'
<1>1. DOMAIN CachedGuias \subseteq Nat
  BY CachedIds
<1> QED
  BY <1>1 DEF PlaceInv, OnePlace, CachedPlace

\* A step of a that touches neither the guías nor the discarded pages, and
\* leaves a where it claims nothing.
LEMMA QuietPlaces ==
  ASSUME TypeInv, PlaceInv, NEW a \in Actors, NEW X, NEW F,
         guias' = guias, discarded' = discarded,
         pc' = [pc EXCEPT ![a] = X], frame' = [frame EXCEPT ![a] = F],
         X \notin {"checked", "copied", "dropping"},
         pc[a] \in {"copied", "dropping"} => ~PageEvent(a)
  PROVE  PlaceInv'
<1>1. /\ \A b \in Actors \ {a} : pc'[b] = pc[b] /\ frame'[b] = frame[b]
      /\ pc'[a] = X
  BY DEF TypeInv, TypeOK
<1>2. \A b \in Actors : pc'[b] \in {"checked", "copied", "dropping"}
                          => b # a /\ pc'[b] = pc[b] /\ frame'[b] = frame[b]
  BY <1>1
<1>3. \A id, n : Claims(id, n)' => Claims(id, n)
  BY <1>2 DEF Claims
<1>4. OnePlace' /\ CachedPlace'
  BY <1>3, FewerClaims
<1>5. LongEnough'
  BY <1>2 DEF PlaceInv, LongEnough
<1>6. PageFresh'
  <2>1. ASSUME NEW p \in discarded, NEW c \in Tasks,
               pc[c] \in {"copied", "dropping"}, PageEvent(c), frame[c].event.page = p
        PROVE  pc'[c] = pc[c] /\ frame'[c] = frame[c]
    BY <1>1, <2>1 DEF Actors
  <2> QED
    BY <1>3, <2>1 DEF PlaceInv, PageFresh, PageEvent
<1>7. PageHeld' /\ CopyNamed'
  BY <1>2 DEF PlaceInv, PageHeld, CopyNamed, PageEvent, Actors
<1> QED
  BY <1>4, <1>5, <1>6, <1>7 DEF PlaceInv

\* Looking a guía up claims the place where it was found.
LEMMA CheckPlaces ==
  ASSUME TypeInv, ControlInv, PlaceInv, NEW a \in Actors, Check(a)
  PROVE  PlaceInv'
<1> DEFINE e == frame[a].event
           at == FindGuia(guias, e.guia_id)
<1>1. e \in Event /\ pc[a] = "ready" /\ guias \in Seq(GuiaRecord) /\ frame[a] \in Frame
  BY DEF Check, Goto, TypeInv, TypeOK, BusyHasEvent
<1>2. guias' = guias /\ discarded' = discarded /\ State.guias = guias
      /\ State.discarded = discarded
  BY DEF Check, service, State
<1>3. CASE e.kind = "retry_attempted"
  <2> DEFINE F == [frame[a] EXCEPT !.marks = ErroredAfter(errored, e)]
  <2>1. pc' = [pc EXCEPT ![a] = "filtered"] /\ frame' = [frame EXCEPT ![a] = F]
    BY <1>3 DEF Check, Goto, TypeInv, TypeOK
  <2> HIDE DEF F
  <2> QED
    BY <1>1, <1>2, <2>1, QuietPlaces
<1>4. CASE e.kind # "retry_attempted"
  <2>1. /\ pc' = [pc EXCEPT ![a] = "checked"]
        /\ frame'[a].event = e /\ frame'[a].at = at
        /\ e.kind \in Positional => frame'[a].changed = Edited(guias[at], e)
        /\ \A b \in Actors \ {a} : pc'[b] = pc[b] /\ frame'[b] = frame[b]
        /\ pc'[a] = "checked"
    BY <1>1, <1>4 DEF Check, Goto, TypeInv, TypeOK, Frame, Positional
  <2>2. at # 0 => at \in DOMAIN guias /\ guias[at].guia_id = e.guia_id
    BY <1>1, FindGuiaFinds
  <2>3. \A id, n : Claims(id, n)' => Claims(id, n)
    <3> HIDE DEF e, at
    <3> QED
      BY <1>2, <2>1, <2>2 DEF Claims
  <2>4. OnePlace' /\ CachedPlace'
    BY <2>3, FewerClaims
  <2>5. LongEnough'
    BY <1>2, <2>1 DEF PlaceInv, LongEnough
  <2>6. PageFresh'
    <3>1. ASSUME NEW c \in Tasks, pc[c] \in {"copied", "dropping"}
          PROVE  pc'[c] = pc[c] /\ frame'[c] = frame[c]
      BY <1>1, <2>1, <3>1 DEF Actors
    <3> QED
      BY <1>2, <2>3, <3>1 DEF PlaceInv, PageFresh, PageEvent
  <2>7. PageHeld'
    <3>1. PageEvent(a) => e.page \in discarded
      BY <1>2 DEF Check, NoOp, PageEvent
    <3> QED
      BY <1>2, <2>1, <3>1 DEF PlaceInv, PageHeld, PageEvent, Actors
  <2>8. CopyNamed'
    <3>1. ~PageEvent(a) => at # 0
      <4>1. CASE e \in OperatorEdit
        BY <1>1, <1>2, <4>1, AcceptedFinds DEF Check
      <4>2. CASE e \in RecoveredGuia
        <5>1. PICK i \in DOMAIN CachedGuias : CachedGuias[i].guia_id = e.guia_id
          BY <4>2 DEF RecoveredGuia, CachedId
        <5>2. i \in DOMAIN guias
          BY <1>1, <5>1, CachedIds DEF PlaceInv, LongEnough
        <5>3. guias[i] \in GuiaRecord /\ i \in Nat
          BY <1>1, <5>2
        <5>4. Claims(guias[i].guia_id, i) /\ guias[i].guia_id \in GuiaId
          BY <5>2, <5>3 DEF Claims, GuiaRecord
        <5>5. guias[i].guia_id = e.guia_id
          BY <5>1, <5>4 DEF PlaceInv, CachedPlace
        <5> QED
          BY <1>1, <5>2, <5>5, FindGuiaFinds
      <4> QED
        BY <1>1, <1>4, <4>1, <4>2 DEF Event, PageEvent, RecoveredPage, RetryAttempted
    <3>2. e.kind \in Positional => Edited(guias[at], e).guia_id = e.guia_id
      <4>1. e.kind \in Positional => e \in OperatorEdit
        BY <1>1, KindOfEvent DEF Positional
      <4> QED
        BY <1>1, <1>2, <4>1, AcceptedFinds DEF Check
    <3> HIDE DEF e, at
    <3>3. frame'[a].event.kind # "retry_attempted"
      BY <1>4, <2>1
    <3> QED
      BY <2>1, <3>1, <3>2, <3>3 DEF PlaceInv, CopyNamed, PageEvent, e
  <2> QED
    BY <2>4, <2>5, <2>6, <2>7, <2>8 DEF PlaceInv
<1> QED
  BY <1>3, <1>4

\* Replacing, at a place where a guía was found, that guía by one of its name
\* keeps the ids of a list; appending adds one place.
LEMMA PlacedNames ==
  ASSUME NEW gs \in Seq(GuiaRecord), NEW at \in Nat, NEW changed, NEW e \in Event,
         e.kind \in Positional => changed \in GuiaRecord /\ changed.guia_id = e.guia_id,
         e.kind \in Positional \cup {"recovered_guia"} => at \in DOMAIN gs,
         e.kind # "retry_attempted"
  PROVE  LET new == Placed(gs, at, changed, e)
         IN  /\ new \in Seq(GuiaRecord)
             /\ Len(new) >= Len(gs)
             /\ e.kind \in Positional \cup {"recovered_guia"} =>
                  \A n \in DOMAIN new :
                    n \in DOMAIN gs /\ new[n].guia_id = IF n = at THEN e.guia_id ELSE gs[n].guia_id
             /\ e.kind = "reassignment" =>
                  \A n \in DOMAIN new : n \in DOMAIN gs /\ new[n].guia_id = gs[n].guia_id
             /\ e.kind = "recovered_discarded_page" =>
                  \A n \in DOMAIN new :
                    \/ n \in DOMAIN gs /\ new[n].guia_id = gs[n].guia_id
                    \/ n = Len(gs) + 1 /\ new[n].guia_id = e.guia_id
<1> DEFINE new == Placed(gs, at, changed, e)
<1>1. CASE e.kind \in Positional
  <2>1. new = [gs EXCEPT ![at] = changed]
    BY <1>1 DEF Placed, Positional
  <2> QED
    BY <1>1, <2>1, ReplaceType DEF Positional
<1>2. CASE e.kind = "recovered_guia"
  <2>1. e.guia \in GuiaRecord /\ e.guia.guia_id = e.guia_id
    BY <1>2, KindOfEvent DEF RecoveredGuia
  <2>2. at \in DOMAIN gs /\ at # 0
    BY <1>2
  <2>3. new = [gs EXCEPT ![at] = e.guia]
    BY <1>2, <2>2 DEF Placed
  <2> QED
    BY <1>2, <2>1, <2>2, <2>3, ReplaceType DEF Positional
<1>3. CASE e.kind = "reassignment"
  <2>1. \A i \in DOMAIN gs : /\ Edited(gs[i], e) \in GuiaRecord
                             /\ Edited(gs[i], e).guia_id = gs[i].guia_id
    BY <1>3, KindOfEvent, EditedType
  <2>2. new = [i \in DOMAIN gs |-> IF gs[i].guia_id = e.guia_id THEN Edited(gs[i], e) ELSE gs[i]]
    BY <1>3 DEF Placed
  <2>3. new \in Seq(GuiaRecord)
    BY <1>3, PlacedType
  <2>4. DOMAIN new = DOMAIN gs /\ \A n \in DOMAIN new : new[n].guia_id = gs[n].guia_id
    <3> HIDE DEF new
    <3> QED
      BY <2>1, <2>2
  <2>5. Len(new) = Len(gs)
    <3> HIDE DEF new
    <3> QED
      BY <2>3, <2>4
  <2> QED
    BY <1>3, <2>3, <2>4, <2>5 DEF Positional
<1>4. CASE e.kind = "recovered_discarded_page"
  <2>1. e.guia \in GuiaRecord /\ e.guia.guia_id = e.guia_id
    BY <1>4, KindOfEvent DEF RecoveredPage
  <2>2. new = Append(gs, e.guia)
    BY <1>4 DEF Placed
  <2> QED
    BY <1>4, <2>1, <2>2 DEF Positional
<1> QED
  BY <1>1, <1>2, <1>3, <1>4, KindOfEvent DEF Event, OperatorEdit, FieldEdit, LineEdit,
     Correction, Reassignment, RecoveredGuia, RecoveredPage, RetryAttempted, Positional

\* Copying the list claims nothing new, except for the guía of a page, which
\* nobody claimed and which goes to the end.
LEMMA CopyPlaces ==
  ASSUME TypeInv, ControlInv, PlaceInv, NEW a \in Actors, CopyGuias(a)
  PROVE  PlaceInv'
<1> DEFINE e == Recorded(guias, frame[a].event)
           at == frame[a].at
           new == Placed(guias, at, frame[a].changed, e)
<1>1. /\ frame[a].event \in Event /\ pc[a] = "checked" /\ at \in Nat
      /\ guias \in Seq(GuiaRecord)
  BY DEF CopyGuias, Goto, TypeInv, TypeOK, BusyHasEvent, Frame
<1>2. /\ e \in Event /\ e.kind = frame[a].event.kind /\ e.guia_id = frame[a].event.guia_id
      /\ e.kind # "recovered_guia" => e = frame[a].event
  BY <1>1, RecordedType
<1>3. /\ guias' = guias /\ discarded' = discarded
      /\ pc'[a] = "copied" /\ frame'[a].event = e /\ frame'[a].list = new
      /\ \A b \in Actors \ {a} : pc'[b] = pc[b] /\ frame'[b] = frame[b]
  BY DEF CopyGuias, Goto, service, TypeInv, TypeOK, Frame
<1>4. /\ e.kind # "retry_attempted"
      /\ e.kind # "recovered_discarded_page" => at # 0
      /\ e.kind \in Positional => /\ frame[a].changed \in GuiaRecord
                                  /\ frame[a].changed.guia_id = e.guia_id
  BY <1>1, <1>2 DEF PlaceInv, CopyNamed, PageEvent, TypeInv, HoldsCopy
<1>5. e.kind \in Positional \cup {"recovered_guia"} => at \in DOMAIN guias
  BY <1>1, <1>2, <1>4 DEF CopyGuias, StalePosition, Positional
<1>6. /\ new \in Seq(GuiaRecord)
      /\ Len(new) >= Len(guias)
      /\ e.kind \in Positional \cup {"recovered_guia"} =>
           \A n \in DOMAIN new :
             n \in DOMAIN guias
               /\ new[n].guia_id = IF n = at THEN e.guia_id ELSE guias[n].guia_id
      /\ e.kind = "reassignment" =>
           \A n \in DOMAIN new : n \in DOMAIN guias /\ new[n].guia_id = guias[n].guia_id
      /\ e.kind = "recovered_discarded_page" =>
           \A n \in DOMAIN new :
             \/ n \in DOMAIN guias /\ new[n].guia_id = guias[n].guia_id
             \/ n = Len(guias) + 1 /\ new[n].guia_id = e.guia_id
  BY <1>1, <1>2, <1>4, <1>5, PlacedNames
<1>7. e.kind \in Positional \cup {"recovered_guia", "reassignment", "recovered_discarded_page"}
  BY <1>2, <1>4 DEF Event, OperatorEdit, FieldEdit, LineEdit, Correction, Reassignment,
                    RecoveredGuia, RecoveredPage, RetryAttempted, Positional
<1> HIDE DEF e, at, new
<1>8. at # 0 => Claims(e.guia_id, at)
  BY <1>1, <1>2 DEF Claims, at
<1>9. LongEnough'
  <2>1. Len(guias) >= Len(CachedGuias) /\ Len(new) \in Nat /\ Len(guias) \in Nat
        /\ Len(CachedGuias) \in Nat
    BY <1>1, <1>6, CachedIds DEF PlaceInv, LongEnough
  <2>2. Len(new) >= Len(CachedGuias)
    BY <1>6, <2>1
  <2> QED
    BY <1>3, <2>2 DEF PlaceInv, LongEnough
<1>10. PageHeld' /\ CopyNamed'
  <2>1. PageEvent(a)' => PageEvent(a) /\ frame'[a].event = frame[a].event
    BY <1>2, <1>3 DEF PageEvent
  <2> QED
    BY <1>1, <1>3, <2>1 DEF PlaceInv, PageHeld, CopyNamed, PageEvent, Actors
<1>11. ASSUME NEW c \in Tasks, pc[c] \in {"copied", "dropping"}
       PROVE  pc'[c] = pc[c] /\ frame'[c] = frame[c]
  BY <1>1, <1>3, <1>11 DEF Actors
<1>12. CASE e.kind # "recovered_discarded_page"
  <2>1. \A id, n : Claims(id, n)' => Claims(id, n)
    <3>1. \A n \in DOMAIN new : Claims(new[n].guia_id, n)
      BY <1>6, <1>7, <1>8, <1>5, <1>12, CachedIds DEF Claims
    <3> QED
      BY <1>3, <3>1 DEF Claims
  <2>2. OnePlace' /\ CachedPlace'
    BY <2>1, FewerClaims
  <2>3. PageFresh'
    BY <1>3, <1>11, <2>1 DEF PlaceInv, PageFresh, PageEvent
  <2> QED
    BY <1>9, <1>10, <2>2, <2>3 DEF PlaceInv
<1>13. CASE e.kind = "recovered_discarded_page"
  <2>1. /\ a \in Tasks /\ loop = a /\ e = frame[a].event /\ PageEvent(a)
    BY <1>1, <1>2, <1>13 DEF ControlInv, PagesOnLoop, LoopHeld, PageEvent, Held
  <2>2. e.page \in discarded /\ e.guia_id = RecoveredId(e.page) /\ e.guia_id \in GuiaId
    BY <1>1, <1>2, <1>13, <2>1, KindOfEvent DEF PlaceInv, PageHeld, RecoveredPage
  <2>3. \A n \in Nat : ~Claims(e.guia_id, n)
    <3>1. \A c \in Tasks : pc[c] \notin {"copied", "dropping"}
      BY <1>1, <2>1 DEF ControlInv, LoopHeld, Held
    <3> QED
      BY <2>2, <3>1 DEF PlaceInv, PageFresh
  <2>4. \A id, n : Claims(id, n)' =>
          Claims(id, n) \/ (id = e.guia_id /\ n = Len(guias) + 1)
    BY <1>3, <1>6, <1>13 DEF Claims
  <2>5. OnePlace'
    BY <2>3, <2>4 DEF PlaceInv, OnePlace
  <2>6. CachedPlace'
    <3>1. Len(guias) + 1 \notin DOMAIN CachedGuias
      BY <1>1, CachedIds DEF PlaceInv, LongEnough
    <3> QED
      BY <2>4, <3>1 DEF PlaceInv, CachedPlace
  <2>7. PageFresh'
    <3>1. ASSUME NEW p \in discarded, p # e.page
          PROVE  \/ \A n \in Nat : ~Claims(RecoveredId(p), n)'
                 \/ \E c \in Tasks : /\ pc'[c] \in {"copied", "dropping"} /\ PageEvent(c)'
                                     /\ frame'[c].event.page = p
      <4>1. RecoveredId(p) # e.guia_id
        BY <2>2, <3>1 DEF RecoveredId
      <4> QED
        BY <1>11, <2>4, <4>1 DEF PlaceInv, PageFresh, PageEvent
    <3>2. pc'[a] = "copied" /\ PageEvent(a)' /\ frame'[a].event.page = e.page
      BY <1>3, <1>13 DEF PageEvent
    <3> QED
      BY <1>3, <2>1, <3>1, <3>2 DEF PageFresh
  <2> QED
    BY <1>9, <1>10, <2>5, <2>6, <2>7 DEF PlaceInv
<1> QED
  BY <1>12, <1>13

\* Installing the copied list claims nothing new: what it lacks is lost.
LEMMA AssignPlaces ==
  ASSUME TypeInv, PlaceInv, NEW a \in Actors, AssignGuias(a)
  PROVE  PlaceInv'
<1>1. /\ pc[a] = "copied" /\ guias' = frame[a].list /\ frame' = frame
      /\ discarded' = discarded
      /\ pc'[a] \in {"dropping", "reconciling"}
      /\ PageEvent(a) => pc'[a] = "dropping"
      /\ \A b \in Actors \ {a} : pc'[b] = pc[b]
  BY DEF AssignGuias, Goto, TypeInv, TypeOK, PageEvent
<1>2. \A id, n : Claims(id, n)' => Claims(id, n)
  BY <1>1 DEF Claims
<1>3. OnePlace' /\ CachedPlace'
  BY <1>2, FewerClaims
<1>4. LongEnough'
  BY <1>1 DEF PlaceInv, LongEnough
<1>5. PageFresh'
  BY <1>1, <1>2 DEF PlaceInv, PageFresh, PageEvent, Actors
<1>6. PageHeld' /\ CopyNamed'
  BY <1>1 DEF PlaceInv, PageHeld, CopyNamed, PageEvent, Actors
<1> QED
  BY <1>3, <1>4, <1>5, <1>6 DEF PlaceInv

\* Only now may the page be forgotten: its guía has its place.
LEMMA DropPlaces ==
  ASSUME TypeInv, ControlInv, PlaceInv, NEW a \in Actors, DropPage(a)
  PROVE  PlaceInv'
<1>1. /\ pc[a] = "dropping" /\ guias' = guias /\ frame' = frame
      /\ discarded' = discarded \ {frame[a].event.page}
      /\ PageEvent(a) /\ pc'[a] = "reconciling"
      /\ \A b \in Actors \ {a} : pc'[b] = pc[b]
  BY DEF DropPage, DiscardedAfter, Goto, TypeInv, TypeOK, PageEvent
<1>2. a \in Tasks /\ \A c \in Tasks \ {a} : pc[c] \notin {"checked", "copied", "dropping"}
  BY <1>1 DEF ControlInv, PagesOnLoop, LoopHeld, Held
<1>3. \A id, n : Claims(id, n)' => Claims(id, n)
  BY <1>1 DEF Claims
<1>4. OnePlace' /\ CachedPlace'
  BY <1>3, FewerClaims
<1>5. LongEnough'
  BY <1>1 DEF PlaceInv, LongEnough
<1>6. PageFresh'
  BY <1>1, <1>2, <1>3 DEF PlaceInv, PageFresh, PageEvent, Actors
<1>7. PageHeld' /\ CopyNamed'
  BY <1>1, <1>2 DEF PlaceInv, PageHeld, CopyNamed, PageEvent, Actors
<1> QED
  BY <1>4, <1>5, <1>6, <1>7 DEF PlaceInv

\* The steps that touch neither guías nor discarded pages.
LEMMA InnerPlaces ==
  ASSUME TypeInv, ControlInv, PlaceInv, NEW a \in Actors, InnerStep(a)
  PROVE  PlaceInv'
<1> USE DEF TypeInv, TypeOK, Goto, service
<1>1. CASE AssignGuias(a)
  BY <1>1, AssignPlaces
<1>2. CASE DropPage(a)
  BY <1>2, DropPlaces
<1>3. CASE Answered(a)
  <2>1. pc' = [pc EXCEPT ![a] = "ready"] /\ frame' = [frame EXCEPT ![a] = frame[a]]
    BY <1>3 DEF Answered
  <2> QED
    BY <1>3, <2>1, QuietPlaces DEF Answered
<1>4. CASE RetryUnanswered(a)
  <2> DEFINE F == [frame[a] EXCEPT !.event =
                     [kind |-> "retry_attempted", guia_id |-> frame[a].event.guia_id]]
  <2>1. pc' = [pc EXCEPT ![a] = "ready"] /\ frame' = [frame EXCEPT ![a] = F]
    BY <1>4 DEF RetryUnanswered
  <2> HIDE DEF F
  <2> QED
    BY <1>4, <2>1, QuietPlaces DEF RetryUnanswered
<1>5. CASE FilterErrored(a)
  <2> DEFINE F == [frame[a] EXCEPT !.marks = ErroredAfter(errored, frame[a].event)]
  <2>1. pc' = [pc EXCEPT ![a] = "filtered"] /\ frame' = [frame EXCEPT ![a] = F]
    BY <1>5 DEF FilterErrored
  <2> HIDE DEF F
  <2> QED
    <3>1. guias' = guias /\ discarded' = discarded /\ ~PageEvent(a)
      BY <1>5 DEF FilterErrored, PageEvent
    <3> QED
      BY <2>1, <3>1, QuietPlaces
<1>6. CASE AssignErrored(a)
  <2> DEFINE X == IF frame[a].event.kind = "retry_attempted" THEN "recording" ELSE "reconciling"
  <2>1. pc' = [pc EXCEPT ![a] = X] /\ frame' = [frame EXCEPT ![a] = frame[a]]
    BY <1>6 DEF AssignErrored
  <2>2. X \notin {"checked", "copied", "dropping"}
    OBVIOUS
  <2>3. guias' = guias /\ discarded' = discarded /\ pc[a] = "filtered"
    BY <1>6 DEF AssignErrored
  <2> HIDE DEF X
  <2> QED
    BY <2>1, <2>2, <2>3, QuietPlaces
<1>7. CASE ReadGuias(a)
  <2> DEFINE F == [frame[a] EXCEPT !.list = guias]
  <2>1. pc' = [pc EXCEPT ![a] = "computed"] /\ frame' = [frame EXCEPT ![a] = F]
    BY <1>7 DEF ReadGuias
  <2> HIDE DEF F
  <2> QED
    BY <1>7, <2>1, QuietPlaces DEF ReadGuias
<1>8. CASE AssignRows(a)
  <2>1. pc' = [pc EXCEPT ![a] = "recording"] /\ frame' = [frame EXCEPT ![a] = frame[a]]
    BY <1>8 DEF AssignRows
  <2> QED
    BY <1>8, <2>1, QuietPlaces DEF AssignRows
<1>9. CASE RecordEvent(a)
  <2>1. pc' = [pc EXCEPT ![a] = "snapshotting"] /\ frame' = [frame EXCEPT ![a] = frame[a]]
    BY <1>9 DEF RecordEvent
  <2> QED
    BY <1>9, <2>1, QuietPlaces DEF RecordEvent
<1>10. CASE SnapshotTrail(a)
  <2> DEFINE F == [frame[a] EXCEPT !.saved = trail]
  <2>1. pc' = [pc EXCEPT ![a] = "writing"] /\ frame' = [frame EXCEPT ![a] = F]
    BY <1>10 DEF SnapshotTrail
  <2> HIDE DEF F
  <2> QED
    BY <1>10, <2>1, QuietPlaces DEF SnapshotTrail
<1> QED
  BY <1>1, <1>2, <1>3, <1>4, <1>5, <1>6, <1>7, <1>8, <1>9, <1>10 DEF InnerStep

LEMMA EndingPlaces ==
  ASSUME TypeInv, PlaceInv, NEW a \in Actors, EndingStep(a)
  PROVE  PlaceInv'
<1>1. guias' = guias /\ discarded' = discarded /\ Return(a)
      /\ pc[a] \notin {"copied", "dropping"}
  BY DEF EndingStep, RecoveryUnanswered, Refuse, CopyOutOfRange, WriteSidecar, WriteFails, service
<1> QED
  BY <1>1, QuietPlaces DEF Return

LEMMA ReceivePlaces ==
  ASSUME TypeInv, PlaceInv, NEW a \in Actors, NEW e, NEW to \in {"outside", "ready"},
         Receive(a, to, e)
  PROVE  PlaceInv'
<1> DEFINE F == [frame[a] EXCEPT !.event = e]
<1>1. /\ guias' = guias /\ discarded' = discarded /\ pc[a] = "idle"
      /\ pc' = [pc EXCEPT ![a] = to] /\ frame' = [frame EXCEPT ![a] = F]
  BY DEF Receive, Goto, service, TypeInv, TypeOK
<1> HIDE DEF F
<1> QED
  BY <1>1, QuietPlaces

\* Replayed from the cache, a trail puts every guía in one place again.
LEMMA ReplayPlaces ==
  ASSUME TypeInv, ControlInv, PlaceInv, ReplayEvent
  PROVE  PlaceInv'
<1> DEFINE e == Head(replay)
           at == FindGuia(guias, e.guia_id)
           ev == Recorded(guias, e)
           changed == Edited(guias[at], e)
           new == Placed(guias, at, changed, ev)
<1>1. /\ mode = "replaying" /\ UNCHANGED <<pc, frame>>
      /\ guias' = Applied(State, e).guias /\ discarded' = Applied(State, e).discarded
  BY DEF ReplayEvent, actors
<1>2. \A a \in Actors : pc[a] = "idle" /\ pc'[a] = "idle"
  BY <1>1 DEF ControlInv, IdleWhenDown
<1>3. \A id, n : /\ Claims(id, n) <=> n \in DOMAIN guias /\ guias[n].guia_id = id
                 /\ Claims(id, n)' <=> n \in DOMAIN guias' /\ guias'[n].guia_id = id
  BY <1>2 DEF Claims
<1>4. PageHeld' /\ CopyNamed'
  BY <1>2 DEF PageHeld, CopyNamed, Actors
<1>5. \A p \in discarded, n \in Nat : ~Claims(RecoveredId(p), n)
  BY <1>2 DEF PlaceInv, PageFresh, Actors
<1>6. guias \in Seq(GuiaRecord) /\ e \in Event /\ State.guias = guias
      /\ State.discarded = discarded
  BY <1>1 DEF TypeInv, TypeOK, ReplayPending, State
<1>7. CASE Rejected(State, e) \/ NoOp(State, e)
  <2>1. guias' = guias /\ discarded' = discarded
    BY <1>1, <1>7 DEF Applied, State
  <2>2. \A id, n : Claims(id, n)' => Claims(id, n)
    BY <1>3, <2>1
  <2> QED
    BY <1>2, <1>4, <1>5, <2>1, <2>2, FewerClaims DEF PlaceInv, LongEnough, PageFresh
<1>8. CASE ~Rejected(State, e) /\ ~NoOp(State, e)
  <2>1. guias' = new /\ discarded' = DiscardedAfter(discarded, ev)
    BY <1>1, <1>6, <1>8 DEF Applied
  <2>2. ev \in Event /\ ev.kind = e.kind /\ ev.guia_id = e.guia_id
        /\ (e.kind # "recovered_guia" => ev = e)
    BY <1>6, RecordedType
  <2>3. at \in Nat /\ (at # 0 => at \in DOMAIN guias /\ guias[at].guia_id = e.guia_id)
    BY <1>6, FindGuiaFinds
  <2>4. e \in OperatorEdit => /\ at \in DOMAIN guias
                              /\ changed \in GuiaRecord
                              /\ changed.guia_id = e.guia_id
    BY <1>6, <1>8, AcceptedFinds
  <2>5. e.kind = "recovered_guia" => at \in DOMAIN guias
    <3>1. SUFFICES ASSUME e \in RecoveredGuia PROVE at \in DOMAIN guias
      BY <1>6, KindOfEvent
    <3>2. PICK i \in DOMAIN CachedGuias : CachedGuias[i].guia_id = e.guia_id
      BY <3>1 DEF RecoveredGuia, CachedId
    <3>3. i \in DOMAIN guias
      BY <1>6, <3>2, CachedIds DEF PlaceInv, LongEnough
    <3>4. guias[i] \in GuiaRecord /\ i \in Nat
      BY <1>6, <3>3
    <3>5. Claims(guias[i].guia_id, i) /\ guias[i].guia_id \in GuiaId
      BY <3>3, <3>4 DEF Claims, GuiaRecord
    <3>6. guias[i].guia_id = e.guia_id
      BY <3>2, <3>5 DEF PlaceInv, CachedPlace
    <3>7. at # 0
      BY <1>6, <3>3, <3>6, FindGuiaFinds
    <3> QED
      BY <2>3, <3>7
  <2>6. e.kind \in Positional => e \in OperatorEdit
    BY <1>6, KindOfEvent DEF Positional
  <2> HIDE DEF e, at, ev, changed, new
  <2>7. CASE e.kind = "retry_attempted"
    <3>1. guias' = guias /\ discarded' = discarded
      BY <2>1, <2>2, <2>7 DEF Placed, DiscardedAfter, new
    <3>2. \A id, n : Claims(id, n)' => Claims(id, n)
      BY <1>3, <3>1
    <3> QED
      BY <1>2, <1>4, <1>5, <3>1, <3>2, FewerClaims DEF PlaceInv, LongEnough, PageFresh
  <2>8. CASE e.kind # "retry_attempted"
    <3>1. /\ new \in Seq(GuiaRecord)
          /\ Len(new) >= Len(guias)
          /\ e.kind \in Positional \cup {"recovered_guia"} =>
               \A n \in DOMAIN new :
                 n \in DOMAIN guias
                   /\ new[n].guia_id = IF n = at THEN e.guia_id ELSE guias[n].guia_id
          /\ e.kind = "reassignment" =>
               \A n \in DOMAIN new : n \in DOMAIN guias /\ new[n].guia_id = guias[n].guia_id
          /\ e.kind = "recovered_discarded_page" =>
               \A n \in DOMAIN new :
                 \/ n \in DOMAIN guias /\ new[n].guia_id = guias[n].guia_id
                 \/ n = Len(guias) + 1 /\ new[n].guia_id = e.guia_id
      BY <1>6, <2>2, <2>3, <2>4, <2>5, <2>6, <2>8, PlacedNames DEF new
    <3>2. LongEnough'
      <4>1. Len(guias) >= Len(CachedGuias) /\ Len(new) \in Nat /\ Len(guias) \in Nat
            /\ Len(CachedGuias) \in Nat
        BY <1>6, <3>1, CachedIds DEF PlaceInv, LongEnough
      <4> QED
        BY <1>2, <2>1, <3>1, <4>1 DEF LongEnough
    <3>3. CASE e.kind # "recovered_discarded_page"
      <4>1. e.kind \in Positional \cup {"recovered_guia", "reassignment"}
        BY <1>6, <2>8, <3>3 DEF Event, OperatorEdit, FieldEdit, LineEdit, Correction,
           Reassignment, RecoveredGuia, RecoveredPage, RetryAttempted, Positional
      <4>2. at \in DOMAIN guias => at # 0
        BY <1>6
      <4>3. \A n \in DOMAIN new : n \in DOMAIN guias /\ new[n].guia_id = guias[n].guia_id
        BY <2>3, <2>4, <2>5, <2>6, <3>1, <4>1, <4>2
      <4>4. \A id, n : Claims(id, n)' => Claims(id, n)
        BY <1>3, <2>1, <4>3
      <4>5. discarded' = discarded
        BY <2>1, <2>2, <3>3 DEF DiscardedAfter
      <4> QED
        BY <1>4, <1>5, <3>2, <4>4, <4>5, FewerClaims DEF PlaceInv, PageFresh
    <3>4. CASE e.kind = "recovered_discarded_page"
      <4>1. /\ ev = e /\ e.guia_id = RecoveredId(e.page) /\ e.guia_id \in GuiaId
            /\ discarded' = discarded \ {e.page}
        BY <1>6, <2>1, <2>2, <3>4, KindOfEvent DEF RecoveredPage, DiscardedAfter
      <4>2. e.page \in discarded
        BY <1>6, <1>8, <3>4 DEF NoOp
      <4>3. \A n \in Nat : ~Claims(e.guia_id, n)
        BY <1>5, <4>1, <4>2
      <4>4. \A id, n : Claims(id, n)' =>
              Claims(id, n) \/ (id = e.guia_id /\ n = Len(guias) + 1)
        BY <1>3, <2>1, <3>1, <3>4
      <4>5. OnePlace'
        BY <4>3, <4>4 DEF PlaceInv, OnePlace
      <4>6. CachedPlace'
        <5>1. Len(guias) + 1 \notin DOMAIN CachedGuias
          BY <1>6, CachedIds DEF PlaceInv, LongEnough
        <5> QED
          BY <4>4, <5>1 DEF PlaceInv, CachedPlace
      <4>7. PageFresh'
        <5>1. \A p \in discarded' : RecoveredId(p) # e.guia_id
          BY <4>1 DEF RecoveredId
        <5> QED
          BY <1>5, <4>1, <4>4, <5>1 DEF PageFresh
      <4> QED
        BY <1>4, <3>2, <4>5, <4>6, <4>7 DEF PlaceInv
    <3> QED
      BY <3>3, <3>4
  <2> QED
    BY <2>7, <2>8
<1> QED
  BY <1>7, <1>8

LEMMA CrashPlaces ==
  ASSUME Crash \/ ReplayFails
  PROVE  PlaceInv'
<1>1. /\ guias' = CachedGuias /\ discarded' = Page
      /\ \A a \in Actors : pc'[a] = "idle"
  BY DEF Crash, ReplayFails, Forget
<1>2. \A id, n : Claims(id, n)' => n \in DOMAIN CachedGuias /\ CachedGuias[n].guia_id = id
  BY <1>1 DEF Claims
<1>3. OnePlace'
  BY <1>2 DEF OnePlace
<1>4. CachedPlace'
  BY <1>2 DEF CachedPlace
<1>5. LongEnough'
  BY <1>1, CachedIds DEF LongEnough
<1>6. PageFresh'
  BY <1>1, <1>2, CachedIds DEF PageFresh
<1>7. PageHeld' /\ CopyNamed'
  BY <1>1 DEF PageHeld, CopyNamed, Actors
<1> QED
  BY <1>3, <1>4, <1>5, <1>6, <1>7 DEF PlaceInv

LEMMA StutterPlaces ==
  ASSUME PlaceInv, UNCHANGED <<guias, discarded, pc, frame>>
  PROVE  PlaceInv'
<1>1. \A id, n : Claims(id, n)' <=> Claims(id, n)
  BY DEF Claims
<1>2. OnePlace' /\ CachedPlace'
  BY <1>1, FewerClaims
<1>3. LongEnough' /\ PageHeld' /\ CopyNamed'
  BY DEF PlaceInv, LongEnough, PageHeld, CopyNamed, PageEvent
<1>4. PageFresh'
  BY <1>1 DEF PlaceInv, PageFresh, PageEvent
<1> QED
  BY <1>2, <1>3, <1>4 DEF PlaceInv

LEMMA NextPlaces == TypeInv /\ ControlInv /\ PlaceInv /\ [Next]_vars => PlaceInv'
<1> SUFFICES ASSUME TypeInv, ControlInv, PlaceInv, [Next]_vars PROVE PlaceInv'
  OBVIOUS
<1>1. CASE UNCHANGED vars
  BY <1>1, StutterPlaces DEF vars, service, actors
<1>2. ASSUME NEW a \in Actors, Commit(a) PROVE PlaceInv'
  BY <1>2, CommitSteps, CheckPlaces, CopyPlaces, InnerPlaces, EndingPlaces
<1>3. ASSUME NEW t \in Threads, ThreadStep(t) PROVE PlaceInv'
  <2>1. Commit(t) \/ InnerStep(t)
    BY <1>3 DEF ThreadStep, InnerStep
  <2> QED
    BY <1>2, <2>1, InnerPlaces DEF Actors
<1>4. ASSUME NEW c \in Tasks, TaskStep(c) PROVE PlaceInv'
  <2>1. Commit(c) \/ InnerStep(c) \/ EndingStep(c)
    BY <1>4 DEF TaskStep, InnerStep, EndingStep
  <2> QED
    BY <1>2, <2>1, InnerPlaces, EndingPlaces DEF Actors
<1>5. ASSUME NEW t \in Threads, OperatorRequest(t) \/ RetryRequest(t) PROVE PlaceInv'
  BY <1>5, ReceivePlaces DEF OperatorRequest, RetryRequest, Actors
<1>6. ASSUME NEW c \in Tasks, ReprocessRequest(c) \/ PageRequest(c) PROVE PlaceInv'
  BY <1>6, ReceivePlaces DEF ReprocessRequest, PageRequest, Actors
<1>7. CASE Hydrate
  BY <1>7, StutterPlaces DEF Hydrate, service, actors
<1> QED
  BY <1>1, <1>3, <1>4, <1>5, <1>6, <1>7, CrashPlaces, ReplayPlaces DEF Next

-----------------------------------------------------------------------------

\* A second position of a guía would be a second claim; the blocks of the cache
\* claim theirs.
LEMMA PlacesNamed ==
  ASSUME TypeInv, PlaceInv
  PROVE  NothingListedAgain
<1>1. guias \in Seq(GuiaRecord)
  BY DEF TypeInv, TypeOK
<1>2. \A i \in DOMAIN guias :
        guias[i].guia_id \in GuiaId /\ i \in Nat /\ Claims(guias[i].guia_id, i)
  <2>1. \A i \in DOMAIN guias : guias[i] \in GuiaRecord /\ i \in Nat
    BY <1>1
  <2> QED
    BY <2>1 DEF Claims, GuiaRecord
<1>3. Len(guias) >= Len(CachedGuias)
  BY DEF PlaceInv, LongEnough
<1>4. DOMAIN CachedGuias \subseteq DOMAIN guias
  BY <1>1, <1>3, CachedIds
<1>5. \A i \in DOMAIN CachedGuias : guias[i].guia_id = CachedGuias[i].guia_id
  BY <1>2, <1>4 DEF PlaceInv, CachedPlace
<1>6. \A i, j \in DOMAIN guias :
        guias[i].guia_id = guias[j].guia_id => i = j \/ {i, j} \subseteq DOMAIN CachedGuias
  BY <1>2 DEF PlaceInv, OnePlace
<1> QED
  BY <1>3, <1>5, <1>6 DEF NothingListedAgain

\* No guía is ever listed once more than the cache lists it, so no quantity is
\* summed once more: the guards of add_recovered_guia and recover_discarded_page
\* suffice, though nothing locks the list against the threads, and whatever
\* guías the pipeline split into several blocks (review_service.py).
THEOREM NoGuiaListedAgain == Spec => []NothingListedAgain
<1>1. Init => TypeInv /\ ControlInv /\ PlaceInv
  BY InitType, InitControl, InitPlaces
<1>2. TypeInv /\ ControlInv /\ PlaceInv /\ [Next]_vars
        => (TypeInv /\ ControlInv /\ PlaceInv)'
  BY NextType, NextControl, NextPlaces
<1> QED
  BY <1>1, <1>2, PlacesNamed, PTL DEF Spec

-----------------------------------------------------------------------------
(* Dropped pages *)

LEMMA AppendIsLonger ==
  ASSUME NEW s \in Seq(Event), NEW e \in Event
  PROVE  /\ Append(s, e) \in Seq(Event) /\ Len(Append(s, e)) = Len(s) + 1
         /\ DOMAIN Append(s, e) = 1 .. Len(s) + 1
         /\ Len(s) + 1 \in DOMAIN Append(s, e) /\ Append(s, e)[Len(s) + 1] = e
         /\ \A i \in DOMAIN s : i \in DOMAIN Append(s, e) /\ Append(s, e)[i] = s[i]
<1>1. /\ Append(s, e) \in Seq(Event) /\ Len(Append(s, e)) = Len(s) + 1
      /\ Len(s) \in Nat /\ DOMAIN s = 1 .. Len(s)
  BY AppendProperties
<1>2. DOMAIN Append(s, e) = 1 .. Len(Append(s, e))
  BY <1>1
<1> QED
  BY <1>1, <1>2

\* A step that leaves the trail and the discarded pages alone, and no recovery
\* between the removal of its page and its event.
LEMMA DroppedKept ==
  ASSUME DroppedPageIsRecorded,
         discarded' = discarded, trail' = trail,
         \A c \in Tasks :
           pc[c] \in {"reconciling", "computed", "recording"} =>
             /\ pc'[c] \in {"reconciling", "computed", "recording"}
             /\ frame'[c].event = frame[c].event
  PROVE  DroppedPageIsRecorded'
BY DEF DroppedPageIsRecorded

\* The event of a recovery follows its page: only RecordEvent ends the wait.
LEMMA ActorDropped ==
  ASSUME TypeInv, ControlInv, DroppedPageIsRecorded, NEW a \in Actors,
         Check(a) \/ CopyGuias(a) \/ InnerStep(a) \/ EndingStep(a)
  PROVE  DroppedPageIsRecorded'
<1> USE DEF TypeInv, TypeOK
<1>1. CASE Check(a) \/ CopyGuias(a)
  <2>1. /\ discarded' = discarded /\ trail' = trail /\ pc[a] \in {"ready", "checked"}
        /\ \A b \in Actors \ {a} : pc'[b] = pc[b] /\ frame'[b] = frame[b]
    BY <1>1 DEF Check, CopyGuias, Goto, service
  <2> QED
    BY <2>1, DroppedKept DEF Actors
<1>2. CASE Answered(a) \/ RetryUnanswered(a) \/ FilterErrored(a) \/ SnapshotTrail(a)
  <2>1. /\ discarded' = discarded /\ trail' = trail
        /\ pc[a] \in {"outside", "dropping", "snapshotting"}
        /\ \A b \in Actors \ {a} : pc'[b] = pc[b] /\ frame'[b] = frame[b]
    BY <1>2 DEF Answered, RetryUnanswered, FilterErrored, SnapshotTrail, Goto, service
  <2> QED
    BY <2>1, DroppedKept DEF Actors
<1>3. CASE AssignGuias(a) \/ AssignErrored(a)
  <2>1. /\ discarded' = discarded /\ trail' = trail
        /\ pc[a] \in {"copied", "filtered"} /\ frame' = frame
        /\ \A b \in Actors \ {a} : pc'[b] = pc[b]
    BY <1>3 DEF AssignGuias, AssignErrored, Goto
  <2> QED
    BY <2>1, DroppedKept DEF Actors
<1>4. CASE ReadGuias(a) \/ AssignRows(a)
  <2>1. /\ discarded' = discarded /\ trail' = trail
        /\ pc'[a] \in {"computed", "recording"} /\ frame'[a].event = frame[a].event
        /\ \A b \in Actors \ {a} : pc'[b] = pc[b] /\ frame'[b] = frame[b]
    <3>1. frame[a] \in Frame
      OBVIOUS
    <3> QED
      BY <1>4, <3>1 DEF ReadGuias, AssignRows, Goto, service, Frame
  <2> QED
    BY <2>1, DroppedKept DEF Actors
<1>5. CASE DropPage(a)
  <2>1. /\ trail' = trail /\ frame' = frame /\ discarded' = discarded \ {frame[a].event.page}
        /\ PageEvent(a) /\ pc[a] = "dropping" /\ pc'[a] = "reconciling"
        /\ \A b \in Actors \ {a} : pc'[b] = pc[b]
    BY <1>5 DEF DropPage, DiscardedAfter, Goto, PageEvent
  <2>2. a \in Tasks
    BY <2>1 DEF ControlInv, PagesOnLoop
  <2>3. \A c \in Tasks :
          pc[c] \in {"reconciling", "computed", "recording"} => c # a /\ pc'[c] = pc[c]
    BY <2>1 DEF Actors
  <2>4. \A p \in Page \ discarded' : p \in Page \ discarded \/ p = frame[a].event.page
    BY <2>1
  <2>5. ASSUME NEW p \in Page \ discarded
        PROVE  \/ \E i \in DOMAIN trail' :
                    trail'[i].kind = "recovered_discarded_page" /\ trail'[i].page = p
               \/ \E c \in Tasks : /\ pc'[c] \in {"reconciling", "computed", "recording"}
                                   /\ frame'[c].event.kind = "recovered_discarded_page"
                                   /\ frame'[c].event.page = p
    BY <2>1, <2>3 DEF DroppedPageIsRecorded
  <2>6. /\ pc'[a] \in {"reconciling", "computed", "recording"}
        /\ frame'[a].event.kind = "recovered_discarded_page"
    BY <2>1 DEF PageEvent
  <2> QED
    BY <2>1, <2>2, <2>4, <2>5, <2>6 DEF DroppedPageIsRecorded
<1>6. CASE RecordEvent(a)
  <2> DEFINE e == frame[a].event
  <2>1. /\ trail' = Append(trail, e) /\ discarded' = discarded /\ frame' = frame
        /\ e \in Event
        /\ \A b \in Actors \ {a} : pc'[b] = pc[b]
    BY <1>6 DEF RecordEvent, Goto, BusyHasEvent
  <2> HIDE DEF e
  <2>2. /\ Len(trail) + 1 \in DOMAIN trail' /\ trail'[Len(trail) + 1] = e
        /\ \A i \in DOMAIN trail : i \in DOMAIN trail' /\ trail'[i] = trail[i]
    BY <2>1, AppendIsLonger
  <2>4. SUFFICES ASSUME NEW p \in Page \ discarded
                 PROVE  \/ \E i \in DOMAIN trail' :
                             /\ trail'[i].kind = "recovered_discarded_page"
                             /\ trail'[i].page = p
                        \/ \E c \in Tasks :
                             /\ pc'[c] \in {"reconciling", "computed", "recording"}
                             /\ frame'[c].event.kind = "recovered_discarded_page"
                             /\ frame'[c].event.page = p
    BY <2>1 DEF DroppedPageIsRecorded
  <2>5. CASE \E i \in DOMAIN trail :
               trail[i].kind = "recovered_discarded_page" /\ trail[i].page = p
    BY <2>2, <2>5
  <2>6. CASE \E c \in Tasks : /\ pc[c] \in {"reconciling", "computed", "recording"}
                              /\ frame[c].event.kind = "recovered_discarded_page"
                              /\ frame[c].event.page = p
    <3>1. PICK c \in Tasks : /\ pc[c] \in {"reconciling", "computed", "recording"}
                             /\ frame[c].event.kind = "recovered_discarded_page"
                             /\ frame[c].event.page = p
      BY <2>6
    <3>2. CASE c = a
      BY <2>2, <3>1, <3>2 DEF e
    <3>3. CASE c # a
      <4>1. pc'[c] = pc[c]
        BY <2>1, <3>3 DEF Actors
      <4> QED
        BY <2>1, <3>1, <4>1
    <3> QED
      BY <3>2, <3>3
  <2> QED
    BY <2>5, <2>6 DEF DroppedPageIsRecorded
<1>7. CASE EndingStep(a)
  <2>1. /\ discarded' = discarded /\ trail' = trail
        /\ pc[a] \in {"outside", "ready", "checked", "writing"} /\ Return(a)
    BY <1>7 DEF EndingStep, RecoveryUnanswered, Refuse, CopyOutOfRange, WriteSidecar,
                WriteFails, service
  <2>2. \A b \in Actors \ {a} : pc'[b] = pc[b] /\ frame'[b] = frame[b]
    BY <2>1 DEF Return
  <2> QED
    BY <2>1, <2>2, DroppedKept DEF Actors
<1> QED
  BY <1>1, <1>2, <1>3, <1>4, <1>5, <1>6, <1>7 DEF InnerStep

\* A crash puts every page back; a replay records the pages it drops.
LEMMA NextDropped ==
  TypeInv /\ ControlInv /\ DroppedPageIsRecorded /\ [Next]_vars => DroppedPageIsRecorded'
<1> SUFFICES ASSUME TypeInv, ControlInv, DroppedPageIsRecorded, [Next]_vars
             PROVE  DroppedPageIsRecorded'
  OBVIOUS
<1>1. CASE UNCHANGED vars
  BY <1>1, DroppedKept DEF vars, service, actors
<1>2. ASSUME NEW t \in Threads, ThreadStep(t) PROVE DroppedPageIsRecorded'
  <2>1. Check(t) \/ CopyGuias(t) \/ InnerStep(t) \/ EndingStep(t)
    BY <1>2, CommitSteps DEF ThreadStep, InnerStep
  <2> QED
    BY <2>1, ActorDropped DEF Actors
<1>3. ASSUME NEW c \in Tasks, TaskStep(c) PROVE DroppedPageIsRecorded'
  <2>1. Check(c) \/ CopyGuias(c) \/ InnerStep(c) \/ EndingStep(c)
    BY <1>3, CommitSteps DEF TaskStep, InnerStep, EndingStep
  <2> QED
    BY <2>1, ActorDropped DEF Actors
<1>4. ASSUME NEW a \in Actors, NEW e, NEW to \in {"outside", "ready"}, Receive(a, to, e)
      PROVE  DroppedPageIsRecorded'
  <2>1. /\ discarded' = discarded /\ trail' = trail /\ pc[a] = "idle"
        /\ \A b \in Actors \ {a} : pc'[b] = pc[b] /\ frame'[b] = frame[b]
    BY <1>4 DEF Receive, Goto, service, TypeInv, TypeOK
  <2> QED
    BY <2>1, DroppedKept DEF Actors
<1>5. ASSUME NEW t \in Threads, OperatorRequest(t) \/ RetryRequest(t)
      PROVE  DroppedPageIsRecorded'
  BY <1>4, <1>5 DEF OperatorRequest, RetryRequest, Actors
<1>6. ASSUME NEW c \in Tasks, ReprocessRequest(c) \/ PageRequest(c)
      PROVE  DroppedPageIsRecorded'
  BY <1>4, <1>6 DEF ReprocessRequest, PageRequest, Actors
<1>7. CASE Crash \/ ReplayFails
  BY <1>7 DEF Crash, ReplayFails, Forget, DroppedPageIsRecorded
<1>8. CASE Hydrate
  BY <1>8, DroppedKept DEF Hydrate, service, actors
<1>9. CASE ReplayEvent
  <2> DEFINE e == Head(replay)
             ev == Recorded(guias, e)
  <2>1. /\ mode = "replaying" /\ discarded' = Applied(State, e).discarded
        /\ trail' = TrailAfter(State, trail, e)
    BY <1>9 DEF ReplayEvent
  <2>2. /\ e \in Event /\ guias \in Seq(GuiaRecord) /\ trail \in Seq(Event)
        /\ State.guias = guias /\ State.discarded = discarded
    BY <2>1 DEF TypeInv, TypeOK, ReplayPending, State
  <2>3. ev \in Event /\ ev.kind = e.kind /\ (e.kind # "recovered_guia" => ev = e)
    BY <2>2, RecordedType
  <2>4. \A p \in Page \ discarded : \E i \in DOMAIN trail :
          trail[i].kind = "recovered_discarded_page" /\ trail[i].page = p
    BY <2>1 DEF ControlInv, IdleWhenDown, DroppedPageIsRecorded, Actors
  <2>5. CASE Rejected(State, e) \/ NoOp(State, e)
    <3>1. discarded' = discarded /\ trail' = trail
      BY <2>1, <2>2, <2>5 DEF Applied, TrailAfter
    <3> QED
      BY <2>4, <3>1 DEF DroppedPageIsRecorded
  <2>6. CASE ~(Rejected(State, e) \/ NoOp(State, e))
    <3>1. discarded' = DiscardedAfter(discarded, ev) /\ trail' = Append(trail, ev)
      BY <2>1, <2>2, <2>6 DEF Applied, TrailAfter
    <3> HIDE DEF e, ev
    <3>2. /\ Len(trail) + 1 \in DOMAIN trail' /\ trail'[Len(trail) + 1] = ev
          /\ \A i \in DOMAIN trail : i \in DOMAIN trail' /\ trail'[i] = trail[i]
      BY <2>2, <2>3, <3>1, AppendIsLonger
    <3>3. \A p \in Page \ discarded' :
            \/ p \in Page \ discarded
            \/ ev.kind = "recovered_discarded_page" /\ ev.page = p
      BY <3>1 DEF DiscardedAfter
    <3>4. \A p \in Page \ discarded' : \E i \in DOMAIN trail' :
            trail'[i].kind = "recovered_discarded_page" /\ trail'[i].page = p
      BY <2>4, <3>2, <3>3
    <3> QED
      BY <3>4 DEF DroppedPageIsRecorded
  <2> QED
    BY <2>5, <2>6
<1> QED
  BY <1>1, <1>2, <1>3, <1>5, <1>6, <1>7, <1>8, <1>9 DEF Next

\* However callers interleave, crash and replay, a page never leaves the
\* discarded list without a trace: its recovery is in the audit trail, or the
\* task that dropped it is about to write it there (recover_discarded_page).
THEOREM DroppedPagesAreRecorded == Spec => []DroppedPageIsRecorded
<1>1. Init => TypeInv /\ ControlInv /\ DroppedPageIsRecorded
  <2>1. Init => DroppedPageIsRecorded
    BY DEF Init, DroppedPageIsRecorded
  <2> QED
    BY <2>1, InitType, InitControl
<1>2. TypeInv /\ ControlInv /\ DroppedPageIsRecorded /\ [Next]_vars
        => (TypeInv /\ ControlInv /\ DroppedPageIsRecorded)'
  BY NextType, NextControl, NextDropped
<1> QED
  BY <1>1, <1>2, PTL DEF Spec

-----------------------------------------------------------------------------
(* The file before the first crash *)

IsStart(s, t) == Len(s) <= Len(t) /\ \A i \in DOMAIN s : s[i] = t[i]

\* No crash so far.  The trail only grows, so every snapshot of it still to be
\* written is a beginning of it: a late write cannot reorder the file.
FirstLife == budget.crashes = MaxCrashes
FirstLifeInv ==
  /\ budget.crashes <= MaxCrashes
  /\ FirstLife => /\ mode = "serving"
                  /\ IsStart(sidecar, trail)
                  /\ \A a \in Actors : pc[a] = "writing" => IsStart(frame[a].saved, trail)

LEMMA StartOfLonger ==
  ASSUME NEW s \in Seq(Event), NEW t \in Seq(Event), NEW e \in Event, IsStart(s, t)
  PROVE  IsStart(s, Append(t, e)) /\ Len(s) < Len(Append(t, e))
<1>1. Len(s) \in Nat /\ Len(t) \in Nat /\ DOMAIN s = 1 .. Len(s) /\ DOMAIN t = 1 .. Len(t)
  OBVIOUS
<1>2. DOMAIN s \subseteq DOMAIN t
  BY <1>1 DEF IsStart
<1> QED
  BY <1>1, <1>2, AppendIsLonger DEF IsStart

\* A step that keeps the trail and the file, or writes a snapshot.
LEMMA FirstLifeKept ==
  ASSUME FirstLifeInv, UNCHANGED <<mode, trail>>, budget'.crashes = budget.crashes,
         sidecar' # sidecar => \E a \in Actors : pc[a] = "writing" /\ sidecar' = frame[a].saved,
         \A a \in Actors : pc'[a] = "writing" =>
           \/ pc[a] = "writing" /\ frame'[a].saved = frame[a].saved
           \/ frame'[a].saved = trail
  PROVE  FirstLifeInv'
<1>1. IsStart(trail, trail)
  BY DEF IsStart
<1> QED
  BY <1>1 DEF FirstLifeInv, FirstLife, IsStart

LEMMA ActorFirstLife ==
  ASSUME TypeInv, FirstLifeInv, NEW a \in Actors,
         Check(a) \/ CopyGuias(a) \/ InnerStep(a) \/ EndingStep(a)
  PROVE  FirstLifeInv'
<1> USE DEF TypeInv, TypeOK
<1>1. CASE Check(a) \/ CopyGuias(a) \/ Answered(a) \/ RetryUnanswered(a)
  <2>1. /\ UNCHANGED <<mode, trail, sidecar, budget>> /\ pc'[a] # "writing"
        /\ \A b \in Actors \ {a} : pc'[b] = pc[b] /\ frame'[b] = frame[b]
    BY <1>1 DEF Check, CopyGuias, Answered, RetryUnanswered, Goto, service
  <2> QED
    BY <2>1, FirstLifeKept
<1>2. CASE AssignGuias(a) \/ FilterErrored(a) \/ AssignErrored(a) \/ DropPage(a)
  <2>1. /\ UNCHANGED <<mode, trail, sidecar, budget>> /\ pc'[a] # "writing"
        /\ \A b \in Actors \ {a} : pc'[b] = pc[b] /\ frame'[b] = frame[b]
    BY <1>2 DEF AssignGuias, FilterErrored, AssignErrored, DropPage, Goto, service
  <2> QED
    BY <2>1, FirstLifeKept
<1>3. CASE ReadGuias(a) \/ AssignRows(a)
  <2>1. /\ UNCHANGED <<mode, trail, sidecar, budget>> /\ pc'[a] # "writing"
        /\ \A b \in Actors \ {a} : pc'[b] = pc[b] /\ frame'[b] = frame[b]
    BY <1>3 DEF ReadGuias, AssignRows, Goto, service
  <2> QED
    BY <2>1, FirstLifeKept
<1>4. CASE RecordEvent(a)
  <2>1. /\ UNCHANGED <<mode, sidecar, budget, frame>> /\ pc'[a] # "writing"
        /\ \A b \in Actors \ {a} : pc'[b] = pc[b]
        /\ trail' = Append(trail, frame[a].event) /\ frame[a].event \in Event
    BY <1>4 DEF RecordEvent, Goto, BusyHasEvent
  <2>2. \A b \in Actors : frame[b].saved \in Seq(Event)
    BY DEF Frame
  <2>3. trail \in Seq(Event) /\ sidecar \in Seq(Event)
    OBVIOUS
  <2>4. IsStart(sidecar, trail) => IsStart(sidecar, trail')
    BY <2>1, <2>3, StartOfLonger
  <2>5. \A b \in Actors : IsStart(frame[b].saved, trail) => IsStart(frame[b].saved, trail')
    BY <2>1, <2>2, <2>3, StartOfLonger
  <2>6. \A b \in Actors : pc'[b] = "writing" => pc[b] = "writing"
    BY <2>1
  <2> HIDE DEF TypeInv, TypeOK
  <2>7. FirstLife' => FirstLife /\ mode' = mode /\ sidecar' = sidecar /\ frame' = frame
    BY <2>1 DEF FirstLife
  <2>8. (budget.crashes <= MaxCrashes)'
    BY <2>1 DEF FirstLifeInv
  <2>9. FirstLife' => IsStart(sidecar', trail')
    BY <2>4, <2>7 DEF FirstLifeInv
  <2>10. ASSUME FirstLife', NEW b \in Actors, pc'[b] = "writing"
         PROVE  IsStart(frame'[b].saved, trail')
    BY <2>5, <2>6, <2>7, <2>10 DEF FirstLifeInv
  <2> QED
    BY <2>7, <2>8, <2>9, <2>10 DEF FirstLifeInv
<1>5. CASE SnapshotTrail(a)
  <2>1. /\ UNCHANGED <<mode, trail, sidecar, budget>> /\ frame'[a].saved = trail
        /\ \A b \in Actors \ {a} : pc'[b] = pc[b] /\ frame'[b] = frame[b]
    <3>1. frame[a] \in Frame
      OBVIOUS
    <3> QED
      BY <1>5, <3>1 DEF SnapshotTrail, Goto, service, Frame
  <2> QED
    BY <2>1, FirstLifeKept
<1>6. CASE EndingStep(a)
  <2>1. /\ UNCHANGED <<mode, trail>> /\ Return(a)
        /\ sidecar' # sidecar => pc[a] = "writing" /\ sidecar' = frame[a].saved
    BY <1>6 DEF EndingStep, RecoveryUnanswered, Refuse, CopyOutOfRange, WriteSidecar,
                WriteFails, service
  <2>2. budget'.crashes = budget.crashes
    BY <1>6 DEF EndingStep, RecoveryUnanswered, Refuse, CopyOutOfRange, WriteSidecar, WriteFails
  <2>3. pc'[a] # "writing" /\ \A b \in Actors \ {a} : pc'[b] = pc[b] /\ frame'[b] = frame[b]
    BY <2>1 DEF Return
  <2> QED
    BY <2>1, <2>2, <2>3, FirstLifeKept
<1> QED
  BY <1>1, <1>2, <1>3, <1>4, <1>5, <1>6 DEF InnerStep

LEMMA NextFirstLife == TypeInv /\ FirstLifeInv /\ [Next]_vars => FirstLifeInv'
<1> SUFFICES ASSUME TypeInv, FirstLifeInv, [Next]_vars PROVE FirstLifeInv'
  OBVIOUS
<1>1. CASE UNCHANGED vars
  BY <1>1, FirstLifeKept DEF vars, service, actors
<1>2. ASSUME NEW t \in Threads, ThreadStep(t) PROVE FirstLifeInv'
  <2>1. Check(t) \/ CopyGuias(t) \/ InnerStep(t) \/ EndingStep(t)
    BY <1>2, CommitSteps DEF ThreadStep, InnerStep
  <2> QED
    BY <2>1, ActorFirstLife DEF Actors
<1>3. ASSUME NEW c \in Tasks, TaskStep(c) PROVE FirstLifeInv'
  <2>1. Check(c) \/ CopyGuias(c) \/ InnerStep(c) \/ EndingStep(c)
    BY <1>3, CommitSteps DEF TaskStep, InnerStep, EndingStep
  <2> QED
    BY <2>1, ActorFirstLife DEF Actors
<1>4. ASSUME NEW a \in Actors, NEW e, NEW to \in {"outside", "ready"}, Receive(a, to, e)
      PROVE  FirstLifeInv'
  <2>1. /\ UNCHANGED <<mode, trail, sidecar>> /\ budget'.crashes = budget.crashes
        /\ pc'[a] # "writing"
        /\ \A b \in Actors \ {a} : pc'[b] = pc[b] /\ frame'[b] = frame[b]
    BY <1>4 DEF Receive, Goto, service, TypeInv, TypeOK
  <2> QED
    BY <2>1, FirstLifeKept
<1>5. ASSUME NEW t \in Threads, OperatorRequest(t) \/ RetryRequest(t) PROVE FirstLifeInv'
  BY <1>4, <1>5 DEF OperatorRequest, RetryRequest, Actors
<1>6. ASSUME NEW c \in Tasks, ReprocessRequest(c) \/ PageRequest(c) PROVE FirstLifeInv'
  BY <1>4, <1>6 DEF ReprocessRequest, PageRequest, Actors
<1>7. CASE Crash
  <2>1. budget.crashes \in Nat /\ budget'.crashes = budget.crashes - 1
    BY <1>7 DEF Crash, TypeInv, TypeOK
  <2>2. budget'.crashes <= MaxCrashes /\ budget'.crashes # MaxCrashes
    BY <2>1, ActorsAssumption DEF FirstLifeInv
  <2> QED
    BY <2>2 DEF FirstLifeInv, FirstLife
<1>8. CASE Hydrate \/ ReplayEvent \/ ReplayFails
  <2>1. budget'.crashes = budget.crashes /\ mode # "serving"
    BY <1>8 DEF Hydrate, ReplayEvent, ReplayFails, TypeInv, TypeOK
  <2> QED
    BY <2>1 DEF FirstLifeInv, FirstLife
<1> QED
  BY <1>1, <1>2, <1>3, <1>5, <1>6, <1>7, <1>8 DEF Next

\* Until the process first dies, the file always holds a beginning of the
\* trail, whatever the threads and coroutines do: a late write of _persist may
\* take the newest events back, never an old one or their order.
THEOREM FileBeginsTrail == Spec => [](FirstLife => SidecarIsPrefix)
<1>1. Init => TypeInv /\ FirstLifeInv
  <2>1. Init => FirstLifeInv
    BY ActorsAssumption DEF Init, FirstLifeInv, IsStart
  <2> QED
    BY <2>1, InitType
<1>2. TypeInv /\ FirstLifeInv /\ [Next]_vars => (TypeInv /\ FirstLifeInv)'
  BY NextType, NextFirstLife
<1>3. FirstLifeInv => (FirstLife => SidecarIsPrefix)
  BY DEF FirstLifeInv, IsStart, SidecarIsPrefix
<1> QED
  BY <1>1, <1>2, <1>3, PTL DEF Spec
=============================================================================
