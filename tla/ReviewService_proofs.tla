----------------------- MODULE ReviewService_proofs -----------------------
(***************************************************************************)
(* Proofs about ReviewService, for every set of threads, tasks, pages and  *)
(* edits, and every extraction cache:                                      *)
(*   TypeCorrect   every variable keeps its type                           *)
(***************************************************************************)
EXTENDS ReviewService, SequenceTheorems, WellFoundedInduction, TLAPS

-----------------------------------------------------------------------------
(* The helpers of ReviewEdits *)

\* FirstOf really returns the least element (the first match of a for loop).
LEMMA FirstOfIsLeast ==
  ASSUME NEW S, S \subseteq Nat, S # {}
  PROVE  FirstOf(S) \in S /\ \A j \in S : FirstOf(S) <= j
<1>1. PICK i \in S : \A j \in S : <<j, i>> \notin OpToRel(<, Nat)
  BY WFMin, NatLessThanWellFounded, Zenon
<1>2. \A j \in S : ~(j < i)
  BY <1>1, Zenon DEF OpToRel
<1>3. \A j \in S : i <= j
  BY <1>2
<1> QED
  BY <1>3 DEF FirstOf

\* _find_guia_index: a position of a guía of that name, 0 when there is none.
LEMMA FindGuiaFinds ==
  ASSUME NEW gs \in Seq(GuiaRecord), NEW id
  PROVE  /\ FindGuia(gs, id) \in Nat
         /\ FindGuia(gs, id) = 0 => \A i \in DOMAIN gs : gs[i].guia_id # id
         /\ FindGuia(gs, id) # 0 => /\ FindGuia(gs, id) \in DOMAIN gs
                                    /\ gs[FindGuia(gs, id)].guia_id = id
<1>1. Positions(gs, id) \subseteq DOMAIN gs /\ DOMAIN gs \subseteq Nat \ {0}
  BY DEF Positions
<1>2. CASE Positions(gs, id) = {}
  BY <1>2 DEF FindGuia, Positions
<1>3. CASE Positions(gs, id) # {}
  <2>1. FirstOf(Positions(gs, id)) \in Positions(gs, id)
    BY <1>1, <1>3, FirstOfIsLeast
  <2> QED
    BY <1>1, <1>3, <2>1 DEF FindGuia, Positions
<1> QED
  BY <1>2, <1>3

\* A line selector finds a line of its guía, or nothing.
LEMMA FindLineFinds ==
  ASSUME NEW g \in GuiaRecord, NEW e \in LineEdit \cup Correction
  PROVE  FindLine(g, e) \in {0} \cup DOMAIN g.lines
<1> DEFINE chosen == IF e.line_index # NoIndex
                     THEN DOMAIN g.lines \cap {e.line_index}
                     ELSE {i \in DOMAIN g.lines : g.lines[i].material = e.material_canonical}
<1>1. g.lines \in Seq(Line)
  BY DEF GuiaRecord
<1>2. chosen \subseteq DOMAIN g.lines /\ DOMAIN g.lines \subseteq Nat
  BY <1>1
<1>3. FindLine(g, e) = IF chosen = {} THEN 0 ELSE FirstOf(chosen)
  BY DEF FindLine
<1>4. CASE chosen # {}
  <2> HIDE DEF chosen
  <2>1. FirstOf(chosen) \in chosen
    BY <1>2, <1>4, FirstOfIsLeast
  <2> QED
    BY <1>2, <1>3, <1>4, <2>1
<1> QED
  BY <1>3, <1>4

\* An edit that finds its line makes a guía of a guía, of the same name.
LEMMA EditedType ==
  ASSUME NEW g \in GuiaRecord, NEW e \in OperatorEdit,
         e.kind \in {"guia_line_edit", "manual_correction"} => FindLine(g, e) # 0
  PROVE  Edited(g, e) \in GuiaRecord /\ Edited(g, e).guia_id = g.guia_id
<1>1. g.lines \in Seq(Line)
  BY DEF GuiaRecord
<1>2. CASE e \in FieldEdit
  BY <1>2 DEF FieldEdit, Edited, GuiaRecord
<1>3. CASE e \in LineEdit
  <2>1. FindLine(g, e) \in DOMAIN g.lines
    BY <1>3, FindLineFinds DEF LineEdit
  <2>2. e.cantidad \in Nat /\ e.kind = "guia_line_edit"
    BY <1>3 DEF LineEdit
  <2> DEFINE k == FindLine(g, e)
             ls == [g.lines EXCEPT ![k].cantidad = e.cantidad]
  <2>3. ls \in Seq(Line)
    <3>1. g.lines[k] \in Line
      BY <1>1, <2>1
    <3>2. [g.lines[k] EXCEPT !.cantidad = e.cantidad] \in Line
      BY <3>1, <2>2 DEF Line
    <3> QED
      BY <1>1, <2>1, <3>2
  <2>4. Edited(g, e) = [g EXCEPT !.lines = ls]
    BY <2>2 DEF Edited
  <2> QED
    BY <2>3, <2>4 DEF GuiaRecord
<1>4. CASE e \in Correction
  <2>1. FindLine(g, e) \in DOMAIN g.lines
    BY <1>4, FindLineFinds DEF Correction
  <2>2. e.cantidad \in Nat /\ e.assign \in Material /\ e.kind = "manual_correction"
    BY <1>4 DEF Correction
  <2> DEFINE k == FindLine(g, e)
             ls == [g.lines EXCEPT ![k] = [material |-> e.assign, cantidad |-> e.cantidad]]
  <2>3. ls \in Seq(Line)
    BY <1>1, <2>1, <2>2 DEF Line
  <2>4. Edited(g, e) = [g EXCEPT !.lines = ls]
    BY <2>2 DEF Edited
  <2> QED
    BY <2>3, <2>4 DEF GuiaRecord
<1>5. CASE e \in Reassignment
  BY <1>5 DEF Reassignment, Edited, GuiaRecord
<1> QED
  BY <1>2, <1>3, <1>4, <1>5 DEF OperatorEdit

\* The kind of an event tells which mutator recorded it.
LEMMA KindOfEvent ==
  ASSUME NEW e \in Event
  PROVE  /\ e.kind \in {"field_edit", "guia_line_edit", "manual_correction", "reassignment"}
              => e \in OperatorEdit
         /\ e.kind = "recovered_guia" => e \in RecoveredGuia
         /\ e.kind = "recovered_discarded_page" => e \in RecoveredPage
         /\ e.kind = "retry_attempted" => e \in RetryAttempted
BY DEF Event, OperatorEdit, FieldEdit, LineEdit, Correction, Reassignment,
       RecoveredGuia, RecoveredPage, RetryAttempted

\* What is recorded of a recovered guía is a recovery of the same guía.
LEMMA RecordedType ==
  ASSUME NEW gs \in Seq(GuiaRecord), NEW e \in Event
  PROVE  /\ Recorded(gs, e) \in Event
         /\ Recorded(gs, e).kind = e.kind
         /\ Recorded(gs, e).guia_id = e.guia_id
         /\ e.kind # "recovered_guia" => Recorded(gs, e) = e
<1> DEFINE at == FindGuia(gs, e.guia_id)
<1>1. CASE e.kind = "recovered_guia" /\ at # 0
  <2>1. e \in RecoveredGuia
    BY <1>1, KindOfEvent
  <2>2. gs[at] \in GuiaRecord
    BY <1>1, FindGuiaFinds
  <2>3. /\ Inherit(e.guia, gs[at]) \in GuiaRecord
        /\ Inherit(e.guia, gs[at]).guia_id = e.guia_id
    BY <2>1, <2>2 DEF Inherit, RecoveredGuia, GuiaRecord
  <2>4. Recorded(gs, e) = [e EXCEPT !.guia = Inherit(e.guia, gs[at])]
    BY <1>1 DEF Recorded
  <2> HIDE DEF at
  <2>5. [e EXCEPT !.guia = Inherit(e.guia, gs[at])] \in RecoveredGuia
    BY <2>1, <2>3 DEF RecoveredGuia
  <2> QED
    BY <1>1, <2>1, <2>4, <2>5 DEF Event, RecoveredGuia
<1>2. CASE ~(e.kind = "recovered_guia" /\ at # 0)
  BY <1>2 DEF Recorded
<1> QED
  BY <1>1, <1>2

\* Replacing an element of a list leaves a list; out of range, the same list.
LEMMA ReplaceType ==
  ASSUME NEW gs \in Seq(GuiaRecord), NEW at \in Nat, NEW g \in GuiaRecord
  PROVE  /\ [gs EXCEPT ![at] = g] \in Seq(GuiaRecord)
         /\ Len([gs EXCEPT ![at] = g]) = Len(gs)
<1> DEFINE new == [gs EXCEPT ![at] = g]
<1>1. Len(gs) \in Nat /\ DOMAIN gs = 1 .. Len(gs)
  OBVIOUS
<1>2. new = [i \in 1 .. Len(gs) |-> IF i = at THEN g ELSE gs[i]]
  BY <1>1
<1>3. \A i \in 1 .. Len(gs) : (IF i = at THEN g ELSE gs[i]) \in GuiaRecord
  BY <1>1
<1> DEFINE el(i) == IF i = at THEN g ELSE gs[i]
<1>4. new = [i \in 1 .. Len(gs) |-> el(i)]
  BY <1>2
<1>5. \A i \in 1 .. Len(gs) : el(i) \in GuiaRecord
  BY <1>3
<1> HIDE DEF el, new
<1>6. [i \in 1 .. Len(gs) |-> el(i)] \in Seq(GuiaRecord)
  BY <1>1, <1>5
<1>7. Len([i \in 1 .. Len(gs) |-> el(i)]) = Len(gs)
  BY <1>1
<1> QED
  BY <1>4, <1>6, <1>7 DEF new

\* The list a mutator builds is a list of guías.
LEMMA PlacedType ==
  ASSUME NEW gs \in Seq(GuiaRecord), NEW at \in Nat, NEW e \in Event, NEW changed,
         e.kind \in {"field_edit", "guia_line_edit", "manual_correction"}
           => changed \in GuiaRecord
  PROVE  Placed(gs, at, changed, e) \in Seq(GuiaRecord)
<1>1. CASE e.kind \in {"field_edit", "guia_line_edit", "manual_correction"}
  <2>1. Placed(gs, at, changed, e) = [gs EXCEPT ![at] = changed]
    BY <1>1 DEF Placed
  <2> QED
    BY <1>1, <2>1, ReplaceType
<1>2. CASE e.kind = "reassignment"
  <2>1. \A i \in DOMAIN gs : Edited(gs[i], e) \in GuiaRecord
    BY <1>2, KindOfEvent, EditedType
  <2> DEFINE new == [i \in DOMAIN gs |->
                       IF gs[i].guia_id = e.guia_id THEN Edited(gs[i], e) ELSE gs[i]]
  <2>2. new \in Seq(GuiaRecord)
    BY <2>1
  <2>3. Placed(gs, at, changed, e) = new
    BY <1>2 DEF Placed
  <2> QED
    BY <2>2, <2>3
<1>3. CASE e.kind = "recovered_guia"
  <2>1. e.guia \in GuiaRecord
    BY <1>3, KindOfEvent DEF RecoveredGuia
  <2>2. Placed(gs, at, changed, e)
          = IF at = 0 THEN Append(gs, e.guia) ELSE [gs EXCEPT ![at] = e.guia]
    BY <1>3 DEF Placed
  <2> QED
    BY <2>1, <2>2, ReplaceType
<1>4. CASE e.kind = "recovered_discarded_page"
  <2>1. e.guia \in GuiaRecord
    BY <1>4, KindOfEvent DEF RecoveredPage
  <2> QED
    BY <1>4, <2>1 DEF Placed
<1>5. CASE e.kind \notin {"field_edit", "guia_line_edit", "manual_correction",
                          "reassignment", "recovered_guia", "recovered_discarded_page"}
  BY <1>5 DEF Placed
<1> QED
  BY <1>1, <1>2, <1>3, <1>4, <1>5

LEMMA ErroredAfterType ==
  ASSUME NEW es \in SUBSET ErroredRecord, NEW e
  PROVE  ErroredAfter(es, e) \subseteq ErroredRecord
BY DEF ErroredAfter, ErroredRecord

\* A mutation that is not refused edits a guía it found.
LEMMA AcceptedFinds ==
  ASSUME NEW st, st.guias \in Seq(GuiaRecord), NEW e \in OperatorEdit, ~Rejected(st, e)
  PROVE  LET at == FindGuia(st.guias, e.guia_id)
         IN  /\ at \in DOMAIN st.guias
             /\ Edited(st.guias[at], e) \in GuiaRecord
             /\ Edited(st.guias[at], e).guia_id = e.guia_id
<1> DEFINE at == FindGuia(st.guias, e.guia_id)
<1>1. e.kind \in {"field_edit", "guia_line_edit", "manual_correction", "reassignment"}
  BY DEF OperatorEdit, FieldEdit, LineEdit, Correction, Reassignment
<1>2. at # 0
  BY <1>1 DEF Rejected
<1>3. at \in DOMAIN st.guias /\ st.guias[at].guia_id = e.guia_id
  BY <1>2, FindGuiaFinds
<1>4. e.kind \in {"guia_line_edit", "manual_correction"} => FindLine(st.guias[at], e) # 0
  BY <1>2 DEF Rejected
<1>5. st.guias[at] \in GuiaRecord
  BY <1>3
<1> QED
  BY <1>3, <1>4, <1>5, EditedType

\* A whole mutation keeps the types of the three lists and of the trail.
LEMMA AppliedType ==
  ASSUME NEW st, st.guias \in Seq(GuiaRecord), st.errored \subseteq ErroredRecord,
         st.discarded \subseteq Page, NEW e \in Event, NEW tr \in Seq(Event)
  PROVE  /\ Applied(st, e).guias \in Seq(GuiaRecord)
         /\ Applied(st, e).errored \subseteq ErroredRecord
         /\ Applied(st, e).discarded \subseteq Page
         /\ TrailAfter(st, tr, e) \in Seq(Event)
<1>1. CASE Rejected(st, e) \/ NoOp(st, e)
  BY <1>1 DEF Applied, TrailAfter
<1>2. CASE ~(Rejected(st, e) \/ NoOp(st, e))
  <2> DEFINE at == FindGuia(st.guias, e.guia_id)
             ev == Recorded(st.guias, e)
             changed == Edited(st.guias[at], e)
  <2>1. ev \in Event /\ ev.kind = e.kind
    BY RecordedType
  <2>2. ev.kind \in {"field_edit", "guia_line_edit", "manual_correction"}
          => changed \in GuiaRecord
    BY <1>2, <2>1, KindOfEvent, AcceptedFinds
  <2>3. at \in Nat
    BY FindGuiaFinds
  <2>4. /\ Applied(st, e).guias = Placed(st.guias, at, changed, ev)
        /\ Applied(st, e).errored = ErroredAfter(st.errored, ev)
        /\ Applied(st, e).discarded = DiscardedAfter(st.discarded, ev)
        /\ TrailAfter(st, tr, e) = Append(tr, ev)
    BY <1>2 DEF Applied, TrailAfter
  <2> HIDE DEF at, ev, changed
  <2>5. Placed(st.guias, at, changed, ev) \in Seq(GuiaRecord)
    BY <2>1, <2>2, <2>3, PlacedType
  <2>6. ErroredAfter(st.errored, ev) \subseteq ErroredRecord
    BY ErroredAfterType
  <2>7. DiscardedAfter(st.discarded, ev) \subseteq Page
    BY DEF DiscardedAfter
  <2> QED
    BY <2>1, <2>4, <2>5, <2>6, <2>7
<1> QED
  BY <1>1, <1>2

-----------------------------------------------------------------------------
(* Type correctness *)

Positional == {"field_edit", "guia_line_edit", "manual_correction"}

\* A call in progress has an event, a thread waiting for SUNAT that of an
\* errored guía; one that will write a changed guía at a
\* position has made it; a replay has something left to replay.
BusyHasEvent == \A a \in Actors : pc[a] # "idle" => frame[a].event \in Event
HoldsCopy ==
  \A a \in Actors :
    pc[a] = "checked" /\ frame[a].event.kind \in Positional => frame[a].changed \in GuiaRecord
RetriesHaveGuia ==
  \A a \in Actors :
    a \in Threads /\ pc[a] = "outside" => frame[a].event \in RecoveredGuia
ReplayPending == mode = "replaying" => replay # <<>>

TypeInv == TypeOK /\ BusyHasEvent /\ HoldsCopy /\ RetriesHaveGuia /\ ReplayPending

LEMMA CachedErroredType == CachedErrored \subseteq ErroredRecord
<1>1. SUFFICES ASSUME NEW x \in CachedErrored PROVE x \in ErroredRecord
  OBVIOUS
<1>2. PICK i \in DOMAIN CachedGuias :
        x = [guia_id |-> CachedGuias[i].guia_id, block |-> i, retry_attempted |-> FALSE]
  BY <1>1 DEF CachedErrored
<1> QED
  BY <1>2 DEF ErroredRecord, CachedId

LEMMA EmptyFrameType == EmptyFrame \in Frame /\ EmptyFrame.event = NoEvent
BY DEF EmptyFrame, Frame

LEMMA InitType == Init => TypeInv
<1> SUFFICES ASSUME Init PROVE TypeInv
  OBVIOUS
<1>1. TypeOK
  BY CachedErroredType, EmptyFrameType, ConstantsAssumption, ActorsAssumption
  DEF Init, TypeOK, Control
<1>2. BusyHasEvent /\ HoldsCopy /\ RetriesHaveGuia /\ ReplayPending
  BY DEF Init, BusyHasEvent, HoldsCopy, RetriesHaveGuia, ReplayPending
<1> QED
  BY <1>1, <1>2 DEF TypeInv

\* A request puts its event in the caller's frame.
LEMMA ReceiveType ==
  ASSUME TypeInv, NEW a \in Actors, NEW e \in Event, NEW to \in {"outside", "ready"},
         to = "outside" /\ a \in Threads => e \in RecoveredGuia,
         Receive(a, to, e)
  PROVE  TypeInv'
<1> USE DEF TypeInv
<1>1. frame' \in [Actors -> Frame]
  BY DEF Receive, TypeOK, Frame
<1>2. pc' \in [Actors -> Control]
  BY DEF Receive, Goto, TypeOK, Control
<1>3. budget' \in [requests : Nat, crashes : Nat, failedWrites : Nat]
  <2>1. budget' = [budget EXCEPT !.requests = @ - 1] /\ budget.requests > 0
    BY DEF Receive
  <2>2. budget \in [requests : Nat, crashes : Nat, failedWrites : Nat]
    BY DEF TypeOK
  <2>3. budget.requests - 1 \in Nat
    BY <2>1, <2>2
  <2> QED
    BY <2>1, <2>2, <2>3
<1>4. TypeOK'
  BY <1>1, <1>2, <1>3 DEF Receive, TypeOK, service
<1>5. BusyHasEvent' /\ HoldsCopy' /\ RetriesHaveGuia' /\ ReplayPending'
  BY DEF Receive, Goto, TypeOK, BusyHasEvent, HoldsCopy, RetriesHaveGuia, ReplayPending
<1> QED
  BY <1>4, <1>5

\* A call that returns leaves an empty frame.
LEMMA ReturnType ==
  ASSUME TypeInv, NEW a \in Actors, Return(a)
  PROVE  /\ frame' \in [Actors -> Frame]
         /\ pc' \in [Actors -> Control]
         /\ loop' \in Tasks \cup {NoActor}
         /\ BusyHasEvent' /\ HoldsCopy' /\ RetriesHaveGuia'
BY EmptyFrameType DEF TypeInv, TypeOK, Return, Control, BusyHasEvent, HoldsCopy, RetriesHaveGuia

\* The events the routes build are events.
LEMMA RequestTypes ==
  ASSUME TypeInv
  PROVE  /\ \A e \in Edits : e \in Event
         /\ \A x \in errored, s \in Source, f \in Fecha \cup {None} :
              RecoveredFrom(x.guia_id, s, f) \in RecoveredGuia
         /\ \A p \in discarded :
              [kind |-> "recovered_discarded_page", guia_id |-> RecoveredId(p), page |-> p,
               guia |-> [guia_id |-> RecoveredId(p), registro |-> PageRegistro[p],
                         fecha |-> None, lines |-> RecoveredLines,
                         identity_source |-> "operator"]] \in RecoveredPage
<1> USE DEF TypeInv, TypeOK
<1>1. \A e \in Edits : e \in Event
  BY ActorsAssumption DEF Event
<1>2. \A x \in errored : x.guia_id \in CachedId /\ x.guia_id \in Guia
  <2>1. \A x \in errored : x.guia_id \in CachedId
    BY DEF ErroredRecord
  <2>2. CachedId \subseteq Guia
    BY ConstantsAssumption DEF CachedId
  <2> QED
    BY <2>1, <2>2
<1>3. \A x \in errored, s \in Source, f \in Fecha \cup {None} :
        RecoveredFrom(x.guia_id, s, f) \in RecoveredGuia
  <2>1. SUFFICES ASSUME NEW x \in errored, NEW s \in Source, NEW f \in Fecha \cup {None}
                 PROVE  RecoveredFrom(x.guia_id, s, f) \in RecoveredGuia
    OBVIOUS
  <2> DEFINE g == [guia_id |-> x.guia_id, registro |-> None, fecha |-> f,
                   lines |-> RecoveredLines, identity_source |-> s]
  <2>2. g \in GuiaRecord /\ g.guia_id = x.guia_id
    BY <1>2, ActorsAssumption DEF GuiaRecord, GuiaId
  <2>3. RecoveredFrom(x.guia_id, s, f)
          = [kind |-> "recovered_guia", guia_id |-> x.guia_id, guia |-> g]
    BY DEF RecoveredFrom
  <2> HIDE DEF g
  <2> QED
    BY <1>2, <2>2, <2>3 DEF RecoveredGuia
<1>4. \A p \in discarded : RecoveredId(p) \in GuiaId /\ PageRegistro[p] \in Registro \cup {None}
  BY ConstantsAssumption DEF GuiaId
<1>5. \A p \in discarded :
        [guia_id |-> RecoveredId(p), registro |-> PageRegistro[p], fecha |-> None,
         lines |-> RecoveredLines, identity_source |-> "operator"] \in GuiaRecord
  BY <1>4, ActorsAssumption DEF GuiaRecord, Source
<1> QED
  BY <1>1, <1>3, <1>4, <1>5 DEF RecoveredPage

LEMMA RequestsType ==
  ASSUME TypeInv,
         \/ \E t \in Threads : OperatorRequest(t) \/ RetryRequest(t)
         \/ \E c \in Tasks : ReprocessRequest(c) \/ PageRequest(c)
  PROVE  TypeInv'
<1>1. ASSUME NEW t \in Threads, OperatorRequest(t) PROVE TypeInv'
  BY <1>1, RequestTypes, ReceiveType DEF OperatorRequest, Actors
<1>2. ASSUME NEW t \in Threads, RetryRequest(t) PROVE TypeInv'
  <2>1. PICK x \in errored : Receive(t, "outside", RecoveredFrom(x.guia_id, "qr", SunatFecha))
    BY <1>2 DEF RetryRequest
  <2>2. RecoveredFrom(x.guia_id, "qr", SunatFecha) \in Event \cap RecoveredGuia
    BY RequestTypes, ActorsAssumption DEF Source, Event
  <2> QED
    BY <2>1, <2>2, ReceiveType DEF Actors
<1>3. ASSUME NEW c \in Tasks, ReprocessRequest(c) PROVE TypeInv'
  <2>1. PICK x \in errored : Receive(c, "outside", RecoveredFrom(x.guia_id, "vision", None))
    BY <1>3 DEF ReprocessRequest
  <2>2. RecoveredFrom(x.guia_id, "vision", None) \in Event
    BY RequestTypes DEF Source, Event
  <2> QED
    BY <2>1, <2>2, ReceiveType, ActorsAssumption DEF Actors
<1>4. ASSUME NEW c \in Tasks, PageRequest(c) PROVE TypeInv'
  <2>1. PICK e \in RecoveredPage : Receive(c, "outside", e)
    BY <1>4, RequestTypes DEF PageRequest
  <2> QED
    BY <2>1, ReceiveType, ActorsAssumption DEF Actors, Event
<1> QED
  BY <1>1, <1>2, <1>3, <1>4

\* The steps that look up, copy and place the guía.
LEMMA CheckType ==
  ASSUME TypeInv, NEW a \in Actors, Check(a)
  PROVE  TypeInv'
<1> DEFINE e == frame[a].event
           at == FindGuia(guias, e.guia_id)
           copy == IF e.kind \in {"recovered_guia", "recovered_discarded_page"}
                   THEN None ELSE Edited(guias[at], e)
<1> USE DEF TypeInv, TypeOK
<1>1. e \in Event /\ pc[a] = "ready"
  BY DEF Check, Goto, BusyHasEvent
<1>2. guias \in Seq(GuiaRecord) /\ State.guias = guias
  BY DEF State
<1>3. at \in Nat
  BY <1>2, FindGuiaFinds
<1>4. CASE e.kind = "retry_attempted"
  <2>1. ErroredAfter(errored, e) \subseteq ErroredRecord
    BY ErroredAfterType
  <2>2. /\ frame' = [frame EXCEPT ![a].marks = ErroredAfter(errored, e)]
        /\ pc' = [pc EXCEPT ![a] = "filtered"]
    BY <1>4 DEF Check, Goto
  <2> HIDE DEF e
  <2>3. frame' \in [Actors -> Frame] /\ pc' \in [Actors -> Control]
    BY <2>1, <2>2 DEF Frame, Control
  <2> USE DEF e
  <2>4. loop' \in Tasks \cup {NoActor}
    BY DEF Check, Actors
  <2>5. TypeOK' /\ ReplayPending'
    BY <2>3, <2>4 DEF Check, service, ReplayPending
  <2>6. BusyHasEvent' /\ HoldsCopy' /\ RetriesHaveGuia'
    BY <1>1, <2>2 DEF BusyHasEvent, HoldsCopy, RetriesHaveGuia
  <2> QED
    BY <2>5, <2>6
<1>5. CASE e.kind # "retry_attempted"
  <2>1. e.kind \in {"recovered_guia", "recovered_discarded_page"} \/ e \in OperatorEdit
    BY <1>1, <1>5 DEF Event, OperatorEdit, FieldEdit, LineEdit, Correction, Reassignment,
                      RecoveredGuia, RecoveredPage, RetryAttempted
  <2>2. e \in OperatorEdit => Edited(guias[at], e) \in GuiaRecord
    BY <1>2, AcceptedFinds DEF Check
  <2>3. copy \in GuiaRecord \cup {None} /\ (e.kind \in Positional => copy \in GuiaRecord)
    BY <2>1, <2>2 DEF Positional
  <2>4. /\ frame' = [frame EXCEPT ![a].at = at, ![a].changed = copy]
        /\ pc' = [pc EXCEPT ![a] = "checked"]
    BY <1>5 DEF Check, Goto
  <2> HIDE DEF e, at, copy
  <2> DEFINE F == [frame[a] EXCEPT !.at = at, !.changed = copy]
  <2>10. F \in Frame
    BY <1>3, <2>3 DEF Frame
  <2>11. frame' = [frame EXCEPT ![a] = F]
    BY <2>4
  <2>5. frame' \in [Actors -> Frame] /\ pc' \in [Actors -> Control]
    <3> HIDE DEF F
    <3> QED
      BY <2>4, <2>10, <2>11 DEF Control
  <2>6. loop' \in Tasks \cup {NoActor}
    BY DEF Check, Actors
  <2>7. TypeOK' /\ ReplayPending'
    BY <2>5, <2>6 DEF Check, service, ReplayPending
  <2>8. frame'[a].event = e /\ frame'[a].changed = copy
    BY <2>4 DEF Frame, e
  <2>9. BusyHasEvent' /\ HoldsCopy' /\ RetriesHaveGuia'
    BY <1>1, <2>3, <2>4, <2>8 DEF BusyHasEvent, HoldsCopy, RetriesHaveGuia
  <2> QED
    BY <2>7, <2>9
<1> QED
  BY <1>4, <1>5

LEMMA CopyGuiasType ==
  ASSUME TypeInv, NEW a \in Actors, CopyGuias(a)
  PROVE  TypeInv'
<1> DEFINE e == Recorded(guias, frame[a].event)
           new == Placed(guias, frame[a].at, frame[a].changed, e)
<1> USE DEF TypeInv, TypeOK
<1>1. frame[a].event \in Event /\ pc[a] = "checked"
  BY DEF CopyGuias, Goto, BusyHasEvent
<1>2. e \in Event /\ e.kind = frame[a].event.kind
  BY <1>1, RecordedType
<1>3. frame[a].at \in Nat
  BY DEF Frame
<1>4. new \in Seq(GuiaRecord)
  BY <1>1, <1>2, <1>3, PlacedType DEF HoldsCopy, Positional
<1>5. /\ frame' = [frame EXCEPT ![a].event = e, ![a].list = new]
      /\ pc' = [pc EXCEPT ![a] = "copied"]
  BY DEF CopyGuias, Goto
<1> HIDE DEF e, new
<1> DEFINE F == [frame[a] EXCEPT !.event = e, !.list = new]
<1>9. F \in Frame
  BY <1>2, <1>4 DEF Frame
<1>10. frame' = [frame EXCEPT ![a] = F]
  BY <1>5
<1>6. frame' \in [Actors -> Frame] /\ pc' \in [Actors -> Control]
  <2> HIDE DEF F
  <2> QED
    BY <1>5, <1>9, <1>10 DEF Control
<1>7. TypeOK' /\ ReplayPending'
  BY <1>6 DEF CopyGuias, service, ReplayPending
<1>8. BusyHasEvent' /\ HoldsCopy' /\ RetriesHaveGuia'
  BY <1>2, <1>5 DEF BusyHasEvent, HoldsCopy, RetriesHaveGuia
<1> QED
  BY <1>7, <1>8

\* The steps inside a call that copy no guía, and those that end a call.
InnerStep(a) ==
  \/ Answered(a) \/ (a \in Threads /\ RetryUnanswered(a)) \/ AssignGuias(a)
  \/ FilterErrored(a) \/ AssignErrored(a) \/ DropPage(a) \/ ReadGuias(a)
  \/ AssignRows(a) \/ RecordEvent(a) \/ SnapshotTrail(a)
EndingStep(a) ==
  RecoveryUnanswered(a) \/ Refuse(a) \/ CopyOutOfRange(a) \/ WriteSidecar(a) \/ WriteFails(a)

LEMMA CommitSteps ==
  ASSUME NEW a, Commit(a)
  PROVE  Check(a) \/ CopyGuias(a) \/ InnerStep(a) \/ EndingStep(a)
BY DEF Commit, InnerStep, EndingStep

LEMMA InnerStepType ==
  ASSUME TypeInv, NEW a \in Actors, InnerStep(a)
  PROVE  TypeInv'
<1> USE DEF TypeInv, TypeOK
<1>1. CASE Answered(a)
  BY <1>1 DEF Answered, Goto, service, Control, BusyHasEvent, HoldsCopy, RetriesHaveGuia, ReplayPending
<1>2. CASE a \in Threads /\ RetryUnanswered(a)
  <2> DEFINE e == [kind |-> "retry_attempted", guia_id |-> frame[a].event.guia_id]
  <2>1. e \in Event
    BY <1>2 DEF RetryUnanswered, Goto, RetriesHaveGuia, RecoveredGuia, RetryAttempted, Event
  <2> HIDE DEF e
  <2>2. frame' = [frame EXCEPT ![a].event = e] /\ pc' = [pc EXCEPT ![a] = "ready"]
    BY <1>2 DEF RetryUnanswered, Goto, e
  <2>3. frame' \in [Actors -> Frame] /\ pc' \in [Actors -> Control]
    BY <2>1, <2>2 DEF Frame, Control
  <2>4. BusyHasEvent' /\ HoldsCopy' /\ RetriesHaveGuia'
    BY <2>1, <2>2 DEF BusyHasEvent, HoldsCopy, RetriesHaveGuia
  <2> QED
    BY <1>2, <2>3, <2>4 DEF RetryUnanswered, service, ReplayPending
<1>3. CASE AssignGuias(a)
  <2>1. guias' \in Seq(GuiaRecord)
    BY <1>3 DEF AssignGuias, Frame
  <2> QED
    BY <1>3, <2>1 DEF AssignGuias, Goto, Control, BusyHasEvent, HoldsCopy, RetriesHaveGuia, ReplayPending
<1>4. CASE FilterErrored(a)
  <2>1. ErroredAfter(errored, frame[a].event) \subseteq ErroredRecord
    BY ErroredAfterType
  <2> DEFINE m == ErroredAfter(errored, frame[a].event)
  <2>2. frame' = [frame EXCEPT ![a].marks = m] /\ pc' = [pc EXCEPT ![a] = "filtered"]
    BY <1>4 DEF FilterErrored, Goto
  <2> HIDE DEF m
  <2>3. frame' \in [Actors -> Frame] /\ pc' \in [Actors -> Control]
    BY <2>1, <2>2 DEF Frame, Control, m
  <2>4. BusyHasEvent' /\ HoldsCopy' /\ RetriesHaveGuia'
    BY <1>4, <2>2 DEF FilterErrored, Goto, BusyHasEvent, HoldsCopy, RetriesHaveGuia, Frame
  <2> QED
    BY <1>4, <2>3, <2>4 DEF FilterErrored, service, ReplayPending
<1>5. CASE AssignErrored(a)
  <2>1. errored' \subseteq ErroredRecord
    BY <1>5 DEF AssignErrored, Frame
  <2> QED
    BY <1>5, <2>1 DEF AssignErrored, Goto, Control, BusyHasEvent, HoldsCopy, RetriesHaveGuia, ReplayPending
<1>6. CASE DropPage(a)
  BY <1>6 DEF DropPage, DiscardedAfter, Goto, Control, BusyHasEvent, HoldsCopy, RetriesHaveGuia, ReplayPending
<1>7. CASE ReadGuias(a)
  <2>1. frame' = [frame EXCEPT ![a].list = guias] /\ pc' = [pc EXCEPT ![a] = "computed"]
    BY <1>7 DEF ReadGuias, Goto
  <2>2. frame' \in [Actors -> Frame] /\ pc' \in [Actors -> Control]
    BY <2>1 DEF Frame, Control
  <2>3. BusyHasEvent' /\ HoldsCopy' /\ RetriesHaveGuia'
    BY <1>7, <2>1 DEF ReadGuias, Goto, BusyHasEvent, HoldsCopy, RetriesHaveGuia, Frame
  <2> QED
    BY <1>7, <2>2, <2>3 DEF ReadGuias, service, ReplayPending
<1>8. CASE AssignRows(a)
  <2>1. rows' \in Seq(GuiaRecord)
    BY <1>8 DEF AssignRows, Frame
  <2> QED
    BY <1>8, <2>1 DEF AssignRows, Goto, Control, BusyHasEvent, HoldsCopy, RetriesHaveGuia, ReplayPending
<1>9. CASE RecordEvent(a)
  <2>1. trail' \in Seq(Event)
    BY <1>9 DEF RecordEvent, Goto, BusyHasEvent
  <2> QED
    BY <1>9, <2>1 DEF RecordEvent, Goto, Control, BusyHasEvent, HoldsCopy, RetriesHaveGuia, ReplayPending
<1>10. CASE SnapshotTrail(a)
  <2>1. frame' = [frame EXCEPT ![a].saved = trail] /\ pc' = [pc EXCEPT ![a] = "writing"]
    BY <1>10 DEF SnapshotTrail, Goto
  <2>2. frame' \in [Actors -> Frame] /\ pc' \in [Actors -> Control]
    BY <2>1 DEF Frame, Control
  <2>3. BusyHasEvent' /\ HoldsCopy' /\ RetriesHaveGuia'
    BY <1>10, <2>1 DEF SnapshotTrail, Goto, BusyHasEvent, HoldsCopy, RetriesHaveGuia, Frame
  <2> QED
    BY <1>10, <2>2, <2>3 DEF SnapshotTrail, service, ReplayPending
<1> QED
  BY <1>1, <1>2, <1>3, <1>4, <1>5, <1>6, <1>7, <1>8, <1>9, <1>10 DEF InnerStep

LEMMA EndingStepType ==
  ASSUME TypeInv, NEW a \in Actors, EndingStep(a)
  PROVE  TypeInv'
<1>1. Return(a)
  BY DEF EndingStep, RecoveryUnanswered, Refuse, CopyOutOfRange, WriteSidecar, WriteFails
<1>2. /\ frame' \in [Actors -> Frame]
      /\ pc' \in [Actors -> Control]
      /\ loop' \in Tasks \cup {NoActor}
      /\ BusyHasEvent' /\ HoldsCopy' /\ RetriesHaveGuia'
  BY <1>1, ReturnType
<1> USE DEF TypeInv, TypeOK
<1>3. CASE RecoveryUnanswered(a) \/ Refuse(a) \/ CopyOutOfRange(a)
  BY <1>2, <1>3 DEF RecoveryUnanswered, Refuse, CopyOutOfRange, service, ReplayPending
<1>4. CASE WriteSidecar(a)
  <2>1. sidecar' \in Seq(Event) /\ acked' \subseteq Event
    BY <1>4 DEF WriteSidecar, Frame, BusyHasEvent
  <2> QED
    BY <1>2, <1>4, <2>1 DEF WriteSidecar, service, ReplayPending
<1>5. CASE WriteFails(a)
  <2>1. budget' \in [requests : Nat, crashes : Nat, failedWrites : Nat]
    <3>1. budget' = [budget EXCEPT !.failedWrites = @ - 1] /\ budget.failedWrites > 0
      BY <1>5 DEF WriteFails
    <3>2. budget \in [requests : Nat, crashes : Nat, failedWrites : Nat]
      OBVIOUS
    <3>3. budget.failedWrites - 1 \in Nat
      BY <3>1, <3>2
    <3> QED
      BY <3>1, <3>2, <3>3
  <2> QED
    BY <1>2, <1>5, <2>1 DEF WriteFails, service, ReplayPending
<1> QED
  BY <1>3, <1>4, <1>5 DEF EndingStep

\* A crash, the hydration after it, each replayed event, and one that fails.
LEMMA RestartType ==
  ASSUME TypeInv, Crash \/ Hydrate \/ ReplayEvent \/ ReplayFails
  PROVE  TypeInv'
<1> USE DEF TypeInv, TypeOK
<1>1. CASE Crash \/ ReplayFails
  <2>0. Forget
    BY <1>1 DEF Crash, ReplayFails
  <2>1. budget' \in [requests : Nat, crashes : Nat, failedWrites : Nat]
    <3>1. budget \in [requests : Nat, crashes : Nat, failedWrites : Nat]
      OBVIOUS
    <3>2. CASE Crash
      <4>1. budget' = [budget EXCEPT !.crashes = @ - 1] /\ budget.crashes - 1 \in Nat
        BY <3>1, <3>2 DEF Crash
      <4> QED
        BY <3>1, <4>1
    <3>3. CASE ReplayFails
      <4>1. /\ budget' = [budget EXCEPT !.failedWrites = @ - 1]
            /\ budget.failedWrites - 1 \in Nat
        BY <3>1, <3>3 DEF ReplayFails
      <4> QED
        BY <3>1, <4>1
    <3> QED
      BY <1>1, <3>2, <3>3
  <2>2. frame' \in [Actors -> Frame] /\ pc' \in [Actors -> Control]
    BY <2>0, EmptyFrameType DEF Forget, Control
  <2>3. BusyHasEvent' /\ HoldsCopy' /\ RetriesHaveGuia' /\ ReplayPending'
    BY <2>0 DEF Forget, BusyHasEvent, HoldsCopy, RetriesHaveGuia, ReplayPending
  <2> QED
    BY <2>0, <2>1, <2>2, <2>3, CachedErroredType, ConstantsAssumption DEF Forget
<1>2. CASE Hydrate
  BY <1>2 DEF Hydrate, service, actors, BusyHasEvent, HoldsCopy, RetriesHaveGuia, ReplayPending
<1>3. CASE ReplayEvent
  <2> DEFINE e == Head(replay)
             after == Applied(State, e)
  <2>1. e \in Event /\ Tail(replay) \in Seq(Event)
    BY <1>3 DEF ReplayEvent, ReplayPending
  <2>2. /\ after.guias \in Seq(GuiaRecord)
        /\ after.errored \subseteq ErroredRecord
        /\ after.discarded \subseteq Page
        /\ TrailAfter(State, trail, e) \in Seq(Event)
    BY <2>1, AppliedType DEF State
  <2> HIDE DEF e, after
  <2>3. /\ guias' = after.guias /\ errored' = after.errored /\ discarded' = after.discarded
        /\ rows' \in {rows, after.guias}
        /\ trail' = TrailAfter(State, trail, e)
        /\ sidecar' \in {sidecar, TrailAfter(State, trail, e)}
        /\ replay' = Tail(replay)
        /\ mode' = IF Len(replay) = 1 THEN "serving" ELSE "replaying"
        /\ UNCHANGED <<actors, acked, budget>>
    BY <1>3 DEF ReplayEvent, e, after
  <2>4. mode' = "replaying" => replay' # <<>>
    <3>1. replay \in Seq(Event) /\ replay # <<>>
      BY <1>3 DEF ReplayEvent, ReplayPending
    <3>2. Len(replay) \in Nat \ {0} /\ Len(Tail(replay)) = Len(replay) - 1
      BY <3>1, HeadTailProperties, EmptySeq
    <3>3. Tail(replay) = <<>> => Len(Tail(replay)) = 0
      BY EmptySeq, Zenon
    <3>4. Len(replay) # 1 => Tail(replay) # <<>>
      BY <3>2, <3>3
    <3> QED
      BY <2>3, <3>4
  <2> QED
    BY <2>1, <2>2, <2>3, <2>4 DEF actors, BusyHasEvent, HoldsCopy, RetriesHaveGuia, ReplayPending
<1> QED
  BY <1>1, <1>2, <1>3

LEMMA NextType == TypeInv /\ [Next]_vars => TypeInv'
<1> SUFFICES ASSUME TypeInv, [Next]_vars PROVE TypeInv'
  OBVIOUS
<1>1. CASE UNCHANGED vars
  BY <1>1 DEF vars, service, actors, TypeInv, TypeOK, BusyHasEvent, HoldsCopy, RetriesHaveGuia, ReplayPending
<1>2. ASSUME NEW a \in Actors, Commit(a) PROVE TypeInv'
  BY <1>2, CommitSteps, CheckType, CopyGuiasType, InnerStepType, EndingStepType
<1>3. ASSUME NEW t \in Threads, ThreadStep(t) PROVE TypeInv'
  <2>1. Commit(t) \/ InnerStep(t)
    BY <1>3 DEF ThreadStep, InnerStep
  <2> QED
    BY <1>2, <2>1, InnerStepType DEF Actors
<1>4. ASSUME NEW c \in Tasks, TaskStep(c) PROVE TypeInv'
  <2>1. Commit(c) \/ InnerStep(c) \/ EndingStep(c)
    BY <1>4 DEF TaskStep, InnerStep, EndingStep
  <2> QED
    BY <1>2, <2>1, InnerStepType, EndingStepType DEF Actors
<1> QED
  BY <1>1, <1>3, <1>4, RequestsType, RestartType DEF Next

\* Every variable keeps its type: no interleaving, crash or replay makes a
\* list, an event or a frame of the wrong shape (ReviewService, EditEvent).
THEOREM TypeCorrect == Spec => []TypeOK
<1>1. TypeInv => TypeOK
  BY DEF TypeInv
<1> QED
  BY <1>1, InitType, NextType, PTL DEF Spec
=============================================================================
