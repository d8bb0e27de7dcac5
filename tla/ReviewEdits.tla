---------------------------- MODULE ReviewEdits ----------------------------
(***************************************************************************)
(* What one review edit does to the state a ReviewService keeps, as pure   *)
(* operators: application/review_service.py, class ReviewService, and      *)
(* ReconciliationService.apply_reassignment, which it delegates to.        *)
(*                                                                         *)
(* The state of a service is a record                                      *)
(*   guias     the list of guías, in order (self._guias)                   *)
(*   errored   the parallel list of blocks that yielded no line            *)
(*             (self._errored_guias)                                       *)
(*   discarded the pages the QR-evidence gate dropped                      *)
(*             (self._discarded_pages)                                     *)
(* The rows are a function of the guías alone (declared registros never    *)
(* change during a review) and are not part of this record.                *)
(*                                                                         *)
(* The cache has one guía per block of pages: a guía whose pages are       *)
(* apart, or lie in two sections, is there once per block, under one       *)
(* identifier, and errored once per block without lines.                   *)
(*                                                                         *)
(* Data is abstracted to what the properties tell apart: identifiers,      *)
(* registros, dates and materials are uninterpreted values; a line keeps   *)
(* its material and its quantity.  The flag requires_review, which every   *)
(* recovered line carries, is left out, and with it the fail-closed check  *)
(* that refuses a recovered line without it.                               *)
(***************************************************************************)
EXTENDS Integers, Sequences

CONSTANTS
  Guia,         \* identifiers (serie-numero) of the guías of the extraction cache
  Page,         \* PDF pages the QR-evidence gate discarded
  Registro,     \* Registro N° values an operator may type
  SectionId,    \* the ones among them that are Contents/section ids
  Fecha,        \* reception dates
  Material,     \* canonical material descriptions
  None,         \* Python's None
  CachedGuias,  \* extraction_cache.json "guias", a sequence of records of GuiaRecord
  PageRegistro  \* the registro of each discarded page

\* apply_page_recovery names a recovered guía after its page: f"recovered_{page}".
RecoveredId(p) == <<"recovered", p>>

GuiaId == Guia \cup {RecoveredId(p) : p \in Page}
Line == [material : Material, cantidad : Nat]
Source == {"qr", "ocr_fallback", "vision", "operator"}

GuiaRecord ==
  [guia_id : GuiaId, registro : Registro \cup {None}, fecha : Fecha \cup {None},
   lines : Seq(Line), identity_source : Source]

CachedId == {CachedGuias[i].guia_id : i \in DOMAIN CachedGuias}

\* An errored entry and its block, the position of the 0-line guía in the cache:
\* blocks give the order of the list, and tell two entries of one guía apart.
ErroredRecord ==
  [guia_id : CachedId, block : DOMAIN CachedGuias, retry_attempted : BOOLEAN]

(***************************************************************************)
(* The events of the audit trail (EditEvent), one record set per kind.     *)
(* line_index counts from 1 here; NoIndex is the request that leaves it    *)
(* out and selects the line by material_canonical.                         *)
(***************************************************************************)
NoIndex == 0

FieldEdit ==
  [kind : {"field_edit"}, guia_id : GuiaId, field : {"fecha"}, value : Fecha \cup {None}]
    \cup
  [kind : {"field_edit"}, guia_id : GuiaId, field : {"registro"}, value : Registro \cup {None}]
LineEdit ==
  [kind : {"guia_line_edit"}, guia_id : GuiaId, line_index : Nat,
   material_canonical : Material \cup {None}, cantidad : Nat]
Correction ==
  [kind : {"manual_correction"}, guia_id : GuiaId, line_index : Nat,
   material_canonical : Material \cup {None}, cantidad : Nat, assign : Material]
Reassignment ==
  [kind : {"reassignment"}, guia_id : GuiaId, registro : Registro, fecha : Fecha \cup {None}]
OperatorEdit == FieldEdit \cup LineEdit \cup Correction \cup Reassignment

RecoveredGuia ==
  {e \in [kind : {"recovered_guia"}, guia_id : CachedId, guia : GuiaRecord] :
     e.guia.guia_id = e.guia_id}
RecoveredPage ==
  {e \in [kind : {"recovered_discarded_page"}, guia_id : GuiaId, page : Page,
          guia : GuiaRecord] :
     e.guia_id = RecoveredId(e.page) /\ e.guia.guia_id = e.guia_id}
RetryAttempted == [kind : {"retry_attempted"}, guia_id : CachedId]

Event == OperatorEdit \cup RecoveredGuia \cup RecoveredPage \cup RetryAttempted

\* The state build_review_service hydrates from the extraction cache.  The
\* pipeline lists a block as errored exactly when it assembled no line for it.
CachedErrored ==
  {[guia_id |-> CachedGuias[i].guia_id, block |-> i, retry_attempted |-> FALSE] :
     i \in {j \in DOMAIN CachedGuias : CachedGuias[j].lines = <<>>}}

Cached == [guias |-> CachedGuias, errored |-> CachedErrored, discarded |-> Page]

ASSUME ConstantsAssumption ==
  /\ SectionId \subseteq Registro
  /\ None \notin Guia \cup Registro \cup Fecha \cup Material
  /\ \A p \in Page : RecoveredId(p) \notin Guia
  /\ PageRegistro \in [Page -> Registro \cup {None}]
  /\ CachedGuias \in Seq(GuiaRecord)
  /\ \A i \in DOMAIN CachedGuias : CachedGuias[i].guia_id \in Guia

-----------------------------------------------------------------------------
(* Helpers *)

\* The positions of the guías called id; _find_guia_index takes the first.
Positions(gs, id) == {i \in DOMAIN gs : gs[i].guia_id = id}

FirstOf(S) == CHOOSE i \in S : \A j \in S : i <= j

\* Position of the first guía called id, 0 when there is none.
FindGuia(gs, id) == IF Positions(gs, id) = {} THEN 0 ELSE FirstOf(Positions(gs, id))

\* The first errored entry of id, the one mark_retry_attempted takes, unless it
\* is marked already; none when id is not errored.
Unmarked(errored, id) ==
  {x \in errored :
     /\ x.guia_id = id /\ ~x.retry_attempted
     /\ \A y \in errored : y.guia_id = id => x.block <= y.block}

\* Position of the line a line edit selects, 0 when it selects none: by index
\* when one is given, else the first line with that canonical material.
FindLine(g, e) ==
  LET chosen == IF e.line_index # NoIndex
                THEN DOMAIN g.lines \cap {e.line_index}
                ELSE {i \in DOMAIN g.lines : g.lines[i].material = e.material_canonical}
  IN  IF chosen = {} THEN 0 ELSE FirstOf(chosen)

\* The guía with the edit applied: the model_copy of each mutator.
Edited(g, e) ==
  CASE e.kind = "field_edit" /\ e.field = "fecha" -> [g EXCEPT !.fecha = e.value]
    [] e.kind = "field_edit" /\ e.field = "registro" -> [g EXCEPT !.registro = e.value]
    [] e.kind = "guia_line_edit" ->
         [g EXCEPT !.lines[FindLine(g, e)].cantidad = e.cantidad]
    [] e.kind = "manual_correction" ->
         [g EXCEPT !.lines[FindLine(g, e)] =
            [material |-> e.assign, cantidad |-> e.cantidad]]
    [] e.kind = "reassignment" -> [g EXCEPT !.registro = e.registro, !.fecha = e.fecha]

\* Fault: the recovered guía keeps its own (missing) registro.
NoInheritance(new, placeholder) == new

\* A recovered guía takes the registro of the 0-line placeholder it replaces.
Inherit(new, placeholder) ==
  IF new.registro = None THEN [new EXCEPT !.registro = placeholder.registro] ELSE new

-----------------------------------------------------------------------------
(* One mutation *)

\* The errors (ValueError) of each mutator, in a service in state st.
Rejected(st, e) ==
  LET at == FindGuia(st.guias, e.guia_id)
  IN  \/ /\ e.kind \in {"field_edit", "guia_line_edit", "manual_correction", "reassignment"}
         /\ at = 0
      \/ /\ e.kind = "field_edit" /\ e.field = "registro"
         /\ e.value \in SectionId
      \/ /\ e.kind = "reassignment"
         /\ e.registro \in SectionId
      \/ /\ e.kind \in {"guia_line_edit", "manual_correction"}
         /\ at # 0
         /\ FindLine(st.guias[at], e) = 0

\* Fault: the second of two recoveries of a page finds nothing wrong.
PageGuardMissing(st, e) ==
  LET at == FindGuia(st.guias, e.guia_id)
  IN  \/ /\ e.kind = "reassignment"
         /\ at # 0
         /\ st.guias[at].registro = e.registro
         /\ st.guias[at].fecha = e.fecha
      \/ /\ e.kind = "recovered_guia"
         /\ at # 0
         /\ st.guias[at].lines # <<>>
      \/ /\ e.kind = "retry_attempted"
         /\ Unmarked(st.errored, e.guia_id) = {}

\* The early returns that leave everything alone: a reassignment to where the
\* guía already is, a guía that already has lines (in its first block), a page
\* recovered before, a retry already marked.
NoOp(st, e) ==
  LET at == FindGuia(st.guias, e.guia_id)
  IN  \/ /\ e.kind = "reassignment"
         /\ at # 0
         /\ st.guias[at].registro = e.registro
         /\ st.guias[at].fecha = e.fecha
      \/ /\ e.kind = "recovered_guia"
         /\ at # 0
         /\ st.guias[at].lines # <<>>
      \/ /\ e.kind = "recovered_discarded_page"
         /\ \/ e.page \notin st.discarded
            \/ \E i \in Positions(st.guias, e.guia_id) : st.guias[i].lines # <<>>
      \/ /\ e.kind = "retry_attempted"
         /\ Unmarked(st.errored, e.guia_id) = {}

\* The event as it is recorded: a recovered guía is recorded after it has
\* inherited its registro.
Recorded(gs, e) ==
  LET at == FindGuia(gs, e.guia_id)
  IN  IF e.kind = "recovered_guia" /\ at # 0
      THEN [e EXCEPT !.guia = Inherit(@, gs[at])]
      ELSE e

\* Fault: a recovered guía is appended beside its placeholder.
PlaceholderKept(gs, at, changed, e) ==
  CASE e.kind \in {"field_edit", "guia_line_edit", "manual_correction"} ->
         [gs EXCEPT ![at] = changed]
    [] e.kind = "reassignment" ->
         [i \in DOMAIN gs |-> IF gs[i].guia_id = e.guia_id THEN Edited(gs[i], e) ELSE gs[i]]
    [] e.kind \in {"recovered_guia", "recovered_discarded_page"} -> Append(gs, e.guia)
    [] OTHER -> gs

\* The list that replaces self._guias.  at is where the mutator found the guía
\* and changed is the copy it made of it.  A reassignment rebuilds every guía
\* of that identifier (ReconciliationService.apply_reassignment); a recovered
\* guía replaces its placeholder, or is appended when there is none.
Placed(gs, at, changed, e) ==
  CASE e.kind \in {"field_edit", "guia_line_edit", "manual_correction"} ->
         [gs EXCEPT ![at] = changed]
    [] e.kind = "reassignment" ->
         [i \in DOMAIN gs |-> IF gs[i].guia_id = e.guia_id THEN Edited(gs[i], e) ELSE gs[i]]
    [] e.kind = "recovered_guia" ->
         IF at = 0 THEN Append(gs, e.guia) ELSE [gs EXCEPT ![at] = e.guia]
    [] e.kind = "recovered_discarded_page" -> Append(gs, e.guia)
    [] OTHER -> gs

\* The errored entries after the event: a recovery drops every entry of the guía,
\* a failed retry flags the first.
ErroredAfter(errored, e) ==
  CASE e.kind = "recovered_guia" -> {x \in errored : x.guia_id # e.guia_id}
    [] e.kind = "retry_attempted" ->
         {IF x \in Unmarked(errored, e.guia_id) THEN [x EXCEPT !.retry_attempted = TRUE] ELSE x :
            x \in errored}
    [] OTHER -> errored

DiscardedAfter(discarded, e) ==
  IF e.kind = "recovered_discarded_page" THEN discarded \ {e.page} ELSE discarded

\* A whole mutation, from its checks to the new lists.
Applied(st, e) ==
  IF Rejected(st, e) \/ NoOp(st, e) THEN st
  ELSE LET at == FindGuia(st.guias, e.guia_id)
           ev == Recorded(st.guias, e)
           changed == Edited(st.guias[at], e)
       IN  [guias |-> Placed(st.guias, at, changed, ev),
            errored |-> ErroredAfter(st.errored, ev),
            discarded |-> DiscardedAfter(st.discarded, ev)]

\* The trail a replay of events rebuilds: it records what it applies.
TrailAfter(st, trail, e) ==
  IF Rejected(st, e) \/ NoOp(st, e) THEN trail ELSE Append(trail, Recorded(st.guias, e))

\* restore_from_sidecar as one function: the state the events rebuild from the
\* extraction cache.
Rebuilt(events) ==
  LET after[n \in 0 .. Len(events)] ==
        IF n = 0 THEN Cached ELSE Applied(after[n - 1], events[n])
  IN  after[Len(events)]
=============================================================================
