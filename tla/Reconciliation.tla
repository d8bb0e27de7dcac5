--------------------------- MODULE Reconciliation ---------------------------
(***************************************************************************)
(* domain/reconciliation.py: declared against received quantities, one row *)
(* for each (registro, material, unit) that either side names.             *)
(*                                                                         *)
(*   line      [raw, canonical, unidad, cantidad, review, method]          *)
(*   registro  [numero, fecha, lines]                                      *)
(*   guía      [guia_id, registro, fecha, fecha_entrega, lines,            *)
(*              identity_source, delivery_floor_applied, ...]              *)
(*                                                                         *)
(* A canonical is <<"key", token>> or, for a description nobody could      *)
(* parse, <<"UNRESOLVED", description>>.  Quantities are integers.         *)
(* Confidences, pages and display dates of a row are left out.             *)
(***************************************************************************)
EXTENDS ReceptionDates, SequencesExt

CONSTANT Attributes  \* parse_partial: of each description, or None

\* _MATCH_METHOD_PRIORITY of the methods that occur, the worst last.
MethodPriority ==
  [deterministic |-> 0, grade_tolerant |-> 1, llm_inferred |-> 2, unresolved |-> 3]

IsUnresolved(line) == line.canonical[1] = "UNRESOLVED"

-----------------------------------------------------------------------------
(* Grade-tolerant recovery. *)

\* The declared canonicals of the registro that line may stand for.
SameAttributes(declared, numero, line) ==
  LET own == {r \in Range(declared) : r.numero = numero}
      alike == {d \in UNION {Range(r.lines) : r \in own} :
                  /\ ~IsUnresolved(d)
                  /\ Attributes[d.raw] # None
                  /\ Attributes[d.raw] = Attributes[line.raw]
                  /\ d.unidad = line.unidad}
  IN {d.canonical : d \in alike}

Adopted(declared, numero, line) ==
  LET candidates == SameAttributes(declared, numero, line)
  IN IF IsUnresolved(line) /\ Cardinality(candidates) = 1
     THEN [line EXCEPT !.canonical = CHOOSE c \in candidates : TRUE,
                       !.method = "grade_tolerant",
                       !.review = TRUE]
     ELSE line

Recovered(declared, guia) ==
  IF guia.registro = None THEN guia
  ELSE [guia EXCEPT !.lines =
          [j \in DOMAIN guia.lines |-> Adopted(declared, guia.registro, guia.lines[j])]]

-----------------------------------------------------------------------------
(* Rows. *)

Key(numero, line) == <<numero, line.canonical, line.unidad>>

DeclaredEntries(declared, key) ==
  {e \in UNION {{i} \X DOMAIN declared[i].lines : i \in DOMAIN declared} :
     Key(declared[e[1]].numero, declared[e[1]].lines[e[2]]) = key}

GuiaEntries(guias, key) ==
  {e \in UNION {{i} \X DOMAIN guias[i].lines : i \in DOMAIN guias} :
     /\ guias[e[1]].registro # None
     /\ Key(guias[e[1]].registro, guias[e[1]].lines[e[2]]) = key}

\* Fault: guías without a registro are grouped too.
KeysOfAll(declared, guias) ==
  (UNION {{Key(r.numero, line) : line \in Range(r.lines)} : r \in Range(declared)})
  \cup
  (UNION {{Key(g.registro, line) : line \in Range(g.lines)} : g \in Range(guias)})

Keys(declared, guias) ==
  (UNION {{Key(r.numero, line) : line \in Range(r.lines)} : r \in Range(declared)})
  \cup
  (UNION {{Key(g.registro, line) : line \in Range(g.lines)} :
            g \in {g \in Range(guias) : g.registro # None}})

Quantity(docs, entries) ==
  SumFunction([e \in entries |-> docs[e[1]].lines[e[2]].cantidad])

\* authoritative_fecha: the date of the first registro with that number.
AuthoritativeFecha(declared, numero) ==
  LET named == {i \in DOMAIN declared : declared[i].numero = numero}
  IN IF named = {} THEN None ELSE declared[Min(named)].fecha

\* delivery_dates: the last guía of that name that has one.
DeliveryDate(guias, guia_id) ==
  LET dated == {i \in DOMAIN guias :
                  guias[i].guia_id = guia_id /\ guias[i].fecha_entrega # None}
  IN IF dated = {} THEN None ELSE guias[Max(dated)].fecha_entrega

\* A guía counts once in a row, with what the first of its name says of it.
Contributing(guias, entries) ==
  {i \in {e[1] : e \in entries} :
     \A e \in entries : guias[e[1]].guia_id = guias[i].guia_id => i <= e[1]}

\* Fault: of the guías of a name only the first is counted.
OwnEntriesOfFirst(guias, entries, i) == {e \in entries : e[1] = i}

OwnEntries(guias, entries, i) ==
  {e \in entries : guias[e[1]].guia_id = guias[i].guia_id}

Contribution(guias, entries, i, ceiling) ==
  LET guia == guias[i]
      lower == DeliveryDate(guias, guia.guia_id)
      crossed == lower # None /\ ceiling # None /\ lower > ceiling
  IN [guia_id |-> guia.guia_id,
      cantidad |-> Quantity(guias, OwnEntries(guias, entries, i)),
      fecha |-> IF crossed THEN guia.fecha ELSE apply_reception_ceiling(guia.fecha, ceiling),
      fecha_divergence |-> check_fecha_divergence(ceiling, guia.fecha),
      delivery_floor_applied |-> guia.delivery_floor_applied,
      reception_ceiling_applied |-> ~crossed /\ IsCeiled(guia.fecha, ceiling),
      delivery_after_protocolo |-> crossed]

RowMethods(declared, guias, key, contributing) ==
  (UNION {{line.method : line \in Range(guias[i].lines)} : i \in contributing})
  \cup {declared[e[1]].lines[e[2]].method : e \in DeclaredEntries(declared, key)}

Worst(methods) ==
  IF methods = {} THEN "deterministic"
  ELSE CHOOSE m \in methods : \A n \in methods : MethodPriority[n] <= MethodPriority[m]

RequiresReview(guias, contributing, contributions, method) ==
  \/ \E i \in contributing :
       \/ guias[i].fecha = None
       \/ \E line \in Range(guias[i].lines) : line.review
  \/ method # "deterministic"
  \/ \E c \in contributions :
       \/ c.fecha_divergence
       \/ c.delivery_floor_applied
       \/ c.reception_ceiling_applied
       \/ c.delivery_after_protocolo

Row(declared, guias, key) ==
  LET declaredBy == DeclaredEntries(declared, key)
      receivedBy == GuiaEntries(guias, key)
      contributing == Contributing(guias, receivedBy)
      ceiling == AuthoritativeFecha(declared, key[1])
      contributions == {Contribution(guias, receivedBy, i, ceiling) : i \in contributing}
      method == Worst(RowMethods(declared, guias, key, contributing))
      declared_qty == Quantity(declared, declaredBy)
      delta == SumFunction([c \in contributions |-> c.cantidad]) - declared_qty
  IN [declared_qty |-> declared_qty,
      delta |-> delta,
      status |-> IF declaredBy = {} THEN "DECLARED_MISSING"
                 ELSE IF receivedBy = {} THEN "GUIA_MISSING"
                 ELSE IF delta = 0 THEN "MATCH" ELSE "MISMATCH",
      method |-> method,
      requires_review |-> RequiresReview(guias, contributing, contributions, method),
      guias |-> contributions]

reconcile(declared, guias) ==
  LET recovered == [i \in DOMAIN guias |-> Recovered(declared, guias[i])]
  IN [key \in Keys(declared, recovered) |-> Row(declared, recovered, key)]
=============================================================================
