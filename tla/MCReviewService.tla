-------------------------- MODULE MCReviewService --------------------------
(***************************************************************************)
(* A small review to check ReviewService on: two guías with two blocks     *)
(* each, with and without lines; two lines of the same material; one or    *)
(* two discarded pages, two registros, two dates, one section id.          *)
(***************************************************************************)
EXTENDS ReviewService, TLC

CONSTANTS g1, g2, p1, p2, r1, r2, sec, f1, f2, m1, m2

Block(g, r, f, ls) ==
  [guia_id |-> g, registro |-> r, fecha |-> f, identity_source |-> "qr", lines |-> ls]
TwoLines == << [material |-> m1, cantidad |-> 1], [material |-> m1, cantidad |-> 2] >>

\* A guía whose first block has lines and whose second has none, around one
\* without any line in either of its blocks, which two sections contain.
MCCachedGuias ==
  << Block(g1, r1, f1, TwoLines), Block(g2, r1, None, << >>), Block(g2, r2, None, << >>),
     Block(g1, r1, f1, << >>) >>

\* A guía whose second block has the lines.
MCLateLines ==
  << Block(g2, r1, None, << >>), Block(g1, r1, f1, TwoLines), Block(g2, r1, f1, TwoLines) >>

MCPageRegistro == [p \in Page |-> r1]
MCRecoveredLines == << [material |-> m2, cantidad |-> 3] >>

Fecha1 == [kind |-> "field_edit", guia_id |-> g1, field |-> "fecha", value |-> f2]
Registro1(r) == [kind |-> "field_edit", guia_id |-> g1, field |-> "registro", value |-> r]
Reassign(g, r, f) == [kind |-> "reassignment", guia_id |-> g, registro |-> r, fecha |-> f]
Quantity(g, n, m, q) ==
  [kind |-> "guia_line_edit", guia_id |-> g, line_index |-> n,
   material_canonical |-> m, cantidad |-> q]
Correct(g, n, m, q, a) ==
  [kind |-> "manual_correction", guia_id |-> g, line_index |-> n,
   material_canonical |-> m, cantidad |-> q, assign |-> a]

\* The placeholder is reassigned, a section id is refused, a line is missing.
SequentialEdits ==
  {Fecha1, Registro1(r2), Registro1(sec), Reassign(g2, r2, f1), Reassign(g1, sec, f1),
   Quantity(g1, 2, None, 4), Quantity(g1, 3, None, 4), Correct(g1, NoIndex, m1, 5, m2),
   Quantity(RecoveredId(p1), NoIndex, m2, 6)}

\* Concurrent callers: an edit of an old guía, one of a recovered page.
ConcurrentEdits == {Fecha1, Quantity(RecoveredId(p1), NoIndex, m2, 6)}

IndexedEdits == {Fecha1, Quantity(g1, 2, None, 4), Reassign(g2, r2, f1)}
NoEdits == {}

\* Two threads are alike in every safety property.
ThreadSymmetry == Permutations(Threads)
=============================================================================
