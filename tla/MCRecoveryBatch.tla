-------------------------- MODULE MCRecoveryBatch --------------------------
(***************************************************************************)
(* Two errored guías: the first with a block without lines in each of two  *)
(* registros, the other's first block with lines; two discarded pages of   *)
(* which one has its lines kept; and one vision slot, for which calls      *)
(* contend.                                                                *)
(***************************************************************************)
EXTENDS RecoveryBatch

CONSTANTS g1, g2, h, p1, p2, r1, r2, a, b

MCRegistroOf == [g \in Guia |-> IF g = g1 THEN r1 ELSE r2]
MCIdOf == [g \in Guia |-> IF g = h THEN b ELSE a]
=============================================================================
