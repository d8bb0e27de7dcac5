--------------------------- MODULE MCRunLifecycle ---------------------------
(***************************************************************************)
(* Two runs, one server: instances of RunLifecycle for TLC.                *)
(***************************************************************************)
EXTENDS RunLifecycle, TLC

\* Runs are alike in every safety property.
RunSymmetry == Permutations(Run)
=============================================================================
