----------------------------- MODULE MCProgress -----------------------------
(***************************************************************************)
(* Instances of Progress for TLC.                                          *)
(***************************************************************************)
EXTENDS Progress, TLC

Symmetry == Permutations(Uploads)
=============================================================================
