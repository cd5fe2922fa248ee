--------------------------- MODULE MCTxtDialogue ---------------------------
(***************************************************************************)
(* Instances of TxtDialogue for TLC.                                       *)
(***************************************************************************)
EXTENDS TxtDialogue

=============================================================================
