-------------------------- MODULE MCTokenEndpoint --------------------------
(***************************************************************************)
(* Instances of TokenEndpoint for TLC: an enabled account, a disabled one, *)
(* one configured with a hash nobody can read, and an identifier nobody    *)
(* has.                                                                    *)
(***************************************************************************)
EXTENDS TokenEndpoint, TLC

CONSTANTS ann, bob, carl, ann_mail, bob_name, carl_name, ghost

ThreeUsers == {ann, bob, carl}
AnnCarlActive == {ann, carl}
CarlMalformed == {carl}
FourIdentifiers == {ann_mail, bob_name, carl_name, ghost}
ThreeIdentifiers == FourIdentifiers \ {carl_name}
IndexOfFour == [id \in FourIdentifiers |->
                  CASE id = ann_mail -> ann
                    [] id = bob_name -> bob
                    [] id = carl_name -> carl
                    [] id = ghost -> NoUser]
IndexOfThree == [id \in ThreeIdentifiers |-> IndexOfFour[id]]

Symmetry == Permutations(Requests)
=============================================================================
