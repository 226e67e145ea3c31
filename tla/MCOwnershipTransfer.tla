------------------------- MODULE MCOwnershipTransfer -------------------------
(***************************************************************************)
(* Instances of OwnershipTransfer for TLC.                                 *)
(***************************************************************************)
EXTENDS OwnershipTransfer, TLC

CONSTANTS a, b, c, p1, p2

MCThreeUsers == {a, b, c}
MCTwoUsers == {b, c}
MCOneUser == {b}
MCThird == {c}
MCNobody == {}
MCForms == {"required"}
MCOneProc == {p1}
MCTwoProcs == {p1, p2}
MCSymmetry == Permutations({p1, p2})

=============================================================================
