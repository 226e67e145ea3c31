---------------------------- MODULE MCPublishing ----------------------------
(***************************************************************************)
(* Instances of Publishing for TLC.                                        *)
(***************************************************************************)
EXTENDS Publishing, TLC

CONSTANTS b1, b2, m1, p1, p2

MCBlocks == {b1, b2}
MCRequired == {b1}
MCMedia == {m1}
MCThreads == {p1, p2}

Symmetry == Permutations(MCThreads)
=============================================================================
