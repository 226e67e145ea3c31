------------------------------- MODULE MCChat -------------------------------
(***************************************************************************)
(* Instances of Chat for TLC.                                              *)
(***************************************************************************)
EXTENDS Chat, TLC

CONSTANTS u1, u2, u3, c1, c2, p1, p2

MCUsers == {u1, u2, u3}
MCConversations == {c1, c2}
MCThreads == {p1, p2}

Symmetry ==
    Permutations(MCUsers) \cup Permutations(MCConversations)
        \cup Permutations(MCThreads)
=============================================================================
