---------------------- MODULE MCMembershipTransactions ----------------------
(***************************************************************************)
(* Instances of MembershipTransactions for TLC: people are model values.   *)
(***************************************************************************)
EXTENDS MembershipTransactions, TLC

CONSTANTS mona, uma, vic, olga, p1, p2

MCOneUser == {uma}
MCStaff == {mona}
MCStaffAndUser == {mona, uma}
MCStaffAndUsers == {mona, uma, vic}
MCTwoUsers == {uma, vic}
MCNobody == {}
MCOneProc == {p1}
MCTwoProcs == {p1, p2}
MCInvitationForms == {<<"invitation", "optional">>}
MCRequestForms == {<<"request", "required">>}
MCOwner == {olga}
MCSymmetry == Permutations({p1, p2})

=============================================================================
