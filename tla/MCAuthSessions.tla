--------------------------- MODULE MCAuthSessions ---------------------------
(***************************************************************************)
(* Instances of AuthSessions for TLC.                                      *)
(***************************************************************************)
EXTENDS AuthSessions, TLC

CONSTANTS phone, laptop, tablet, p1, p2

MCDevices == {phone, laptop, tablet}
MCThreads == {p1, p2}
MCOneDevice == {phone}
MCOneThread == {p1}
MCSymmetry == Permutations({p1, p2}) \cup Permutations({laptop, tablet})
=============================================================================
