----------------------------- MODULE MCDelivery -----------------------------
(***************************************************************************)
(* Instances of Delivery for TLC.                                          *)
(***************************************************************************)
EXTENDS Delivery

CONSTANTS n1, w1, w2, a1, a2

MCNotes == {n1}
MCWorkers == {w1, w2}
MCAdmins == {a1, a2}

MCOneWorker == {w1}
MCNoAdmin == {}
=============================================================================
