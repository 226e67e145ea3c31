-------------------------- MODULE TransactionStates --------------------------
(***************************************************************************)
(* The status graph every transaction of the platform moves on             *)
(* (backend/apps/transaction/constants.py).  Constant-level: the modules   *)
(* that model transactions of one family or another extend this one.       *)
(***************************************************************************)

\* The statuses a stored row can have.  "created" is written and left again
\* inside one database transaction, so no other request ever reads it.
TransactionStatus ==
    {"created", "pending", "pending_review", "accepted", "denied",
     "cancelled", "expired", "dismissed", "invalidated", "info_requested"}

TerminalStates ==
    {"accepted", "denied", "cancelled", "expired", "dismissed", "invalidated"}

ValidTransitions ==
    [s \in TransactionStatus |->
        CASE s = "created" -> {"pending", "expired", "invalidated"}
          [] s = "pending" ->
                {"accepted", "denied", "cancelled", "dismissed", "expired",
                 "invalidated", "info_requested", "pending_review"}
          [] s = "pending_review" ->
                {"accepted", "denied", "cancelled", "expired", "invalidated",
                 "info_requested"}
          [] s = "info_requested" ->
                {"pending", "pending_review", "cancelled", "expired",
                 "invalidated"}
          [] s \in {"accepted", "denied"} -> {"dismissed"}
          [] OTHER -> {}]

\* Transaction.can_transition_to
CanTransition(from, to) == to \in ValidTransitions[from]

\* A row that does not exist yet.
Absent == "absent"

=============================================================================
