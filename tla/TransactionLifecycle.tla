------------------------ MODULE TransactionLifecycle ------------------------
(***************************************************************************)
(* What the transaction system promises of one family of transactions,     *)
(* whatever their type: a transaction is opened once, moves only along the *)
(* status graph, and its outcome runs exactly once, in the very step that  *)
(* makes it ACCEPTED.  The detailed modules implement this one.            *)
(***************************************************************************)
EXTENDS TransactionStates

CONSTANT Ids    \* the transactions

VARIABLES
    status,     \* [Ids -> status, or Absent]
    executed    \* [Ids -> outcome_executed]

vars == <<status, executed>>

Init ==
    /\ status = [t \in Ids |-> Absent]
    /\ executed = [t \in Ids |-> FALSE]

\* create_invitation / create_request: CREATED -> PENDING in one commit.
Open(t) ==
    /\ status[t] = Absent
    /\ status' = [status EXCEPT ![t] = "pending"]
    /\ UNCHANGED executed

\* Every other change of status.
Move(t, s) ==
    /\ status[t] \in TransactionStatus
    /\ s # "accepted"
    /\ CanTransition(status[t], s)
    /\ status' = [status EXCEPT ![t] = s]
    /\ UNCHANGED executed

\* accept, approve_pending_review: the status and its outcome in one commit.
Accept(t) ==
    /\ status[t] \in TransactionStatus
    /\ CanTransition(status[t], "accepted")
    /\ ~executed[t]
    /\ status' = [status EXCEPT ![t] = "accepted"]
    /\ executed' = [executed EXCEPT ![t] = TRUE]

Next ==
    \E t \in Ids :
        \/ Open(t)
        \/ Accept(t)
        \/ \E s \in TransactionStatus : Move(t, s)

Spec == Init /\ [][Next]_vars

-----------------------------------------------------------------------------
\* Each transaction has a status of the graph, or is still to be opened.
TypeOK ==
    /\ status \in [Ids -> TransactionStatus \cup {Absent}]
    /\ executed \in [Ids -> BOOLEAN]

\* ACCEPTED means that the outcome ran, and it runs for nothing else; an accepted
\* transaction may be dismissed from the list afterwards.
ExecutedWithAcceptance ==
    \A t \in Ids :
        /\ status[t] = "accepted" => executed[t]
        /\ executed[t] => status[t] \in {"accepted", "dismissed"}

\* What is closed is not opened again: an accepted or denied transaction may be
\* dismissed, and neither gains nor loses its outcome.
ClosedForGood ==
    [][\A t \in Ids : status[t] \in TerminalStates =>
         /\ executed'[t] = executed[t]
         /\ \/ status'[t] = status[t]
            \/ status[t] \in {"accepted", "denied"} /\ status'[t] = "dismissed"]_vars

=============================================================================
