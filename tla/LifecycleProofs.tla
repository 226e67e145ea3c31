-------------------------- MODULE LifecycleProofs --------------------------
(***************************************************************************)
(* What the abstract lifecycle guarantees of any set of transactions.  The *)
(* detailed modules implement it, so it holds of theirs as well.           *)
(***************************************************************************)
EXTENDS TransactionLifecycle, TLAPS

LifecycleInv == TypeOK /\ ExecutedWithAcceptance

\* Where a status can go, as the table has it.
LEMMA Transitions ==
  ASSUME NEW from \in TransactionStatus, NEW to \in TransactionStatus,
         CanTransition(from, to)
  PROVE  /\ from \in TerminalStates
              => from \in {"accepted", "denied"} /\ to = "dismissed"
         /\ to # from
BY DEF CanTransition, ValidTransitions, TransactionStatus, TerminalStates

\* ACCEPTED comes with the outcome and nothing else does: the invariant of every
\* family of transactions.
THEOREM LifecycleInvariant == Spec => []LifecycleInv
<1>1. Init => LifecycleInv
  BY DEF Init, LifecycleInv, TypeOK, ExecutedWithAcceptance, Absent
<1>2. ASSUME LifecycleInv, [Next]_vars
      PROVE  LifecycleInv'
  <2>1. CASE UNCHANGED vars
    BY <1>2, <2>1 DEF vars, LifecycleInv, TypeOK, ExecutedWithAcceptance
  <2>2. ASSUME NEW t \in Ids, Open(t)
        PROVE  LifecycleInv'
    BY <1>2, <2>2 DEF Open, LifecycleInv, TypeOK, ExecutedWithAcceptance,
       TransactionStatus, Absent
  <2>3. ASSUME NEW t \in Ids, Accept(t)
        PROVE  LifecycleInv'
    BY <1>2, <2>3 DEF Accept, LifecycleInv, TypeOK, ExecutedWithAcceptance,
       TransactionStatus
  <2>4. ASSUME NEW t \in Ids, NEW s \in TransactionStatus, Move(t, s)
        PROVE  LifecycleInv'
    <3>1. executed[t] => s = "dismissed"
      <4>1. executed[t] => status[t] \in TerminalStates
        BY <1>2 DEF LifecycleInv, ExecutedWithAcceptance, TerminalStates
      <4> QED
        BY <2>4, <4>1, Transitions DEF Move
    <3> QED
      BY <1>2, <2>4, <3>1 DEF Move, LifecycleInv, TypeOK, ExecutedWithAcceptance
  <2> QED
    BY <1>2, <2>1, <2>2, <2>3, <2>4 DEF Next
<1> QED
  BY <1>1, <1>2, PTL DEF Spec

\* No action of the engine opens a closed transaction again, or executes or
\* forgets its outcome.
THEOREM ClosedStaysClosed == Spec => ClosedForGood
<1>1. ASSUME LifecycleInv, [Next]_vars
      PROVE  [\A t \in Ids : status[t] \in TerminalStates =>
                /\ executed'[t] = executed[t]
                /\ \/ status'[t] = status[t]
                   \/ status[t] \in {"accepted", "denied"} /\ status'[t] = "dismissed"]_vars
  <2>1. ASSUME NEW r \in Ids, Open(r)
        PROVE  \A t \in Ids : /\ executed'[t] = executed[t]
                              /\ \/ status'[t] = status[t]
                                 \/ status[t] \notin TerminalStates
    BY <1>1, <2>1 DEF Open, LifecycleInv, TypeOK, TerminalStates, Absent
  <2>2. ASSUME NEW r \in Ids, Accept(r)
        PROVE  \A t \in Ids : \/ /\ executed'[t] = executed[t]
                                 /\ status'[t] = status[t]
                              \/ status[t] \notin TerminalStates
    <3>1. status[r] \notin TerminalStates
      BY <2>2, Transitions DEF Accept, TransactionStatus
    <3> QED
      BY <1>1, <2>2, <3>1 DEF Accept, LifecycleInv, TypeOK
  <2>3. ASSUME NEW r \in Ids, NEW s \in TransactionStatus, Move(r, s)
        PROVE  \A t \in Ids : status[t] \in TerminalStates =>
                  /\ executed'[t] = executed[t]
                  /\ \/ status'[t] = status[t]
                     \/ /\ status[t] \in {"accepted", "denied"}
                        /\ status'[t] = "dismissed"
    <3>1. status[r] \in TerminalStates
            => status[r] \in {"accepted", "denied"} /\ s = "dismissed"
      BY <2>3, Transitions DEF Move
    <3> QED
      BY <1>1, <2>3, <3>1 DEF Move, LifecycleInv, TypeOK
  <2> QED
    BY <1>1, <2>1, <2>2, <2>3 DEF Next
<1> QED
  BY <1>1, LifecycleInvariant, PTL DEF Spec, ClosedForGood

=============================================================================
