--------------------- MODULE MembershipTransactionsProofs ---------------------
(***************************************************************************)
(* What holds of MembershipTransactions for any number of users, calls and *)
(* transactions.  The inductive invariant adds to the types what the row   *)
(* lock gives: a call in flight has its transaction to itself, and the     *)
(* status it read is still the status of the row.                          *)
(***************************************************************************)
EXTENDS MembershipTransactions, TLAPS

\* At most one call has a given transaction locked.
LockExclusive ==
    \A p, q \in Procs :
        job[p].txn # NoTxn /\ job[p].txn = job[q].txn => p = q

\* A call that decides about a transaction has locked it, in the status it
\* found, and will move it to a status that follows.
JobOnRow(p) ==
    /\ job[p].op \in {"idle", "create", "leave"} <=> job[p].txn = NoTxn
    /\ job[p].op = "accept" =>
          /\ txn[job[p].txn].status = "pending"
          /\ job[p].to \in {"accepted", "pending_review", "invalidated"}
          /\ job[p].to = "pending_review" =>
                job[p].kind = "invitation" /\ job[p].form
    /\ job[p].op = "approve" =>
          txn[job[p].txn].status = "pending_review"
    /\ job[p].op = "revoke" =>
          /\ txn[job[p].txn].status = "pending_review"
          /\ job[p].to \in {"denied", "cancelled"}
    /\ job[p].txn # NoTxn =>
          /\ job[p].user = txn[job[p].txn].user
          /\ job[p].kind = txn[job[p].txn].kind
    /\ job[p].op = "create" => job[p].to = "pending"
JobsOnRows == \A p \in Procs : JobOnRow(p)

\* The invitation behind a provisional membership of u: nobody is accepting it,
\* and an approval of it that is under way reaches that membership.
Backs(t, u) ==
    /\ txn[t].user = u /\ txn[t].kind = "invitation"
    /\ txn[t].form /\ ~txn[t].done /\ txn[t].status # Absent
    /\ \A p \in Procs : job[p].txn = t =>
          /\ job[p].op = "accept" => Refused(p)
          /\ job[p].op = "approve" =>
                job[p].write = "update" /\ job[p].gen = gen[u]
ProvisionalBacked ==
    \A u \in Users : member[u] = "pending_approval" =>
        \E t \in Txns : Backs(t, u)

IInv ==
    /\ TypeOK
    /\ LockExclusive
    /\ JobsOnRows
    /\ OutcomeMatchesStatus

-----------------------------------------------------------------------------
(* Types.                                                                  *)

LEMMA SomeoneType == Someone \in Candidates
  BY UsersAssumption DEF Someone

LEMMA IdleType == Idle \in Jobs
  BY SomeoneType, UsersAssumption DEF Idle, Jobs, Ops, Kinds, Actors, TransactionStatus, NoTxn

\* Every call that begins is recorded as a well-formed job.
LEMMA BeginTypes ==
  ASSUME TypeOK, NEW p \in Procs, Begin(p)
  PROVE  TypeOK'
<1> USE DEF TypeOK, Jobs, Ops, Kinds, Actors, TransactionStatus, NoTxn
<1>1. ASSUME NEW u \in Candidates, NEW form \in BOOLEAN,
             BeginCreateRequest(p, u, form)
      PROVE  TypeOK'
  BY <1>1, UsersAssumption DEF BeginCreateRequest, CreateJob
<1>2. ASSUME NEW u \in Candidates, NEW form \in BOOLEAN, NEW x \in Inviters,
             BeginCreateInvitation(p, x, u, form)
      PROVE  TypeOK'
  BY <1>2, UsersAssumption DEF BeginCreateInvitation, CreateJob
<1>3. ASSUME NEW t \in Txns, NEW attach \in BOOLEAN, BeginAccept(p, t, attach)
      PROVE  TypeOK'
  BY <1>3 DEF BeginAccept, Rows, RowJob, FormAt, AcceptStatus, MembershipWrite
<1>4. ASSUME NEW t \in Txns, BeginRefusedAccept(p, t)
      PROVE  TypeOK'
  BY <1>4 DEF BeginRefusedAccept, Rows, RowJob
<1>5. ASSUME NEW t \in Txns, NEW to \in TransactionStatus,
             NEW op \in {"approve", "revoke"}, BeginReview(p, t, op, to)
      PROVE  TypeOK'
  BY <1>5 DEF BeginReview, Rows, RowJob, ReviewWrite
<1>6. ASSUME NEW u \in Administered, BeginLeave(p, u)
      PROVE  TypeOK'
  BY <1>6, UsersAssumption DEF BeginLeave, LeaveJob
<1> QED
  BY <1>1, <1>2, <1>3, <1>4, <1>5, <1>6 DEF Begin, BeginApprove, BeginRevoke

LEMMA WrittenRowType ==
  ASSUME TypeOK, NEW p \in Procs
  PROVE  WrittenRow(p) \in Rows
  BY DEF TypeOK, WrittenRow, Rows, Jobs

LEMMA ApprovedRowType ==
  ASSUME TypeOK, NEW t \in Txns
  PROVE  ApprovedRow(t) \in Rows
<1>1. txn[t] \in Rows
  BY DEF TypeOK
<1>2. \A r \in Rows : [r EXCEPT !.status = "accepted", !.done = TRUE] \in Rows
  BY DEF Rows, TransactionStatus
<1> QED
  BY <1>1, <1>2 DEF ApprovedRow

LEMMA CommitTypes ==
  ASSUME TypeOK, JobsOnRows, NEW p \in Procs, Commit(p)
  PROVE  TypeOK'
<1> USE IdleType DEF TypeOK
<1>1. /\ job[p] \in Jobs
      /\ job[p].op \in {"accept", "approve", "revoke"} =>
            job[p].txn \in Txns /\ job[p].user \in Users
  BY DEF JobsOnRows, JobOnRow, Jobs, Rows, NoTxn
<1>2. ASSUME NEW t \in Txns, CommitCreate(p, t)
      PROVE  TypeOK'
  BY <1>2, WrittenRowType DEF CommitCreate
<1>3. CASE CommitAccept(p)
  <2>1. txn' \in [Txns -> Rows]
    BY <1>1, <1>3, WrittenRowType DEF CommitAccept
  <2>2. member' \in [Users -> MemberStatus] /\ manager' \subseteq Users
    BY <1>1, <1>3 DEF CommitAccept, GrantedStatus, MemberStatus
  <2>3. job' \in [Procs -> Jobs]
    BY <1>3 DEF CommitAccept
  <2> QED
    BY <1>3, <2>1, <2>2, <2>3 DEF CommitAccept
<1>4. CASE RollbackAccept(p) \/ Abort(p)
  BY <1>4 DEF RollbackAccept, Abort
<1>5. CASE CommitApprove(p)
  <2>1. txn' \in [Txns -> Rows]
    <3>1. job[p].txn \in Txns
      BY <1>1, <1>5 DEF CommitApprove
    <3>2. ApprovedRow(job[p].txn) \in Rows
      BY <3>1, ApprovedRowType
    <3> QED
      BY <1>5, <3>1, <3>2 DEF CommitApprove
  <2>2. member' \in [Users -> MemberStatus]
    BY <1>1, <1>5 DEF CommitApprove, Activated, MemberStatus
  <2>3. job' \in [Procs -> Jobs]
    BY <1>5 DEF CommitApprove
  <2> QED
    BY <1>5, <2>1, <2>2, <2>3 DEF CommitApprove
<1>6. CASE CommitRevoke(p)
  <2>1. txn' \in [Txns -> Rows]
    BY <1>1, <1>6 DEF CommitRevoke, Rows, Jobs
  <2>2. member' \in [Users -> MemberStatus] /\ manager' \subseteq Users
    BY <1>1, <1>6 DEF CommitRevoke, MemberStatus
  <2>3. gen' \in [Users -> Nat]
    BY <1>1, <1>6 DEF CommitRevoke
  <2>4. job' \in [Procs -> Jobs]
    BY <1>6 DEF CommitRevoke
  <2> QED
    BY <1>6, <2>1, <2>2, <2>3, <2>4 DEF CommitRevoke
<1>7. CASE CommitLeave(p)
  BY <1>7 DEF CommitLeave, MemberStatus
<1> QED
  BY <1>2, <1>3, <1>4, <1>5, <1>6, <1>7 DEF Commit

LEMMA OtherTypes ==
  ASSUME TypeOK,
         \/ \E t \in Txns : Decide(t) \/ Expire(t)
         \/ Administer
  PROVE  TypeOK'
<1> USE DEF TypeOK, Move
<1>1. ASSUME NEW t \in Txns, Decide(t) \/ Expire(t)
      PROVE  TypeOK'
  BY <1>1 DEF Decide, Deny, Cancel, Dismiss, Expire, RequestInfo, Resubmit,
              ResubmitStatus, Rows, TransactionStatus
<1>2. ASSUME NEW u \in Users, NEW s \in MemberStatus,
             UpdateMembershipStatus(u, s)
      PROVE  TypeOK'
  BY <1>2 DEF UpdateMembershipStatus
<1>3. ASSUME NEW u \in Users, LosePermission(u)
      PROVE  TypeOK'
  BY <1>3 DEF LosePermission
<1>4. ASSUME NEW k \in Kinds, NEW m \in Mappings, SetMapping(k, m)
      PROVE  TypeOK'
  BY <1>4 DEF SetMapping
<1>5. ASSUME NEW t \in Txns, CooldownPasses(t)
      PROVE  TypeOK'
  BY <1>5 DEF CooldownPasses, Rows
<1> QED
  BY <1>1, <1>2, <1>3, <1>4, <1>5, UsersAssumption DEF Administer

-----------------------------------------------------------------------------
(* The row lock: a call in flight has its transaction to itself.           *)

\* A call that begins takes a free transaction, or none.
LEMMA BeginLocks ==
  ASSUME TypeOK, NEW p \in Procs, Begin(p)
  PROVE  /\ UNCHANGED txn
         /\ JobOnRow(p)'
         /\ \E j \in Jobs : /\ job' = [job EXCEPT ![p] = j]
                            /\ j.txn # NoTxn => ~Locked(j.txn)
<1> USE DEF JobOnRow, NoTxn, Txns
<1>0. job' \in [Procs -> Jobs]
  BY BeginTypes DEF TypeOK
<1>1. ASSUME NEW u \in Candidates, NEW form \in BOOLEAN,
             \/ BeginCreateRequest(p, u, form)
             \/ \E x \in Inviters : BeginCreateInvitation(p, x, u, form)
      PROVE  /\ UNCHANGED txn /\ JobOnRow(p)'
             /\ job' = [job EXCEPT ![p] = job'[p]] /\ job'[p].txn = NoTxn
  BY <1>1 DEF BeginCreateRequest, BeginCreateInvitation, CreateJob, TypeOK
<1>2. ASSUME NEW t \in Txns, NEW attach \in BOOLEAN, BeginAccept(p, t, attach)
      PROVE  /\ UNCHANGED txn /\ JobOnRow(p)'
             /\ job' = [job EXCEPT ![p] = job'[p]] /\ ~Locked(job'[p].txn)
  BY <1>2, BoundsAssumption DEF BeginAccept, RowJob, AcceptStatus, TypeOK
<1>3. ASSUME NEW t \in Txns, BeginRefusedAccept(p, t)
      PROVE  /\ UNCHANGED txn /\ JobOnRow(p)'
             /\ job' = [job EXCEPT ![p] = job'[p]] /\ ~Locked(job'[p].txn)
  BY <1>3, BoundsAssumption DEF BeginRefusedAccept, RowJob, TypeOK
<1>4. ASSUME NEW t \in Txns,
             \/ BeginApprove(p, t)
             \/ \E to \in TerminalStates : BeginRevoke(p, t, to)
      PROVE  /\ UNCHANGED txn /\ JobOnRow(p)'
             /\ job' = [job EXCEPT ![p] = job'[p]] /\ ~Locked(job'[p].txn)
  BY <1>4, BoundsAssumption
     DEF BeginApprove, BeginRevoke, BeginReview, RowJob, TypeOK
<1>5. ASSUME NEW u \in Administered, BeginLeave(p, u)
      PROVE  /\ UNCHANGED txn /\ JobOnRow(p)'
             /\ job' = [job EXCEPT ![p] = job'[p]] /\ job'[p].txn = NoTxn
  BY <1>5 DEF BeginLeave, LeaveJob, TypeOK
<1> QED
  BY <1>0, <1>1, <1>2, <1>3, <1>4, <1>5 DEF Begin

\* A call that ends releases its transaction and has written no other row, an
\* insertion at a free place apart.
LEMMA CommitReleases ==
  ASSUME TypeOK, NEW p \in Procs, Commit(p)
  PROVE  /\ job' = [job EXCEPT ![p] = Idle]
         /\ \A t \in Txns : \/ txn'[t] = txn[t]
                            \/ t = job[p].txn
                            \/ txn[t].status = Absent
  BY DEF Commit, CommitCreate, CommitAccept, RollbackAccept, Abort, CommitApprove,
         CommitRevoke, CommitLeave, TypeOK

\* What is done without a call in flight spares the locked rows.
LEMMA OthersRespectLocks ==
  ASSUME TypeOK,
         \/ \E t \in Txns : Decide(t) \/ Expire(t)
         \/ Administer
  PROVE  /\ UNCHANGED job
         /\ \A t \in Txns :
               /\ Locked(t) => txn'[t].status = txn[t].status
               /\ txn'[t].kind = txn[t].kind /\ txn'[t].user = txn[t].user
<1>1. ASSUME NEW t \in Txns, Decide(t) \/ Expire(t)
      PROVE  /\ UNCHANGED job
             /\ \A s \in Txns :
                   /\ Locked(s) => txn'[s].status = txn[s].status
                   /\ txn'[s].kind = txn[s].kind /\ txn'[s].user = txn[s].user
  BY <1>1 DEF Decide, Deny, Cancel, Dismiss, Expire, RequestInfo, Resubmit, Move,
              TypeOK, Rows
<1>2. CASE Administer
  <2>1. ASSUME NEW t \in Txns, CooldownPasses(t)
        PROVE  /\ UNCHANGED job
               /\ \A s \in Txns :
                     /\ txn'[s].status = txn[s].status
                     /\ txn'[s].kind = txn[s].kind /\ txn'[s].user = txn[s].user
    BY <2>1 DEF CooldownPasses, TypeOK, Rows
  <2>2. CASE UNCHANGED <<txn, job>>
    BY <2>2
  <2> QED
    BY <1>2, <2>1, <2>2
       DEF Administer, UpdateMembershipStatus, LosePermission, SetMapping
<1> QED
  BY <1>1, <1>2

LEMMA LocksPreserved ==
  ASSUME TypeOK, LockExclusive, JobsOnRows, Next
  PROVE  LockExclusive' /\ JobsOnRows'
<1>1. ASSUME NEW p \in Procs, Begin(p)
      PROVE  LockExclusive' /\ JobsOnRows'
  <2>1. PICK j \in Jobs : /\ job' = [job EXCEPT ![p] = j]
                          /\ j.txn # NoTxn => ~Locked(j.txn)
    BY <1>1, BeginLocks
  <2>2. LockExclusive'
    BY <2>1 DEF LockExclusive, Locked, TypeOK
  <2>3. JobsOnRows'
    BY <1>1, <2>1, BeginLocks DEF JobsOnRows, JobOnRow, TypeOK
  <2> QED
    BY <2>2, <2>3
<1>2. ASSUME NEW p \in Procs, Commit(p)
      PROVE  LockExclusive' /\ JobsOnRows'
  <2>1. LockExclusive'
    BY <1>2, CommitReleases DEF LockExclusive, Idle, TypeOK
  <2>2. ASSUME NEW q \in Procs
        PROVE  JobOnRow(q)'
    <3>1. CASE q = p
      BY <1>2, <3>1, CommitReleases DEF JobOnRow, Idle, TypeOK
    <3>2. CASE q # p /\ job[q].txn = NoTxn
      BY <1>2, <3>2, CommitReleases DEF JobsOnRows, JobOnRow, TypeOK
    <3>3. CASE q # p /\ job[q].txn # NoTxn
      <4>1. /\ job'[q] = job[q] /\ JobOnRow(q)
            /\ job[q].txn \in Txns /\ job[q].txn # job[p].txn
        BY <1>2, <3>3, CommitReleases
           DEF JobsOnRows, LockExclusive, TypeOK, Jobs
      <4>2. txn[job[q].txn].status # Absent
        BY <3>3, <4>1 DEF JobOnRow, TypeOK, Jobs, Ops, Absent
      <4>3. txn'[job[q].txn] = txn[job[q].txn]
        BY <1>2, <4>1, <4>2, CommitReleases
      <4> QED
        BY <4>1, <4>3 DEF JobOnRow
    <3> QED
      BY <3>1, <3>2, <3>3
  <2> QED
    BY <2>1, <2>2 DEF JobsOnRows
<1>3. CASE \/ \E t \in Txns : Decide(t) \/ Expire(t)
           \/ Administer
  <2>1. LockExclusive'
    BY <1>3, OthersRespectLocks DEF LockExclusive
  <2>2. ASSUME NEW q \in Procs
        PROVE  JobOnRow(q)'
    <3>1. JobOnRow(q) /\ job'[q] = job[q] /\ job[q] \in Jobs
      BY <1>3, OthersRespectLocks DEF JobsOnRows, TypeOK
    <3>2. job[q].txn # NoTxn => job[q].txn \in Txns /\ Locked(job[q].txn)
      BY <3>1 DEF Jobs, Locked
    <3> QED
      BY <1>3, <3>1, <3>2, OthersRespectLocks DEF JobOnRow
  <2> QED
    BY <2>1, <2>2 DEF JobsOnRows
<1> QED
  BY <1>1, <1>2, <1>3 DEF Next

-----------------------------------------------------------------------------
(* The inductive invariant.                                                *)

\* Only the rows of accepting calls get an outcome, in the commit that makes
\* them ACCEPTED; nothing but a dismissal moves them on.
LEMMA OutcomePreserved ==
  ASSUME TypeOK, JobsOnRows, OutcomeMatchesStatus, Next
  PROVE  OutcomeMatchesStatus'
<1> DEFINE Good(r) == /\ r.status = "accepted" => r.done
                      /\ r.done => r.status \in {"accepted", "dismissed"}
<1>0. \A t \in Txns : Good(txn[t])
  BY DEF OutcomeMatchesStatus
<1> SUFFICES \A t \in Txns : Good(txn'[t])
  BY DEF OutcomeMatchesStatus
<1> USE DEF TypeOK
<1>1. ASSUME NEW p \in Procs, Begin(p)
      PROVE  \A t \in Txns : Good(txn'[t])
  BY <1>0, <1>1, BeginLocks
<1>2. ASSUME NEW p \in Procs, Commit(p)
      PROVE  \A t \in Txns : Good(txn'[t])
  <2>1. Good(WrittenRow(p))
    BY DEF WrittenRow
  <2>2. ASSUME NEW t \in Txns, CommitCreate(p, t)
        PROVE  \A s \in Txns : Good(txn'[s])
    BY <1>0, <2>1, <2>2 DEF CommitCreate
  <2>3. CASE CommitAccept(p)
    BY <1>0, <2>1, <2>3 DEF CommitAccept
  <2>4. CASE RollbackAccept(p) \/ Abort(p) \/ CommitLeave(p)
    BY <1>0, <2>4 DEF RollbackAccept, Abort, CommitLeave
  <2>5. CASE CommitApprove(p)
    BY <1>0, <2>5 DEF CommitApprove, ApprovedRow, Rows
  <2>6. CASE CommitRevoke(p)
    <3>1. txn[job[p].txn].status = "pending_review" /\ job[p].to # "accepted"
      BY <2>6 DEF CommitRevoke, JobsOnRows, JobOnRow
    <3>2. job[p].txn \in Txns
      BY <2>6 DEF CommitRevoke, JobsOnRows, JobOnRow, Jobs
    <3> QED
      BY <1>0, <2>6, <3>1, <3>2 DEF CommitRevoke, Rows
  <2> QED
    BY <1>2, <2>2, <2>3, <2>4, <2>5, <2>6 DEF Commit
<1>3. ASSUME NEW t \in Txns, Decide(t) \/ Expire(t)
      PROVE  \A s \in Txns : Good(txn'[s])
  <2>1. CASE Dismiss(t)
    BY <1>0, <2>1 DEF Dismiss, Rows
  <2>2. CASE Deny(t)
    BY <1>0, <2>2 DEF Deny, Rows
  <2>3. CASE Cancel(t)
    BY <1>0, <2>3 DEF Cancel, Rows
  <2>4. CASE Expire(t)
    BY <1>0, <2>4 DEF Expire, IsOpen, TerminalStates, Rows
  <2>5. CASE RequestInfo(t)
    BY <1>0, <2>5 DEF RequestInfo, Rows
  <2>6. CASE Resubmit(t)
    BY <1>0, <2>6 DEF Resubmit, ResubmitStatus, Rows
  <2> QED
    BY <1>3, <2>1, <2>2, <2>3, <2>4, <2>5, <2>6 DEF Decide
<1>4. CASE Administer
  <2>1. ASSUME NEW t \in Txns, CooldownPasses(t)
        PROVE  \A s \in Txns : Good(txn'[s])
    BY <1>0, <2>1 DEF CooldownPasses, Rows
  <2> QED
    BY <1>0, <1>4, <2>1
       DEF Administer, UpdateMembershipStatus, LosePermission, SetMapping
<1> QED
  BY <1>1, <1>2, <1>3, <1>4 DEF Next

\* Every call works on rows of the right type, in the status it found, with its
\* transaction to itself.
THEOREM InductiveInvariant == Spec => []IInv
<1>1. Init => IInv
  BY IdleType, SomeoneType, UsersAssumption
     DEF Init, IInv, TypeOK, LockExclusive, JobsOnRows, JobOnRow, Idle,
         OutcomeMatchesStatus, Rows, Kinds, Actors, MemberStatus, Mappings,
         TransactionStatus, Absent, NoTxn
<1>2. IInv /\ [Next]_vars => IInv'
  <2>1. ASSUME IInv, Next
        PROVE  IInv'
    <3>1. TypeOK'
      BY <2>1, BeginTypes, CommitTypes, OtherTypes DEF Next, IInv
    <3> QED
      BY <2>1, <3>1, LocksPreserved, OutcomePreserved DEF IInv
  <2>2. ASSUME IInv, UNCHANGED vars
        PROVE  IInv'
    BY <2>2 DEF IInv, vars, TypeOK, LockExclusive, JobsOnRows, JobOnRow,
                OutcomeMatchesStatus
  <2> QED
    BY <2>1, <2>2
<1> QED
  BY <1>1, <1>2, PTL DEF Spec

\* Every variable keeps its type, whatever the bounds and the interleaving.
THEOREM TypeCorrect == Spec => []TypeOK
<1>1. IInv => TypeOK
  BY DEF IInv
<1> QED
  BY <1>1, InductiveInvariant, PTL

\* No transaction is ever ACCEPTED without its outcome, and none that ended
\* otherwise has one.
THEOREM OutcomeCorrect == Spec => []OutcomeMatchesStatus
<1>1. IInv => OutcomeMatchesStatus
  BY DEF IInv
<1> QED
  BY <1>1, InductiveInvariant, PTL

-----------------------------------------------------------------------------
(* Every commit is a step of the lifecycle, or no step at all.             *)

\* A commit that leaves every transaction alone is a stutter of the lifecycle.
LEMMA NoTransactionMoves ==
  ASSUME \A t \in Txns : /\ txn'[t].status = txn[t].status
                         /\ txn'[t].done = txn[t].done
  PROVE  UNCHANGED Lifecycle!vars
  BY DEF Lifecycle!vars

\* The transaction of one commit moves along one edge, without an outcome.
LEMMA OneTransactionMoves ==
  ASSUME TypeOK, NEW t \in Txns, NEW s \in TransactionStatus,
         \A r \in Txns \ {t} : txn'[r] = txn[r],
         txn[t].status # Absent,
         CanTransition(txn[t].status, s), s # "accepted",
         txn'[t].status = s, txn'[t].done = txn[t].done
  PROVE  Lifecycle!Next
<1>1. txn[t].status \in TransactionStatus
  BY DEF TypeOK, Rows
<1>2. [r \in Txns |-> txn'[r].status]
        = [[r \in Txns |-> txn[r].status] EXCEPT ![t] = s]
  OBVIOUS
<1>3. [r \in Txns |-> txn'[r].done] = [r \in Txns |-> txn[r].done]
  OBVIOUS
<1>4. Lifecycle!CanTransition(txn[t].status, s)
  BY DEF Lifecycle!CanTransition, CanTransition, Lifecycle!ValidTransitions,
         ValidTransitions, Lifecycle!TransactionStatus, TransactionStatus
<1>5. s \in Lifecycle!TransactionStatus
      /\ txn[t].status \in Lifecycle!TransactionStatus
  BY <1>1 DEF Lifecycle!TransactionStatus, TransactionStatus
<1>6. Lifecycle!Move(t, s)
  BY <1>2, <1>3, <1>4, <1>5 DEF Lifecycle!Move
<1> QED
  BY <1>5, <1>6 DEF Lifecycle!Next

\* One transaction is ACCEPTED and its outcome runs.
LEMMA OneTransactionAccepted ==
  ASSUME TypeOK, OutcomeMatchesStatus, NEW t \in Txns,
         \A r \in Txns \ {t} : txn'[r] = txn[r],
         txn[t].status \in {"pending", "pending_review"},
         txn'[t].status = "accepted", txn'[t].done = TRUE
  PROVE  Lifecycle!Next
<1>1. [r \in Txns |-> txn'[r].status]
        = [[r \in Txns |-> txn[r].status] EXCEPT ![t] = "accepted"]
  OBVIOUS
<1>2. [r \in Txns |-> txn'[r].done]
        = [[r \in Txns |-> txn[r].done] EXCEPT ![t] = TRUE]
  OBVIOUS
<1>3. Lifecycle!CanTransition(txn[t].status, "accepted")
      /\ txn[t].status \in Lifecycle!TransactionStatus
  BY DEF Lifecycle!CanTransition, Lifecycle!ValidTransitions,
         Lifecycle!TransactionStatus
<1>4. ~txn[t].done
  BY DEF OutcomeMatchesStatus
<1>5. Lifecycle!Accept(t)
  BY <1>1, <1>2, <1>3, <1>4 DEF Lifecycle!Accept
<1> QED
  BY <1>5 DEF Lifecycle!Next

\* A row is inserted.
LEMMA OneTransactionOpens ==
  ASSUME TypeOK, OutcomeMatchesStatus, NEW t \in Txns,
         \A r \in Txns \ {t} : txn'[r] = txn[r],
         txn[t].status = Absent,
         txn'[t].status = "pending", txn'[t].done = FALSE
  PROVE  Lifecycle!Next
<1>1. [r \in Txns |-> txn'[r].status]
        = [[r \in Txns |-> txn[r].status] EXCEPT ![t] = "pending"]
  OBVIOUS
<1>2. ~txn[t].done
  BY DEF OutcomeMatchesStatus, Absent
<1>3. txn[t].done \in BOOLEAN
  BY DEF TypeOK, Rows
<1>4. [r \in Txns |-> txn'[r].done] = [r \in Txns |-> txn[r].done]
  BY <1>2, <1>3
<1>5. Lifecycle!Open(t)
  BY <1>1, <1>4 DEF Lifecycle!Open, Lifecycle!Absent, Absent
<1> QED
  BY <1>5 DEF Lifecycle!Next

LEMMA CommitImplements ==
  ASSUME IInv, NEW p \in Procs, Commit(p)
  PROVE  [Lifecycle!Next]_(Lifecycle!vars)
<1> USE DEF IInv
<1>1. job[p] \in Jobs /\ JobOnRow(p)
  BY DEF TypeOK, JobsOnRows
<1>2. ASSUME NEW t \in Txns, CommitCreate(p, t)
      PROVE  Lifecycle!Next
  <2>1. txn' = [txn EXCEPT ![t] = WrittenRow(p)] /\ job[p].to = "pending"
    BY <1>1, <1>2 DEF CommitCreate, JobOnRow
  <2>2. txn'[t].status = "pending" /\ txn'[t].done = FALSE
    BY <2>1 DEF WrittenRow, TypeOK
  <2> QED
    BY <1>2, <2>1, <2>2, OneTransactionOpens DEF CommitCreate, TypeOK
<1>3. CASE CommitAccept(p)
  <2> DEFINE t == job[p].txn
  <2>1. /\ t \in Txns /\ txn[t].status = "pending"
        /\ job[p].to \in {"accepted", "pending_review"}
        /\ txn' = [txn EXCEPT ![t] = WrittenRow(p)]
    BY <1>1, <1>3 DEF CommitAccept, Refused, JobOnRow, Jobs
  <2>2. CASE job[p].to = "accepted"
    <3>1. txn'[t].status = "accepted" /\ txn'[t].done = TRUE
      BY <2>1, <2>2 DEF WrittenRow, TypeOK
    <3> QED
      BY <2>1, <3>1, OneTransactionAccepted DEF TypeOK
  <2>3. CASE job[p].to = "pending_review"
    <3>1. txn'[t].status = "pending_review" /\ txn'[t].done = FALSE
      BY <2>1, <2>3 DEF WrittenRow, TypeOK
    <3>2. txn[t].done = FALSE
      BY <2>1 DEF OutcomeMatchesStatus, TypeOK, Rows
    <3>3. CanTransition(txn[t].status, "pending_review")
      BY <2>1 DEF CanTransition, ValidTransitions, TransactionStatus
    <3> QED
      BY <2>1, <3>1, <3>2, <3>3, OneTransactionMoves
         DEF TypeOK, Absent, TransactionStatus
  <2> QED
    BY <2>1, <2>2, <2>3
<1>4. CASE RollbackAccept(p) \/ Abort(p) \/ CommitLeave(p)
  BY <1>4, NoTransactionMoves DEF RollbackAccept, Abort, CommitLeave
<1>5. CASE CommitApprove(p)
  <2> DEFINE t == job[p].txn
  <2>1. /\ t \in Txns /\ txn[t].status = "pending_review"
        /\ txn' = [txn EXCEPT ![t] = ApprovedRow(t)]
    BY <1>1, <1>5 DEF CommitApprove, JobOnRow, Jobs
  <2>2. txn'[t].status = "accepted" /\ txn'[t].done = TRUE
    BY <2>1 DEF ApprovedRow, TypeOK, Rows
  <2> QED
    BY <2>1, <2>2, OneTransactionAccepted DEF TypeOK
<1>6. CASE CommitRevoke(p)
  <2> DEFINE t == job[p].txn
  <2>1. /\ t \in Txns /\ txn[t].status = "pending_review"
        /\ job[p].to \in {"denied", "cancelled"}
        /\ txn' = [txn EXCEPT ![t].status = job[p].to]
    BY <1>1, <1>6 DEF CommitRevoke, JobOnRow, Jobs
  <2>2. txn'[t].status = job[p].to /\ txn'[t].done = txn[t].done
    BY <2>1 DEF TypeOK, Rows
  <2>3. CanTransition(txn[t].status, job[p].to)
    BY <2>1 DEF CanTransition, ValidTransitions, TransactionStatus
  <2> QED
    BY <2>1, <2>2, <2>3, OneTransactionMoves
       DEF TypeOK, Absent, TransactionStatus
<1> QED
  BY <1>2, <1>3, <1>4, <1>5, <1>6 DEF Commit

LEMMA DecisionImplements ==
  ASSUME IInv, NEW t \in Txns, Decide(t) \/ Expire(t)
  PROVE  Lifecycle!Next
<1> DEFINE Moved(s) == /\ s \in TransactionStatus /\ s # "accepted"
                       /\ CanTransition(txn[t].status, s)
                       /\ txn[t].status # Absent
                       /\ \A r \in Txns \ {t} : txn'[r] = txn[r]
                       /\ txn'[t].status = s /\ txn'[t].done = txn[t].done
<1> USE DEF IInv, TypeOK, Rows, Move, TransactionStatus, Absent
<1>1. CASE Deny(t)
  <2>1. Moved("denied")
    BY <1>1 DEF Deny
  <2> QED
    BY <2>1, OneTransactionMoves
<1>2. CASE Cancel(t)
  <2>1. Moved("cancelled")
    BY <1>2 DEF Cancel
  <2> QED
    BY <2>1, OneTransactionMoves
<1>3. CASE Dismiss(t)
  <2>1. Moved("dismissed")
    BY <1>3 DEF Dismiss
  <2> QED
    BY <2>1, OneTransactionMoves
<1>4. CASE RequestInfo(t)
  <2>1. Moved("info_requested")
    BY <1>4 DEF RequestInfo
  <2> QED
    BY <2>1, OneTransactionMoves
<1>5. CASE Resubmit(t)
  <2>1. Moved(ResubmitStatus(t))
    BY <1>5 DEF Resubmit, ResubmitStatus
  <2> QED
    BY <2>1, OneTransactionMoves
<1>6. CASE Expire(t)
  <2>1. Moved("expired")
    BY <1>6 DEF Expire, IsOpen
  <2> QED
    BY <2>1, OneTransactionMoves
<1> QED
  BY <1>1, <1>2, <1>3, <1>4, <1>5, <1>6 DEF Decide

\* The detailed system implements the abstract lifecycle: however calls overlap,
\* what commits is a path of the status graph with at most one outcome.
THEOREM LifecycleImplemented == Spec => ImplementsLifecycle
<1>1. Init => Lifecycle!Init
  BY DEF Init, Lifecycle!Init, Lifecycle!Absent, Absent
<1>2. ASSUME IInv, Next
      PROVE  [Lifecycle!Next]_(Lifecycle!vars)
  <2>1. ASSUME NEW p \in Procs, Begin(p)
        PROVE  UNCHANGED Lifecycle!vars
    BY <1>2, <2>1, BeginLocks, NoTransactionMoves DEF IInv
  <2>2. CASE Administer
    <3>1. \A t \in Txns : /\ txn'[t].status = txn[t].status
                          /\ txn'[t].done = txn[t].done
      <4>1. ASSUME NEW t \in Txns, CooldownPasses(t)
            PROVE  \A s \in Txns : /\ txn'[s].status = txn[s].status
                                   /\ txn'[s].done = txn[s].done
        BY <1>2, <4>1 DEF IInv, TypeOK, Rows, CooldownPasses
      <4> QED
        BY <2>2, <4>1
           DEF Administer, UpdateMembershipStatus, LosePermission, SetMapping
    <3> QED
      BY <3>1, NoTransactionMoves
  <2> QED
    BY <1>2, <2>1, <2>2, CommitImplements, DecisionImplements DEF Next
<1>3. ASSUME IInv, [Next]_vars
      PROVE  [Lifecycle!Next]_(Lifecycle!vars)
  <2>1. CASE UNCHANGED vars
    BY <2>1 DEF vars, Lifecycle!vars
  <2> QED
    BY <1>2, <1>3, <2>1
<1> QED
  BY <1>1, <1>3, InductiveInvariant, PTL
     DEF Spec, Lifecycle!Spec, ImplementsLifecycle

\* The theorems of the abstract lifecycle, about this module's transactions.
LifecycleFacts == INSTANCE LifecycleProofs WITH
    Ids <- Txns,
    status <- [t \in Txns |-> txn[t].status],
    executed <- [t \in Txns |-> txn[t].done]

\* What every family of transactions inherits: however calls overlap, a closed
\* invitation or request is never opened again, and its outcome neither runs
\* later nor is withdrawn.
THEOREM TransactionsStayClosed == Spec => Lifecycle!ClosedForGood
<1>1. LifecycleFacts!Spec => LifecycleFacts!ClosedForGood
  BY LifecycleFacts!ClosedStaysClosed
<1>2. Lifecycle!Spec => LifecycleFacts!Spec
  BY DEF Lifecycle!Spec, LifecycleFacts!Spec, Lifecycle!Init, LifecycleFacts!Init,
    Lifecycle!Next, LifecycleFacts!Next, Lifecycle!vars, LifecycleFacts!vars,
    Lifecycle!Open, LifecycleFacts!Open, Lifecycle!Accept, LifecycleFacts!Accept,
    Lifecycle!Move, LifecycleFacts!Move, Lifecycle!Absent, LifecycleFacts!Absent,
    Lifecycle!TransactionStatus, LifecycleFacts!TransactionStatus,
    Lifecycle!CanTransition, LifecycleFacts!CanTransition,
    Lifecycle!ValidTransitions, LifecycleFacts!ValidTransitions
<1>3. LifecycleFacts!ClosedForGood => Lifecycle!ClosedForGood
  BY DEF Lifecycle!ClosedForGood, LifecycleFacts!ClosedForGood,
    Lifecycle!TerminalStates, LifecycleFacts!TerminalStates,
    Lifecycle!vars, LifecycleFacts!vars
<1> QED
  BY <1>1, <1>2, <1>3, LifecycleImplemented DEF ImplementsLifecycle

-----------------------------------------------------------------------------
(* Where members come from.                                                *)

\* An outcome, and the history of reinstatements, are for ever.
LEMMA DoneStays ==
  ASSUME IInv, Next
  PROVE  /\ \A t \in Txns : txn[t].done =>
               txn'[t].done /\ txn'[t].user = txn[t].user
         /\ reinstated \subseteq reinstated'
<1> DEFINE Kept == /\ \A t \in Txns : txn[t].done =>
                         txn'[t].done /\ txn'[t].user = txn[t].user
                   /\ reinstated \subseteq reinstated'
<1> USE DEF IInv, TypeOK, Rows
<1>1. ASSUME NEW p \in Procs, Begin(p)
      PROVE  Kept
  <2>1. UNCHANGED reinstated
    BY <1>1 DEF Begin, BeginCreateRequest, BeginCreateInvitation, BeginAccept,
                BeginRefusedAccept, BeginApprove, BeginRevoke, BeginReview,
                BeginLeave
  <2> QED
    BY <1>1, <2>1, BeginLocks
<1>2. ASSUME NEW p \in Procs, Commit(p)
      PROVE  Kept
  <2>1. UNCHANGED reinstated
    BY <1>2 DEF Commit, CommitCreate, CommitAccept, RollbackAccept, Abort,
                CommitApprove, CommitRevoke, CommitLeave
  <2>2. ASSUME NEW t \in Txns, t = job[p].txn \/ txn[t].status = Absent
        PROVE  ~txn[t].done
    <3>1. CASE txn[t].status = Absent
      BY <3>1 DEF OutcomeMatchesStatus, Absent
    <3>2. CASE t = job[p].txn
      <4>1. job[p] \in Jobs /\ JobOnRow(p) /\ t # NoTxn
        BY DEF JobsOnRows, NoTxn, Txns
      <4>2. job[p].op \in {"accept", "approve", "revoke"}
        BY <3>2, <4>1 DEF JobOnRow, Jobs, Ops
      <4>3. txn[t].status \in {"pending", "pending_review"}
        BY <3>2, <4>1, <4>2 DEF JobOnRow
      <4> QED
        BY <4>3 DEF OutcomeMatchesStatus
    <3> QED
      BY <2>2, <3>1, <3>2
  <2> QED
    BY <1>2, <2>1, <2>2, CommitReleases
<1>3. ASSUME NEW t \in Txns, Decide(t) \/ Expire(t)
      PROVE  Kept
  <2>1. UNCHANGED reinstated /\ \A r \in Txns \ {t} : txn'[r] = txn[r]
    BY <1>3 DEF Decide, Deny, Cancel, Dismiss, RequestInfo, Resubmit, Expire, Move
  <2>2. txn'[t].done = txn[t].done /\ txn'[t].user = txn[t].user
    BY <1>3 DEF Decide, Deny, Cancel, Dismiss, RequestInfo, Resubmit, Expire
  <2> QED
    BY <2>1, <2>2
<1>4. CASE Administer
  <2>1. ASSUME NEW t \in Txns, CooldownPasses(t)
        PROVE  Kept
    BY <2>1 DEF CooldownPasses
  <2> QED
    BY <1>4, <2>1 DEF Administer, UpdateMembershipStatus, LosePermission,
                      SetMapping
<1> QED
  BY <1>1, <1>2, <1>3, <1>4 DEF Next

\* Who becomes an active member in a commit.
LEMMA ActivationCaused ==
  ASSUME IInv, Next, NEW u \in Users,
         member'[u] = "active", member[u] # "active"
  PROVE  u \in reinstated' \/ \E t \in Txns : txn'[t].user = u /\ txn'[t].done
<1> USE DEF IInv, TypeOK
<1>1. ASSUME NEW p \in Procs, Begin(p)
      PROVE  UNCHANGED member
  BY <1>1 DEF Begin, BeginCreateRequest, BeginCreateInvitation, BeginAccept,
              BeginRefusedAccept, BeginApprove, BeginRevoke, BeginReview,
              BeginLeave
<1>2. ASSUME NEW p \in Procs, CommitAccept(p)
      PROVE  \E t \in Txns : txn'[t].user = u /\ txn'[t].done
  <2>1. job[p].txn \in Txns /\ job[p].to # "pending_review" /\ ~Refused(p)
        /\ job[p].to \in {"accepted", "pending_review", "invalidated"}
    BY <1>2 DEF CommitAccept, JobsOnRows, JobOnRow, Jobs, GrantedStatus
  <2>2. job[p].user = u
    BY <1>2 DEF CommitAccept
  <2>3. txn'[job[p].txn] = WrittenRow(p) /\ job[p].to = "accepted"
    BY <1>2, <2>1 DEF CommitAccept, Refused
  <2>4. WrittenRow(p).user = u /\ WrittenRow(p).done = TRUE
    BY <2>2, <2>3 DEF WrittenRow
  <2> QED
    BY <2>1, <2>3, <2>4
<1>3. ASSUME NEW p \in Procs, CommitApprove(p)
      PROVE  \E t \in Txns : txn'[t].user = u /\ txn'[t].done
  <2>1. job[p].user = u /\ job[p].txn \in Txns /\ txn[job[p].txn].user = u
    BY <1>3 DEF CommitApprove, Activated, JobsOnRows, JobOnRow, Jobs
  <2>2. txn'[job[p].txn] = ApprovedRow(job[p].txn)
    BY <1>3, <2>1 DEF CommitApprove
  <2>3. /\ ApprovedRow(job[p].txn).user = u
        /\ ApprovedRow(job[p].txn).done = TRUE
    BY <2>1 DEF ApprovedRow, Rows
  <2> QED
    BY <2>1, <2>2, <2>3
<1>4. ASSUME NEW p \in Procs,
             \/ \E t \in Txns : CommitCreate(p, t)
             \/ RollbackAccept(p) \/ Abort(p) \/ CommitRevoke(p) \/ CommitLeave(p)
      PROVE  FALSE
  BY <1>4 DEF CommitCreate, RollbackAccept, Abort, CommitRevoke, CommitLeave
<1>5. ASSUME NEW t \in Txns, Decide(t) \/ Expire(t)
      PROVE  UNCHANGED member
  BY <1>5 DEF Decide, Deny, Cancel, Dismiss, RequestInfo, Resubmit, Expire, Move
<1>6. CASE Administer
  BY <1>6 DEF Administer, UpdateMembershipStatus, LosePermission, SetMapping,
              CooldownPasses
<1> QED
  BY <1>1, <1>2, <1>3, <1>4, <1>5, <1>6 DEF Next, Commit

\* Nobody is an active member but through an accepted transaction, by an
\* administrator's hand or from the start: no interleaving skips the review.
THEOREM MembershipCaused == Spec => []MembershipHasCause
<1>1. Init => MembershipHasCause
  BY DEF Init, MembershipHasCause
<1>2. ASSUME IInv, MembershipHasCause, [Next]_vars
      PROVE  MembershipHasCause'
  <2>1. CASE Next
    BY <1>2, <2>1, DoneStays, ActivationCaused DEF MembershipHasCause
  <2>2. CASE UNCHANGED vars
    BY <1>2, <2>2 DEF vars, MembershipHasCause
  <2> QED
    BY <1>2, <2>1, <2>2
<1> QED
  BY <1>1, <1>2, InductiveInvariant, PTL DEF Spec

\* What keeps an invitation behind its provisional membership.
LEMMA BackingKept ==
  ASSUME NEW t \in Txns, NEW u \in Users, Backs(t, u),
         txn'[t].user = txn[t].user, txn'[t].kind = txn[t].kind,
         txn'[t].form = txn[t].form, txn'[t].done = txn[t].done,
         txn'[t].status # Absent, gen'[u] = gen[u],
         \A q \in Procs : job'[q].txn = t => job'[q] = job[q]
  PROVE  Backs(t, u)'
  BY DEF Backs, Refused

LEMMA BackingPreservedByBegin ==
  ASSUME IInv, NEW p \in Procs, Begin(p),
         NEW t \in Txns, NEW u \in Users, Backs(t, u),
         member[u] = "pending_approval"
  PROVE  UNCHANGED member /\ Backs(t, u)'
<1> USE DEF IInv, TypeOK, NoTxn, Txns, Backs, Refused
<1>1. ASSUME NEW v \in Candidates, NEW form \in BOOLEAN,
             \/ BeginCreateRequest(p, v, form)
             \/ \E x \in Inviters : BeginCreateInvitation(p, x, v, form)
      PROVE  UNCHANGED member /\ Backs(t, u)'
  <2>1. /\ UNCHANGED <<txn, member, gen>> /\ job'[p].txn = NoTxn
        /\ \A q \in Procs : q # p => job'[q] = job[q]
    BY <1>1 DEF BeginCreateRequest, BeginCreateInvitation, CreateJob
  <2> QED
    BY <2>1, BoundsAssumption, BackingKept
<1>2. ASSUME NEW s \in Txns, NEW attach \in BOOLEAN, BeginAccept(p, s, attach)
      PROVE  UNCHANGED member /\ Backs(t, u)'
  <2>1. s # t
    BY <1>2 DEF BeginAccept, MayJoin
  <2> QED
    BY <1>2, <2>1 DEF BeginAccept, RowJob
<1>3. ASSUME NEW s \in Txns, BeginRefusedAccept(p, s)
      PROVE  UNCHANGED member /\ Backs(t, u)'
  BY <1>3 DEF BeginRefusedAccept, RowJob
<1>4. ASSUME NEW s \in Txns,
             \/ BeginApprove(p, s)
             \/ \E to \in TerminalStates : BeginRevoke(p, s, to)
      PROVE  UNCHANGED member /\ Backs(t, u)'
  <2>1. /\ UNCHANGED <<txn, member, gen>> /\ job'[p].txn = s
        /\ \A q \in Procs : q # p => job'[q] = job[q]
        /\ job'[p].op # "accept" /\ job'[p].gen = gen[txn[s].user]
        /\ member[txn[s].user] = "pending_approval" => job'[p].write = "update"
    BY <1>4 DEF BeginApprove, BeginRevoke, BeginReview, RowJob, ReviewWrite
  <2>2. CASE s = t
    BY <2>1, <2>2
  <2>3. CASE s # t
    BY <2>1, <2>3, BackingKept
  <2> QED
    BY <2>1, <2>2, <2>3
<1>5. ASSUME NEW v \in Administered, BeginLeave(p, v)
      PROVE  UNCHANGED member /\ Backs(t, u)'
  BY <1>5 DEF BeginLeave, LeaveJob
<1> QED
  BY <1>1, <1>2, <1>3, <1>4, <1>5 DEF Begin

LEMMA BackingPreservedByCommit ==
  ASSUME IInv, ProvisionalBacked, NEW p \in Procs, Commit(p),
         NEW u \in Users, member'[u] = "pending_approval"
  PROVE  \E t \in Txns : Backs(t, u)'
<1> USE DEF IInv, TypeOK
<1>1. /\ JobOnRow(p) /\ job[p] \in Jobs
      /\ job' = [job EXCEPT ![p] = Idle] /\ job'[p].txn = NoTxn
      /\ \A q \in Procs : q # p => job'[q] = job[q]
  BY CommitReleases DEF JobsOnRows, Idle
<1>2. ASSUME NEW t \in Txns, Backs(t, u),
             txn'[t] = txn[t], gen'[u] = gen[u]
      PROVE  Backs(t, u)'
  <2>1. \A q \in Procs : job'[q].txn = t => job'[q] = job[q]
    BY <1>1, BoundsAssumption DEF NoTxn, Txns
  <2>2. txn'[t].status # Absent
    BY <1>2 DEF Backs
  <2> QED
    BY <1>2, <2>1, <2>2, BackingKept
<1>3. ASSUME NEW s \in Txns, CommitCreate(p, s)
      PROVE  \E t \in Txns : Backs(t, u)'
  BY <1>2, <1>3 DEF CommitCreate, ProvisionalBacked, Backs
<1>4. CASE CommitAccept(p)
  <2>1. job[p].txn \in Txns /\ txn'[job[p].txn] = WrittenRow(p)
    BY <1>1, <1>4 DEF CommitAccept, JobOnRow, Jobs
  <2>2. CASE job[p].user = u /\ Reaches(p)
    <3>1. job[p].to = "pending_review" /\ job[p].kind = "invitation"
          /\ job[p].form
      BY <1>1, <1>4, <2>2 DEF CommitAccept, GrantedStatus, JobOnRow
    <3>2. /\ WrittenRow(p).user = u /\ WrittenRow(p).kind = "invitation"
          /\ WrittenRow(p).form /\ WrittenRow(p).done = FALSE
          /\ WrittenRow(p).status # Absent
      BY <2>2, <3>1 DEF WrittenRow, Absent
    <3>3. \A q \in Procs : job'[q].txn # job[p].txn
      BY <1>1, <2>1 DEF LockExclusive, NoTxn, Txns
    <3> QED
      BY <2>1, <3>2, <3>3 DEF Backs
  <2>3. CASE ~(job[p].user = u /\ Reaches(p))
    <3>1. member[u] = "pending_approval"
      BY <1>4, <2>3 DEF CommitAccept
    <3>2. PICK t \in Txns : Backs(t, u)
      BY <3>1 DEF ProvisionalBacked
    <3>3. t # job[p].txn
      BY <1>4, <3>2 DEF CommitAccept, Backs
    <3> QED
      BY <1>2, <1>4, <3>2, <3>3 DEF CommitAccept
  <2> QED
    BY <2>2, <2>3
<1>5. CASE RollbackAccept(p) \/ Abort(p) \/ CommitLeave(p)
  <2>1. member[u] = "pending_approval" /\ UNCHANGED <<txn, gen>>
    BY <1>5 DEF RollbackAccept, Abort, CommitLeave
  <2> QED
    BY <1>2, <2>1 DEF ProvisionalBacked
<1>6. CASE CommitApprove(p)
  <2>1. member[u] = "pending_approval" /\ ~(Reaches(p) /\ job[p].user = u)
    BY <1>6 DEF CommitApprove, Activated
  <2>2. PICK t \in Txns : Backs(t, u)
    BY <2>1 DEF ProvisionalBacked
  <2>3. t # job[p].txn
    BY <1>1, <1>6, <2>1, <2>2
       DEF CommitApprove, Backs, JobOnRow, Reaches, NoTxn, Txns
  <2> QED
    BY <1>2, <1>6, <2>2, <2>3 DEF CommitApprove
<1>7. CASE CommitRevoke(p)
  <2>1. /\ member[u] = "pending_approval" /\ ~(Reaches(p) /\ job[p].user = u)
        /\ gen'[u] = gen[u]
    BY <1>1, <1>7 DEF CommitRevoke, Jobs
  <2>2. PICK t \in Txns : Backs(t, u)
    BY <2>1 DEF ProvisionalBacked
  <2>3. /\ txn'[t].user = txn[t].user /\ txn'[t].kind = txn[t].kind
        /\ txn'[t].form = txn[t].form /\ txn'[t].done = txn[t].done
        /\ txn'[t].status # Absent
    BY <1>1, <1>7, <2>2 DEF CommitRevoke, Rows, Backs, JobOnRow, Absent
  <2> QED
    BY <1>1, <2>1, <2>2, <2>3, BackingKept DEF NoTxn, Txns
<1> QED
  BY <1>3, <1>4, <1>5, <1>6, <1>7 DEF Commit

LEMMA BackingPreserved ==
  ASSUME IInv, ProvisionalBacked, Next
  PROVE  ProvisionalBacked'
<1> SUFFICES ASSUME NEW u \in Users, member'[u] = "pending_approval"
             PROVE  \E t \in Txns : Backs(t, u)'
  BY DEF ProvisionalBacked
<1> USE DEF IInv, TypeOK
<1>1. ASSUME NEW p \in Procs, Begin(p)
      PROVE  \E t \in Txns : Backs(t, u)'
  <2>1. UNCHANGED member
    BY <1>1 DEF Begin, BeginCreateRequest, BeginCreateInvitation, BeginAccept,
                BeginRefusedAccept, BeginApprove, BeginRevoke, BeginReview,
                BeginLeave
  <2> QED
    BY <1>1, <2>1, BackingPreservedByBegin DEF ProvisionalBacked
<1>2. ASSUME NEW p \in Procs, Commit(p)
      PROVE  \E t \in Txns : Backs(t, u)'
  BY <1>2, BackingPreservedByCommit
<1>3. ASSUME NEW s \in Txns, Decide(s) \/ Expire(s)
      PROVE  \E t \in Txns : Backs(t, u)'
  <2>1. /\ UNCHANGED <<member, gen, job>>
        /\ \A r \in Txns \ {s} : txn'[r] = txn[r]
    BY <1>3 DEF Decide, Deny, Cancel, Dismiss, RequestInfo, Resubmit, Expire, Move
  <2>2. /\ txn'[s].user = txn[s].user /\ txn'[s].kind = txn[s].kind
        /\ txn'[s].form = txn[s].form /\ txn'[s].done = txn[s].done
        /\ txn'[s].status # Absent
    BY <1>3 DEF Decide, Deny, Cancel, Dismiss, RequestInfo, Resubmit, Expire,
                ResubmitStatus, Rows, Absent
  <2>3. PICK t \in Txns : Backs(t, u)
    BY <2>1 DEF ProvisionalBacked
  <2>4. txn'[t].status # Absent
    BY <2>1, <2>2, <2>3 DEF Backs
  <2> QED
    BY <2>1, <2>2, <2>3, <2>4, BackingKept
<1>4. CASE Administer
  <2>1. UNCHANGED <<gen, job>> /\ member[u] = "pending_approval"
    BY <1>4 DEF Administer, UpdateMembershipStatus, LosePermission, SetMapping,
                CooldownPasses
  <2>2. ASSUME NEW t \in Txns
        PROVE  /\ txn'[t].user = txn[t].user /\ txn'[t].kind = txn[t].kind
               /\ txn'[t].form = txn[t].form /\ txn'[t].done = txn[t].done
               /\ txn'[t].status = txn[t].status
    <3>1. ASSUME NEW s \in Txns, CooldownPasses(s)
          PROVE  /\ txn'[t].user = txn[t].user /\ txn'[t].kind = txn[t].kind
                 /\ txn'[t].form = txn[t].form /\ txn'[t].done = txn[t].done
                 /\ txn'[t].status = txn[t].status
      BY <3>1 DEF CooldownPasses, Rows
    <3> QED
      BY <1>4, <3>1 DEF Administer, UpdateMembershipStatus, LosePermission,
                        SetMapping
  <2>3. PICK t \in Txns : Backs(t, u)
    BY <2>1 DEF ProvisionalBacked
  <2>4. txn'[t].status # Absent
    BY <2>2, <2>3 DEF Backs
  <2> QED
    BY <2>1, <2>2, <2>3, <2>4, BackingKept
<1> QED
  BY <1>1, <1>2, <1>3, <1>4 DEF Next

\* A provisional membership always goes back to an invitation answered with a
\* form and not decided yet: whoever ends or approves it in between, a review
\* that is approved does not leave the membership provisional.
THEOREM ProvisionalInvited == Spec => []ProvisionalHasInvitation
<1>1. Init => ProvisionalBacked
  BY DEF Init, ProvisionalBacked
<1>2. ASSUME IInv, ProvisionalBacked, [Next]_vars
      PROVE  ProvisionalBacked'
  <2>1. CASE Next
    BY <1>2, <2>1, BackingPreserved
  <2>2. CASE UNCHANGED vars
    BY <1>2, <2>2 DEF vars, ProvisionalBacked, Backs, Refused
  <2> QED
    BY <1>2, <2>1, <2>2
<1>3. ProvisionalBacked => ProvisionalHasInvitation
  BY DEF ProvisionalBacked, Backs, ProvisionalHasInvitation
<1> QED
  BY <1>1, <1>2, <1>3, InductiveInvariant, PTL DEF Spec

=============================================================================
