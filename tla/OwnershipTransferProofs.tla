----------------------- MODULE OwnershipTransferProofs -----------------------
(***************************************************************************)
(* Ownership, for any number of members, offers and concurrent calls: one  *)
(* owner, one holder of the owner's role, and no change of owner without   *)
(* an offer or governance.  The invariant is inductive because the unique  *)
(* constraint stops every transfer that read a former owner, because the   *)
(* row lock keeps an offer as it was while a call decides about it, and    *)
(* because only a review deletes a membership, one it found provisional.   *)
(***************************************************************************)
EXTENDS OwnershipTransfer, TLAPS

\* The offer a call decides about is still as the call has read it, and is being
\* decided about by no other call.
HoldsOffer ==
    \A p \in Procs : job[p].offer # NoOffer =>
        /\ offer[job[p].offer].to = job[p].new
        /\ \/ /\ job[p].op = "transfer" /\ job[p].status = "accepted"
              /\ offer[job[p].offer].status = "pending"
           \/ /\ job[p].op = "approve" /\ job[p].status = "accepted"
              /\ offer[job[p].offer].status = "pending_review"
           \/ /\ job[p].op = "revoke" /\ job[p].status \in {"denied", "cancelled"}
              /\ offer[job[p].offer].status = "pending_review"
OneCallPerOffer ==
    \A p, q \in Procs :
        job[p].offer # NoOffer /\ job[p].offer = job[q].offer => p = q
\* Only an acceptance has an outcome.
OutcomeNeedsAcceptance ==
    \A t \in Offers : offer[t].done => offer[t].status = "accepted"

\* Nobody owns the account, or is about to, with a membership that waits for a
\* review; with a deleted one only if it was deleted over an activation.
Settled == {"active", "suspended", "left"}
OwnersSettled == \A u \in owners : member[u] \in Settled
JobsSettled ==
    \A p \in Procs :
        /\ job[p].op = "transfer" =>
              \/ member[job[p].new] \in Settled
              \/ member[job[p].new] = "none" /\ erased
        /\ job[p].op = "status" => job[p].status \in Settled

IInv ==
    /\ TypeOK
    /\ ExactlyOneOwner
    /\ OnlyOwnerHoldsOwnerRole
    /\ HoldsOffer
    /\ OneCallPerOffer
    /\ OutcomeNeedsAcceptance
    /\ OwnersSettled
    /\ JobsSettled

LEMMA InitIInv == Init => IInv
<1> SUFFICES ASSUME Init PROVE IInv
  OBVIOUS
<1>1. Idle \in Jobs /\ Idle.offer = NoOffer /\ Idle.op = "idle"
  BY OwnershipAssumption DEF Idle, Jobs, Ops, NoOffer, MemberStatus
<1>2. TypeOK
  BY <1>1, OwnershipAssumption
     DEF Init, TypeOK, Rows, Roles, MemberStatus, Mappings, Absent
<1>3. ExactlyOneOwner /\ OnlyOwnerHoldsOwnerRole /\ OwnersSettled
  BY OwnershipAssumption
     DEF Init, ExactlyOneOwner, OnlyOwnerHoldsOwnerRole, OwnersSettled, Settled
<1>4. HoldsOffer /\ OneCallPerOffer /\ OutcomeNeedsAcceptance /\ JobsSettled
  BY <1>1 DEF Init, HoldsOffer, OneCallPerOffer, OutcomeNeedsAcceptance, JobsSettled
<1> QED
  BY <1>2, <1>3, <1>4 DEF IInv

\* A call that begins reads; the job it records is well formed.
LEMMA RequestKeepsIInv ==
  ASSUME IInv, NEW p \in Procs, Request(p)
  PROVE  IInv' /\ UNCHANGED <<offer, owners>>
<1> DEFINE Begun(j) ==
      /\ j \in Jobs
      /\ j.offer # NoOffer =>
            /\ ~Locked(j.offer)
            /\ offer[j.offer].to = j.new
            /\ \/ /\ j.op = "transfer" /\ j.status = "accepted"
                  /\ offer[j.offer].status = "pending"
               \/ /\ j.op = "approve" /\ j.status = "accepted"
                  /\ offer[j.offer].status = "pending_review"
               \/ /\ j.op = "revoke" /\ j.status \in {"denied", "cancelled"}
                  /\ offer[j.offer].status = "pending_review"
      /\ j.op = "transfer" => member[j.new] = "active"
      /\ j.op = "status" => j.status \in Settled
<1>1. PICK j : Begun(j) /\ Begin(p, j)
  <2>1. ASSUME NEW op \in {"offer", "transfer", "status", "role"},
               NEW x \in Users, NEW y \in Users, NEW f \in BOOLEAN,
               NEW s \in {"pending", "active", "suspended", "left"},
               op = "status" => s \in Settled,
               op = "transfer" => member[y] = "active",
               Begin(p, [MemberJob(op, x, y, s) EXCEPT !.form = f])
               \/ Begin(p, MemberJob(op, x, y, s))
        PROVE  \E j : Begun(j) /\ Begin(p, j)
    <3> DEFINE a == [MemberJob(op, x, y, s) EXCEPT !.form = f]
               b == MemberJob(op, x, y, s)
    <3>1. Begun(a) /\ Begun(b)
      BY <2>1, OwnershipAssumption
         DEF MemberJob, Idle, Jobs, Ops, NoOffer, MemberStatus, TransactionStatus
    <3> QED
      BY <2>1, <3>1
  <2>2. ASSUME NEW t \in Offers, NEW op \in {"transfer", "approve", "revoke"},
               NEW x \in Users, NEW f \in BOOLEAN, NEW g \in BOOLEAN,
               NEW s \in {"accepted", "denied", "cancelled"},
               ~Locked(t),
               \/ /\ op = "transfer" /\ s = "accepted"
                  /\ offer[t].status = "pending" /\ member[offer[t].to] = "active"
               \/ /\ op = "approve" /\ s = "accepted"
                  /\ offer[t].status = "pending_review"
               \/ /\ op = "revoke" /\ s # "accepted"
                  /\ offer[t].status = "pending_review",
               Begin(p, OfferJob(op, t, x, s, f, g))
        PROVE  \E j : Begun(j) /\ Begin(p, j)
    <3>1. offer[t] \in Rows
      BY DEF IInv, TypeOK
    <3>2. Begun(OfferJob(op, t, x, s, f, g))
      BY <2>2, <3>1 DEF OfferJob, Jobs, Ops, Rows, TransactionStatus
    <3> QED
      BY <2>2, <3>2
  <2>3. ASSUME NEW x \in Users, NEW y \in Invitees, NEW f \in BOOLEAN,
               BeginOffer(p, x, y, f)
        PROVE  \E j : Begun(j) /\ Begin(p, j)
    BY <2>1, <2>3, OwnershipAssumption DEF BeginOffer
  <2>4. ASSUME NEW x \in Users, NEW y \in Users, BeginForce(p, x, y)
        PROVE  \E j : Begun(j) /\ Begin(p, j)
    BY <2>1, <2>4 DEF BeginForce
  <2>5. ASSUME NEW t \in Offers, NEW x \in Users, NEW a \in BOOLEAN,
               BeginAccept(p, t, x, a)
        PROVE  \E j : Begun(j) /\ Begin(p, j)
    <3>1. (offer[t].form \/ a) \in BOOLEAN
      OBVIOUS
    <3> QED
      BY <2>2, <2>5, <3>1 DEF BeginAccept
  <2>6. ASSUME NEW t \in Offers, NEW s \in TerminalStates,
               BeginApprove(p, t) \/ BeginRevoke(p, t, s)
        PROVE  \E j : Begun(j) /\ Begin(p, j)
    <3>1. offer[t].form \in BOOLEAN
          /\ (member[offer[t].to] = "pending_approval") \in BOOLEAN
      BY DEF IInv, TypeOK, Rows
    <3>2. CASE BeginApprove(p, t)
      BY <2>2, <3>1, <3>2, OwnershipAssumption DEF BeginApprove, BeginReview
    <3>3. CASE BeginRevoke(p, t, s)
      BY <2>2, <3>1, <3>3, OwnershipAssumption DEF BeginRevoke, BeginReview
    <3> QED
      BY <2>6, <3>2, <3>3
  <2>7. ASSUME NEW u \in Users,
               \/ BeginLeave(p, u) \/ BeginRole(p, u)
               \/ \E s \in MemberStatus : BeginStatus(p, u, s)
        PROVE  \E j : Begun(j) /\ Begin(p, j)
    BY <2>1, <2>7 DEF BeginLeave, BeginRole, BeginStatus, Settled
  <2>8. CASE \E t \in Offers :
                \/ \E x \in Users, a \in BOOLEAN : BeginAccept(p, t, x, a)
                \/ BeginApprove(p, t)
                \/ \E s \in TerminalStates : BeginRevoke(p, t, s)
    <3>1. "denied" \in TerminalStates
      BY DEF TerminalStates
    <3> QED
      BY <2>5, <2>6, <2>8, <3>1
  <2>9. CASE \E u \in Administered :
                \/ BeginLeave(p, u) \/ BeginRole(p, u)
                \/ \E s \in MemberStatus : BeginStatus(p, u, s)
    <3>1. Administered \subseteq Users
      BY OwnershipAssumption
    <3> HIDE DEF Begun
    <3> QED
      BY <2>7, <2>9, <3>1
  <2>10. CASE \/ \E x \in Users, y \in Invitees, f \in BOOLEAN :
                    BeginOffer(p, x, y, f)
              \/ \E x, y \in Users : BeginForce(p, x, y)
    BY <2>3, <2>4, <2>10
  <2> HIDE DEF Begun
  <2> QED
    BY <2>8, <2>9, <2>10 DEF Request
<1>2. /\ UNCHANGED <<offer, people, mapping>>
      /\ job' \in [Procs -> Jobs] /\ job'[p] = j
      /\ \A q \in Procs : q # p => job'[q] = job[q]
  BY <1>1 DEF Begin, IInv, TypeOK
<1>3. HoldsOffer'
  BY <1>1, <1>2 DEF IInv, HoldsOffer
<1>4. OneCallPerOffer'
  BY <1>1, <1>2 DEF IInv, OneCallPerOffer, Locked
<1>5. JobsSettled' /\ OwnersSettled'
  BY <1>1, <1>2 DEF IInv, JobsSettled, OwnersSettled, Settled, people
<1>6. TypeOK' /\ ExactlyOneOwner' /\ OnlyOwnerHoldsOwnerRole'
      /\ OutcomeNeedsAcceptance'
  BY <1>2 DEF IInv, TypeOK, ExactlyOneOwner, OnlyOwnerHoldsOwnerRole,
              OutcomeNeedsAcceptance, people
<1> QED
  BY <1>2, <1>3, <1>4, <1>5, <1>6 DEF IInv, people

\* The transfer itself: whichever owner it read, the account has one afterwards,
\* unless the membership of the new owner has been deleted meanwhile.
LEMMA TransferMovesOwner ==
  ASSUME IInv, NEW p \in Procs, CommitTransfer(p)
  PROVE  /\ Live(job[p].new) => owners' = {job[p].new}
         /\ ~Live(job[p].new) =>
               erased /\ (owners' = owners \/ owners' = {})
         /\ ExactlyOneOwner' /\ OnlyOwnerHoldsOwnerRole' /\ OwnersSettled'
<1>1. job[p].old \in Users /\ job[p].new \in Users /\ role \in [Users -> Roles]
  BY DEF IInv, TypeOK, Jobs
<1>2. erased' = erased /\ member' = member /\ job[p].op = "transfer"
  BY DEF CommitTransfer
<1>3. CASE Live(job[p].new)
  <2>1. owners \subseteq {job[p].old, job[p].new}
    BY <1>3 DEF CommitTransfer, UniqueOwnerViolation
  <2>2. owners' = {job[p].new}
    BY <1>3, <2>1 DEF CommitTransfer
  <2>3. OnlyOwnerHoldsOwnerRole'
    BY <1>1, <1>3, <2>1, <2>2
       DEF CommitTransfer, RolesAfter, IInv, OnlyOwnerHoldsOwnerRole
  <2>4. OwnersSettled'
    BY <1>2, <1>3, <2>2 DEF IInv, JobsSettled, OwnersSettled, Live
  <2> QED
    BY <1>1, <1>3, <2>2, <2>3, <2>4 DEF ExactlyOneOwner
<1>4. CASE ~Live(job[p].new)
  <2>1. erased
    BY <1>2, <1>4 DEF IInv, JobsSettled, Live, Settled
  <2>2. owners' = owners \ {job[p].old}
    BY <1>4 DEF CommitTransfer
  <2>3. owners' = owners \/ owners' = {}
    BY <2>2 DEF IInv, ExactlyOneOwner
  <2>4. OnlyOwnerHoldsOwnerRole'
    BY <1>1, <1>4, <2>2
       DEF CommitTransfer, RolesAfter, IInv, OnlyOwnerHoldsOwnerRole
  <2> QED
    BY <1>2, <1>4, <2>1, <2>2, <2>3, <2>4
       DEF IInv, ExactlyOneOwner, OwnersSettled
<1> QED
  BY <1>3, <1>4

LEMMA CommitKeepsIInv ==
  ASSUME IInv, NEW p \in Procs, Commit(p)
  PROVE  IInv'
<1> USE DEF IInv
<1>0. /\ job' = [job EXCEPT ![p] = Idle] /\ Idle \in Jobs
      /\ Idle.offer = NoOffer /\ Idle.op = "idle" /\ job[p] \in Jobs
      /\ job' \in [Procs -> Jobs]
      /\ \A q \in Procs : job'[q] = IF q = p THEN Idle ELSE job[q]
  <2>1. Idle \in Jobs /\ Idle.offer = NoOffer /\ Idle.op = "idle"
    BY OwnershipAssumption DEF Idle, Jobs, Ops, NoOffer, MemberStatus
  <2>2. job' = [job EXCEPT ![p] = Idle]
    BY DEF Commit, CommitOffer, CommitTransfer, RollbackTransfer, Abort,
           CommitApprove, CommitRevoke, CommitStatus, CommitRole, End
  <2> QED
    BY <2>1, <2>2 DEF TypeOK
<1>1. OneCallPerOffer'
  BY <1>0 DEF OneCallPerOffer
<1>2. ASSUME \A t \in Offers : \/ offer'[t] = offer[t]
                               \/ t = job[p].offer
                               \/ offer[t].status = Absent
      PROVE  HoldsOffer'
  <2> SUFFICES ASSUME NEW q \in Procs, job'[q].offer # NoOffer
               PROVE  /\ q # p /\ job'[q] = job[q] /\ job[q].offer \in Offers
                      /\ offer'[job[q].offer] = offer[job[q].offer]
    BY DEF HoldsOffer
  <2>1. q # p /\ job'[q] = job[q] /\ job[q].offer \in Offers
    BY <1>0 DEF TypeOK, Jobs
  <2>2. job[q].offer # job[p].offer
    BY <2>1 DEF OneCallPerOffer
  <2>3. offer[job[q].offer].status # Absent
    BY <2>1 DEF HoldsOffer, Absent
  <2> QED
    BY <1>2, <2>1, <2>2, <2>3
<1>3. ASSUME erased => erased',
             \A u \in Users : \/ member'[u] = member[u]
                              \/ member'[u] \in Settled
                              \/ member'[u] = "none" /\ erased'
                              \/ member[u] = "pending_approval"
      PROVE  JobsSettled'
  <2> SUFFICES ASSUME NEW q \in Procs
               PROVE  /\ job'[q].op = "transfer" =>
                            \/ member'[job'[q].new] \in Settled
                            \/ member'[job'[q].new] = "none" /\ erased'
                      /\ job'[q].op = "status" => job'[q].status \in Settled
    BY DEF JobsSettled
  <2>1. CASE q = p
    BY <1>0, <2>1
  <2>2. CASE q # p
    <3>1. job'[q] = job[q] /\ job[q].new \in Users
      BY <1>0, <2>2 DEF TypeOK, Jobs
    <3> QED
      BY <1>3, <3>1 DEF JobsSettled, Settled
  <2> QED
    BY <2>1, <2>2
<1>4. ASSUME OfferWritten(p)
      PROVE  /\ offer' \in [Offers -> Rows] /\ HoldsOffer'
             /\ OutcomeNeedsAcceptance'
  <2>1. CASE job[p].offer = NoOffer
    BY <1>2, <1>4, <2>1 DEF OfferWritten, TypeOK, OutcomeNeedsAcceptance
  <2>2. CASE job[p].offer # NoOffer
    <3> DEFINE t == job[p].offer
    <3>1. t \in Offers /\ offer[t] \in Rows /\ offer \in [Offers -> Rows]
      BY <2>2 DEF TypeOK, Jobs
    <3>2. /\ job[p].status \in {"accepted", "denied", "cancelled"}
          /\ job[p].form \in BOOLEAN
      BY <1>0, <2>2 DEF HoldsOffer, Jobs
    <3>3. /\ WrittenOffer(p) \in Rows
          /\ WrittenOffer(p).status = job[p].status
          /\ WrittenOffer(p).done = (job[p].status = "accepted")
      BY <3>1, <3>2 DEF WrittenOffer, Rows, TransactionStatus
    <3>4. offer' = [offer EXCEPT ![t] = WrittenOffer(p)]
      BY <1>4, <2>2 DEF OfferWritten
    <3>5. HoldsOffer'
      BY <1>2, <3>1, <3>4
    <3>6. OutcomeNeedsAcceptance'
      BY <3>1, <3>3, <3>4 DEF OutcomeNeedsAcceptance
    <3> QED
      BY <3>1, <3>3, <3>4, <3>5, <3>6
  <2> QED
    BY <2>1, <2>2
<1>5. ASSUME NEW t \in Offers, CommitOffer(p, t)
      PROVE  IInv'
  <2>1. offer' \in [Offers -> Rows]
    BY <1>0, <1>5 DEF CommitOffer, TypeOK, Jobs, Rows, TransactionStatus
  <2>2. HoldsOffer'
    BY <1>2, <1>5 DEF CommitOffer, TypeOK
  <2>3. OutcomeNeedsAcceptance'
    BY <1>5 DEF CommitOffer, TypeOK, OutcomeNeedsAcceptance
  <2>4. JobsSettled' /\ OwnersSettled'
    BY <1>3, <1>5 DEF CommitOffer, people, OwnersSettled
  <2> QED
    BY <1>0, <1>1, <1>5, <2>1, <2>2, <2>3, <2>4
       DEF CommitOffer, people, TypeOK, ExactlyOneOwner, OnlyOwnerHoldsOwnerRole
<1>6. CASE CommitTransfer(p)
  <2>1. /\ offer' \in [Offers -> Rows] /\ HoldsOffer' /\ OutcomeNeedsAcceptance'
    BY <1>4, <1>6 DEF CommitTransfer
  <2>2. role' \in [Users -> Roles]
    BY <1>0, <1>6 DEF CommitTransfer, RolesAfter, TypeOK, Roles, Jobs
  <2>3. owners' \subseteq Users
    BY <1>0, <1>6 DEF CommitTransfer, TypeOK, Jobs
  <2>4. JobsSettled'
    BY <1>3, <1>6 DEF CommitTransfer
  <2>5. ExactlyOneOwner' /\ OnlyOwnerHoldsOwnerRole' /\ OwnersSettled'
    BY <1>6, TransferMovesOwner
  <2> QED
    BY <1>0, <1>1, <1>6, <2>1, <2>2, <2>3, <2>4, <2>5 DEF CommitTransfer, TypeOK
<1>7. CASE RollbackTransfer(p) \/ Abort(p)
  <2>1. HoldsOffer' /\ JobsSettled'
    BY <1>2, <1>3, <1>7 DEF RollbackTransfer, Abort, people
  <2> QED
    BY <1>0, <1>1, <1>7, <2>1
       DEF RollbackTransfer, Abort, people, TypeOK, ExactlyOneOwner,
           OnlyOwnerHoldsOwnerRole, OutcomeNeedsAcceptance, OwnersSettled
<1>8. CASE CommitApprove(p)
  <2>1. /\ offer' \in [Offers -> Rows] /\ HoldsOffer' /\ OutcomeNeedsAcceptance'
    BY <1>4, <1>8 DEF CommitApprove
  <2>2. /\ member' \in [Users -> MemberStatus]
        /\ \A u \in Users : member'[u] = member[u] \/ member'[u] \in Settled
    BY <1>0, <1>8 DEF CommitApprove, TypeOK, MemberStatus, Settled
  <2>3. JobsSettled' /\ OwnersSettled'
    BY <1>3, <1>8, <2>2 DEF CommitApprove, OwnersSettled, TypeOK
  <2> QED
    BY <1>0, <1>1, <1>8, <2>1, <2>2, <2>3
       DEF CommitApprove, TypeOK, ExactlyOneOwner, OnlyOwnerHoldsOwnerRole
<1>9. CASE CommitRevoke(p)
  <2> DEFINE u == job[p].new
  <2>1. /\ offer' \in [Offers -> Rows] /\ HoldsOffer' /\ OutcomeNeedsAcceptance'
        /\ mapping' = mapping
    BY <1>4, <1>9 DEF CommitRevoke
  <2>2. CASE ~job[p].found
    <3>1. UNCHANGED people
      BY <1>9, <2>2 DEF CommitRevoke
    <3>2. JobsSettled'
      BY <1>3, <3>1 DEF people
    <3> QED
      BY <1>0, <1>1, <2>1, <3>1, <3>2
         DEF people, TypeOK, ExactlyOneOwner, OnlyOwnerHoldsOwnerRole, OwnersSettled
  <2>3. CASE job[p].found
    <3>1. /\ member' = [member EXCEPT ![u] = "none"]
          /\ owners' = owners \ {u} /\ role' = [role EXCEPT ![u] = "member"]
          /\ erased' = (erased \/ member[u] \notin {"pending_approval", "none"})
      BY <1>9, <2>3 DEF CommitRevoke
    <3>2. u \in Users /\ erased \in BOOLEAN /\ member \in [Users -> MemberStatus]
          /\ role \in [Users -> Roles] /\ owners \subseteq Users
      BY <1>0 DEF TypeOK, Jobs
    <3>3. JobsSettled'
      <4>1. erased => erased'
        BY <3>1
      <4>2. ASSUME NEW v \in Users
            PROVE  \/ member'[v] = member[v]
                   \/ member'[v] = "none" /\ erased'
                   \/ member[v] = "pending_approval"
        BY <3>1, <3>2
      <4> QED
        BY <1>3, <4>1, <4>2
    <3>4. ExactlyOneOwner'
      <4>1. CASE u \in owners
        BY <3>1, <4>1 DEF ExactlyOneOwner, OwnersSettled, Settled
      <4>2. CASE u \notin owners
        BY <3>1, <4>2 DEF ExactlyOneOwner
      <4> QED
        BY <4>1, <4>2
    <3>5. OwnersSettled' /\ OnlyOwnerHoldsOwnerRole'
      BY <3>1, <3>2 DEF OwnersSettled, OnlyOwnerHoldsOwnerRole
    <3>6. TypeOK'
      BY <1>0, <2>1, <3>1, <3>2 DEF TypeOK, MemberStatus, Roles
    <3> QED
      BY <1>1, <2>1, <3>3, <3>4, <3>5, <3>6
  <2> QED
    BY <2>2, <2>3
<1>10. CASE CommitStatus(p)
  <2>1. HoldsOffer'
    BY <1>2, <1>10 DEF CommitStatus
  <2>2. /\ member' \in [Users -> MemberStatus]
        /\ \A u \in Users : member'[u] = member[u] \/ member'[u] \in Settled
    BY <1>0, <1>10 DEF CommitStatus, TypeOK, MemberStatus, Settled, JobsSettled
  <2>3. JobsSettled' /\ OwnersSettled'
    BY <1>3, <1>10, <2>2 DEF CommitStatus, OwnersSettled, TypeOK
  <2> QED
    BY <1>0, <1>1, <1>10, <2>1, <2>2, <2>3
       DEF CommitStatus, TypeOK, ExactlyOneOwner, OnlyOwnerHoldsOwnerRole,
           OutcomeNeedsAcceptance
<1>11. CASE CommitRole(p)
  <2>1. HoldsOffer' /\ JobsSettled' /\ OwnersSettled'
    BY <1>2, <1>3, <1>11 DEF CommitRole, OwnersSettled
  <2>2. role' \in [Users -> Roles] /\ OnlyOwnerHoldsOwnerRole'
    BY <1>11 DEF CommitRole, TypeOK, Roles, OnlyOwnerHoldsOwnerRole
  <2> QED
    BY <1>0, <1>1, <1>11, <2>1, <2>2
       DEF CommitRole, TypeOK, ExactlyOneOwner, OutcomeNeedsAcceptance
<1> QED
  BY <1>5, <1>6, <1>7, <1>8, <1>9, <1>10, <1>11 DEF Commit

\* Moves of an unlocked offer, along the graph, that are no acceptance.
LEMMA DecideMoves ==
  ASSUME IInv, NEW t \in Offers, Decide(t)
  PROVE  \E s \in TransactionStatus \ {"accepted"} :
            Move(t, s) /\ offer[t].status \in TransactionStatus \ TerminalStates
                       /\ CanTransition(offer[t].status, s)
<1>1. offer[t].status \in TransactionStatus \cup {Absent}
  BY DEF IInv, TypeOK, Rows
<1>2. ASSUME NEW s \in TerminalStates, Close(t, s)
      PROVE  Move(t, s) /\ s \in {"denied", "cancelled"} /\ offer[t].status = "pending"
  BY <1>2 DEF Close
<1>3. CASE Expire(t)
  <2>1. Move(t, "expired") /\ offer[t].status \in TransactionStatus \ TerminalStates
    BY <1>1, <1>3 DEF Expire, IsOpen
  <2>2. CanTransition(offer[t].status, "expired")
    BY <2>1 DEF CanTransition, ValidTransitions, TransactionStatus, TerminalStates
  <2> QED
    BY <2>1, <2>2 DEF TransactionStatus
<1>4. CASE RequestInfo(t)
  BY <1>4 DEF RequestInfo, CanTransition, ValidTransitions, TransactionStatus,
                 TerminalStates
<1>5. CASE Resubmit(t)
  BY <1>5 DEF Resubmit, CanTransition, ValidTransitions, TransactionStatus,
                 TerminalStates
<1> QED
  BY <1>2, <1>3, <1>4, <1>5
     DEF Decide, CanTransition, ValidTransitions, TransactionStatus, TerminalStates

LEMMA DecideKeepsIInv ==
  ASSUME IInv, NEW t \in Offers, Decide(t)
  PROVE  IInv'
<1> USE DEF IInv
<1>1. PICK s \in TransactionStatus \ {"accepted"} :
        /\ Move(t, s) /\ offer[t].status \in TransactionStatus \ TerminalStates
  BY DecideMoves
<1>2. /\ offer' = [offer EXCEPT ![t].status = s]
      /\ UNCHANGED <<people, mapping, job>> /\ ~Locked(t)
  BY <1>1 DEF Move
<1>3. offer' \in [Offers -> Rows]
  BY <1>2 DEF TypeOK, Rows
<1>4. HoldsOffer'
  <2>1. ASSUME NEW q \in Procs, job[q].offer # NoOffer
        PROVE  job'[q] = job[q] /\ offer'[job[q].offer] = offer[job[q].offer]
    BY <1>2, <2>1 DEF Locked, TypeOK, Jobs
  <2>2. job' = job
    BY <1>2
  <2> QED
    BY <2>1, <2>2 DEF HoldsOffer
<1>5. OutcomeNeedsAcceptance'
  <2>1. offer[t].status # "accepted"
    BY <1>1 DEF TerminalStates
  <2> QED
    BY <1>2, <2>1 DEF OutcomeNeedsAcceptance, TypeOK, Rows
<1> QED
  BY <1>2, <1>3, <1>4, <1>5
     DEF people, TypeOK, ExactlyOneOwner, OnlyOwnerHoldsOwnerRole,
         OneCallPerOffer, OwnersSettled, JobsSettled

LEMMA MappingKeepsIInv ==
  ASSUME IInv, NEW m \in Mappings, SetMapping(m)
  PROVE  IInv'
  BY DEF SetMapping, people, IInv, TypeOK, ExactlyOneOwner,
         OnlyOwnerHoldsOwnerRole, HoldsOffer, OneCallPerOffer,
         OutcomeNeedsAcceptance, OwnersSettled, JobsSettled

LEMMA StutterKeepsIInv == IInv /\ UNCHANGED vars => IInv'
  BY DEF IInv, vars, people, TypeOK, ExactlyOneOwner, OnlyOwnerHoldsOwnerRole,
         HoldsOffer, OneCallPerOffer, OutcomeNeedsAcceptance, OwnersSettled,
         JobsSettled

\* One owner at every moment, and a call that decides about an offer has it to
\* itself.
THEOREM OwnershipInvariant == Spec => []IInv
<1>1. IInv /\ [Next]_vars => IInv'
  BY RequestKeepsIInv, CommitKeepsIInv, DecideKeepsIInv, MappingKeepsIInv,
     StutterKeepsIInv DEF Next
<1> QED
  BY <1>1, InitIInv, PTL DEF Spec

\* Every variable keeps its type, whatever calls overlap.
THEOREM OwnershipTyped == Spec => []TypeOK
  BY OwnershipInvariant, PTL DEF IInv

\* However many transfers race, the account has exactly one owner, or none once
\* a review has deleted a membership that was activated under its eyes.
THEOREM OneOwner == Spec => []ExactlyOneOwner
  BY OwnershipInvariant, PTL DEF IInv

\* A former owner does not keep the owner's role and its permissions.
THEOREM OwnerRoleExclusive == Spec => []OnlyOwnerHoldsOwnerRole
  BY OwnershipInvariant, PTL DEF IInv

-----------------------------------------------------------------------------
(* How ownership moves.                                                    *)

\* Only a transfer that commits, or the refusal of a review, writes the owner.
LEMMA OwnersWritten ==
  ASSUME IInv, Next, owners' # owners
  PROVE  \E p \in Procs : CommitTransfer(p) \/ CommitRevoke(p)
<1>1. ASSUME NEW p \in Procs, Request(p)
      PROVE  FALSE
  BY <1>1, RequestKeepsIInv
<1>2. ASSUME NEW t \in Offers, Decide(t)
      PROVE  FALSE
  BY <1>2, DecideMoves DEF Move, people
<1>3. ASSUME NEW m \in Mappings, SetMapping(m)
      PROVE  FALSE
  BY <1>3 DEF SetMapping, people
<1> QED
  BY <1>1, <1>2, <1>3 DEF Next, Commit, CommitOffer, RollbackTransfer, Abort,
                          CommitApprove, CommitStatus, CommitRole, people

\* Ownership moves by an offer its invitee accepts, or by governance: no
\* interleaving hands it to anybody else, and no review does.
THEOREM OwnershipMoves == Spec => OwnershipMovesByOffer
<1> DEFINE Moves ==
      owners' # owners =>
        \/ \E p \in Procs : /\ job[p].op = "transfer" /\ job[p].offer = NoOffer
                            /\ job'[p] = Idle /\ owners' = {job[p].new}
        \/ \E t \in Offers : /\ offer[t].status = "pending"
                             /\ offer'[t].status = "accepted"
                             /\ owners' = {offer[t].to}
        \/ owners' = {} /\ erased'
<1>1. ASSUME IInv, NEW p \in Procs, CommitTransfer(p), owners' # owners
      PROVE  Moves
  <2>0. CASE ~Live(job[p].new)
    BY <1>1, <2>0, TransferMovesOwner DEF CommitTransfer
  <2>1. CASE Live(job[p].new) /\ job[p].offer = NoOffer
    BY <1>1, <2>1, TransferMovesOwner DEF CommitTransfer, End, IInv, TypeOK
  <2>2. CASE Live(job[p].new) /\ job[p].offer # NoOffer
    <3> DEFINE t == job[p].offer
    <3>1. t \in Offers /\ offer[t] \in Rows /\ offer \in [Offers -> Rows]
      BY <1>1, <2>2 DEF IInv, TypeOK, Jobs
    <3>2. /\ offer[t].status = "pending" /\ offer[t].to = job[p].new
          /\ job[p].status = "accepted"
      BY <1>1, <2>2 DEF IInv, HoldsOffer, CommitTransfer
    <3>3. offer'[t] = WrittenOffer(p)
      BY <1>1, <2>2, <3>1 DEF CommitTransfer, OfferWritten
    <3>4. offer'[t].status = "accepted"
      BY <3>1, <3>2, <3>3 DEF WrittenOffer, Rows
    <3>5. owners' = {job[p].new}
      BY <1>1, <2>2, TransferMovesOwner
    <3> QED
      BY <3>1, <3>2, <3>4, <3>5
  <2> QED
    BY <2>0, <2>1, <2>2
<1>2. ASSUME IInv, NEW p \in Procs, CommitRevoke(p), owners' # owners
      PROVE  Moves
  <2> DEFINE u == job[p].new
  <2>1. /\ u \in owners /\ owners' = owners \ {u}
        /\ erased' = (erased \/ member[u] \notin {"pending_approval", "none"})
    BY <1>2 DEF CommitRevoke, people
  <2>2. erased' /\ owners' = {}
    BY <1>2, <2>1 DEF IInv, ExactlyOneOwner, OwnersSettled, Settled
  <2> QED
    BY <2>2
<1>3. IInv /\ [Next]_vars => [Moves]_vars
  BY <1>1, <1>2, OwnersWritten DEF vars
<1> QED
  BY <1>3, OwnershipInvariant, PTL DEF Spec, OwnershipMovesByOffer

-----------------------------------------------------------------------------
(* Offers implement the lifecycle of transactions.                         *)

\* One offer moves along one edge of the status graph, and gets an outcome with
\* ACCEPTED only.
LEMMA OneOfferMoves ==
  ASSUME IInv, NEW t \in Offers, NEW s \in TransactionStatus,
         \A r \in Offers \ {t} : offer'[r] = offer[r],
         \/ s = "pending" /\ offer[t].status = Absent
         \/ /\ offer[t].status \in TransactionStatus
            /\ CanTransition(offer[t].status, s),
         offer'[t].status = s,
         offer'[t].done = (IF s = "accepted" THEN TRUE ELSE offer[t].done)
  PROVE  Lifecycle!Next
<1>1. [r \in Offers |-> offer'[r].status]
        = [[r \in Offers |-> offer[r].status] EXCEPT ![t] = s]
  OBVIOUS
<1>2. s # "accepted" =>
        [r \in Offers |-> offer'[r].done] = [r \in Offers |-> offer[r].done]
  OBVIOUS
<1>3. \A a, b : Lifecycle!CanTransition(a, b) <=> CanTransition(a, b)
  BY DEF Lifecycle!CanTransition, Lifecycle!ValidTransitions,
         Lifecycle!TransactionStatus, CanTransition, ValidTransitions,
         TransactionStatus
<1>4. Lifecycle!TransactionStatus = TransactionStatus
  BY DEF Lifecycle!TransactionStatus, TransactionStatus
<1>5. CASE s = "pending" /\ offer[t].status = Absent
  <2>1. Lifecycle!Open(t)
    BY <1>1, <1>2, <1>5 DEF Lifecycle!Open, Lifecycle!Absent, Absent
  <2> QED
    BY <2>1 DEF Lifecycle!Next
<1>6. CASE offer[t].status \in TransactionStatus
           /\ CanTransition(offer[t].status, s) /\ s # "accepted"
  <2>1. Lifecycle!Move(t, s)
    BY <1>1, <1>2, <1>3, <1>4, <1>6 DEF Lifecycle!Move
  <2> QED
    BY <1>4, <2>1 DEF Lifecycle!Next
<1>7. CASE offer[t].status \in TransactionStatus
           /\ CanTransition(offer[t].status, s) /\ s = "accepted"
  <2>1. offer[t].done = FALSE
    <3>1. offer[t].status # "accepted"
      BY <1>7 DEF CanTransition, ValidTransitions
    <3> QED
      BY <3>1 DEF IInv, TypeOK, Rows, OutcomeNeedsAcceptance
  <2>2. [r \in Offers |-> offer'[r].done]
          = [[r \in Offers |-> offer[r].done] EXCEPT ![t] = TRUE]
    BY <1>7
  <2>3. Lifecycle!Accept(t)
    BY <1>1, <1>3, <1>4, <1>7, <2>1, <2>2 DEF Lifecycle!Accept
  <2> QED
    BY <2>3 DEF Lifecycle!Next
<1> QED
  BY <1>5, <1>6, <1>7

LEMMA CommitImplements ==
  ASSUME IInv, NEW p \in Procs, Commit(p)
  PROVE  Lifecycle!Next \/ UNCHANGED offer
<1> USE DEF IInv, TypeOK
<1>1. ASSUME NEW t \in Offers, CommitOffer(p, t)
      PROVE  Lifecycle!Next
  <2>1. /\ \A r \in Offers \ {t} : offer'[r] = offer[r]
        /\ offer'[t].status = "pending" /\ offer'[t].done = FALSE
    BY <1>1 DEF CommitOffer
  <2>2. offer[t].status = Absent /\ offer[t].done = FALSE
    BY <1>1 DEF CommitOffer, OutcomeNeedsAcceptance, Absent, Rows
  <2> QED
    BY <2>1, <2>2, OneOfferMoves DEF TransactionStatus
<1>2. CASE OfferWritten(p) /\ job[p].offer # NoOffer
  <2> DEFINE t == job[p].offer
  <2>1. t \in Offers /\ offer[t] \in Rows
    BY <1>2 DEF Jobs
  <2>2. /\ offer[t].status \in TransactionStatus
        /\ job[p].status \in TransactionStatus
        /\ CanTransition(offer[t].status, job[p].status)
    BY <1>2 DEF HoldsOffer, CanTransition, ValidTransitions, TransactionStatus
  <2>3. /\ \A r \in Offers \ {t} : offer'[r] = offer[r]
        /\ offer'[t] = WrittenOffer(p)
    BY <1>2, <2>1 DEF OfferWritten
  <2>4. /\ offer'[t].status = job[p].status
        /\ offer'[t].done = (job[p].status = "accepted")
    BY <2>1, <2>3 DEF WrittenOffer, Rows
  <2>5. offer[t].done = FALSE
    BY <1>2, <2>1 DEF HoldsOffer, OutcomeNeedsAcceptance, Rows
  <2> QED
    BY <2>1, <2>2, <2>3, <2>4, <2>5, OneOfferMoves
<1>3. CASE OfferWritten(p) /\ job[p].offer = NoOffer
  BY <1>3 DEF OfferWritten
<1> QED
  BY <1>1, <1>2, <1>3
     DEF Commit, CommitTransfer, RollbackTransfer, Abort, CommitApprove,
         CommitRevoke, CommitStatus, CommitRole

\* The offers implement the abstract lifecycle: however transfers, reviews and
\* closings overlap, an offer is closed once, and gets its outcome with ACCEPTED.
THEOREM OwnershipImplementsLifecycle == Spec => ImplementsLifecycle
<1>1. Init => Lifecycle!Init
  BY DEF Init, Lifecycle!Init, Lifecycle!Absent, Absent
<1>2. ASSUME IInv, Next
      PROVE  Lifecycle!Next \/ UNCHANGED offer
  <2>1. ASSUME NEW p \in Procs, Request(p)
        PROVE  UNCHANGED offer
    BY <1>2, <2>1, RequestKeepsIInv
  <2>2. ASSUME NEW t \in Offers, Decide(t)
        PROVE  Lifecycle!Next
    <3>1. PICK s \in TransactionStatus \ {"accepted"} :
            /\ Move(t, s) /\ offer[t].status \in TransactionStatus
            /\ CanTransition(offer[t].status, s)
      BY <1>2, <2>2, DecideMoves
    <3>2. /\ \A r \in Offers \ {t} : offer'[r] = offer[r]
          /\ offer'[t].status = s /\ offer'[t].done = offer[t].done
      BY <1>2, <3>1 DEF Move, IInv, TypeOK, Rows
    <3> QED
      BY <1>2, <3>1, <3>2, OneOfferMoves
  <2>3. ASSUME NEW m \in Mappings, SetMapping(m)
        PROVE  UNCHANGED offer
    BY <2>3 DEF SetMapping
  <2> QED
    BY <1>2, <2>1, <2>2, <2>3, CommitImplements DEF Next
<1>3. UNCHANGED offer => UNCHANGED Lifecycle!vars
  BY DEF Lifecycle!vars
<1>4. IInv /\ [Next]_vars => [Lifecycle!Next]_(Lifecycle!vars)
  BY <1>2, <1>3 DEF vars
<1> QED
  BY <1>1, <1>4, OwnershipInvariant, PTL
     DEF Spec, ImplementsLifecycle, Lifecycle!Spec

\* The theorems of the abstract lifecycle, about the offers.
LifecycleFacts == INSTANCE LifecycleProofs WITH
    Ids <- Offers,
    status <- [t \in Offers |-> offer[t].status],
    executed <- [t \in Offers |-> offer[t].done]

\* What every family of transactions inherits: an offer that was accepted,
\* denied, cancelled or has expired is never opened or accepted again, even if
\* the two participants and the expiry task race for it.
THEOREM OffersStayClosed == Spec => Lifecycle!ClosedForGood
<1>1. LifecycleFacts!Spec => LifecycleFacts!ClosedForGood
  BY LifecycleFacts!ClosedStaysClosed
<1>2. Lifecycle!Spec => LifecycleFacts!Spec
  BY DEF Lifecycle!Spec, LifecycleFacts!Spec, Lifecycle!Init, LifecycleFacts!Init,
    Lifecycle!Next, LifecycleFacts!Next, Lifecycle!vars, LifecycleFacts!vars,
    Lifecycle!Open, LifecycleFacts!Open, Lifecycle!Accept, LifecycleFacts!Accept,
    Lifecycle!Move, LifecycleFacts!Move, Lifecycle!Absent, LifecycleFacts!Absent,
    Lifecycle!TransactionStatus, LifecycleFacts!TransactionStatus,
    Lifecycle!CanTransition, LifecycleFacts!CanTransition,
    Lifecycle!ValidTransitions, LifecycleFacts!ValidTransitions
<1>3. LifecycleFacts!ClosedForGood => Lifecycle!ClosedForGood
  BY DEF Lifecycle!ClosedForGood, LifecycleFacts!ClosedForGood,
    Lifecycle!TerminalStates, LifecycleFacts!TerminalStates,
    Lifecycle!vars, LifecycleFacts!vars
<1> QED
  BY <1>1, <1>2, <1>3, OwnershipImplementsLifecycle DEF ImplementsLifecycle

=============================================================================
