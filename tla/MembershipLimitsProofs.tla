------------------------ MODULE MembershipLimitsProofs ------------------------
(***************************************************************************)
(* The limits that MembershipTransactions checks before it writes, without *)
(* a lock: how far they can be exceeded by any number of concurrent calls, *)
(* and what holds of calls that do not overlap.  Each bound counts what is *)
(* there together with what the calls in flight may still add: no step but *)
(* a call's beginning makes that more, and a beginning has looked at the   *)
(* limit.                                                                  *)
(***************************************************************************)
EXTENDS MembershipTransactionsProofs, FiniteSetTheorems

-----------------------------------------------------------------------------
(* The cap on members.                                                     *)

\* The statuses that count against max_members.
Counted == {"active", "pending_approval"}

\* A call in flight that may yet make u count.
Grants(p, u) ==
    /\ job[p].op \in {"accept", "approve"} /\ job[p].write # "none"
    /\ job[p].user = u

\* Everybody who counts, or whom a call in flight may make count.
Engaged ==
    {u \in Users \ reinstated :
        member[u] \in Counted \/ \E p \in Procs : Grants(p, u)}

QuotaHeld ==
    MaxMembers > 0 => Cardinality(Engaged) < MaxMembers + Cardinality(Procs) - 1

\* Finitely many people, and at least one thread.
LEMMA SetsAreFinite ==
  /\ Cardinality(Procs) \in Nat \ {0}
  /\ \A S \in SUBSET Users :
        /\ IsFiniteSet(S) /\ Cardinality(S) \in Nat
        /\ \A T \in SUBSET S : Cardinality(T) <= Cardinality(S)
<1>1. Cardinality(Procs) \in Nat /\ Cardinality(Procs) # 0
  BY QuotaAssumption, FS_CardinalityType, FS_EmptySet
<1>2. ASSUME NEW S \in SUBSET Users
      PROVE  IsFiniteSet(S) /\ Cardinality(S) \in Nat
  BY <1>2, QuotaAssumption, FS_Subset, FS_CardinalityType
<1>3. ASSUME NEW S \in SUBSET Users, NEW T \in SUBSET S
      PROVE  Cardinality(T) <= Cardinality(S)
  BY <1>2, <1>3, FS_Subset
<1> QED
  BY <1>1, <1>2, <1>3

\* The users that calls in flight are about are no more than the calls.
LEMMA FewTargets ==
  ASSUME NEW calls \in [Procs -> Jobs]
  PROVE  LET targets == {calls[p].user : p \in Procs}
         IN  /\ targets \subseteq Users
             /\ IsFiniteSet(targets) /\ Cardinality(targets) \in Nat
             /\ Cardinality(targets) <= Cardinality(Procs)
<1> DEFINE target == [p \in Procs |-> calls[p].user]
           targets == {calls[p].user : p \in Procs}
<1>1. target \in Surjection(Procs, targets)
  BY DEF Surjection
<1>2. IsFiniteSet(targets) /\ Cardinality(targets) <= Cardinality(Procs)
  <2> HIDE DEF target, targets
  <2> QED
    BY <1>1, QuotaAssumption, FS_Surjection
<1>3. targets \subseteq Users
  BY DEF Jobs
<1> QED
  BY <1>2, <1>3, FS_CardinalityType

\* An acceptance begins below the cap: even if every call in flight adds a
\* member, the bound holds.
LEMMA AcceptBeginsBelowCap ==
  ASSUME TypeOK, TypeOK', NEW p \in Procs, NEW t \in Txns, NEW attach \in BOOLEAN,
         BeginAccept(p, t, attach)
  PROVE  QuotaHeld'
<1> DEFINE counted == {u \in Users : member[u] \in Counted}
           targets == {job'[q].user : q \in Procs}
<1>1. SUFFICES ASSUME MaxMembers > 0
               PROVE  Cardinality(Engaged') < MaxMembers + Cardinality(Procs) - 1
  BY DEF QuotaHeld
<1>2. /\ targets \subseteq Users /\ IsFiniteSet(targets)
      /\ Cardinality(targets) \in Nat
      /\ Cardinality(targets) <= Cardinality(Procs)
  BY FewTargets DEF TypeOK
<1>3. UNCHANGED <<member, reinstated>>
  BY DEF BeginAccept
<1>4. Engaged' \subseteq counted \cup targets
  BY <1>3 DEF Engaged, Grants
<1>5. IsFiniteSet(counted) /\ Cardinality(counted) \in Nat
  BY SetsAreFinite
<1>6. 1 + Cardinality(counted) < MaxMembers
  BY <1>1, <1>5, BoundsAssumption
     DEF BeginAccept, MayJoin, QuotaReached, ActiveCount, Counted
<1>7. /\ counted \cup targets \in SUBSET Users
      /\ Cardinality(counted \cup targets) \in Nat
      /\ Cardinality(counted \cup targets)
            <= Cardinality(counted) + Cardinality(targets)
  <2>1. /\ counted \cup targets \in SUBSET Users
        /\ counted \cap targets \in SUBSET Users
    BY <1>2
  <2>2. Cardinality(counted \cup targets) =
            Cardinality(counted) + Cardinality(targets)
                - Cardinality(counted \cap targets)
    <3> HIDE DEF counted, targets
    <3> QED
      BY <1>2, <1>5, FS_Union
  <2> QED
    BY <1>2, <1>5, <2>1, <2>2, SetsAreFinite
<1>8. /\ Cardinality(Engaged') \in Nat
      /\ Cardinality(Engaged') <= Cardinality(counted \cup targets)
  BY <1>4, <1>7, SetsAreFinite
<1> QED
  BY <1>2, <1>5, <1>6, <1>7, <1>8, SetsAreFinite, BoundsAssumption

\* Every other step keeps the engaged or lets some go.  A review begins with a
\* provisional member, who counts already; a commit makes only him count about
\* whom it is.
LEMMA OthersEngageNobody ==
  ASSUME IInv, Next,
         ~\E p \in Procs, t \in Txns, attach \in BOOLEAN : BeginAccept(p, t, attach)
  PROVE  Engaged' \subseteq Engaged
<1> USE DEF IInv, TypeOK
<1>1. ASSUME NEW p \in Procs, Begin(p)
      PROVE  Engaged' \subseteq Engaged
  <2>1. UNCHANGED <<member, reinstated>>
    BY <1>1 DEF Begin, BeginCreateRequest, BeginCreateInvitation, BeginAccept,
                BeginRefusedAccept, BeginApprove, BeginRevoke, BeginReview,
                BeginLeave
  <2>2. \A q \in Procs \ {p} : job'[q] = job[q]
    BY <1>1 DEF Begin, BeginCreateRequest, BeginCreateInvitation, BeginAccept,
                BeginRefusedAccept, BeginApprove, BeginRevoke, BeginReview,
                BeginLeave
  <2>3. ASSUME NEW u \in Users, Grants(p, u)'
        PROVE  member[u] \in Counted
    <3>1. ASSUME NEW t \in Txns, BeginApprove(p, t)
          PROVE  member[u] \in Counted
      BY <2>3, <3>1 DEF BeginApprove, BeginReview, RowJob, ReviewWrite, Grants,
                        Counted
    <3>2. ASSUME NEW t \in Txns, NEW to \in TerminalStates, BeginRevoke(p, t, to)
          PROVE  FALSE
      BY <2>3, <3>2 DEF BeginRevoke, BeginReview, RowJob, Grants
    <3>3. ASSUME NEW t \in Txns, BeginRefusedAccept(p, t)
          PROVE  FALSE
      BY <2>3, <3>3 DEF BeginRefusedAccept, RowJob, Grants
    <3>4. ASSUME NEW v \in Candidates, NEW form \in BOOLEAN,
                 \/ BeginCreateRequest(p, v, form)
                 \/ \E x \in Inviters : BeginCreateInvitation(p, x, v, form)
          PROVE  FALSE
      BY <2>3, <3>4 DEF BeginCreateRequest, BeginCreateInvitation, CreateJob, Grants
    <3>5. ASSUME NEW v \in Administered, BeginLeave(p, v)
          PROVE  FALSE
      BY <2>3, <3>5 DEF BeginLeave, LeaveJob, Grants
    <3> QED
      BY <1>1, <3>1, <3>2, <3>3, <3>4, <3>5 DEF Begin
  <2> QED
    BY <2>1, <2>2, <2>3 DEF Engaged, Grants
<1>2. ASSUME NEW p \in Procs, Commit(p)
      PROVE  Engaged' \subseteq Engaged
  <2>1. /\ \A q \in Procs \ {p} : job'[q] = job[q]
        /\ job'[p].op = "idle" /\ UNCHANGED reinstated
    BY <1>2 DEF Commit, CommitCreate, CommitAccept, RollbackAccept, Abort,
                CommitApprove, CommitRevoke, CommitLeave, Idle
  <2>2. \A u \in Users : ~Grants(p, u)'
    BY <2>1 DEF Grants
  <2>3. ASSUME NEW u \in Users, member'[u] \in Counted, member[u] \notin Counted
        PROVE  Grants(p, u)
    <3>1. job[p] \in Jobs
      OBVIOUS
    <3>2. CASE CommitAccept(p)
      BY <2>3, <3>1, <3>2 DEF CommitAccept, Reaches, Grants
    <3>3. CASE CommitApprove(p)
      BY <2>3, <3>1, <3>3 DEF CommitApprove, Activated, Reaches, Grants
    <3>4. CASE CommitRevoke(p) \/ CommitLeave(p)
      BY <2>3, <3>4 DEF CommitRevoke, CommitLeave, Counted
    <3>5. CASE RollbackAccept(p) \/ Abort(p) \/ \E t \in Txns : CommitCreate(p, t)
      BY <2>3, <3>5 DEF RollbackAccept, Abort, CommitCreate
    <3> QED
      BY <1>2, <3>2, <3>3, <3>4, <3>5 DEF Commit
  <2> QED
    BY <2>1, <2>2, <2>3 DEF Engaged, Grants
<1>3. ASSUME NEW t \in Txns, Decide(t) \/ Expire(t)
      PROVE  Engaged' \subseteq Engaged
  BY <1>3 DEF Decide, Deny, Cancel, Dismiss, RequestInfo, Resubmit, Expire, Move,
              Engaged, Grants
<1>4. CASE Administer
  <2>1. ASSUME NEW u \in Administered, NEW s \in MemberStatus,
               UpdateMembershipStatus(u, s)
        PROVE  Engaged' \subseteq Engaged
    BY <2>1 DEF UpdateMembershipStatus, Engaged, Grants, Counted
  <2> QED
    BY <1>4, <2>1 DEF Administer, LosePermission, SetMapping, CooldownPasses,
                      Engaged, Grants
<1> QED
  BY <1>1, <1>2, <1>3, <1>4 DEF Next

\* create_membership counts the members without a lock: acceptances exceed
\* max_members by fewer than there are threads, whatever overlaps.
THEOREM QuotaBounded == Spec => []QuotaOvershootBounded
<1>1. Init => QuotaHeld
  <2> SUFFICES ASSUME Init, MaxMembers > 0
               PROVE  Cardinality(Engaged) < MaxMembers + Cardinality(Procs) - 1
    BY DEF QuotaHeld
  <2>1. Engaged \subseteq Managers
    BY DEF Init, Engaged, Grants, Counted, Idle
  <2>2. Managers \in SUBSET Users
    BY UsersAssumption
  <2>3. /\ Cardinality(Engaged) \in Nat
        /\ Cardinality(Engaged) <= Cardinality(Managers)
    BY <2>1, <2>2, SetsAreFinite
  <2> QED
    BY <2>2, <2>3, SetsAreFinite, QuotaAssumption, BoundsAssumption
<1>2. ASSUME IInv, IInv', QuotaHeld, [Next]_vars
      PROVE  QuotaHeld'
  <2>1. ASSUME NEW p \in Procs, NEW t \in Txns, NEW attach \in BOOLEAN,
               BeginAccept(p, t, attach)
        PROVE  QuotaHeld'
    BY <1>2, <2>1, AcceptBeginsBelowCap DEF IInv
  <2>2. ASSUME Engaged' \subseteq Engaged
        PROVE  QuotaHeld'
    <3>1. Engaged \in SUBSET Users
      BY DEF Engaged
    <3>2. Cardinality(Engaged') <= Cardinality(Engaged)
          /\ Cardinality(Engaged) \in Nat /\ Cardinality(Engaged') \in Nat
      BY <2>2, <3>1, SetsAreFinite
    <3> QED
      BY <1>2, <3>2, SetsAreFinite, BoundsAssumption DEF QuotaHeld
  <2>3. CASE UNCHANGED vars
    BY <2>2, <2>3 DEF vars, Engaged, Grants
  <2> QED
    BY <1>2, <2>1, <2>2, <2>3, OthersEngageNobody
<1>3. QuotaHeld => QuotaOvershootBounded
  <2> DEFINE members == {u \in Users \ reinstated :
                           member[u] \in {"active", "pending_approval"}}
  <2>1. members \subseteq Engaged /\ Engaged \in SUBSET Users
    BY DEF Engaged, Counted
  <2>2. /\ Cardinality(members) \in Nat /\ Cardinality(Engaged) \in Nat
        /\ Cardinality(members) <= Cardinality(Engaged)
    BY <2>1, SetsAreFinite
  <2> QED
    BY <2>2, SetsAreFinite, BoundsAssumption DEF QuotaHeld, QuotaOvershootBounded
<1> QED
  BY <1>1, <1>2, <1>3, InductiveInvariant, PTL DEF Spec

-----------------------------------------------------------------------------
(* Open transactions of one user.                                          *)

OpenOf(u) == {t \in Txns : IsOpen(t) /\ txn[t].user = u}

\* Calls that may yet file one.
Filing(p, u) == job[p].op = "create" /\ job[p].user = u
FilingFor(u) == {p \in Procs : Filing(p, u)}

FilingHeld ==
    \A u \in Users :
        Cardinality(OpenOf(u)) + Cardinality(FilingFor(u)) <= Cardinality(Procs)

LEMMA FilingFinite ==
  ASSUME NEW u \in Users
  PROVE  /\ IsFiniteSet(OpenOf(u)) /\ Cardinality(OpenOf(u)) \in Nat
         /\ IsFiniteSet(FilingFor(u)) /\ Cardinality(FilingFor(u)) \in Nat
         /\ Cardinality(FilingFor(u)) <= Cardinality(Procs)
         /\ \A S \in SUBSET OpenOf(u) :
               IsFiniteSet(S) /\ Cardinality(S) <= Cardinality(OpenOf(u))
         /\ \A S \in SUBSET FilingFor(u) :
               IsFiniteSet(S) /\ Cardinality(S) <= Cardinality(FilingFor(u))
<1>1. IsFiniteSet(Txns)
  BY BoundsAssumption, FS_Interval DEF Txns
<1>2. OpenOf(u) \subseteq Txns /\ FilingFor(u) \subseteq Procs
  BY DEF OpenOf, FilingFor
<1>3. IsFiniteSet(OpenOf(u)) /\ IsFiniteSet(FilingFor(u))
      /\ Cardinality(FilingFor(u)) <= Cardinality(Procs)
  BY <1>1, <1>2, FS_Subset, QuotaAssumption
<1> QED
  BY <1>3, FS_Subset, FS_CardinalityType

\* Only an insertion makes a transaction open that was not.
LEMMA NothingReopens ==
  ASSUME IInv, Next, ~\E p \in Procs, t \in Txns : CommitCreate(p, t)
  PROVE  \A t \in Txns : IsOpen(t)' => IsOpen(t) /\ txn'[t].user = txn[t].user
<1> USE DEF IInv, TypeOK, Rows
<1>1. ASSUME NEW p \in Procs, Begin(p)
      PROVE  UNCHANGED txn
  BY <1>1, BeginLocks
<1>2. ASSUME NEW p \in Procs, Commit(p), NEW t \in Txns
      PROVE  IsOpen(t)' => IsOpen(t) /\ txn'[t].user = txn[t].user
  <2>1. job[p] \in Jobs /\ JobOnRow(p)
    BY DEF JobsOnRows
  <2>2. CASE CommitAccept(p)
    BY <2>1, <2>2 DEF CommitAccept, WrittenRow, JobOnRow, Jobs, IsOpen,
                      TerminalStates, Absent
  <2>3. CASE CommitApprove(p)
    <3>1. CASE t = job[p].txn
      BY <2>1, <2>3, <3>1 DEF CommitApprove, ApprovedRow, IsOpen, TerminalStates
    <3>2. CASE t # job[p].txn
      BY <2>1, <2>3, <3>2 DEF CommitApprove, JobOnRow, Jobs, IsOpen
    <3> QED
      BY <3>1, <3>2
  <2>4. CASE CommitRevoke(p)
    <3>1. job[p].to \in TerminalStates /\ job[p].txn \in Txns
      BY <2>1, <2>4 DEF CommitRevoke, JobOnRow, Jobs, TerminalStates
    <3> QED
      BY <2>4, <3>1 DEF CommitRevoke, IsOpen
  <2>5. CASE UNCHANGED txn
    BY <2>5 DEF IsOpen
  <2> QED
    BY <1>2, <2>2, <2>3, <2>4, <2>5
       DEF Commit, RollbackAccept, Abort, CommitLeave
<1>3. ASSUME NEW s \in Txns, Decide(s) \/ Expire(s), NEW t \in Txns
      PROVE  IsOpen(t)' => IsOpen(t) /\ txn'[t].user = txn[t].user
  <2>1. CASE t # s
    BY <1>3, <2>1 DEF Decide, Deny, Cancel, Dismiss, RequestInfo, Resubmit, Expire,
                      IsOpen
  <2>2. CASE t = s
    BY <1>3, <2>2 DEF Decide, Deny, Cancel, Dismiss, RequestInfo, Resubmit, Expire,
                      IsOpen, TerminalStates, Absent
  <2> QED
    BY <2>1, <2>2
<1>4. CASE Administer
  <2>1. ASSUME NEW s \in Txns, CooldownPasses(s), NEW t \in Txns
        PROVE  txn'[t].status = txn[t].status /\ txn'[t].user = txn[t].user
    BY <2>1 DEF CooldownPasses
  <2> QED
    BY <1>4, <2>1 DEF Administer, UpdateMembershipStatus, LosePermission, SetMapping,
                      IsOpen
<1> QED
  BY <1>1, <1>2, <1>3, <1>4 DEF Next, IsOpen

\* A call that begins to file for u has found nothing open.
LEMMA FilingBeginsClear ==
  ASSUME IInv, NEW p \in Procs, Begin(p), NEW u \in Users
  PROVE  \/ FilingFor(u)' \subseteq FilingFor(u)
         \/ OpenOf(u) = {}
<1> USE DEF IInv, TypeOK
<1>1. ASSUME NEW v \in Candidates, NEW form \in BOOLEAN,
             \/ BeginCreateRequest(p, v, form)
             \/ \E x \in Inviters : BeginCreateInvitation(p, x, v, form)
      PROVE  \/ FilingFor(u)' \subseteq FilingFor(u)
             \/ OpenOf(u) = {}
  BY <1>1 DEF BeginCreateRequest, BeginCreateInvitation, CreateJob, Conflicting,
              FilingFor, Filing, OpenOf
<1>2. ASSUME NEW t \in Txns, NEW attach \in BOOLEAN, BeginAccept(p, t, attach)
      PROVE  FilingFor(u)' \subseteq FilingFor(u)
  BY <1>2 DEF BeginAccept, RowJob, FilingFor, Filing
<1>3. ASSUME NEW t \in Txns, BeginRefusedAccept(p, t)
      PROVE  FilingFor(u)' \subseteq FilingFor(u)
  BY <1>3 DEF BeginRefusedAccept, RowJob, FilingFor, Filing
<1>4. ASSUME NEW t \in Txns,
             \/ BeginApprove(p, t)
             \/ \E to \in TerminalStates : BeginRevoke(p, t, to)
      PROVE  FilingFor(u)' \subseteq FilingFor(u)
  BY <1>4 DEF BeginApprove, BeginRevoke, BeginReview, RowJob, FilingFor, Filing
<1>5. ASSUME NEW v \in Administered, BeginLeave(p, v)
      PROVE  FilingFor(u)' \subseteq FilingFor(u)
  BY <1>5 DEF BeginLeave, LeaveJob, FilingFor, Filing
<1> QED
  BY <1>1, <1>2, <1>3, <1>4, <1>5 DEF Begin

\* An insertion turns a call that files into an open transaction.
LEMMA InsertionCounts ==
  ASSUME IInv, FilingHeld, NEW p \in Procs, NEW t \in Txns, CommitCreate(p, t),
         NEW u \in Users
  PROVE  Cardinality(OpenOf(u)') + Cardinality(FilingFor(u)') <= Cardinality(Procs)
<1> USE DEF IInv, TypeOK
<1>1. /\ job' = [job EXCEPT ![p] = Idle] /\ job[p].op = "create"
      /\ \A s \in Txns \ {t} : txn'[s] = txn[s]
      /\ txn'[t].user = job[p].user /\ Idle.op = "idle"
  BY DEF CommitCreate, WrittenRow, Idle
<1>2. CASE job[p].user # u
  <2>1. OpenOf(u)' \subseteq OpenOf(u) /\ FilingFor(u)' \subseteq FilingFor(u)
    BY <1>1, <1>2 DEF OpenOf, IsOpen, FilingFor, Filing
  <2> QED
    BY <2>1, FilingFinite, SetsAreFinite, FS_CardinalityType DEF FilingHeld
<1>3. CASE job[p].user = u
  <2>1. /\ OpenOf(u)' \subseteq OpenOf(u) \cup {t}
        /\ FilingFor(u)' = FilingFor(u) \ {p} /\ p \in FilingFor(u)
    BY <1>1, <1>3 DEF OpenOf, IsOpen, FilingFor, Filing
  <2>2. Cardinality(FilingFor(u)') = Cardinality(FilingFor(u)) - 1
    BY <2>1, FilingFinite, FS_RemoveElement
  <2>3. /\ IsFiniteSet(OpenOf(u) \cup {t})
        /\ Cardinality(OpenOf(u) \cup {t}) \in Nat
        /\ Cardinality(OpenOf(u) \cup {t}) <= Cardinality(OpenOf(u)) + 1
    <3>1. /\ IsFiniteSet(OpenOf(u) \cup {t})
          /\ Cardinality(OpenOf(u) \cup {t})
                = IF t \in OpenOf(u) THEN Cardinality(OpenOf(u))
                  ELSE Cardinality(OpenOf(u)) + 1
      BY FilingFinite, FS_AddElement
    <3> QED
      BY <3>1, FilingFinite, FS_CardinalityType
  <2>4. /\ Cardinality(OpenOf(u)') \in Nat
        /\ Cardinality(OpenOf(u)') <= Cardinality(OpenOf(u) \cup {t})
    BY <2>1, <2>3, FS_Subset, FS_CardinalityType
  <2> QED
    BY <2>2, <2>3, <2>4, FilingFinite, SetsAreFinite DEF FilingHeld
<1> QED
  BY <1>2, <1>3

LEMMA FilingPreserved ==
  ASSUME IInv, FilingHeld, [Next]_vars
  PROVE  FilingHeld'
<1> SUFFICES ASSUME NEW u \in Users
             PROVE  Cardinality(OpenOf(u)') + Cardinality(FilingFor(u)')
                        <= Cardinality(Procs)
  BY DEF FilingHeld
<1>1. ASSUME OpenOf(u)' \subseteq OpenOf(u), FilingFor(u)' \subseteq FilingFor(u)
      PROVE  Cardinality(OpenOf(u)') + Cardinality(FilingFor(u)')
                 <= Cardinality(Procs)
  BY <1>1, FilingFinite, SetsAreFinite, FS_CardinalityType DEF FilingHeld
<1>2. ASSUME NEW p \in Procs, NEW t \in Txns, CommitCreate(p, t)
      PROVE  Cardinality(OpenOf(u)') + Cardinality(FilingFor(u)')
                 <= Cardinality(Procs)
  BY <1>2, InsertionCounts
<1>3. ASSUME NEW p \in Procs, Begin(p)
      PROVE  Cardinality(OpenOf(u)') + Cardinality(FilingFor(u)')
                 <= Cardinality(Procs)
  <2>1. OpenOf(u)' = OpenOf(u)
    BY <1>3, BeginLocks DEF IInv, OpenOf, IsOpen
  <2>2. CASE OpenOf(u) = {}
    <3>1. Cardinality(OpenOf(u)') = 0
      BY <2>1, <2>2, FS_EmptySet
    <3>2. FilingFor(u)' \in SUBSET Procs
      BY DEF FilingFor
    <3>3. /\ Cardinality(FilingFor(u)') \in Nat
          /\ Cardinality(FilingFor(u)') <= Cardinality(Procs)
      BY <3>2, QuotaAssumption, FS_Subset, FS_CardinalityType
    <3> QED
      BY <3>1, <3>3, SetsAreFinite
  <2> QED
    BY <1>1, <1>3, <2>1, <2>2, FilingBeginsClear
<1>4. ASSUME Next, ~\E p \in Procs, t \in Txns : CommitCreate(p, t)
      PROVE  OpenOf(u)' \subseteq OpenOf(u)
  BY <1>4, NothingReopens DEF OpenOf
<1>5. ASSUME NEW p \in Procs, Commit(p)
      PROVE  FilingFor(u)' \subseteq FilingFor(u)
  BY <1>5, CommitReleases DEF IInv, TypeOK, FilingFor, Filing, Idle
<1>6. ASSUME \/ \E t \in Txns : Decide(t) \/ Expire(t)
             \/ Administer
      PROVE  FilingFor(u)' \subseteq FilingFor(u)
  BY <1>6, OthersRespectLocks DEF IInv, FilingFor, Filing
<1>7. CASE UNCHANGED vars
  BY <1>1, <1>7 DEF vars, OpenOf, IsOpen, FilingFor, Filing
<1> QED
  BY <1>1, <1>2, <1>3, <1>4, <1>5, <1>6, <1>7 DEF Next

LEMMA FilingInvariant == Spec => []FilingHeld
<1>1. Init => FilingHeld
  <2> SUFFICES ASSUME Init, NEW u \in Users
               PROVE  Cardinality(OpenOf(u)) + Cardinality(FilingFor(u))
                          <= Cardinality(Procs)
    BY DEF FilingHeld
  <2>1. OpenOf(u) = {} /\ FilingFor(u) = {}
    BY DEF Init, OpenOf, IsOpen, FilingFor, Filing, Idle
  <2> QED
    BY <2>1, FS_EmptySet, SetsAreFinite
<1>2. ASSUME IInv, FilingHeld, [Next]_vars
      PROVE  FilingHeld'
  BY <1>2, FilingPreserved
<1> QED
  BY <1>1, <1>2, InductiveInvariant, PTL DEF Spec

\* create_invitation, create_request look for an open transaction of the user
\* before the insert only: there are never more than there are threads.
THEOREM OpenPerUserLimited == Spec => []OpenPerUserBounded
<1>1. FilingHeld => OpenPerUserBounded
  <2> SUFFICES ASSUME FilingHeld, NEW u \in Users
               PROVE  Cardinality(OpenOf(u)) <= Cardinality(Procs)
    BY DEF OpenPerUserBounded, OpenOf
  <2> QED
    BY FilingFinite, SetsAreFinite DEF FilingHeld
<1> QED
  BY <1>1, FilingInvariant, PTL

-----------------------------------------------------------------------------
(* Cooldowns, when calls do not overlap.                                   *)

\* A request is filed by the user it is for.
RequestsAreOwn ==
    /\ \A t \in Txns : txn[t].kind = "request" => txn[t].by = txn[t].user
    /\ \A p \in Procs : job[p].kind = "request" => job[p].by = job[p].user

\* A request of u was denied, and the cooldown has not passed.
Cooling(u) ==
    \E t \in Txns : /\ txn[t].user = u /\ txn[t].kind = "request"
                    /\ txn[t].status = "denied" /\ txn[t].cool

\* A call that files a request files it for somebody who may.
FilingWhileWarm ==
    \A p \in Procs :
        job[p].op = "create" /\ job[p].kind = "request" => ~Cooling(job[p].user)

LEMMA OwnPreserved ==
  ASSUME IInv, RequestsAreOwn, [Next]_vars
  PROVE  RequestsAreOwn'
<1> USE DEF IInv, TypeOK, Rows
<1>1. ASSUME NEW p \in Procs, Begin(p)
      PROVE  RequestsAreOwn'
  <2>1. UNCHANGED txn /\ \A q \in Procs \ {p} : job'[q] = job[q]
    BY <1>1, BeginLocks
  <2>2. job'[p].kind = "request" => job'[p].by = job'[p].user
    <3>1. ASSUME NEW v \in Candidates, NEW form \in BOOLEAN,
                 \/ BeginCreateRequest(p, v, form)
                 \/ \E x \in Inviters : BeginCreateInvitation(p, x, v, form)
          PROVE  job'[p].kind = "request" => job'[p].by = job'[p].user
      BY <3>1 DEF BeginCreateRequest, BeginCreateInvitation, CreateJob
    <3>2. ASSUME NEW t \in Txns, NEW attach \in BOOLEAN, BeginAccept(p, t, attach)
          PROVE  job'[p].kind = "request" => job'[p].by = job'[p].user
      BY <3>2 DEF BeginAccept, RowJob, RequestsAreOwn
    <3>3. ASSUME NEW t \in Txns, BeginRefusedAccept(p, t)
          PROVE  job'[p].kind = "request" => job'[p].by = job'[p].user
      BY <3>3 DEF BeginRefusedAccept, RowJob, RequestsAreOwn
    <3>4. ASSUME NEW t \in Txns,
                 \/ BeginApprove(p, t)
                 \/ \E to \in TerminalStates : BeginRevoke(p, t, to)
          PROVE  job'[p].kind = "request" => job'[p].by = job'[p].user
      BY <3>4 DEF BeginApprove, BeginRevoke, BeginReview, RowJob, RequestsAreOwn
    <3>5. ASSUME NEW v \in Administered, BeginLeave(p, v)
          PROVE  job'[p].by = job'[p].user
      BY <3>5 DEF BeginLeave, LeaveJob
    <3> QED
      BY <1>1, <3>1, <3>2, <3>3, <3>4, <3>5 DEF Begin
  <2> QED
    BY <2>1, <2>2 DEF RequestsAreOwn
<1>2. ASSUME NEW p \in Procs, Commit(p)
      PROVE  RequestsAreOwn'
  <2>1. \A q \in Procs : job'[q].kind = "request" => job'[q].by = job'[q].user
    BY <1>2, CommitReleases DEF RequestsAreOwn, Idle
  <2>2. WrittenRow(p).kind = "request" => WrittenRow(p).by = WrittenRow(p).user
    BY DEF WrittenRow, RequestsAreOwn
  <2>3. ASSUME NEW t \in Txns
        PROVE  txn'[t].kind = "request" => txn'[t].by = txn'[t].user
    <3>1. txn[t].kind = "request" => txn[t].by = txn[t].user
      BY DEF RequestsAreOwn
    <3>2. txn[t] \in Rows
      OBVIOUS
    <3>3. CASE (\E s \in Txns : CommitCreate(p, s)) \/ CommitAccept(p)
      <4>1. txn'[t] = txn[t] \/ txn'[t] = WrittenRow(p)
        BY <3>3 DEF CommitCreate, CommitAccept
      <4> QED
        BY <2>2, <3>1, <4>1
    <3>4. CASE CommitApprove(p)
      <4>1. txn'[t] = txn[t] \/ txn'[t] = ApprovedRow(t)
        BY <3>4 DEF CommitApprove
      <4> QED
        BY <3>1, <3>2, <4>1 DEF ApprovedRow
    <3>5. CASE CommitRevoke(p)
      BY <3>1, <3>5 DEF CommitRevoke
    <3> QED
      BY <1>2, <3>1, <3>3, <3>4, <3>5
         DEF Commit, RollbackAccept, Abort, CommitLeave
  <2> QED
    BY <2>1, <2>3 DEF RequestsAreOwn
<1>3. ASSUME NEW t \in Txns, Decide(t) \/ Expire(t)
      PROVE  RequestsAreOwn'
  BY <1>3 DEF Decide, Deny, Cancel, Dismiss, RequestInfo, Resubmit, Expire, Move,
              RequestsAreOwn
<1>4. CASE Administer
  <2>1. ASSUME NEW t \in Txns, CooldownPasses(t)
        PROVE  RequestsAreOwn'
    BY <2>1 DEF CooldownPasses, RequestsAreOwn
  <2> QED
    BY <1>4, <2>1 DEF Administer, UpdateMembershipStatus, LosePermission,
                      SetMapping, RequestsAreOwn
<1>5. CASE UNCHANGED vars
  BY <1>5 DEF vars, RequestsAreOwn
<1> QED
  BY <1>1, <1>2, <1>3, <1>4, <1>5 DEF Next

\* Of the steps that run while the only thread files a request, none denies one
\* of this user's: it would have to be open.
LEMMA NoDenialWhileFiling ==
  ASSUME \A p, q \in Procs : p = q, IInv, FilingHeld, NEW t \in Txns,
         Decide(t) \/ Expire(t),
         NEW u \in Users, FilingFor(u) # {}, Cooling(u)'
  PROVE  Cooling(u)
<1> USE DEF IInv, TypeOK, Rows
<1>1. Cardinality(Procs) = 1
  <2>1. PICK p \in Procs : Procs = {p}
    BY QuotaAssumption
  <2> QED
    BY <2>1, FS_Singleton
<1>2. Cardinality(FilingFor(u)) # 0
  BY FilingFinite, FS_EmptySet
<1>3. OpenOf(u) = {}
  <2>1. Cardinality(OpenOf(u)) = 0
    BY <1>1, <1>2, FilingFinite DEF FilingHeld
  <2> QED
    BY <2>1, FilingFinite, FS_EmptySet
<1>4. \A s \in Txns \ {t} : txn'[s] = txn[s]
  BY DEF Decide, Deny, Cancel, Dismiss, RequestInfo, Resubmit, Expire
<1>5. CASE Deny(t)
  <2>1. txn[t].user # u
    BY <1>3, <1>5 DEF Deny, OpenOf, IsOpen, TerminalStates, Absent
  <2> QED
    BY <1>4, <1>5, <2>1 DEF Deny, Cooling
<1>6. CASE ~Deny(t)
  <2>1. txn'[t].status # "denied"
    BY <1>6 DEF Decide, Cancel, Dismiss, RequestInfo, Resubmit, ResubmitStatus,
                Expire
  <2> QED
    BY <1>4, <2>1 DEF Cooling
<1> QED
  BY <1>5, <1>6

LEMMA WarmPreserved ==
  ASSUME \A p, q \in Procs : p = q, IInv, RequestsAreOwn, FilingHeld,
         FilingWhileWarm, [Next]_vars
  PROVE  FilingWhileWarm'
<1> USE DEF IInv, TypeOK
<1>1. ASSUME NEW p \in Procs, Begin(p)
      PROVE  FilingWhileWarm'
  <2>1. UNCHANGED txn
    BY <1>1, BeginLocks
  <2>2. ASSUME NEW v \in Candidates, NEW form \in BOOLEAN,
               BeginCreateRequest(p, v, form)
        PROVE  FilingWhileWarm'
    <3>1. ~Cooling(v)
      BY <2>2 DEF BeginCreateRequest, CoolingDown, Cooling, RequestsAreOwn
    <3>2. job'[p].user = v /\ \A q \in Procs : q = p
      BY <2>2 DEF BeginCreateRequest, CreateJob
    <3> QED
      BY <2>1, <3>1, <3>2 DEF FilingWhileWarm, Cooling
  <2>3. ASSUME ~\E v \in Candidates, form \in BOOLEAN :
                  BeginCreateRequest(p, v, form)
        PROVE  ~(job'[p].op = "create" /\ job'[p].kind = "request")
    BY <1>1, <2>3 DEF Begin, BeginCreateInvitation, CreateJob, BeginAccept,
            BeginRefusedAccept, BeginApprove, BeginRevoke, BeginReview, RowJob,
            BeginLeave, LeaveJob
  <2> QED
    BY <2>2, <2>3 DEF FilingWhileWarm
<1>2. ASSUME NEW p \in Procs, Commit(p)
      PROVE  FilingWhileWarm'
  BY <1>2, CommitReleases DEF FilingWhileWarm, Idle
<1>3. ASSUME NEW t \in Txns, Decide(t) \/ Expire(t)
      PROVE  FilingWhileWarm'
  <2>1. UNCHANGED job
    BY <1>3, OthersRespectLocks
  <2>2. ASSUME NEW p \in Procs, job[p].op = "create", NEW u \in Users,
               u = job[p].user, Cooling(u)'
        PROVE  Cooling(u)
    <3>1. FilingFor(u) # {}
      BY <2>2 DEF FilingFor, Filing
    <3> QED
      BY <1>3, <2>2, <3>1, NoDenialWhileFiling
  <2>3. ASSUME NEW p \in Procs, job[p].op = "create", job[p].kind = "request",
               NEW u \in Users, u = job[p].user
        PROVE  ~Cooling(u)'
    BY <2>2, <2>3 DEF FilingWhileWarm
  <2>4. \A p \in Procs : job[p].user \in Users
    BY DEF Jobs
  <2> QED
    BY <2>1, <2>3, <2>4 DEF FilingWhileWarm, Cooling
<1>4. CASE Administer
  <2>1. ASSUME NEW t \in Txns, CooldownPasses(t)
        PROVE  FilingWhileWarm'
    BY <2>1 DEF CooldownPasses, Rows, FilingWhileWarm, Cooling
  <2> QED
    BY <1>4, <2>1 DEF Administer, UpdateMembershipStatus, LosePermission,
                      SetMapping, FilingWhileWarm, Cooling
<1>5. CASE UNCHANGED vars
  BY <1>5 DEF vars, FilingWhileWarm, Cooling
<1> QED
  BY <1>1, <1>2, <1>3, <1>4, <1>5 DEF Next

\* A row that was absent appears by an insertion only.
LEMMA RowsAppearByInsertion ==
  ASSUME IInv, Next, NEW t \in Txns,
         txn[t].status = Absent, txn'[t].status # Absent
  PROVE  \E p \in Procs : CommitCreate(p, t) /\ txn'[t] = WrittenRow(p)
<1> USE DEF IInv, TypeOK, Rows
<1>1. ASSUME NEW p \in Procs, Begin(p)
      PROVE  FALSE
  BY <1>1, BeginLocks
<1>2. ASSUME NEW p \in Procs, Commit(p)
      PROVE  CommitCreate(p, t) /\ txn'[t] = WrittenRow(p)
  <2>1. job[p] \in Jobs /\ JobOnRow(p)
    BY DEF JobsOnRows
  <2>2. ASSUME NEW s \in Txns, CommitCreate(p, s)
        PROVE  CommitCreate(p, t) /\ txn'[t] = WrittenRow(p)
    BY <2>2 DEF CommitCreate
  <2>3. CASE CommitAccept(p) \/ CommitApprove(p) \/ CommitRevoke(p)
    <3>1. txn[job[p].txn].status # Absent
      BY <2>1, <2>3 DEF CommitAccept, CommitApprove, CommitRevoke, JobOnRow, Absent
    <3> QED
      BY <2>3, <3>1 DEF CommitAccept, CommitApprove, CommitRevoke
  <2> QED
    BY <1>2, <2>2, <2>3 DEF Commit, RollbackAccept, Abort, CommitLeave
<1>3. ASSUME NEW s \in Txns, Decide(s) \/ Expire(s)
      PROVE  FALSE
  BY <1>3 DEF Decide, Deny, Cancel, Dismiss, RequestInfo, Resubmit, Expire, IsOpen,
              Absent
<1>4. CASE Administer
  <2>1. ASSUME NEW s \in Txns, CooldownPasses(s)
        PROVE  txn'[t].status = txn[t].status
    BY <2>1 DEF CooldownPasses
  <2> QED
    BY <1>4, <2>1 DEF Administer, UpdateMembershipStatus, LosePermission,
                      SetMapping
<1> QED
  BY <1>1, <1>2, <1>3, <1>4 DEF Next

\* On a server that takes one call at a time nobody files a request while a
\* denial of theirs is cooling down.
THEOREM CooldownKept ==
  ASSUME \A p, q \in Procs : p = q
  PROVE  Spec => CooldownRespected
<1> DEFINE Filed == RequestsAreOwn /\ FilingWhileWarm
           Respected ==
             \A t \in Txns :
               (txn[t].status = Absent /\ txn'[t].status # Absent
                  /\ txn'[t].kind = "request")
               => ~\E s \in Txns : /\ txn[s].user = txn'[t].user
                                   /\ txn[s].kind = "request"
                                   /\ txn[s].status = "denied" /\ txn[s].cool
<1>1. Init => Filed
  BY DEF Init, RequestsAreOwn, FilingWhileWarm, Idle
<1>2. ASSUME IInv, FilingHeld, Filed, [Next]_vars
      PROVE  Filed'
  BY <1>2, OwnPreserved, WarmPreserved
<1>3. ASSUME IInv, Filed, [Next]_vars
      PROVE  [Respected]_vars
  <2>1. CASE Next
    <3> SUFFICES ASSUME NEW t \in Txns,
                        txn[t].status = Absent, txn'[t].status # Absent,
                        txn'[t].kind = "request"
                 PROVE  ~Cooling(txn'[t].user)
      BY DEF Cooling
    <3>1. PICK p \in Procs : CommitCreate(p, t) /\ txn'[t] = WrittenRow(p)
      BY <1>3, <2>1, RowsAppearByInsertion
    <3> QED
      BY <1>3, <3>1 DEF CommitCreate, WrittenRow, FilingWhileWarm
  <2> QED
    BY <1>3, <2>1
<1> QED
  BY <1>1, <1>2, <1>3, InductiveInvariant, FilingInvariant, PTL
     DEF Spec, CooldownRespected

=============================================================================
