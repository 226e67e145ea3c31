----------------------- MODULE MembershipTransactions -----------------------
(***************************************************************************)
(* Membership invitations and membership requests of ONE business account: *)
(* TransactionService over the rows it reads and writes, with              *)
(* RBACService.create_membership as the outcome and the member-management  *)
(* endpoints as the rest of the world.                                     *)
(*                                                                         *)
(* Requests run concurrently.  Every service method is one database        *)
(* transaction at READ COMMITTED: it locks the Transaction row it is about *)
(* (select_for_update), reads membership rows WITHOUT locking them, and    *)
(* its writes become visible at its commit.  A method whose reads can be   *)
(* stale by then is two actions, Begin* (lock, reads, checks) and Commit*  *)
(* (writes, unique constraints); one that touches only the row it has      *)
(* locked is a single action.  A refused call changes nothing.             *)
(*                                                                         *)
(* The account's owner is not in Users: the owner is always active here    *)
(* and holds every permission (OwnershipTransfer models the owner).        *)
(***************************************************************************)
EXTENDS Integers, FiniteSets, TransactionStates

CONSTANTS
    Users,              \* people who are not the owner
    Managers,           \* members at the start, with a role that can invite
    Candidates,         \* bound: who is invited or asks to join
    Inviters,           \* bound: who may try to invite
    Administered,       \* bound: whose Membership rows are managed by hand
    FormMappings,       \* bound: the <<kind, mode>> that may be configured
    Owner,              \* the account's owner
    Procs,              \* request threads
    MaxTxns,            \* bound: rows the Transaction table may get
    MaxMembers,         \* BusinessAccount.max_members, 0 = unlimited
    MaxPending,         \* user.transactions.max_pending
    OpenMemberRequest   \* BusinessAccount.open_member_request

Actors == Users \cup {Owner}
Kinds == {"invitation", "request"}   \* business_membership_<kind>
Mappings == {"none", "optional", "required"}

ASSUME UsersAssumption ==
    /\ Candidates \subseteq Users /\ Candidates # {}
    /\ Managers \subseteq Users /\ Owner \notin Users
    /\ Inviters \subseteq Actors /\ Administered \subseteq Users
    /\ FormMappings \subseteq Kinds \X Mappings
ASSUME BoundsAssumption ==
    MaxTxns \in Nat /\ MaxMembers \in Nat /\ MaxPending \in Nat
ASSUME FlagAssumption == OpenMemberRequest \in BOOLEAN
\* The account, its owner included, begins within its cap.
ASSUME QuotaAssumption ==
    /\ IsFiniteSet(Users) /\ IsFiniteSet(Procs) /\ Procs # {}
    /\ MaxMembers > 0 => Cardinality(Managers) < MaxMembers

VARIABLES
    txn,         \* the Transaction table
    member,      \* [Users -> status of the live Membership row, or "none"]
    gen,         \* [Users -> number of the user's soft-deleted rows]
    manager,     \* users whose live row has a role with can_invite_member
    mapping,     \* [Kinds -> TransactionFormMapping of that type]
    job,         \* [Procs -> the call in flight]
    reinstated   \* history: users an administrator has set ACTIVE by hand

vars == <<txn, member, gen, manager, mapping, job, reinstated>>

Txns == 1..MaxTxns
MemberStatus ==                      \* "banned" behaves as "suspended" does
    {"none", "active", "pending_approval", "suspended", "left", "removed"}

\* by: whose initiator_id it is; form: form_response_id is set; done:
\* outcome_executed; cool: denied less than resubmission_cooldown_days ago.
Rows == [kind : Kinds, user : Users, by : Actors,
         status : TransactionStatus \cup {Absent},
         form : BOOLEAN, done : BOOLEAN, cool : BOOLEAN]

Ops == {"idle", "create", "accept", "approve", "revoke", "leave"}
NoTxn == 0

\* A call in flight: the row it has locked and what it read.  to is the status
\* it will write, write what it will do to the Membership row of user with
\* generation gen.
Jobs == [op : Ops, txn : Txns \cup {NoTxn}, kind : Kinds, user : Users,
         by : Actors, form : BOOLEAN, to : TransactionStatus,
         write : {"none", "insert", "update"}, gen : Nat]

Someone == CHOOSE u \in Candidates : TRUE   \* where no user is meant

Idle == [op |-> "idle", txn |-> NoTxn, kind |-> "invitation", user |-> Someone,
         by |-> Owner, form |-> FALSE, to |-> "created", write |-> "none",
         gen |-> 0]

\* The three shapes of a call in flight: an insertion into the table, a decision
\* about the locked row t, a member leaving.
CreateJob(k, u, x, form) ==
    [op |-> "create", txn |-> NoTxn, kind |-> k, user |-> u, by |-> x,
     form |-> form, to |-> "pending", write |-> "none", gen |-> 0]
RowJob(op, t, form, to, write) ==
    [op |-> op, txn |-> t, kind |-> txn[t].kind, user |-> txn[t].user,
     by |-> txn[t].by, form |-> form, to |-> to, write |-> write,
     gen |-> gen[txn[t].user]]
LeaveJob(u) ==
    [op |-> "leave", txn |-> NoTxn, kind |-> "request", user |-> u, by |-> u,
     form |-> FALSE, to |-> "created", write |-> "update", gen |-> gen[u]]

-----------------------------------------------------------------------------
\* QuerySet.active(): rows whose status is not terminal.
IsOpen(t) == txn[t].status \notin TerminalStates \cup {Absent}

\* Variant: rows are read with plain get().
LockedVariant(t) == FALSE

\* Some call in flight holds the row lock of select_for_update.
Locked(t) == \E p \in Procs : job[p].txn = t

Free(p) == job[p].op = "idle"

\* A membership counts against the quota while active or pending_approval.
\* MembershipSelector.count_active_members; the owner is one of them.
ActiveCount ==
    1 + Cardinality({u \in Users :
                        member[u] \in {"active", "pending_approval"}})

\* Variant: off by one.
QuotaReachedVariant(n) == MaxMembers > 0 /\ n > MaxMembers

QuotaReached(n) == MaxMembers > 0 /\ n >= MaxMembers

\* _check_member_quota: members plus open membership transactions.
CommittedCount == ActiveCount + Cardinality({t \in Txns : IsOpen(t)})

\* Variant: the initiator side only.
ConflictingVariant(u) == \E t \in Txns : IsOpen(t) /\ txn[t].by = u

\* has_active_in_conflict_group: an open invitation or request of this account
\* that has u as its target user or as its initiator.
Conflicting(u) ==
    \E t \in Txns : IsOpen(t) /\ (txn[t].user = u \/ txn[t].by = u)

\* Variant: no cooldown.
CoolingDownVariant(u) == FALSE

\* get_resubmission_cooldown: a recent denial among the user's own requests.
CoolingDown(u) ==
    \E t \in Txns : /\ txn[t].kind = "request" /\ txn[t].by = u
                    /\ txn[t].status = "denied" /\ txn[t].cool

PendingOf(k, x) ==
    Cardinality({t \in Txns : IsOpen(t) /\ txn[t].kind = k /\ txn[t].by = x})

\* can_create_invitation, and _validate_creator_authority at acceptance time.
CreatorAuthority(x) == x # Owner => member[x] = "active" /\ x \in manager

\* The table still has room for every insertion under way (a bound).
RoomForInsert ==
    Cardinality({p \in Procs : job[p].op = "create"})
        < Cardinality({t \in Txns : txn[t].status = Absent})

-----------------------------------------------------------------------------
Init ==
    /\ txn = [t \in Txns |->
                 [kind |-> "invitation", user |-> Someone, by |-> Owner,
                  status |-> Absent, form |-> FALSE, done |-> FALSE,
                  cool |-> FALSE]]
    /\ member = [u \in Users |-> IF u \in Managers THEN "active" ELSE "none"]
    /\ gen = [u \in Users |-> 0]
    /\ manager = Managers
    /\ mapping = [k \in Kinds |-> "none"]
    /\ job = [p \in Procs |-> Idle]
    /\ reinstated = {}

-----------------------------------------------------------------------------
(* Creation: checks, then an insert that no unique constraint guards.      *)

BeginCreateInvitation(p, x, u, form) ==
    /\ Free(p)
    /\ CreatorAuthority(x)
    /\ PendingOf("invitation", x) < MaxPending
    /\ ~Conflicting(u)
    /\ member[u] # "active"
    /\ ~QuotaReached(CommittedCount)
    /\ RoomForInsert
    /\ job' = [job EXCEPT ![p] = CreateJob("invitation", u, x, form)]
    /\ UNCHANGED <<txn, member, gen, manager, mapping, reinstated>>

BeginCreateRequest(p, u, form) ==
    /\ Free(p)
    /\ PendingOf("request", u) < MaxPending
    /\ ~Conflicting(u)
    /\ ~CoolingDown(u)
    /\ OpenMemberRequest
    /\ ~QuotaReached(CommittedCount)
    /\ mapping["request"] = "required" => form
    /\ RoomForInsert
    /\ job' = [job EXCEPT ![p] = CreateJob("request", u, u, form)]
    /\ UNCHANGED <<txn, member, gen, manager, mapping, reinstated>>

\* The row that a creation inserts, and that an acceptance writes over the one
\* it has locked.
WrittenRow(p) ==
    [kind |-> job[p].kind, user |-> job[p].user, by |-> job[p].by,
     status |-> job[p].to, form |-> job[p].form,
     done |-> job[p].to = "accepted", cool |-> FALSE]

\* The row appears as PENDING: CREATED was never committed.
CommitCreate(p, t) ==
    /\ job[p].op = "create"
    /\ txn[t].status = Absent
    /\ \A s \in Txns : s < t => txn[s].status # Absent
    /\ txn' = [txn EXCEPT ![t] = WrittenRow(p)]
    /\ job' = [job EXCEPT ![p] = Idle]
    /\ UNCHANGED <<member, gen, manager, mapping, reinstated>>

-----------------------------------------------------------------------------
(* Acceptance by the target (invitation) or by the account (request).      *)

\* The user's form, if any, is attached in the same commit.
FormAt(t, attach) == txn[t].form \/ attach

\* Variant: MembershipStatus.PENDING_APPROVAL where the transaction's own
\* status is meant.
AcceptStatusVariant(t, form) ==
    IF txn[t].kind = "invitation" /\ form /\ mapping[txn[t].kind] # "none"
    THEN "pending_approval" ELSE "accepted"

\* Invitations with a form and a mapping wait for the account's review.
AcceptStatus(t, form) ==
    IF txn[t].kind = "invitation" /\ form /\ mapping[txn[t].kind] # "none"
    THEN "pending_review" ELSE "accepted"

\* RBACService.create_membership: reactivate a REMOVED row or insert a new one.
MembershipWrite(u) == IF member[u] = "removed" THEN "update" ELSE "insert"

\* create_membership's checks, on unlocked rows.
MayJoin(u) == ~QuotaReached(ActiveCount) /\ member[u] \in {"none", "removed"}

BeginAccept(p, t, attach) ==
    LET u == txn[t].user
        form == FormAt(t, attach)
    IN  /\ Free(p) /\ ~Locked(t)
        /\ txn[t].status = "pending"
        /\ attach => ~txn[t].form
        /\ txn[t].kind = "invitation" => CreatorAuthority(txn[t].by)
        /\ mapping[txn[t].kind] = "required" => form
        /\ MayJoin(u)
        /\ job' = [job EXCEPT ![p] =
                 RowJob("accept", t, form, AcceptStatus(t, form),
                        MembershipWrite(u))]
        /\ UNCHANGED <<txn, member, gen, manager, mapping, reinstated>>

\* The creator's authority is gone: _validate_creator_authority writes
\* INVALIDATED and raises, which is about to roll that write back.
BeginRefusedAccept(p, t) ==
    /\ Free(p) /\ ~Locked(t)
    /\ txn[t].status = "pending"
    /\ txn[t].kind = "invitation"
    /\ ~CreatorAuthority(txn[t].by)
    /\ job' = [job EXCEPT ![p] =
                 RowJob("accept", t, txn[t].form, "invalidated", "none")]
    /\ UNCHANGED <<txn, member, gen, manager, mapping, reinstated>>

Refused(p) == job[p].op = "accept" /\ job[p].to = "invalidated"

\* An insert meets unique_membership_per_user_account at the commit.
UniqueViolation(p) ==
    job[p].write = "insert" /\ member[job[p].user] # "none"

\* The exception leaves the outermost atomic block: nothing was written.
RollbackAccept(p) ==
    /\ job[p].op = "accept"
    /\ Refused(p) \/ UniqueViolation(p)
    /\ job' = [job EXCEPT ![p] = Idle]
    /\ UNCHANGED <<txn, member, gen, manager, mapping, reinstated>>

\* The worker dies or the database breaks a deadlock before the commit: the
\* atomic block of the service method leaves nothing behind.
Abort(p) ==
    /\ ~Free(p) /\ ~Refused(p)
    /\ job' = [job EXCEPT ![p] = Idle]
    /\ UNCHANGED <<txn, member, gen, manager, mapping, reinstated>>

\* An UPDATE by primary key reaches its row even when the row has been
\* soft-deleted since; the user's live row, if any, is then another one.
Reaches(p) ==
    \/ job[p].write = "insert"
    \/ job[p].write = "update" /\ gen[job[p].user] = job[p].gen

\* Variant: the argument is forgotten and its default stands.
GrantedStatusVariant(p) == "active"

\* create_membership's status argument.
GrantedStatus(p) ==
    IF job[p].to = "pending_review" THEN "pending_approval" ELSE "active"

CommitAccept(p) ==
    LET u == job[p].user
    IN  /\ job[p].op = "accept"
        /\ ~Refused(p) /\ ~UniqueViolation(p)
        /\ txn' = [txn EXCEPT ![job[p].txn] = WrittenRow(p)]
        /\ IF Reaches(p)
           THEN /\ member' = [member EXCEPT ![u] = GrantedStatus(p)]
                /\ manager' = manager \ {u}   \* the role the payload names
           ELSE UNCHANGED <<member, manager>>
        /\ job' = [job EXCEPT ![p] = Idle]
        /\ UNCHANGED <<gen, mapping, reinstated>>

-----------------------------------------------------------------------------
(* Review of a provisional membership.                                     *)

\* The PENDING_APPROVAL row the review finds, if it finds one.
ReviewWrite(u) == IF member[u] = "pending_approval" THEN "update" ELSE "none"

BeginReview(p, t, op, to) ==
    /\ Free(p) /\ ~Locked(t)
    /\ txn[t].status = "pending_review"
    /\ job' = [job EXCEPT ![p] =
                 RowJob(op, t, txn[t].form, to, ReviewWrite(txn[t].user))]
    /\ UNCHANGED <<txn, member, gen, manager, mapping, reinstated>>

\* approve_pending_review; deny and cancel of a PENDING_REVIEW transaction.
BeginApprove(p, t) == BeginReview(p, t, "approve", "accepted")
BeginRevoke(p, t, to) ==
    to \in {"denied", "cancelled"} /\ BeginReview(p, t, "revoke", to)

\* What approve_pending_review leaves in the transaction and the membership.
\* Variant: outcome_executed is not set.
ApprovedRowVariant(t) == [txn[t] EXCEPT !.status = "accepted"]
ApprovedRow(t) == [txn[t] EXCEPT !.status = "accepted", !.done = TRUE]
\* Variant: the provisional membership is not activated.
ActivatedVariant(p) == member
Activated(p) ==
    IF Reaches(p) THEN [member EXCEPT ![job[p].user] = "active"] ELSE member

CommitApprove(p) ==
    LET t == job[p].txn
    IN  /\ job[p].op = "approve"
        /\ txn' = [txn EXCEPT ![t] = ApprovedRow(t)]
        /\ member' = Activated(p)
        /\ job' = [job EXCEPT ![p] = Idle]
        /\ UNCHANGED <<gen, manager, mapping, reinstated>>

CommitRevoke(p) ==
    LET t == job[p].txn
        u == job[p].user
    IN  /\ job[p].op = "revoke"
        /\ txn' = [txn EXCEPT ![t].status = job[p].to]
        /\ IF Reaches(p)
           THEN /\ member' = [member EXCEPT ![u] = "none"]
                /\ gen' = [gen EXCEPT ![u] = @ + 1]
                /\ manager' = manager \ {u}
           ELSE UNCHANGED <<member, gen, manager>>
        /\ job' = [job EXCEPT ![p] = Idle]
        /\ UNCHANGED <<mapping, reinstated>>

-----------------------------------------------------------------------------
(* Moves that touch the locked row only.                                   *)

Move(t, s) ==
    /\ ~Locked(t)
    /\ CanTransition(txn[t].status, s)
    /\ UNCHANGED <<member, gen, manager, mapping, job, reinstated>>

\* deny of a PENDING transaction; a denied request starts its cooldown.
Deny(t) ==
    /\ txn[t].status = "pending"
    /\ Move(t, "denied")
    /\ txn' = [txn EXCEPT ![t].status = "denied",
                          ![t].cool = (txn[t].kind = "request")]

\* cancel of a PENDING transaction, by its initiator.
Cancel(t) ==
    /\ txn[t].status = "pending"
    /\ Move(t, "cancelled")
    /\ txn' = [txn EXCEPT ![t].status = "cancelled"]

Dismiss(t) ==
    /\ txn[t].kind = "request"
    /\ txn[t].status \in {"accepted", "denied"}
    /\ Move(t, "dismissed")
    /\ txn' = [txn EXCEPT ![t].status = "dismissed"]

\* Variant: the task looks for PENDING rows only.
ExpireVariant(t) ==
    /\ txn[t].status = "pending"
    /\ Move(t, "expired")
    /\ txn' = [txn EXCEPT ![t].status = "expired"]

\* The hourly task: whatever the transaction waits for, its time is up.
Expire(t) ==
    /\ IsOpen(t)
    /\ Move(t, "expired")
    /\ txn' = [txn EXCEPT ![t].status = "expired"]

RequestInfo(t) ==
    /\ txn[t].status \in {"pending", "pending_review"}
    /\ txn[t].form
    /\ Move(t, "info_requested")
    /\ txn' = [txn EXCEPT ![t].status = "info_requested"]

\* resubmit_after_info_request looks the mapping up again.
ResubmitStatus(t) ==
    IF /\ txn[t].kind = "invitation" /\ txn[t].form
       /\ mapping[txn[t].kind] # "none"
    THEN "pending_review" ELSE "pending"

Resubmit(t) ==
    /\ txn[t].status = "info_requested"
    /\ Move(t, ResubmitStatus(t))
    /\ txn' = [txn EXCEPT ![t].status = ResubmitStatus(t)]

-----------------------------------------------------------------------------
(* Membership rows change under the transactions' feet.                    *)

\* The leave endpoint finds the caller's ACTIVE membership ...
BeginLeave(p, u) ==
    /\ Free(p)
    /\ member[u] = "active"
    /\ job' = [job EXCEPT ![p] = LeaveJob(u)]
    /\ UNCHANGED <<txn, member, gen, manager, mapping, reinstated>>

\* ... and member_leave writes LEFT over whatever the row holds by then.
CommitLeave(p) ==
    /\ job[p].op = "leave"
    /\ member' = IF Reaches(p)
                 THEN [member EXCEPT ![job[p].user] = "left"] ELSE member
    /\ job' = [job EXCEPT ![p] = Idle]
    /\ UNCHANGED <<txn, gen, manager, mapping, reinstated>>

\* suspend, ban, remove and reactivate, from any status of the row.  Nothing of
\* what the call read bears on what it writes: one action, at its commit.
UpdateMembershipStatus(u, s) ==
    /\ member[u] \notin {"none", s}
    /\ s \in {"active", "suspended", "removed"}
    /\ member' = [member EXCEPT ![u] = s]
    /\ reinstated' = IF s = "active" THEN reinstated \cup {u} ELSE reinstated
    /\ UNCHANGED <<txn, gen, manager, mapping, job>>

\* A role change, or a permission taken from the role.
LosePermission(u) ==
    /\ u \in manager
    /\ manager' = manager \ {u}
    /\ UNCHANGED <<txn, member, gen, mapping, job, reinstated>>

\* TransactionFormMappingService.create and the delete endpoint.
SetMapping(k, m) ==
    /\ m # mapping[k]
    /\ \/ mapping[k] = "none" /\ <<k, m>> \in FormMappings
       \/ m = "none"
    /\ mapping' = [mapping EXCEPT ![k] = m]
    /\ UNCHANGED <<txn, member, gen, manager, job, reinstated>>

\* resubmission_cooldown_days have passed since t was denied.
CooldownPasses(t) ==
    /\ txn[t].cool
    /\ txn' = [txn EXCEPT ![t].cool = FALSE]
    /\ UNCHANGED <<member, gen, manager, mapping, job, reinstated>>

-----------------------------------------------------------------------------
Begin(p) ==
    \/ \E u \in Candidates, form \in BOOLEAN :
          \/ BeginCreateRequest(p, u, form)
          \/ \E x \in Inviters : BeginCreateInvitation(p, x, u, form)
    \/ \E t \in Txns :
          \/ \E attach \in BOOLEAN : BeginAccept(p, t, attach)
          \/ BeginRefusedAccept(p, t)
          \/ BeginApprove(p, t)
          \/ \E to \in TerminalStates : BeginRevoke(p, t, to)
    \/ \E u \in Administered : BeginLeave(p, u)

Commit(p) ==
    \/ \E t \in Txns : CommitCreate(p, t)
    \/ CommitAccept(p)
    \/ RollbackAccept(p)
    \/ Abort(p)
    \/ CommitApprove(p)
    \/ CommitRevoke(p)
    \/ CommitLeave(p)

Decide(t) ==
    \/ Deny(t) \/ Cancel(t) \/ Dismiss(t) \/ RequestInfo(t) \/ Resubmit(t)

Administer ==
    \/ \E u \in Administered, s \in MemberStatus : UpdateMembershipStatus(u, s)
    \/ \E u \in Users : LosePermission(u)
    \/ \E k \in Kinds, m \in Mappings : SetMapping(k, m)
    \/ \E t \in Txns : CooldownPasses(t)

Next ==
    \/ \E p \in Procs : Begin(p) \/ Commit(p)
    \/ \E t \in Txns : Decide(t) \/ Expire(t)
    \/ Administer

Spec == Init /\ [][Next]_vars

\* A database transaction that has begun ends, one way or the other.  The hourly
\* task comes back to a row as long as it is open, and waits in the row's lock
\* queue: it is not overtaken for ever.
Fairness ==
    /\ \A p \in Procs : WF_vars(Commit(p))
    /\ \A t \in Txns : SF_vars(Expire(t))

FairSpec == Spec /\ Fairness

-----------------------------------------------------------------------------
(* Properties.                                                             *)

\* Every variable holds values of its type, and every call in flight is a
\* well-formed record.
TypeOK ==
    /\ txn \in [Txns -> Rows]
    /\ member \in [Users -> MemberStatus]
    /\ gen \in [Users -> Nat]
    /\ manager \subseteq Users
    /\ mapping \in [Kinds -> Mappings]
    /\ job \in [Procs -> Jobs]
    /\ reinstated \subseteq Users

\* outcome_executed is set exactly when the transaction was accepted: no commit
\* leaves ACCEPTED without its outcome (what needing_outcome_execution looks
\* for does not exist), and no other ending has one.
OutcomeMatchesStatus ==
    \A t \in Txns :
        /\ txn[t].status = "accepted" => txn[t].done
        /\ txn[t].done => txn[t].status \in {"accepted", "dismissed"}

\* Nobody is an active member but by an accepted transaction of theirs, by an
\* administrator's own hand, or from the start: a review is not skipped, and a
\* transaction that ended otherwise leaves no member behind.
MembershipHasCause ==
    \A u \in Users : member[u] = "active" =>
        \/ u \in Managers \cup reinstated
        \/ \E t \in Txns : txn[t].user = u /\ txn[t].done

\* A provisional membership always goes back to an invitation the user answered
\* with a form and whose outcome is still out.
ProvisionalHasInvitation ==
    \A u \in Users : member[u] = "pending_approval" =>
        \E t \in Txns : /\ txn[t].user = u /\ txn[t].kind = "invitation"
                        /\ txn[t].form /\ ~txn[t].done
                        /\ txn[t].status # Absent

\* The status and the outcome of every transaction follow the lifecycle that
\* the transaction system promises.
Lifecycle == INSTANCE TransactionLifecycle WITH
    Ids <- Txns,
    status <- [t \in Txns |-> txn[t].status],
    executed <- [t \in Txns |-> txn[t].done]

ImplementsLifecycle == Lifecycle!Spec

\* max_members is exceeded by fewer members than there are concurrent calls,
\* the administrators' own reactivations apart: exactly kept by a serial server.
QuotaOvershootBounded ==
    MaxMembers > 0 =>
        1 + Cardinality({u \in Users \ reinstated :
                            member[u] \in {"active", "pending_approval"}})
            < MaxMembers + Cardinality(Procs)

\* A user has no more open membership transactions, of both types, than there
\* are concurrent calls: one, when calls do not overlap (no constraint of the
\* table says so).
OpenPerUserBounded ==
    \A u \in Users :
        Cardinality({t \in Txns : IsOpen(t) /\ txn[t].user = u})
            <= Cardinality(Procs)

\* No request is filed while a denial of the same user's request is cooling
\* down (calls that do not overlap).
CooldownRespected ==
    [][\A t \in Txns :
        (txn[t].status = Absent /\ txn'[t].status # Absent
           /\ txn'[t].kind = "request")
        => ~\E s \in Txns : /\ txn[s].user = txn'[t].user
                            /\ txn[s].kind = "request"
                            /\ txn[s].status = "denied" /\ txn[s].cool]_vars

\* Whatever it waits for, an open transaction is closed in the end: by somebody,
\* or by the hourly expiry.
EventuallyClosed ==
    \A t \in Txns : [](IsOpen(t) => <>(txn[t].status \in TerminalStates))

-----------------------------------------------------------------------------
(* What documents of the repository say and the code does not do.          *)

\* An acceptance refused because the inviter lost their authority leaves the
\* invitation INVALIDATED.
RefusalInvalidates ==
    [][\A p \in Procs : Refused(p) /\ job'[p] = Idle
          => txn'[job[p].txn].status = "invalidated"]_vars

\* No acceptance brings the account above max_members, simultaneous or not.
AcceptKeepsQuota ==
    [][\A p \in Procs : job[p].op = "accept" /\ member' # member
          => ~QuotaReached(ActiveCount' - 1)]_vars

=============================================================================
