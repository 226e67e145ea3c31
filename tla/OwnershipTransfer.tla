-------------------------- MODULE OwnershipTransfer --------------------------
(***************************************************************************)
(* Who owns ONE business account: ownership-transfer offers (transactions  *)
(* of type business_ownership_transfer), RBACService.transfer_ownership,   *)
(* the governance console's forced transfer, and the member-management     *)
(* endpoints that write the same Membership rows.                          *)
(*                                                                         *)
(* As in MembershipTransactions, every service method is one database      *)
(* transaction at READ COMMITTED that locks the Transaction row only: it   *)
(* begins by reading membership rows, and its writes, of the columns it    *)
(* names and whatever the row holds by then, become visible when it        *)
(* commits: Begin and Commit actions.  A refused call changes nothing.     *)
(***************************************************************************)
EXTENDS Integers, FiniteSets, TransactionStates

CONSTANTS
    Users,          \* people with a membership of the account
    FirstOwner,     \* who opened it
    Provisional,    \* those whose membership waits for a review at the start
    Procs,          \* request threads
    Invitees,       \* bound: whom ownership may be offered to
    Administered,   \* bound: whose rows the member-management calls write
    FormMappings,   \* bound: the mappings that may be configured
    Governance,     \* do platform staff act on this account?
    MaxOffers       \* bound: rows the Transaction table may get

ASSUME OwnershipAssumption ==
    /\ FirstOwner \in Users /\ Invitees \subseteq Users
    /\ Provisional \subseteq Users \ {FirstOwner}
    /\ Administered \subseteq Users
    /\ FormMappings \subseteq {"optional", "required"}
    /\ Governance \in BOOLEAN /\ MaxOffers \in Nat

VARIABLES
    offer,      \* the Transaction table
    owners,     \* users whose live Membership row has is_owner set
    role,       \* [Users -> "owner" or "member"]: the role that row names
    member,     \* [Users -> status of that row, or "none"]
    mapping,    \* the TransactionFormMapping of the type
    job,        \* [Procs -> the call in flight]
    erased      \* history: a review has deleted a row that was activated since

people == <<owners, role, member, erased>>
vars == <<offer, people, mapping, job>>

Offers == 1..MaxOffers
\* removed, banned: as suspended; none: the row was soft-deleted.
MemberStatus == {"active", "suspended", "left", "pending_approval", "none"}
Roles == {"owner", "member"}
Mappings == {"none", "optional", "required"}
NoOffer == 0

\* form: form_response_id is set; done: outcome_executed.
Rows == [by : Users, to : Users, status : TransactionStatus \cup {Absent},
         form : BOOLEAN, done : BOOLEAN]

Ops == {"idle", "offer", "transfer", "approve", "revoke", "status", "role"}

\* old, new: the rows the call has read; status: what it will write to the
\* offer or, without one, to the row of new; form: the offer's form by then;
\* found: the review has found a provisional row.
Jobs == [op : Ops, offer : Offers \cup {NoOffer}, old : Users, new : Users,
         status : TransactionStatus \cup MemberStatus, form : BOOLEAN,
         found : BOOLEAN]

Idle == [op |-> "idle", offer |-> NoOffer, old |-> FirstOwner,
         new |-> FirstOwner, status |-> "active", form |-> FALSE,
         found |-> FALSE]
\* A decision about the locked offer t, a write to membership rows alone.
OfferJob(op, t, x, s, form, found) ==
    [op |-> op, offer |-> t, old |-> x, new |-> offer[t].to, status |-> s,
     form |-> form, found |-> found]
MemberJob(op, x, y, s) ==
    [Idle EXCEPT !.op = op, !.old = x, !.new = y, !.status = s]

Init ==
    /\ offer = [t \in Offers |->
                   [by |-> FirstOwner, to |-> FirstOwner, status |-> Absent,
                    form |-> FALSE, done |-> FALSE]]
    /\ owners = {FirstOwner}
    /\ role = [u \in Users |-> IF u = FirstOwner THEN "owner" ELSE "member"]
    /\ member = [u \in Users |-> IF u \in Provisional
                                 THEN "pending_approval" ELSE "active"]
    /\ mapping = "none"
    /\ job = [p \in Procs |-> Idle]
    /\ erased = FALSE

-----------------------------------------------------------------------------
IsOpen(t) == offer[t].status \notin TerminalStates \cup {Absent}
\* Variant: rows are read with plain get().
LockedVariant(t) == FALSE
\* Some call in flight holds the row lock of select_for_update.
Locked(t) == \E p \in Procs : job[p].offer = t
Free(p) == job[p].op = "idle"
Live(u) == member[u] # "none"

\* The table still has room for every insertion under way (a bound).
RoomForInsert ==
    Cardinality({p \in Procs : job[p].op = "offer"})
        < Cardinality({t \in Offers : offer[t].status = Absent})

Begin(p, j) ==
    /\ Free(p)
    /\ job' = [job EXCEPT ![p] = j]
    /\ UNCHANGED <<offer, people, mapping>>

End(p) == job' = [job EXCEPT ![p] = Idle]

\* create_invitation: the caller's own membership says is_owner; an open offer
\* to y or by y stands in the way, another one of x does not.
BeginOffer(p, x, y, form) ==
    /\ x \in owners /\ member[x] = "active"
    /\ ~\E t \in Offers : IsOpen(t) /\ y \in {offer[t].by, offer[t].to}
    /\ RoomForInsert
    /\ Begin(p, [MemberJob("offer", x, y, "pending") EXCEPT !.form = form])

\* The row is inserted as PENDING.
CommitOffer(p, t) ==
    /\ job[p].op = "offer"
    /\ offer[t].status = Absent
    /\ \A s \in Offers : s < t => offer[s].status # Absent
    /\ offer' = [offer EXCEPT ![t] =
                    [by |-> job[p].old, to |-> job[p].new, status |-> "pending",
                     form |-> job[p].form, done |-> FALSE]]
    /\ End(p)
    /\ UNCHANGED <<people, mapping>>

\* ACCEPTED comes with outcome_executed, in the same commit.
WrittenOffer(p) ==
    [offer[job[p].offer] EXCEPT !.status = job[p].status, !.form = job[p].form,
                                !.done = job[p].status = "accepted"]
OfferWritten(p) ==
    offer' = IF job[p].offer = NoOffer THEN offer
             ELSE [offer EXCEPT ![job[p].offer] = WrittenOffer(p)]

-----------------------------------------------------------------------------
\* accept, with a form or without: _validate_creator_authority finds the
\* creator's membership active, and asks no more of an owner_only type;
\* transfer_ownership reads the row of the owner x and the active row of the
\* invitee.  Only memberships wait for a review (needs_form_review).
BeginAccept(p, t, x, attach) ==
    LET form == offer[t].form \/ attach
    IN  /\ ~Locked(t)
        /\ offer[t].status = "pending"
        /\ attach => ~offer[t].form
        /\ mapping = "required" => form
        /\ member[offer[t].by] = "active"
        /\ x \in owners
        /\ member[offer[t].to] = "active"
        /\ Begin(p, OfferJob("transfer", t, x, "accepted", form, FALSE))

\* force_transfer_ownership: no offer, no consent.
BeginForce(p, x, y) ==
    /\ Governance
    /\ x \in owners
    /\ member[y] = "active" /\ y \notin owners
    /\ Begin(p, MemberJob("transfer", x, y, "active"))

\* Variant: the table has no such constraint.
UniqueOwnerViolationVariant(p) == FALSE

\* unique_owner_per_account, over live rows: somebody else is the owner by now.
UniqueOwnerViolation(p) ==
    Live(job[p].new) /\ owners \ {job[p].old, job[p].new} # {}

\* Variants: the former owner keeps the role; the columns are mixed up.
RolesAfterKept(p) == [role EXCEPT ![job[p].new] = "owner"]
RolesAfterMixed(p) == [role EXCEPT ![job[p].new] = member[job[p].new]]

\* The old owner is demoted to the base role, the new one gets the owner role;
\* both reach their rows by primary key, deleted or not.
RolesAfter(p) ==
    LET demoted == [role EXCEPT ![job[p].old] = "member"]
    IN  IF Live(job[p].new) THEN [demoted EXCEPT ![job[p].new] = "owner"]
        ELSE demoted

CommitTransfer(p) ==
    /\ job[p].op = "transfer"
    /\ ~UniqueOwnerViolation(p)
    /\ owners' = (owners \ {job[p].old}) \cup {u \in {job[p].new} : Live(u)}
    /\ role' = RolesAfter(p)
    /\ OfferWritten(p)
    /\ End(p)
    /\ UNCHANGED <<member, mapping, erased>>

RollbackTransfer(p) ==
    /\ job[p].op = "transfer"
    /\ UniqueOwnerViolation(p)
    /\ End(p)
    /\ UNCHANGED <<offer, people, mapping>>

\* The worker dies, or the database breaks the deadlock of two transfers that
\* update the same two rows in opposite orders: nothing was written.
Abort(p) ==
    /\ ~Free(p)
    /\ End(p)
    /\ UNCHANGED <<offer, people, mapping>>

-----------------------------------------------------------------------------
(* The review of an offer that was resubmitted: the same calls as for an   *)
(* invitation to join, and they look for the invitee's provisional row.    *)

\* approve_pending_review; deny and cancel of a PENDING_REVIEW offer.
BeginReview(p, t, op, s) ==
    /\ ~Locked(t)
    /\ offer[t].status = "pending_review"
    /\ Begin(p, OfferJob(op, t, FirstOwner, s, offer[t].form,
                         member[offer[t].to] = "pending_approval"))
BeginApprove(p, t) == BeginReview(p, t, "approve", "accepted")
BeginRevoke(p, t, s) ==
    s \in {"denied", "cancelled"} /\ BeginReview(p, t, "revoke", s)

\* ACCEPTED and outcome_executed, and nobody is made the owner.
CommitApprove(p) ==
    /\ job[p].op = "approve"
    /\ OfferWritten(p)
    /\ member' = IF job[p].found /\ Live(job[p].new)
                 THEN [member EXCEPT ![job[p].new] = "active"] ELSE member
    /\ End(p)
    /\ UNCHANGED <<owners, role, mapping, erased>>

\* _revoke_pending_membership soft-deletes the row it has found, whatever the
\* row holds by then.
CommitRevoke(p) ==
    LET u == job[p].new
    IN  /\ job[p].op = "revoke"
        /\ OfferWritten(p)
        /\ IF job[p].found
           THEN /\ member' = [member EXCEPT ![u] = "none"]
                /\ owners' = owners \ {u}
                /\ role' = [role EXCEPT ![u] = "member"]
                /\ erased' = (erased \/ member[u] \notin
                                           {"pending_approval", "none"})
           ELSE UNCHANGED people
        /\ End(p)
        /\ UNCHANGED mapping

-----------------------------------------------------------------------------
(* Moves that touch the locked offer only.                                 *)

Move(t, s) ==
    /\ ~Locked(t)
    /\ offer' = [offer EXCEPT ![t].status = s]
    /\ UNCHANGED <<people, mapping, job>>

\* Variant: the status is not looked at.
CloseVariant(t, s) ==
    offer[t].status # Absent /\ s \in {"denied", "cancelled"} /\ Move(t, s)

\* The target denies, the initiator cancels a PENDING offer.
Close(t, s) ==
    offer[t].status = "pending" /\ s \in {"denied", "cancelled"} /\ Move(t, s)

\* The hourly task, whatever the offer waits for.
Expire(t) == IsOpen(t) /\ Move(t, "expired")

\* By the invitee while PENDING, by the account under review; needs a form.
RequestInfo(t) ==
    /\ offer[t].status \in {"pending", "pending_review"}
    /\ offer[t].form
    /\ Move(t, "info_requested")

\* resubmit_after_info_request looks the mapping up, and not the type.
Resubmit(t) ==
    /\ offer[t].status = "info_requested"
    /\ Move(t, IF mapping # "none" /\ offer[t].form
               THEN "pending_review" ELSE "pending")

\* TransactionFormMappingService.create and the delete endpoint.
SetMapping(m) ==
    /\ m # mapping
    /\ m # "none" => mapping = "none" /\ m \in FormMappings
    /\ mapping' = m
    /\ UNCHANGED <<offer, people, job>>

-----------------------------------------------------------------------------
\* member_leave, after the check that the member is not the owner.
BeginLeave(p, u) ==
    /\ member[u] = "active" /\ u \notin owners
    /\ Begin(p, MemberJob("status", u, u, "left"))

\* update_membership_status: members cannot act on the owner, platform staff
\* can.
BeginStatus(p, u, s) ==
    /\ Live(u)
    /\ u \notin owners \/ Governance
    /\ s \in {"active", "suspended"}
    /\ Begin(p, MemberJob("status", u, u, s))

CommitStatus(p) ==
    /\ job[p].op = "status"
    /\ member' = IF Live(job[p].new)
                 THEN [member EXCEPT ![job[p].new] = job[p].status] ELSE member
    /\ End(p)
    /\ UNCHANGED <<offer, owners, role, mapping, erased>>

\* change_member_role: never to the owner's role, never the owner's row.
BeginRole(p, u) ==
    /\ Live(u) /\ u \notin owners
    /\ Begin(p, MemberJob("role", u, u, "active"))

CommitRole(p) ==
    /\ job[p].op = "role"
    /\ role' = [role EXCEPT ![job[p].new] = "member"]
    /\ End(p)
    /\ UNCHANGED <<offer, owners, member, mapping, erased>>

-----------------------------------------------------------------------------
Request(p) ==
    \/ \E x \in Users, y \in Invitees, form \in BOOLEAN : BeginOffer(p, x, y, form)
    \/ \E x, y \in Users : BeginForce(p, x, y)
    \/ \E t \in Offers :
          \/ \E x \in Users, attach \in BOOLEAN : BeginAccept(p, t, x, attach)
          \/ BeginApprove(p, t)
          \/ \E s \in TerminalStates : BeginRevoke(p, t, s)
    \/ \E u \in Administered :
          \/ BeginLeave(p, u) \/ BeginRole(p, u)
          \/ \E s \in MemberStatus : BeginStatus(p, u, s)

Commit(p) ==
    \/ \E t \in Offers : CommitOffer(p, t)
    \/ CommitTransfer(p) \/ RollbackTransfer(p) \/ Abort(p)
    \/ CommitApprove(p) \/ CommitRevoke(p)
    \/ CommitStatus(p) \/ CommitRole(p)

Decide(t) ==
    \/ \E s \in TerminalStates : Close(t, s)
    \/ Expire(t) \/ RequestInfo(t) \/ Resubmit(t)

Next ==
    \/ \E p \in Procs : Request(p) \/ Commit(p)
    \/ \E t \in Offers : Decide(t)
    \/ \E m \in Mappings : SetMapping(m)

Spec == Init /\ [][Next]_vars

-----------------------------------------------------------------------------
(* Properties.                                                             *)

\* Every variable holds values of its type.
TypeOK ==
    /\ offer \in [Offers -> Rows]
    /\ owners \subseteq Users
    /\ role \in [Users -> Roles]
    /\ member \in [Users -> MemberStatus]
    /\ mapping \in Mappings
    /\ job \in [Procs -> Jobs]
    /\ erased \in BOOLEAN

\* However transfers race, accepted or forced, the account has one owner: it
\* never loses its owner between the demotion and the promotion, and a transfer
\* that read a former owner does not make a second one.  It can lose its owner
\* in one way: the refusal of a review deletes a membership that was provisional
\* when it looked, and has been activated and made the owner's since.
ExactlyOneOwner ==
    \/ \E u \in Users : owners = {u}
    \/ erased /\ owners = {}

\* Nobody but the owner holds the owner's role: a former owner keeps none of the
\* permissions, whoever demoted them.
OnlyOwnerHoldsOwnerRole == \A u \in Users : role[u] = "owner" => u \in owners

\* Ownership moves only by an offer to the new owner that the invitee accepts
\* while it is PENDING, or by the hand of governance: never back or on by a stale
\* call, and never by a review, though a review may end an offer as ACCEPTED.
OwnershipMovesByOffer ==
    [][owners' # owners =>
        \/ \E p \in Procs : /\ job[p].op = "transfer" /\ job[p].offer = NoOffer
                            /\ job'[p] = Idle /\ owners' = {job[p].new}
        \/ \E t \in Offers : /\ offer[t].status = "pending"
                             /\ offer'[t].status = "accepted"
                             /\ owners' = {offer[t].to}
        \/ owners' = {} /\ erased']_vars

\* Offers follow the lifecycle that the transaction system promises.
Lifecycle == INSTANCE TransactionLifecycle WITH
    Ids <- Offers,
    status <- [t \in Offers |-> offer[t].status],
    executed <- [t \in Offers |-> offer[t].done]

ImplementsLifecycle == Lifecycle!Spec

-----------------------------------------------------------------------------
(* What a comment of the repository says and the code does not do.         *)

\* An accepted offer comes from the owner: the creator's authority is looked at
\* again when the offer is accepted.
AcceptedOfferIsOwners ==
    [][\A t \in Offers :
        offer[t].status = "pending" /\ offer'[t].status = "accepted"
        => owners = {offer[t].by}]_vars

=============================================================================
