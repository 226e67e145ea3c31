# Verification of the Social Core backend

TLA+ models of the parts of the backend where several people, the workers, the
scheduler and the database meet: the transaction engine (invitations, requests,
offers), the memberships it grants and the ownership it moves; the sessions of an
account; the delivery of notifications and e-mails; chat; the publication of a
page. TLC checks the models on small instances; TLAPS proves the main safety
properties for every instance.

Paths below are relative to `src/backend/apps/` unless they start with `src/`.

## 1. The system

A Django REST backend (PostgreSQL, Redis, Celery) with a Next.js client. State
changes are service methods, most of them wrapped in `@transaction.atomic`; there
is no `ATOMIC_REQUESTS`, and the isolation level is PostgreSQL's default, READ
COMMITTED. So the unit of atomicity is the outermost atomic block: an exception
that leaves it undoes everything it wrote, and whatever it read without a lock
can be stale when it commits. A method without such a block commits each
statement.

| Component | State | Operations | Meets | Correct when | Modelled |
|---|---|---|---|---|---|
| **Transaction engine** `transaction/` | `Transaction` rows (type, initiator, target, status, form, outcome flag), form mappings, logs | create_invitation, create_request, accept, approve_pending_review, deny, dismiss, cancel, expire, invalidate, request_info, resubmit_after_info_request | RBAC (quota, authority, outcome), forms, business settings, the hourly Celery task | status follows the graph; the outcome runs exactly once, with ACCEPTED; conflicts, quotas and cooldowns are respected; everything is closed in the end | membership and ownership families |
| **Outcome handlers** `transaction/outcome_handlers.py` | none | run inside accept: create a membership, transfer ownership, verify a business, grant the right to create one, create a follow or a connection | RBAC, organization, network | all or nothing with the acceptance | the first two |
| **RBAC** `rbac/` | `Membership` rows (status, role, is_owner), roles, permission cache | create_membership, change_member_role, update_membership_status, member_leave, transfer_ownership, force_transfer_ownership, role editing | engine, governance console, cache | one live row per user and account, one owner, member cap, no authority survives its revocation | partly; not the cache |
| **Organization** `organization/` | business and platform accounts, status, verification, limits | create, settings, suspend, archive, verify | RBAC, engine, governance | status machine; verification status agrees with the verification request | settings the engine reads, forced transfer |
| **Authentication** `auth/` | refresh tokens, device sessions, revoked access-token ids, lockout counter | login, refresh, logout, logout_all, revoke_session, password and e-mail codes, OAuth | users, notifications | a rotated or revoked token is never good again, an ended session has no good token, failed logins are counted | sessions and lockout |
| **Notifications, E-mail** `notifications/`, `email/` | log rows with a delivery status, queued tasks | log, dispatch to channels, claim a row, send outside the lock, record the result, retry, resend, webhooks | Celery, the mail provider | sent at most once per claim, never forgotten | yes, one notification and its e-mail |
| **Chat** `chat/` | conversations, participants, messages, blocks | messages, edits, requests and their expiry, groups, administrators | WebSocket consumers, network | messages in sequence, a group keeps an administrator, limits kept, deleted stays deleted | conversations between users |
| **CMS** `cms/` | sites, pages, block placements, content versions, templates, media and their usages | drafts, versions, publication, schema changes, file deletion and clean-up | storage, Celery | published content valid and complete, versions in order, no file in use removed | one page |
| **Network** `network/` | follows, connections | create (from accepted transactions), remove, disconnect | engine | one active relation per pair | no |
| **Forms, Users, Explore, Core** | templates and responses; profiles; configuration and audit | record keeping | engine (form responses) | limits kept | what the other parts read |
| Frontend, mobile, e2e, docker | - | clients and packaging | HTTP API | outside the models: a client call is a request that may come at any time | no |

What is hard here, and hard to test: calls that overlap between an unlocked read
and a commit; exceptions that undo a write somebody counts on; whole rows saved
as they were read; rows changed by hand (suspended, removed) while a transaction
about them is open; the form mapping looked up again at another time; the expiry
that comes to a row in an intermediate state; two transfers of one account; work
done in several commits by a worker that may die between two of them; tasks that
overtake the commit of the call that queued them. `PROJECT.json` lists each hazard
at its line with the properties that watch it.

## 2. Modules

| Module | Models |
|---|---|
| `TransactionStates` | statuses, terminal states and the transition table of `transaction/constants.py` (constants only) |
| `TransactionLifecycle` | **abstract**: what the engine promises of any family of transactions: opened once, moved along the table only, outcome executed exactly in the step that makes it ACCEPTED |
| `MembershipTransactions` | `business_membership_invitation` and `business_membership_request` of one business account: the `TransactionService` methods, `RBACService.create_membership` as their outcome, and the rest of the account's life around them (leaving, suspending, removing, reactivating, losing a permission, form mappings coming and going) |
| `OwnershipTransfer` | `business_ownership_transfer` offers of one account with their forms, information requests, resubmissions and reviews, `transfer_ownership`, the governance console's forced transfer, and the member-management calls that write the same rows |
| `AuthSessions` | one user account: password and OAuth login, lockout, session limit, refresh-token rotation and reuse detection, logout, logout_all and its callers, session revocation, the blacklist of access tokens |
| `Delivery` | `NotificationService.send`, `dispatch_notification_task`, the channels, `EmailService`, `send_email_task`, the periodic retry, resend and webhooks, over the queues, workers that die and the mail provider |
| `Chat` | `ChatService` for conversations between users: creation, messages, edits, deletions, requests and their expiry, membership of groups, administrators, blocks |
| `Publishing` | one CMS page: draft content, versions, rollback, import, visibility, publish, unpublish, page metadata and deletion, schema changes by the service and by the admin form of block templates, file metadata, deletion, tombstones and the steps of their clean-up |
| `MC...` | TLC instances, one for each of the six models |
| `LifecycleProofs`, `MembershipTransactionsProofs`, `MembershipLimitsProofs`, `OwnershipTransferProofs`, `AuthSessionsProofs`, `DeliveryProofs`, `ChatProofs`, `PublishingProofs` | theorems and proofs; `MembershipLimitsProofs` has those about quota, conflicts and cooldown |

`MembershipTransactions` and `OwnershipTransfer` implement `TransactionLifecycle`
(`Lifecycle == INSTANCE ... WITH`), checked by TLC and proved. They are two
modules because the two families touch different columns of a membership: the
first needs many statuses and no owner, the second the owner and the role. The
other four meet the engine only through data it does not decide by, and each
other not at all: a notification is queued by all of them, and what becomes
of it changes none of their rows.

### Calls, locks and commits

A service method is two actions when something it read without a lock matters at
its commit: `Begin*` (the row lock of `select_for_update`, every read, every
check) and `Commit*` (every write). The call in flight, `job[p]`, remembers the
transaction it has locked and what it is about to write. `Locked(t)` is the row
lock: while a call holds it nobody else decides about `t`. A method that touches
only the row it has locked (deny of a PENDING transaction, cancel, dismiss,
expire, request_info, resubmit) is one action. A refused call changes nothing
and is no action, with two exceptions that reach the database and come back:
`RollbackAccept` (a unique constraint at the insert, or the refusal that follows
`invalidate()`) and `RollbackTransfer`. `Abort` is a worker that dies, or a
deadlock that the database breaks, before the commit.

`UPDATE`s are by primary key, with `update_fields`: they reach the row whatever
it holds by then, even when it has been soft-deleted since. `gen[u]` counts the
soft-deleted rows of a user, and a write whose generation is old does not reach
the live row (`Reaches`).

The other four modules have one action per place where another call can come in
between:

* *Checks outside the atomic block* (`login`, `refresh_tokens`), and methods with
  no block at all (`revoke_session`, the OAuth login): a step for the checks,
  one for the locked reads, one per commit. What a later step finds changed it
  does not notice unless the code looks again (`StillRotatable`).
* *Claims* (`Delivery`): the claim is a step under the row lock, the work and
  the answer are further steps, and every later save of a status is
  unconditional (`Save` records, as history, that it went over a status its
  writer did not expect).
* *Uncommitted writes* (`Chat`, `Publishing`): a row that a call has written
  stays locked until it commits (`PartHeld`, `MessageHeld`, `BlockFree`,
  `FileHeld`), and is seen by others only then. So reads before the first write
  are one step, the reads after it (the next sequence number, the latest
  version) another, and the writes take effect at the commit.
* *Whole-row saves* (`update_page`, `update_file`, the admin form of a block
  template): the job keeps the row it has read and writes it back.
* *One call in several commits* (`revoke_session`, the OAuth login, the clean-up
  of tombstoned files): every commit, and every look at the database between two of
  them, is a step, and a worker may die at each.

History fields (`late`, `astray`, `doubtful`, `overtaken`, `dropped`, `guesses`,
`halfway`, `lost`, `erased`) record that one call came between two steps of another,
or died between two of its own; they guard no action. The properties that use them
say which exceptions a guarantee has and that it has no others.

### State and code

| `MembershipTransactions` | Code |
|---|---|
| `txn[t]`: kind, user, by, status, form, done, cool | `Transaction`: type, the invited or asking user, initiator, status, form_response set, outcome_executed, "denied less than the cooldown ago" |
| `member[u]`, `gen[u]` | status of the live `Membership` row, number of soft-deleted ones |
| `manager` | users whose live row has a role with `can_invite_member` |
| `mapping[k]` | the `TransactionFormMapping` of the type: none, optional or required |
| `job[p]` | the call a request thread is executing |
| `reinstated` | history only: users an administrator set ACTIVE |

| `OwnershipTransfer` | Code |
|---|---|
| `offer[t]` | the `Transaction` row: initiator, target, status, form_response set, outcome |
| `mapping` | the `TransactionFormMapping` of the type |
| `owners`, `role[u]`, `member[u]` | `Membership.is_owner`, `.role` (the owner role or any other), `.status` |
| `job[p]` | the call in flight, with the rows it read |
| `erased` | history only: a refused review deleted a row that was made active since |

| `AuthSessions` | Code |
|---|---|
| `user` | `User.is_active`, `failed_login_attempts`, `locked_until` in the future |
| `token[t]`: revoked, next | `RefreshToken`: is_revoked with revoked_reason, replaced_by |
| `token[t]`: device | the device of the login the row descends from, whose session follows it. The column device_id holds what the client said at the last refresh ("unknown" by default), and nothing reads it |
| `token[t]`: root, since, late, astray; `lost`, `halfway` | history |
| `session[d]`: status, current | `DeviceSession` of a device: is_active, current_token |
| `blacklist` | the jti values in Redis (`JTIBlacklist`) |
| `job[p]` | the call in flight: its token or device, the rows of its snapshot |

| `Delivery` | Code |
|---|---|
| `note[n]`: status, channels, template | `NotificationLog`, with the caller's transaction still open or undone as statuses of their own |
| `mail[n]`: status, tries, due, known | `EmailLog`: status, retry_count, next_retry_at set, message_id set |
| `dispatchq`, `mailq[n]` | the Celery queues of the two tasks |
| `job[w]`, `resend[a]` | what a worker, or a call of `resend`, is doing |

| `Chat` | Code |
|---|---|
| `conv[c]` | `Conversation`: type, created_by, is_active, last_message_id, the message last_message_preview shows |
| `part[c][u]` | `ConversationParticipant`: is_active, role, created_at (as an order), request_status |
| `msgs[c]` | `Message` rows: sequence_number, sender, system or not, status |
| `blocks` | `ChatBlock` |
| `job[p]` | the call in flight with what its checks have read |

| `Publishing` | Code |
|---|---|
| `page`, `block[b]` | `Page.status`, `.is_deleted`; `SectionBlockPlacement`: draft_content, published_content, status, validated schema version, is_visible |
| `versions[b]` | `ContentVersion` rows of the placement |
| `template` | `BlockTemplate`: content schema (as far as validation tells apart), schema_version; at the beginning it accepts everything or asks for a full block |
| `media[m]` | `MediaFile` row and its file in storage: exists, is_tombstoned, is_deleted |
| `usage[layer][b]` | `MediaUsage` |

## 3. Runs

| Run | Instance | Checks | Shows |
|---|---|---|---|
| `membership_core` | manager mona and user uma, 2 threads, 2 transactions, forms optional | `TypeOK`, `OutcomeMatchesStatus`, `MembershipHasCause`, `ProvisionalHasInvitation`, `ImplementsLifecycle` | 119,202 states: whatever overlaps, rolls back or aborts, outcomes and statuses agree, memberships have causes |
| `membership_serial` | owner olga, member mona who leaves or is removed, users uma and vic, 1 thread, 2 transactions, cap of 3 members, request form required, fairness | `QuotaOvershootBounded`, `OpenPerUserBounded`, `CooldownRespected`, `EventuallyClosed` | 196,632 states: what the code guarantees only by check-then-insert holds for calls that do not overlap; all transactions end |
| `ownership_core` | three members, one of them provisional at the beginning, 2 threads, 1 offer, a form mapping that comes and goes, governance acting | `TypeOK`, `ExactlyOneOwner`, `OnlyOwnerHoldsOwnerRole`, `OwnershipMovesByOffer`, `ImplementsLifecycle` | 548,826 states: one owner, whoever races, with one exception; ownership moves by an accepted offer or by governance only, never by a review |
| `auth_sessions` | 3 devices, one of them with OAuth logins too, limit of 2 sessions, lock after 2 failures, 5 calls, 2 at a time | `TypeOK`, `OneUsablePerChain`, `RevocationReachesAll`, `AccessEndsWithRevocation`, `InactiveSessionHasNoToken`, `OrphanHasCause`, `FailuresAreCounted`, `LoginRestoresLimit` | 993,188 states: a login has one usable refresh token; which tokens escape a logout_all or the end of a session, and which no session shows |
| `delivery` | 1 notification and its e-mail, 2 workers, 2 resenders, 2 attempts, fairness | `TypeOK`, `SentOnce`, `NothingForgotten`, `ResultMatchesMail`, `EventuallySettled` | 328,048 states: what can be sent twice, what can be forgotten, all else is settled |
| `chat` | 3 users, 2 conversations, 4 calls, 2 at a time; limits of 2 members, 1 message before acceptance, 1 group | `TypeOK`, `HistoryInOrder`, `GroupStaysManaged`, `LimitsOvertaken`, `DeletedStaysDeleted`, `PreviewIsOfLast` | 48,815 states: messages are in order without a lock; what else goes wrong takes a call that was overtaken |
| `publishing` | a required and an optional block, one file, a lax or a strict schema, a fresh page or a published one whose file may be tombstoned, 3 calls, 2 at a time, 2 versions kept | `TypeOK`, `VersionsInOrder`, `UsageIsExact`, `PublishedFilesAreLive`, `PageStateIsKept`, `PublishedAsValidated` | 589,759 states: what a publication has validated is what it publishes; which races can publish a dead file or undo a publication |
| `membership_refusal` | 1 transaction | `RefusalInvalidates` | **violated** |
| `membership_quota` | 2 threads, 2 invitees, one place left | `AcceptKeepsQuota` | **violated** |
| `ownership_stale` | 1 thread, 2 offers | `AcceptedOfferIsOwners` | **violated** |
| `auth_logout` | 1 device, 1 thread, 3 calls | `LogoutAllEndsAllAccess` | **violated** |
| `delivery_retry` | 1 notification, 1 worker, nobody who resends, 2 attempts, fairness | `FailedIsRetried` | **violated** |

### What the code does not do as written

1. *A refused invitation is not invalidated* (`membership_refusal`).
   `_validate_creator_authority` writes INVALIDATED and raises within `accept`'s
   atomic block, which undoes it. The invitation stays PENDING (and holds a quota
   place) until it expires.
2. *The member cap is not safe under simultaneous acceptance*
   (`membership_quota`), although the quota plan's race analysis says so: the
   count is read without a lock.
3. *A former owner's offer still moves the account* (`ownership_stale`): at
   acceptance, nobody looks whether the creator still owns it. Two offers,
   accepted one after the other, suffice; no overlap is needed.
4. *An access token outlives its logout* (`auth_logout`). `logout` and the session limit
   revoke the refresh token and do not blacklist its jti; a later logout_all passes
   over tokens that are revoked already. The endpoint's description says that the
   access token is blacklisted at once (`auth/views.py:407-408`), and that of
   logout_all that all are (`:464`).
5. *A failed e-mail is never retried* (`delivery_retry`), though the tasks are
   described as retries with backoff and a safety net (`email/tasks.py:43`, `:87`,
   `:94`, `:96`): Celery's autoretry and `retry_failed_emails_task` queue tasks
   that return at once for anything but PENDING and QUEUED, and nothing takes a row out of
   FAILED for them. `FailedStaysFailed` proves that only a resend or a QUEUED that is
   saved late does.

These too are against a sentence of the repository, or against what its names promise.
They have no run of their own, but the models reach them: each is a step they allow or
an exception that a property names.

* *Approval may activate nobody*, though `transaction/api/views.py:414` says that it
  "activates the membership". An invitation with a form that was PENDING when
  information was requested is resubmitted to PENDING_REVIEW without a provisional
  membership; approving it ends in ACCEPTED, outcome executed, and no member. The same
  when an administrator changed the provisional row.
* *An owner can have left*, though owners are blocked from it
  (`rbac/services.py:677`): `member_leave` checks `is_owner`, a transfer commits, and
  LEFT is written over the new owner's row.
* *The message limit of a request ends with its expiry.* The error text
  (`chat/services.py:1717`), the chat plan's OQ-12 and a test
  (`chat/tests/test_services.py:475`) put the limit on all that is sent before the request is
  accepted; `_check_dm_request_limit` looks for a pending one only. So
  `LimitsOvertaken` speaks of the three limits the code does keep, and not of this.
* *A schema may change without a new number.* `cms/models.py:288-289` says that
  superusers change schemas in Django Admin and that schema_version increments on
  every change. The form (`cms/admin.py:108-120`) saves the schema with the number it
  has read. Two overlapping `update_schema` calls give one number twice. Hence
  `PublishedAsValidated` speaks of the schema itself, not of its number alone.
* *Hidden blocks are published unvalidated*, though `publish_page` says that it
  validates all blocks.
* *The clean-up may remove a file in use*, though it is described as removing
  tombstoned files with no published reference: it counts, without a lock, and a
  publication may commit before it deletes.
* *A review of an ownership offer*, when somebody configures a form for the type,
  ends ACCEPTED with the outcome marked as executed and no transfer. The status table
  knows nothing else for it, so `ImplementsLifecycle` holds;
  `OwnershipMovesByOffer` says that ownership stays.

Also visible in the models, with no sentence of the repository against it that we
know of. Where a property names one of these as an exception, the run shows that it has
no other:

* *Memberships.* Expiry leaves a PENDING_REVIEW invitation's provisional
  membership behind, which keeps its place in the quota; a mapping removed before
  resubmission sends the invitation back to PENDING, where accepting it meets
  that membership for ever; `change_member_role` racing a transfer gives the
  owner an ordinary role; a departure overwrites a ban. This is why
  `ProvisionalHasInvitation` asks for an invitation whose outcome is still out
  and not for one that is still open, and why `OnlyOwnerHoldsOwnerRole` is stated
  in one direction. The refusal of an ownership offer's review deletes the invitee's
  provisional row as it found it: if that row was activated and made the owner's
  since, the account has no owner (`erased`, the exception in `ExactlyOneOwner`).
* *Sessions.* A refresh or login that commits while logout_all is at work leaves
  a usable token (`late`). A second login on a device leaves the first
  login's token usable and out of reach of the session list; so does an OAuth
  login whose worker dies after it has issued the token and before it has linked
  the session (`lost`). The OAuth login asks
  neither for the lockout nor for the session limit; the next password login
  makes up for the latter. A `revoke_session` that dies half way has revoked the
  refresh token and left the access token. Two wrong passwords at once count as
  one, and the second to save may write a lock away that the first has set.
* *Delivery.* `EmailService.send` saves QUEUED after it has queued the task, over
  whatever the task has done. A dispatch task that is faster than its caller's commit
  finds no log. A worker that dies leaves PROCESSING or SENDING for good. A
  webhook that precedes the saved message_id updates nothing.
  `retry_partial_notification_task` never finds a PARTIAL log.
* *Chat.* `remove_participant` looks neither at the last administrator nor
  at the last member; two administrators can demote each other at once; group
  size, number of groups and the one direct conversation of a pair are checked
  before the insert only. An edit that read a message before its deletion brings
  it back. A block does not end a direct conversation that exists.
* *Publishing.* `update_page` and `update_file` write the whole row they read:
  a publication, its end or a deletion is undone. `publish_page` and
  `unpublish_page` lock page and blocks in opposite orders. `delete_file` counts
  usages that a publication is just about to add. Import and rollback leave the
  draft's usages as they were. The clean-up removes the file before the row, and
  drafts without the tombstoned file are saved as they were read.

### Bounds

Every bound is a CONSTANT or a named guard. `Candidates`, `Inviters`,
`Administered`, `Invitees`: who may act in an instance (they are sets so that
one run can put a manager, a user and an administrator against one
another without multiplying their roles). `FormMappings`: which
mappings may be configured, for an ownership offer too, where `Provisional` are the
members who begin as provisional ones, so that a review has a row to find in an instance
with a single offer; two offers meet each other in `ownership_stale`. `OAuthDevices`:
where OAuth logins come from. `MaxTxns`, `MaxOffers` and `RoomForInsert`: rows the
table may get. Rows are never reused, so two transactions give
every pair of them, one after the other or at once; two threads give every race
of two calls, and each of the races the code is exposed to is one of two calls.
A third actor (Deny, Expire, an administrator) acts in single steps at any time,
in addition to the threads. With a cap of three
members (the owner, the manager and one more) the quota check of the core
instance is reached at its boundary. In the serial instance the same cap leaves
one place for two users while mona is a member, and two when she has left; in
the quota instance a cap of two leaves one place for two users.

`MaxCalls` bounds the calls of a behaviour in `AuthSessions`, `Chat` and
`Publishing`. Five calls are, for instance, three logins that exceed the session
limit with two calls racing the last of them, or a login, a rotation, the stale token
presented again and a refresh that races the logout_all. Three devices are one
more than the limit. In `Chat` every limit is one step away: four calls create a
group, fill it and race two changes of it. In `Publishing` a behaviour begins
with a fresh page or with one that has been published and saved again, whose file may be
tombstoned and whose optional block may be hidden (`RepublishedAs`), so that as many versions exist as are
kept and the clean-up has work at once; three calls are then, for instance, a save and a
publication that a schema change overtakes, or a save and a publication between the
clean-up's count and its removal. `MaxRetries` of 2 in
`Delivery` has a first, a last and a refused attempt; `MaxQueued` bounds
the messages that resends and the periodic task add; `accepted` counts to 2,
the first number that is too many. Notifications share nothing but
workers, so one, with its e-mail, and two workers that race for it suffice; the
theorems are for any number.

Symmetry is used for threads, and in `AuthSessions` and `Chat` for devices, users
and conversations, in runs that check safety only. Deadlock
is checked except where the instance can run out of things to do: `ownership_stale`
(a full table and nobody left to administer), the runs of the three modules
with `MaxCalls`, and those of `Delivery` (everything sent and settled).

### Fairness

`membership_serial` and `delivery` need it. `WF(Commit(p))`: a call in flight commits,
rolls back or is aborted; database transactions do not stay open.
`SF(Expire(t))`: Celery beat runs `expire_transactions_task` every hour
(`src/backend/backend_core/celery.py:41`), its query returns a row as
long as it is open and past its time, and it takes the row lock in PostgreSQL's
queue, so calls that hold the lock now and then cannot keep it out for ever. No
fairness is assumed of people: nobody has to accept, deny or answer. `expires_at` is
always set at creation; time itself is not modelled, so expiry may come early,
and an acceptance may come late, as it may in the code.

In `Delivery`, callers end their transactions (`WF`), a living worker goes on
with its task (`WF(Work(w))`; dying is a step of its own and needs no fairness),
and a queued message is taken in the end (`SF(Take(n))`: the broker's queues are
first in, first out, and a worker that dies is replaced). The periodic retry and
resends are under no fairness, and `EventuallySettled` does not need them.

`delivery_retry` adds `WF(RetryFailedEmails)`: beat runs the periodic task every
15 minutes (`src/backend/backend_core/celery.py:64`). This is more than `delivery`
assumes, and a failed e-mail stays failed all the same.

## 4. Proofs

Proved with TLAPS for any sets of transactions, users, threads, workers, notifications,
devices, conversations, blocks and files, any
bounds and any flags (assumptions: `UsersAssumption`, `BoundsAssumption`, `FlagAssumption`,
`QuotaAssumption`, `OwnershipAssumption`, `NoNoteAssumption`, `RetryAssumption`,
`RequiredAssumption`, `NoneAssumption`, `BoundAssumption`, `DevicesAssumption`,
`SessionBounds`, `CallBound`, `LimitAssumption`, `CallAssumption`, which say that
the sets fit together, that a "none" value is no member, that users, threads and a
user's devices are finitely many where they are counted, that an account begins within
its cap on members, and that bounds are naturals, the limits of sessions and of chat and
the call bounds at least one). Every one is evaluated by TLC in a passing run:

| Theorem | Establishes |
|---|---|
| `InductiveInvariant`, `TypeCorrect`, `OutcomeCorrect` | `Spec => []IInv`, `[]TypeOK`, `[]OutcomeMatchesStatus` |
| `LifecycleImplemented` | `Spec => ImplementsLifecycle` |
| `LifecycleInvariant`, `ClosedStaysClosed` | of the abstract lifecycle: `Spec => []LifecycleInv`, `Spec => ClosedForGood` |
| `TransactionsStayClosed`, `OffersStayClosed` | `Spec => Lifecycle!ClosedForGood`, for both families |
| `MembershipCaused` | `Spec => []MembershipHasCause` |
| `ProvisionalInvited` | `Spec => []ProvisionalHasInvitation` |
| `QuotaBounded`, `OpenPerUserLimited` | `Spec => []QuotaOvershootBounded`, `[]OpenPerUserBounded`, for any number of threads |
| `CooldownKept` | for a single thread, `Spec => CooldownRespected` |
| `OwnershipInvariant`, `OwnershipTyped`, `OneOwner`, `OwnerRoleExclusive` | `Spec => []IInv`, `[]TypeOK`, `[]ExactlyOneOwner`, `[]OnlyOwnerHoldsOwnerRole` |
| `OwnershipMoves` | `Spec => OwnershipMovesByOffer` |
| `OwnershipImplementsLifecycle` | `Spec => ImplementsLifecycle` |
| `DeliveryInvariant`, `DeliveryTyped`, `SentAtMostOnce`, `NothingIsForgotten`, `ResultsMatch` | `Spec => []IInv`, `[]TypeOK`, `[]SentOnce`, `[]NothingForgotten`, `[]ResultMatchesMail` |
| `FailedStaysFailed` | `Spec => FailedUntilResent` (of `DeliveryProofs`): why `FailedIsRetried` fails |
| `PublishingInvariant`, `PublishingTyped`, `HistoryOfBlocks`, `PublishedUsage` | `Spec => []IInv`, `[]TypeOK`, `[]VersionsInOrder`, `[]UsageIsExact` |
| `PageFollowsBlocks`, `PublicationIsValidated`, `NoFileIsLost` | `Spec => PageStateIsKept`, `PublishedAsValidated`, `PublishedFilesAreLive` |
| `SessionInvariant`, `SessionsTyped`, `OneTokenPerLogin` | `Spec => []IInv`, `[]TypeOK`, `[]OneUsablePerChain` |
| `LogoutAllReaches`, `RevocationEndsAccess` | `Spec => []RevocationReachesAll`, `[]AccessEndsWithRevocation` |
| `EndedSessionsHoldNothing`, `OrphansExplained`, `GuessesAreCounted` | `Spec => []InactiveSessionHasNoToken`, `[]OrphanHasCause`, `[]FailuresAreCounted` |
| `LimitRestored` | `Spec => LoginRestoresLimit` |
| `ChatInvariant`, `ChatTyped`, `ChatHistoryInOrder` | `Spec => []IInv`, `[]TypeOK`, `[]HistoryInOrder` |
| `ChatGroupStaysManaged`, `ChatLimitsOvertaken` | `Spec => GroupStaysManaged`, `LimitsOvertaken` |
| `ChatDeletedStaysDeleted`, `ChatPreviewIsOfLast` | `Spec => DeletedStaysDeleted`, `PreviewIsOfLast` |

*Memberships.* `OutcomeMatchesStatus` is not inductive: a commit writes over the
row what its `Begin` decided, so one must know that the row has not moved in
between. `IInv` adds `LockExclusive` (no two calls hold the same transaction)
and `JobsOnRows` (a call that holds one still finds the status it read, and
writes a status that follows it). From these each commit is a `Move`, an
`Accept` or an `Open` of the abstract lifecycle, and everything else stutters.
`MembershipHasCause` follows from a lemma that outcomes are never undone
(`DoneStays`) and one that says which steps make somebody active.
`ProvisionalHasInvitation` needs a stronger witness, `ProvisionalBacked`: the
invitation behind a provisional row is not being accepted by another call, and
an approval of it that is under way is going to write to this very row. Without
that last part the step that sets `done` could leave a provisional row behind:
the approval found no row to activate, and one appeared since.

*Lifecycle.* That a closed transaction stays closed is proved once, of the
abstract module, from the table alone (`Transitions`); the proof modules of the
two families take it over as an instance, through the refinements. It
follows from `ImplementsLifecycle`, which the runs check, so no run lists it.

*Limits.* `create_invitation`, `create_request` and the acceptances count rows
before they write, without a lock. Their bounds are not inductive, because a
call in flight is not counted: two that passed the check together exceed the
limit later, one after the other. The strengthened bounds count what
is there together with what the calls in flight may add. `Engaged` holds everybody
who counts against `max_members` or whom an acceptance in flight may make
count. Committing moves nobody into it, so only `Begin` can make
it larger; and one that begins has counted the members there are, or approves a
provisional member who counts already, and the
other calls in flight are about at most one user each (`FewTargets`). Hence fewer than
`Cardinality(Procs)` too many, and none on a serial server. The same argument
over the transactions that are open or about to be filed for a user gives
`OpenPerUserBounded`. `CooldownRespected` is false when calls overlap (a request
whose checks precede a denial), so its theorem assumes a single thread and
nothing else; the invariant behind it is that the call in flight has no
warm denial of its user beside it.

*Ownership.* The invariant says that an offer a call has locked has still the status
it read and the same invitee (`HoldsOffer`) and is locked by one call (`OneCallPerOffer`), so
that every commit moves it along the table; that an outcome goes with ACCEPTED only; and
that the owner's row holds no provisional member unless a review took it away
(`OwnersSettled`, `JobsSettled`). The last is what an approval or a refusal needs:
it writes the row that was provisional when it looked. One owner is then
preserved because the partial unique index refuses a transfer that read a former
owner, and the others demote exactly the owner there is; `erased` is the one way to
none.

*Delivery.* What makes a claim safe is that nobody else touches the row until
the claimant has saved its answer, and this is not so: a late QUEUED or a resend
may. The invariant carries the exception along: `OneClaimant` (an e-mail that is
being sent is SENDING, and by one worker) and `AcceptedIsKept` (one that was
accepted is SENDING or SENT and nobody is about to send it) hold as long as no
status was saved over another. `OneDispatcher` and `MailAfterDispatch` (an
e-mail is logged by the one dispatch of its notification) need no exception,
since a notification is claimed once. `OpenIsQueued` is what
`NothingForgotten` needs of a caller whose transaction is still open, `Answered`
what `ResultMatchesMail` needs of a worker between a channel's answer
and the final status.

*Publishing.* `IInv` adds `OneWriter` (one call at a time has written a block's
row: each waits for `BlockFree`), `JobsKnown` (the version number a call read
after its write is still the latest; a clean-up that goes on has counted no usage, and
one that deletes the row has removed the file) and
`JobsValidated` (the drafts and the schema a publication has validated under its
locks are the ones it publishes: `TemplateHeld` keeps both ways of changing a schema
out). Versions in order follow from the second,
exact usages from the removal of usages with the row. The three action
properties are then one case per action that writes the rows they name.

*Sessions.* `IInv` says what a call in flight may rely on. The row a rotation
holds is usable and held by it alone (`Known`, `OneRotator`), hence one usable
token per login: the rotation takes the usable one away as it adds its own. An OAuth
login between two of its commits knows the token it has issued (`Linking`), which is
the first of its chain. A call
that is ending a session has the session's token in hand or the token is marked
as committed meanwhile (`EndsSessions`). A logout_all that has blacklisted leaves no
token unexplained, and one that has taken its snapshot has listed all that is usable but
for late comers (`EndsEra`). `TokensKnown` keeps, for every token that
is revoked or dated before the last logout_all, the reason why its access token
may or may not live on. `Budget` is bookkeeping of the bound: each call issues one token or
ends one era at most, so the rows fit into `Tokens` however large `MaxCalls` is. Steps that
issue no token are covered by one lemma (`QuietKeepsIInv`), the three that do by
another (`IssueKeepsIInv`); each action is then shown to be of its kind.

*Chat.* No call locks what it reads, so the invariant may say of a call in
flight only what no other call can take from it (`Known`): the kind and the
creator of a conversation stay, messages only become more, a conversation that is being created
is created by this call (`OneCreator`). From the first of these a number
read by a call is at most the next one, and the unique constraint refuses all
but the next: `HistoryInOrder`, which is itself part of the invariant because
the next number is the length of the history plus one only in an ordered one.
`Founded` says that what does not exist has neither members nor messages.
`Budget` is bookkeeping of the bound: a call adds two
messages and one participant at most, so numbers stay in `Numbers` and
`created_at` in its range, however large `MaxCalls` is. The action properties
share one lemma (`WhoChanges`: a step leaves a conversation as it is or commits
a call about it) and one for each commit that says what it does to its conversation
(`CreateDoes`, `SendDoes`, `EditDoes`, `GroupDoes`). A limit
or the last administrator is then lost only by a call whose reading differs
from what its commit meets, because the call's own reading, if it still holds,
keeps the property; `remove_participant` is the exception the property names.

Beyond the prover and left to TLC: `EventuallyClosed`, `EventuallySettled`
(liveness under fairness). Every other property of the passing runs is stated by
a theorem. The five violated properties are of course not proved.

## 5. Left out of the modelled parts

* Members' statuses: `banned` behaves as `suspended`; in `OwnershipTransfer`
  `removed` does too (none of them can be offered or accept anything there).
* The owner in `MembershipTransactions` is one fixed, active person.
* Nobody gains the permission to invite in the course of a behaviour: the role
  named in a transaction's payload has none, and permissions are only lost.
* Permissions are read from the role, not through the permission cache, which
  may answer with a lost permission for a while.
* Invitations created by a membership row that was soft-deleted later.
* The platform account of an ownership transfer has the same rules with an invincible owner
  and is not a second instance.
* `force_transfer_ownership` reads the present owner twice; the two reads
  are one `BeginForce`.
* Per-user caps (`user.max_memberships`), feature switches, form response
  status, notifications, audit logs and event logs. `invalidate()` has no
  caller but the refused acceptance.
* `retry_outcome_execution_task` is never enqueued, and `restore_membership` is
  never called.
* Sessions: the expiry of tokens and the tasks that remove old rows, the request
  of a password reset, e-mail codes and e-mail changes, an unavailable Redis, the
  exchange with the OAuth provider, the admin action `revoke_sessions`
  (`auth/admin.py:110-119`, which revokes without blacklisting).
* Delivery: preferences (they choose channels), bulk sending (a loop over
  `send`), synchronous dispatch, `send_raw` (no caller), rendering, the clean-up
  of logs, the eager mode of development settings. `resend` has no caller in
  the repository either, but is a public operation and is modelled.
* Chat: scopes other than the global one, businesses and the platform as
  participants, group names, muting, read and delivery watermarks, attachments and their
  clean-up, reactions, the edit window, the WebSocket transport.
* Publishing: sites, creation and activation of templates, the creation and
  ordering of pages and blocks, export, folders, API keys, the clean-up of old
  versions by the scheduled task, the rules of single field types, the ARCHIVED status
  and the admin action `archive_pages` that sets it (`cms/admin.py:95-97`), and the
  other admin forms.

### Not modelled

Network, Forms, Explore, profiles, configuration and audit, and the clients; the
verification, permission, follow and connection families of the engine; the
permission cache. `PROJECT.json` says why for each component and names the five
hazards that have no property: three of these parts, and two that the models show and
the code makes no promise about (reactivation beyond the cap) or breaks outright (the
owner who leaves).

## 6. Plan

Written in this order, because each hangs on what is before it or is exposed to
more hazards than what follows: the engine with its most used family, the ownership of
accounts, `AuthSessions`, `Delivery`, `Chat`, `Publishing`, the proofs of
sessions, delivery and publishing, of the quota and of chat. What is left:

1. **PermissionCache**: `get_permissions_for_membership` against role changes,
   status changes and transfers (read, database commit, cache delete and cache set in
   every order, TTL). Abstract: a permission check answers by a role held
   at most one TTL ago.
2. **VerificationTransactions**: on_create, on_close and outcome handlers,
   verification status against the request's status, expiry in between;
   composed with the business account's status machine. A third implementation
   of `TransactionLifecycle`.
3. **NetworkTransactions**: follow and connection requests, auto-approval,
   removal. A fourth.
4. Chat attachments and reactions, form responses.

A third and a fourth implementation of the lifecycle inherit `ClosedForGood` as the
first two do.
