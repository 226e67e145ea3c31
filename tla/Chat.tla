-------------------------------- MODULE Chat --------------------------------
(***************************************************************************)
(* Conversations of apps/chat: ChatService over the Conversation,          *)
(* ConversationParticipant, Message and ChatBlock tables, and the task     *)
(* that expires chat requests.  Conversations are of the global scope and  *)
(* between users.                                                          *)
(*                                                                         *)
(* No call locks a row it reads.  A call is its reads and checks (Begin),  *)
(* its first write with what it reads after it (Write), and its commit.    *)
(* Every message takes the highest sequence number plus one, read late in  *)
(* the call; of two calls with the same number the second fails on the     *)
(* unique constraint.  A change of a group announces itself with a         *)
(* message, so this alone orders some of the calls that race.              *)
(***************************************************************************)
EXTENDS Integers, FiniteSets, Sequences

CONSTANTS
    Users,
    Conversations,   \* rows of the Conversation table
    Threads,         \* request threads
    NoUser, NoConversation,   \* where none is meant
    MaxSize,         \* chat.groups.max_participants
    MaxRequest,      \* chat.requests.max_messages
    MaxGroups,       \* user.chat.max_groups
    MaxCalls         \* bound: calls made

ASSUME LimitAssumption ==
    {MaxSize, MaxRequest, MaxGroups} \subseteq Nat \ {0}
ASSUME UsersAssumption == IsFiniteSet(Users)
ASSUME NoneAssumption ==
    NoUser \notin Users /\ NoConversation \notin Conversations
ASSUME CallAssumption == MaxCalls \in Nat \ {0}

VARIABLES
    conv,      \* the Conversation table
    part,      \* the ConversationParticipant table
    msgs,      \* the Message rows of each conversation, in the order of commits
    blocks,    \* the ChatBlock table: pairs <<blocker, blocked>>
    calls,     \* calls made so far
    job        \* [Threads -> the call in flight]

tables == <<conv, part, msgs, blocks>>
vars == <<tables, calls, job>>

Numbers == 0..2 * MaxCalls       \* sequence numbers; 0: no message

\* open: is_active.  last: last_message_id.  preview: the message whose content
\* last_message_preview shows, 0 when it is blank.
Convs == [kind : {"none", "direct", "group"}, creator : Users \cup {NoUser},
          open : BOOLEAN, last : Numbers, preview : Numbers]

\* active: is_active.  since: the order of created_at, 0 without a row.
Parts == [active : BOOLEAN, role : {"member", "admin"},
          since : 0..Cardinality(Users) + MaxCalls,
          request : {"none", "pending", "accepted", "ignored"}]
NoPart == [active |-> FALSE, role |-> "member", since |-> 0, request |-> "none"]

MessageStatus == {"active", "edited", "deleted"}
Messages == [number : Numbers, sender : Users, system : BOOLEAN,
             status : MessageStatus]

GroupOps == {"add", "remove", "leave", "promote", "demote"}
Ops == {"idle", "direct", "group", "send", "edit", "delete", "accept", "ignore"}
          \cup GroupOps

\* What a call is about, and what its checks have read: the participants of the
\* new conversation or the group's, its administrators, direct conversations of
\* the pair or groups of the creator, the message's status, the last message.
\* number: the number it has read for its own message, 0 before Write; heir: whom
\* a leaving administrator promotes.
Jobs == [op : Ops, c : Conversations \cup {NoConversation},
         by : Users \cup {NoUser}, on : Users \cup {NoUser}, about : Numbers,
         members : SUBSET Users, admins : SUBSET Users,
         twins : SUBSET Conversations, read : MessageStatus, last : Numbers,
         written : BOOLEAN, number : Numbers, heir : SUBSET Users]

Idle == [op |-> "idle", c |-> NoConversation, by |-> NoUser, on |-> NoUser,
         about |-> 0, members |-> {}, admins |-> {}, twins |-> {},
         read |-> "active", last |-> 0, written |-> FALSE, number |-> 0,
         heir |-> {}]

-----------------------------------------------------------------------------
Free(p) == job[p] = Idle
Start(p, j) ==
    /\ Free(p) /\ calls < MaxCalls
    /\ calls' = calls + 1
    /\ job' = [job EXCEPT ![p] = j]
    /\ UNCHANGED tables
Finish(p) == job' = [job EXCEPT ![p] = Idle] /\ UNCHANGED calls

\* get_conversation_by_id
Open(c, kind) == conv[c].kind = kind /\ conv[c].open
Members(c) == {u \in Users : part[c][u].active}
Admins(c) == {u \in Members(c) : part[c][u].role = "admin"}

\* ChatPolicy.can_manage_group
CanManage(c, u) == Open(c, "group") /\ u \in Admins(c)

Sent(c, u) == Cardinality({i \in DOMAIN msgs[c] : msgs[c][i].sender = u})

\* _get_next_sequence_number
Highest(c) == LET numbers == {msgs[c][i].number : i \in DOMAIN msgs[c]}
              IN  IF numbers = {} THEN 0
                  ELSE CHOOSE n \in numbers : \A m \in numbers : m <= n
NextNumber(c) == Highest(c) + 1

\* Variant: the table has no unique_message_sequence.
TakenVariant(c, n) == FALSE

\* unique_message_sequence
Taken(c, n) == \E i \in DOMAIN msgs[c] : msgs[c][i].number = n

Message(n, u, system) ==
    [number |-> n, sender |-> u, system |-> system, status |-> "active"]

\* _update_conversation_last_message
Shows(c, n) == conv' = [conv EXCEPT ![c].last = n, ![c].preview = n]

\* Rows that an uncommitted call has written.
PartHeld(c, u) ==
    \E q \in Threads : /\ job[q].written /\ job[q].op \in GroupOps
                       /\ job[q].c = c /\ u \in {job[q].on} \cup job[q].heir
MessageHeld(c, n) ==
    \E q \in Threads : /\ job[q].written /\ job[q].op = "edit"
                       /\ job[q].c = c /\ job[q].about = n

-----------------------------------------------------------------------------
(* create_conversation                                                     *)

Reserved(c) ==
    \E q \in Threads : job[q].op \in {"direct", "group"} /\ job[q].c = c

\* get_dm_conversation
Directs(u, v) ==
    {c \in Conversations : Open(c, "direct") /\ {u, v} \subseteq Members(c)}

\* Variant: only the conversations u has created are searched.
NoDirectVariant(u, v) == {c \in Directs(u, v) : conv[c].creator = u} = {}

NoDirect(u, v) == Directs(u, v) = {}

\* _check_block_status
Blocked(u, v) == <<u, v>> \in blocks \/ <<v, u>> \in blocks

Create(p, j) ==
    /\ conv[j.c].kind = "none" /\ ~Reserved(j.c)
    /\ Start(p, j)

BeginDirect(p, c, u, v) ==
    /\ u # v /\ NoDirect(u, v) /\ ~Blocked(u, v)
    /\ Create(p, [Idle EXCEPT !.op = "direct", !.c = c, !.by = u, !.on = v,
                              !.members = {u, v}, !.twins = Directs(u, v)])

Groups(u) == {c \in Conversations : conv[c].kind = "group" /\ conv[c].creator = u}

BeginGroup(p, c, u, others) ==
    /\ Cardinality(Groups(u)) < MaxGroups
    /\ u \notin others /\ Cardinality(others) <= MaxSize - 1
    /\ Create(p, [Idle EXCEPT !.op = "group", !.c = c, !.by = u,
                              !.members = others \cup {u}, !.twins = Groups(u)])

\* Variant: strangers are asked in groups as well.
RequestsOfVariant(kind) == {"none", "pending"}

\* _determine_request_status: whether the two are connected is the network's.
RequestsOf(kind) == IF kind = "direct" THEN {"none", "pending"} ELSE {"none"}

\* The rows are created one after the other, the creator's first.
Orders(others) ==
    {order \in [others -> 2..1 + Cardinality(others)] :
        \A u, v \in others : order[u] = order[v] => u = v}

CommitCreate(p) ==
    LET j == job[p]
    IN  /\ j.op \in {"direct", "group"}
        /\ conv' = [conv EXCEPT ![j.c] =
                      [kind |-> j.op, creator |-> j.by, open |-> TRUE,
                       last |-> 0, preview |-> 0]]
        /\ \E request \in RequestsOf(j.op),
              order \in Orders(j.members \ {j.by}) :
             part' = [part EXCEPT ![j.c] = [u \in Users |->
                  IF u = j.by
                  THEN [active |-> TRUE, since |-> 1, request |-> "none",
                        role |-> IF j.op = "group" THEN "admin" ELSE "member"]
                  ELSE IF u \in j.members
                  THEN [active |-> TRUE, since |-> order[u],
                        request |-> request, role |-> "member"]
                  ELSE NoPart]]
        /\ Finish(p)
        /\ UNCHANGED <<msgs, blocks>>

-----------------------------------------------------------------------------
(* send_message                                                            *)

\* _check_dm_request_limit: while a request is pending.  An ignored or expired
\* request sets no limit any more; groups have none.
BelowRequestLimit(c, u) ==
    (\E v \in Members(c) \ {u} : part[c][v].request = "pending")
        => Sent(c, u) < MaxRequest

BeginSend(p, c, u) ==
    /\ conv[c].kind # "none" /\ conv[c].open /\ u \in Members(c)
    /\ conv[c].kind = "direct" => BelowRequestLimit(c, u)
    /\ Start(p, [Idle EXCEPT !.op = "send", !.c = c, !.by = u])

WriteSend(p) ==
    LET c == job[p].c
    IN  /\ job[p].op = "send" /\ ~job[p].written
        /\ job' = [job EXCEPT ![p].written = TRUE, ![p].number = NextNumber(c)]
        /\ UNCHANGED <<tables, calls>>

CommitSend(p) ==
    LET j == job[p]
    IN  /\ j.op = "send" /\ j.written
        /\ IF Taken(j.c, j.number)
           THEN UNCHANGED <<conv, msgs>>
           ELSE /\ msgs' = [msgs EXCEPT ![j.c] =
                              Append(@, Message(j.number, j.by, FALSE))]
                /\ Shows(j.c, j.number)
        /\ Finish(p)
        /\ UNCHANGED <<part, blocks>>

-----------------------------------------------------------------------------
(* edit_message, delete_message                                            *)

Row(c, n) == CHOOSE i \in DOMAIN msgs[c] : msgs[c][i].number = n
Exists(c, n) == \E i \in DOMAIN msgs[c] : msgs[c][i].number = n

\* Variant: a deleted message is no exception.
EditableVariant(m, u) == m.sender = u

\* Only the author edits, and not what is deleted; the window apart.
Editable(m, u) == m.sender = u /\ m.status # "deleted"

BeginEdit(p, c, u, n) ==
    /\ Exists(c, n)
    /\ LET m == msgs[c][Row(c, n)]
       IN  /\ Editable(m, u)
           /\ Start(p, [Idle EXCEPT !.op = "edit", !.c = c, !.by = u,
                                    !.about = n, !.read = m.status])

\* The message is saved, then its conversation is read.
WriteEdit(p) ==
    LET j == job[p]
    IN  /\ j.op = "edit" /\ ~j.written
        /\ ~MessageHeld(j.c, j.about)
        /\ job' = [job EXCEPT ![p].written = TRUE, ![p].last = conv[j.c].last]
        /\ UNCHANGED <<tables, calls>>

\* Variant: the preview is always of the edited message.
IsLastVariant(j) == TRUE

IsLast(j) == j.last = j.about

CommitEdit(p) ==
    LET j == job[p]
    IN  /\ j.op = "edit" /\ j.written
        /\ msgs' = [msgs EXCEPT ![j.c][Row(j.c, j.about)].status = "edited"]
        /\ conv' = IF IsLast(j)
                   THEN [conv EXCEPT ![j.c].preview = j.about] ELSE conv
        /\ Finish(p)
        /\ UNCHANGED <<part, blocks>>

\* ChatPolicy.can_delete_message: the author, an administrator of the group.  A
\* deleted message is left alone.
BeginDelete(p, c, u, n) ==
    /\ Exists(c, n)
    /\ LET m == msgs[c][Row(c, n)]
       IN  /\ m.sender = u \/ (conv[c].kind = "group" /\ u \in Admins(c))
           /\ m.status # "deleted"
           /\ Start(p, [Idle EXCEPT !.op = "delete", !.c = c, !.by = u,
                                    !.about = n, !.read = m.status,
                                    !.last = conv[c].last])

CommitDelete(p) ==
    LET j == job[p]
    IN  /\ j.op = "delete" /\ ~MessageHeld(j.c, j.about)
        /\ msgs' = [msgs EXCEPT ![j.c][Row(j.c, j.about)].status = "deleted"]
        /\ conv' = IF IsLast(j) THEN [conv EXCEPT ![j.c].preview = 0] ELSE conv
        /\ Finish(p)
        /\ UNCHANGED <<part, blocks>>

-----------------------------------------------------------------------------
(* accept_request, ignore_request, expire_stale_chat_requests              *)

BeginAnswer(p, c, u, op) ==
    /\ op \in {"accept", "ignore"}
    /\ part[c][u].active /\ part[c][u].request = "pending"
    /\ Start(p, [Idle EXCEPT !.op = op, !.c = c, !.by = u])

CommitAnswer(p) ==
    LET j == job[p]
    IN  /\ j.op \in {"accept", "ignore"}
        /\ part' = [part EXCEPT ![j.c][j.by].request =
                      IF j.op = "accept" THEN "accepted" ELSE "ignored"]
        /\ Finish(p)
        /\ UNCHANGED <<conv, msgs, blocks>>

\* The requests that are old enough: any set of them.
ExpireRequests(c, u) ==
    /\ part[c][u].request = "pending"
    /\ part' = [part EXCEPT ![c][u].request = "none"]
    /\ UNCHANGED <<conv, msgs, blocks, calls, job>>

-----------------------------------------------------------------------------
(* add_participant, remove_participant, leave_conversation, promote, demote *)

StartGroup(p, op, c, u, v) ==
    Start(p, [Idle EXCEPT !.op = op, !.c = c, !.by = u, !.on = v,
                          !.members = Members(c), !.admins = Admins(c)])

\* Variant: one participant more.
HasRoomVariant(c) == Cardinality(Members(c)) <= MaxSize

HasRoom(c) == Cardinality(Members(c)) < MaxSize

BeginAdd(p, c, u, v) ==
    /\ CanManage(c, u) /\ HasRoom(c) /\ v \notin Members(c)
    /\ Start(p, [Idle EXCEPT !.op = "add", !.c = c, !.by = u, !.on = v,
                             !.members = Members(c), !.admins = Admins(c),
                             !.about = IF part[c][v].since > 0 THEN 1 ELSE 0])

BeginRemove(p, c, u, v) ==
    /\ CanManage(c, u) /\ v \in Members(c)
    /\ StartGroup(p, "remove", c, u, v)

\* Variant: nobody succeeds.
HeirsVariant(c, u) == {{}}

\* Admin succession: the oldest of those who remain, when none is administrator.
Heirs(c, u) ==
    LET remaining == Members(c) \ {u}
    IN  IF remaining \cap Admins(c) # {} \/ remaining = {} THEN {{}}
        ELSE {{h} : h \in {v \in remaining :
                \A w \in remaining : part[c][v].since <= part[c][w].since}}

BeginLeave(p, c, u) ==
    /\ Open(c, "group") /\ u \in Members(c)
    /\ \E h \in Heirs(c, u) :
         Start(p, [Idle EXCEPT !.op = "leave", !.c = c, !.by = u, !.on = u,
                               !.members = Members(c), !.admins = Admins(c),
                               !.heir = h])

BeginPromote(p, c, u, v) ==
    /\ CanManage(c, u) /\ v \in Members(c) \ Admins(c)
    /\ StartGroup(p, "promote", c, u, v)

BeginDemote(p, c, u, v) ==
    /\ CanManage(c, u) /\ v \in Admins(c)
    /\ Cardinality(Admins(c)) > 1
    /\ StartGroup(p, "demote", c, u, v)

\* The row is written and the number of the message that announces it is read.
\* A row that add would insert a second time is refused by the constraint
\* unique_active_participant.
WriteGroup(p) ==
    LET j == job[p]
    IN  /\ j.op \in GroupOps /\ ~j.written
        /\ \A u \in {j.on} \cup j.heir : ~PartHeld(j.c, u)
        /\ \/ /\ j.op = "add" /\ j.about = 0 /\ j.on \in Members(j.c)
              /\ Finish(p)
           \/ /\ ~(j.op = "add" /\ j.about = 0 /\ j.on \in Members(j.c))
              /\ job' = [job EXCEPT ![p].written = TRUE,
                                    ![p].number = NextNumber(j.c)]
              /\ UNCHANGED calls
        /\ UNCHANGED tables

\* A rejoining participant keeps created_at, request_status and the row.
Rejoined(j) ==
    LET row == part[j.c][j.on]
        newest == CHOOSE n \in {part[j.c][u].since : u \in Users} :
                     \A u \in Users : part[j.c][u].since <= n
    IN  [row EXCEPT !.active = TRUE, !.role = "member",
                    !.since = IF j.about = 1 THEN @ ELSE newest + 1]

\* The rows as the call saves them: only the fields it changes.
Changed(j) ==
    CASE j.op = "add"     -> [part[j.c] EXCEPT ![j.on] = Rejoined(j)]
      [] j.op = "remove"  -> [part[j.c] EXCEPT ![j.on].active = FALSE]
      [] j.op = "leave"   -> [u \in Users |->
                                [part[j.c][u] EXCEPT
                                   !.active = @ /\ u # j.on,
                                   !.role = IF u \in j.heir
                                            THEN "admin" ELSE @]]
      [] j.op = "promote" -> [part[j.c] EXCEPT ![j.on].role = "admin"]
      [] j.op = "demote"  -> [part[j.c] EXCEPT ![j.on].role = "member"]

\* The last participant closes the conversation; only leave_conversation looks.
Closes(j) == j.op = "leave" /\ j.members = {j.on}

\* A promotion on leaving is announced before the leave itself; system messages
\* are sent in the creator's name.
Announcements(j) ==
    [i \in 1..1 + Cardinality(j.heir) |->
        Message(j.number + i - 1, conv[j.c].creator, TRUE)]

CommitGroup(p) ==
    LET j == job[p]
        last == j.number + Cardinality(j.heir)
    IN  /\ j.op \in GroupOps /\ j.written
        /\ IF \E n \in j.number..last : Taken(j.c, n)
           THEN UNCHANGED <<conv, part, msgs>>
           ELSE /\ part' = [part EXCEPT ![j.c] = Changed(j)]
                /\ msgs' = [msgs EXCEPT ![j.c] = @ \o Announcements(j)]
                /\ conv' = [conv EXCEPT ![j.c].last = last,
                                        ![j.c].preview = last,
                                        ![j.c].open = @ /\ ~Closes(j)]
        /\ Finish(p)
        /\ UNCHANGED blocks

-----------------------------------------------------------------------------
(* block_participant, unblock_participant                                  *)

Block(u, v) ==
    /\ u # v /\ <<u, v>> \notin blocks /\ calls < MaxCalls
    /\ blocks' = blocks \cup {<<u, v>>}
    /\ calls' = calls + 1
    /\ UNCHANGED <<conv, part, msgs, job>>

Unblock(u, v) ==
    /\ <<u, v>> \in blocks /\ calls < MaxCalls
    /\ blocks' = blocks \ {<<u, v>>}
    /\ calls' = calls + 1
    /\ UNCHANGED <<conv, part, msgs, job>>

-----------------------------------------------------------------------------
Init ==
    /\ conv = [c \in Conversations |->
                 [kind |-> "none", creator |-> NoUser, open |-> FALSE,
                  last |-> 0, preview |-> 0]]
    /\ part = [c \in Conversations |-> [u \in Users |-> NoPart]]
    /\ msgs = [c \in Conversations |-> <<>>]
    /\ blocks = {}
    /\ calls = 0
    /\ job = [p \in Threads |-> Idle]

Begin(p, c, u) ==
    \/ BeginSend(p, c, u) \/ BeginLeave(p, c, u)
    \/ \E others \in SUBSET Users : BeginGroup(p, c, u, others)
    \/ \E n \in Numbers : BeginEdit(p, c, u, n) \/ BeginDelete(p, c, u, n)
    \/ \E op \in {"accept", "ignore"} : BeginAnswer(p, c, u, op)
    \/ \E v \in Users :
         \/ BeginDirect(p, c, u, v)
         \/ BeginAdd(p, c, u, v) \/ BeginRemove(p, c, u, v)
         \/ BeginPromote(p, c, u, v) \/ BeginDemote(p, c, u, v)

Write(p) == WriteSend(p) \/ WriteEdit(p) \/ WriteGroup(p)

Commit(p) ==
    \/ CommitCreate(p) \/ CommitSend(p) \/ CommitEdit(p) \/ CommitDelete(p)
    \/ CommitAnswer(p) \/ CommitGroup(p)

Next ==
    \/ \E p \in Threads :
         \/ \E c \in Conversations, u \in Users : Begin(p, c, u)
         \/ Write(p) \/ Commit(p)
    \/ \E c \in Conversations, u \in Users : ExpireRequests(c, u)
    \/ \E u, v \in Users : Block(u, v) \/ Unblock(u, v)

Spec == Init /\ [][Next]_vars

-----------------------------------------------------------------------------
\* Every variable holds what its comment says; only direct conversations have
\* requests and exactly two participants, who stay.
TypeOK ==
    /\ conv \in [Conversations -> Convs]
    /\ part \in [Conversations -> [Users -> Parts]]
    /\ msgs \in [Conversations -> Seq(Messages)]
    /\ \A c \in Conversations :
         /\ conv[c].kind # "direct"
              => \A u \in Users : part[c][u].request = "none"
         /\ conv[c].kind = "direct"
              => Cardinality(Members(c)) = 2 /\ Admins(c) = {}
    /\ blocks \subseteq Users \X Users
    /\ calls \in 0..MaxCalls
    /\ job \in [Threads -> Jobs]

\* Sequence numbers are gap-free and follow the order of commits, and
\* last_message_id is the newest message: who reads on from a number misses
\* nothing, though no call holds a lock from the number it reads to its commit.
HistoryInOrder ==
    \A c \in Conversations :
        /\ \A i \in DOMAIN msgs[c] : msgs[c][i].number = i
        /\ conv[c].last = Len(msgs[c])

Ends(p, op) == job[p].op = op /\ job'[p] = Idle

\* The group is not what the call saw at its checks.
Overtaken(p) ==
    Members(job[p].c) # job[p].members \/ Admins(job[p].c) # job[p].admins

\* A group whose members have an administrator keeps one, and one whose last
\* member goes is closed: but for remove_participant, which looks at neither,
\* and calls whose checks another call has overtaken.
GroupStaysManaged ==
    [][\A c \in Conversations :
         \/ Admins(c) = {}
         \/ Admins(c)' # {}
         \/ Members(c)' = {} /\ ~conv'[c].open
         \/ \E p \in Threads : /\ job[p].c = c
                               /\ \/ Ends(p, "remove")
                                  \/ /\ \E op \in GroupOps : Ends(p, op)
                                     /\ Overtaken(p)]_vars

\* A group outgrows its limit, a pair gets a second direct conversation and a
\* creator one group too many, only by a call that did its checks before another
\* call of the kind committed.
LimitsOvertaken ==
    [][\A c \in Conversations :
         /\ /\ conv'[c].kind = "group" /\ Cardinality(Members(c)') > MaxSize
            /\ ~(Members(c)' \subseteq Members(c))
            => \E p \in Threads :
                 job[p].c = c /\ Ends(p, "add") /\ Overtaken(p)
         /\ conv[c].kind = "none" /\ conv'[c].kind = "direct"
            => \E p \in Threads : /\ job[p].c = c /\ Ends(p, "direct")
                                  /\ job[p].twins = {}
         /\ \A u \in Users :
              /\ c \in Groups(u)' \ Groups(u)
              /\ Cardinality(Groups(u)') > MaxGroups
              => \E p \in Threads : /\ job[p].c = c /\ Ends(p, "group")
                                    /\ Cardinality(job[p].twins) < MaxGroups]_vars

\* A deleted message comes back, or is shown again as the last one, only by an
\* edit that had read it before the deletion.
DeletedStaysDeleted ==
    [][\A c \in Conversations : \A i \in DOMAIN msgs[c] :
         /\ msgs[c][i].status = "deleted"
         /\ \/ msgs'[c][i].status # "deleted"
            \/ conv'[c].preview = i /\ conv[c].preview # i
         => \E p \in Threads : /\ job[p].c = c /\ job[p].about = i
                               /\ Ends(p, "edit")
                               /\ job[p].read # "deleted"]_vars

\* The preview of a conversation becomes that of a message that is not its last
\* only by an edit that had found it to be the last.
PreviewIsOfLast ==
    [][\A c \in Conversations :
         /\ conv'[c].preview # conv[c].preview
         /\ conv'[c].preview \notin {0, conv'[c].last}
         => \E p \in Threads : /\ job[p].c = c /\ Ends(p, "edit")
                               /\ job[p].last = conv'[c].preview]_vars
=============================================================================
