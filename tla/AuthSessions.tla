---------------------------- MODULE AuthSessions ----------------------------
(***************************************************************************)
(* Sessions of ONE user account: AuthService with the RefreshToken and     *)
(* DeviceSession rows, the JTI blacklist in Redis, the OAuth login and the *)
(* account operations that end in logout_all.                              *)
(*                                                                         *)
(* A refresh token is rotated at every use: the row t gets                 *)
(* replaced_by = the new row, and the tokens descending from one login     *)
(* form a chain.  The access token issued with t carries its jti and is    *)
(* good until that jti is blacklisted.  A device has one session row,      *)
(* whose current_token is the last token issued through it.                *)
(*                                                                         *)
(* login, refresh and logout_all check things before their atomic block,   *)
(* and revoke_session and the OAuth login have no atomic block: a call is  *)
(* as many actions as it has commits or decisions on rows read earlier.    *)
(***************************************************************************)
EXTENDS Integers, FiniteSets

CONSTANTS
    Devices,        \* device_id values
    OAuthDevices,   \* bound: where OAuth logins come from
    Threads,        \* request threads
    MaxSessions,    \* auth.sessions.max_per_user
    MaxAttempts,    \* auth.lockout.max_failed_attempts
    MaxCalls        \* bound: calls made; each issues at most one token

ASSUME DevicesAssumption ==
    IsFiniteSet(Devices) /\ Devices # {} /\ OAuthDevices \subseteq Devices
ASSUME SessionBounds == MaxSessions \in Nat \ {0} /\ MaxAttempts \in Nat \ {0}
ASSUME CallBound == MaxCalls \in Nat \ {0}

VARIABLES
    user,        \* the User row: is_active, failed_login_attempts, locked_until
    issued,      \* rows 1..issued of the RefreshToken table exist
    token,       \* the RefreshToken table
    session,     \* [Devices -> DeviceSession row]
    blacklist,   \* tokens whose jti is in Redis
    era,         \* history: logout_all calls committed
    halfway,     \* history: tokens a revoke_session that died had revoked
    lost,        \* history: tokens an OAuth login that died had issued
    guesses,     \* history: wrong passwords counted since the last reset, and
                 \* whether one was counted from a number out of date
    calls,       \* calls made so far
    job          \* [Threads -> the call in flight]

rows == <<user, issued, token, session, blacklist>>
history == <<era, halfway, lost, guesses>>
vars == <<rows, history, calls, job>>

Tokens == 1..MaxCalls
Eras == 0..MaxCalls
NoToken == 0
Reasons == {"no", "logout", "session_limit", "security", "logout_all"}

\* device: where the login was that the row descends from; root: the token of that
\* login.  (The device_id column holds what the client said at the last refresh,
\* "unknown" by default, and nothing reads it.)  since: logout_all calls that
\* had been committed when the call that issued it checked its caller.  late, astray:
\* it was committed while a logout_all, or the end of its session, was under way
\* that has not seen it (Late, Astray).
Rows == [device : Devices, revoked : Reasons, next : Tokens \cup {NoToken},
         root : Tokens, since : Eras,
         late : BOOLEAN, astray : BOOLEAN]

Sessions == [status : {"none", "active", "inactive"},
             current : Tokens \cup {NoToken}]

Users == [active : BOOLEAN, attempts : 0..MaxAttempts, locked : BOOLEAN]

Ops == {"idle", "wrong_password",
        "login", "login_open", "oauth", "oauth_open", "oauth_link", "refresh",
        "rotate",
        "deactivate", "revoke_all", "updating", "revoke_session", "closing"}

\* device, token: what the call is about.  seen: tokens, and kicked: devices, of
\* its snapshot.  since: era at its checks.  read: failed_login_attempts at its
\* checks.  linked: the rotated token is the current one of its session.
Jobs == [op : Ops, device : Devices, token : Tokens \cup {NoToken},
         seen : SUBSET Tokens, kicked : SUBSET Devices, others : SUBSET Devices,
         since : Eras, read : 0..MaxAttempts, linked : BOOLEAN]

Somewhere == CHOOSE d \in Devices : TRUE   \* where no device is meant

Idle == [op |-> "idle", device |-> Somewhere, token |-> NoToken, seen |-> {},
         kicked |-> {}, others |-> {}, since |-> 0, read |-> 0,
         linked |-> FALSE]

-----------------------------------------------------------------------------
Issued == 1..issued
Free(p) == job[p] = Idle
Start(p, j) ==
    /\ Free(p) /\ calls < MaxCalls
    /\ calls' = calls + 1
    /\ job' = [job EXCEPT ![p] = j]
Continue(p, j) == job' = [job EXCEPT ![p] = j] /\ UNCHANGED calls
Finish(p) == Continue(p, Idle)

\* RefreshToken.is_valid, the expiry apart.
Usable(t) == t \in Issued /\ token[t].revoked = "no" /\ token[t].next = NoToken

\* validate_access_token for the access token issued with t.
AccessGood(t) == t \in Issued /\ t \notin blacklist /\ user.active

ActiveDevices == {d \in Devices : session[d].status = "active"}

\* Row locks: a rotation holds its token, an open login the session of its
\* device (for update, or as an insertion the unique constraint waits for).
TokenLocked(t) == \E q \in Threads : job[q].op = "rotate" /\ job[q].token = t
SessionLocked(d) ==
    \E q \in Threads : job[q].op = "login_open" /\ job[q].device = d
UserLocked ==
    \E q \in Threads : job[q].op = "login_open" /\ job[q].read > 0

\* A token committed by p escapes a logout_all: one committed since p made its
\* checks, or one that has already looked at the rows.
Late(p) ==
    \/ job[p].since # era
    \/ \E q \in Threads \ {p} : job[q].op \in {"revoke_all", "updating"}

\* Another call is ending d's session, with the token in hand that it has shown.
Ending(p, d) ==
    \E q \in Threads \ {p} :
        \/ job[q].op \in {"revoke_session", "closing"} /\ job[q].device = d
        \/ job[q].op = "login_open" /\ d \in job[q].kicked

\* A token committed for device d escapes the end of d's session.
Astray(p, d) == Late(p) \/ Ending(p, d)

\* The raw token goes to the client with the response, which an OAuth login sends
\* after its last commit.
Linking(t) == \E p \in Threads : job[p].op = "oauth_link" /\ job[p].token = t
Delivered(t) == t \in Issued /\ t \notin lost /\ ~Linking(t)

\* RefreshToken.create_token
NewToken == issued + 1
Row(p, d, root, astray) ==
    [device |-> d, revoked |-> "no", next |-> NoToken, root |-> root,
     since |-> job[p].since, late |-> Late(p), astray |-> astray]

-----------------------------------------------------------------------------
(* login                                                                   *)

\* A wrong password: the counter is read now and written by SaveFailure.
WrongPassword(p) ==
    /\ ~user.locked
    /\ Start(p, [Idle EXCEPT !.op = "wrong_password", !.read = user.attempts])
    /\ UNCHANGED <<rows, history>>

\* Variant: a failure is written before the count goes up.
IncrementedVariant(n) == n

\* From MaxAttempts on every failure locks: the count may as well stop there.
\* Below it, the locked_until that was read is saved again: no lock.
Incremented(n) == IF n < MaxAttempts THEN n + 1 ELSE n

SaveFailure(p) ==
    /\ job[p].op = "wrong_password" /\ ~UserLocked
    /\ LET n == Incremented(job[p].read)
       IN  user' = [user EXCEPT !.attempts = n, !.locked = n = MaxAttempts]
    /\ guesses' = [count |-> IF guesses.count < MaxAttempts
                             THEN guesses.count + 1 ELSE MaxAttempts,
                   stale |-> guesses.stale \/ job[p].read # user.attempts]
    /\ Finish(p)
    /\ UNCHANGED <<issued, token, session, blacklist, era, halfway, lost>>

\* locked_until passes; the count stays.
LockElapses ==
    /\ user.locked
    /\ user' = [user EXCEPT !.locked = FALSE]
    /\ UNCHANGED <<issued, token, session, blacklist, history, calls, job>>

\* login, up to its atomic block: the right password, account active.
Authenticate(p, d) ==
    /\ ~user.locked /\ user.active
    /\ Start(p, [Idle EXCEPT !.op = "login", !.device = d, !.since = era,
                             !.read = user.attempts])
    /\ UNCHANGED <<rows, history>>

\* Variant: one session more than the limit is let through.
KickedVariant(d, gone) ==
    LET others == ActiveDevices \ {d}
    IN  IF Cardinality(others) > MaxSessions
        THEN gone \subseteq others
             /\ Cardinality(others \ gone) = MaxSessions - 1
        ELSE gone = {}

\* _enforce_session_limit for a login on d: gone are the sessions it ends.  Which
\* ones are the oldest is left open.
Kicked(d, gone) ==
    LET others == ActiveDevices \ {d}
    IN  IF Cardinality(others) >= MaxSessions
        THEN gone \subseteq others
             /\ Cardinality(others \ gone) = MaxSessions - 1
        ELSE gone = {}

\* The atomic block takes the session row and lists the other sessions.
OpenSession(p) ==
    /\ job[p].op = "login"
    /\ ~SessionLocked(job[p].device)
    /\ job[p].read > 0 => ~UserLocked
    /\ \E gone \in SUBSET Devices :
         /\ Kicked(job[p].device, gone)
         /\ Continue(p, [job[p] EXCEPT
                           !.op = "login_open", !.kicked = gone,
                           !.others = ActiveDevices \ {job[p].device},
                           !.seen = {session[e].current : e \in gone}
                                      \ {NoToken}])
    /\ UNCHANGED <<rows, history>>

\* ... and writes: the counter is reset, the listed sessions end with the tokens
\* they had, the device gets its token.
CommitLogin(p) ==
    LET d == job[p].device
    IN  /\ job[p].op = "login_open"
        /\ \A e \in job[p].kicked : ~SessionLocked(e)
        /\ \A t \in job[p].seen : ~TokenLocked(t)
        /\ IF job[p].read > 0
           THEN /\ user' = [user EXCEPT !.attempts = 0, !.locked = FALSE]
                /\ guesses' = [count |-> 0, stale |-> FALSE]
           ELSE UNCHANGED <<user, guesses>>
        /\ issued' = NewToken
        /\ token' = [t \in Tokens |->
                       IF t = NewToken THEN Row(p, d, NewToken, Astray(p, d))
                       ELSE IF t \in job[p].seen
                            THEN [token[t] EXCEPT !.revoked = "session_limit"]
                            ELSE token[t]]
        /\ session' = [e \in Devices |->
                         IF e = d
                         THEN [status |-> "active", current |-> NewToken]
                         ELSE IF e \in job[p].kicked
                              THEN [session[e] EXCEPT !.status = "inactive"]
                              ELSE session[e]]
        /\ Finish(p)
        /\ UNCHANGED <<blacklist, era, halfway, lost>>

-----------------------------------------------------------------------------
(* OAuthService.authenticate_or_create_user, for an account that exists: no *)
(* lockout, no session limit, and the session is opened in a commit of its  *)
(* own.                                                                     *)

OAuthAuthenticate(p, d) ==
    /\ user.active /\ d \in OAuthDevices
    /\ Start(p, [Idle EXCEPT !.op = "oauth", !.device = d, !.since = era])
    /\ UNCHANGED <<rows, history>>

OAuthOpenSession(p) ==
    /\ job[p].op = "oauth" /\ ~SessionLocked(job[p].device)
    /\ session' = [session EXCEPT ![job[p].device].status = "active"]
    /\ Continue(p, [job[p] EXCEPT !.op = "oauth_open"])
    /\ UNCHANGED <<user, issued, token, blacklist, history>>

\* The token is committed, then the session that shows it.
OAuthIssue(p) ==
    LET d == job[p].device
    IN  /\ job[p].op = "oauth_open"
        /\ issued' = NewToken
        /\ token' = [token EXCEPT ![NewToken] = Row(p, d, NewToken, Astray(p, d))]
        /\ Continue(p, [job[p] EXCEPT !.op = "oauth_link", !.token = NewToken])
        /\ UNCHANGED <<user, session, blacklist, history>>

\* current_token is all that is saved: an ended session stays ended.
OAuthLink(p) ==
    LET d == job[p].device
        t == job[p].token
    IN  /\ job[p].op = "oauth_link" /\ ~SessionLocked(d)
        /\ session' = [session EXCEPT ![d].current = t]
        /\ token' = [token EXCEPT ![t].astray =
                       @ \/ Ending(p, d) \/ session[d].status # "active"]
        /\ Finish(p)
        /\ UNCHANGED <<user, issued, blacklist, history>>

-----------------------------------------------------------------------------
(* refresh_tokens and logout                                               *)

\* The checks before the atomic block.
BeginRefresh(p, t) ==
    /\ Usable(t) /\ Delivered(t) /\ user.active
    /\ Start(p, [Idle EXCEPT !.op = "refresh", !.token = t])
    /\ UNCHANGED <<rows, history>>

\* Variant: the row is locked without looking at it again.
StillRotatableVariant(t) == t \in Issued

\* select_for_update().filter(is_revoked=False, replaced_by__isnull=True)
StillRotatable(t) == Usable(t)

\* The session that shows t, if one does, is that of the login's device.  Nothing
\* found: TokenInvalid, without the logout_all of a reuse.
LockRefresh(p) ==
    LET t == job[p].token
        d == token[t].device
    IN  /\ job[p].op = "refresh" /\ ~TokenLocked(t)
        /\ \/ /\ StillRotatable(t)
              /\ Continue(p, [job[p] EXCEPT !.op = "rotate", !.device = d,
                                            !.linked = session[d].current = t,
                                            !.since = era])
           \/ ~StillRotatable(t) /\ Finish(p)
        /\ UNCHANGED <<rows, history>>

\* Variant: the session keeps pointing at the old token.
CurrentAfterVariant(p, d) == session[d].current

CurrentAfter(p, d) ==
    IF job[p].linked THEN NewToken ELSE session[d].current

CommitRefresh(p) ==
    LET t == job[p].token
        d == job[p].device
    IN  /\ job[p].op = "rotate"
        /\ job[p].linked => ~SessionLocked(d)
        /\ issued' = NewToken
        /\ token' = [token EXCEPT
                       ![NewToken] =
                         Row(p, d, token[t].root,
                             \/ token[t].astray \/ Astray(p, d)
                             \/ job[p].linked /\ session[d].status # "active"),
                       ![t].next = NewToken]
        /\ session' = [session EXCEPT ![d].current = CurrentAfter(p, d)]
        /\ Finish(p)
        /\ UNCHANGED <<user, blacklist, history>>

\* Any token that is not revoked, a rotated one too; nothing is blacklisted and
\* the session row stays as it is.
Logout(p, t) ==
    /\ Delivered(t) /\ token[t].revoked = "no" /\ ~TokenLocked(t)
    /\ token' = [token EXCEPT ![t].revoked = "logout"]
    /\ Start(p, Idle)
    /\ UNCHANGED <<user, issued, session, blacklist, history>>

-----------------------------------------------------------------------------
(* logout_all, by the user, a password change or reset, a deactivation, or *)
(* the presentation of a token that was revoked or rotated                 *)

\* Variant: only the access tokens the sessions show.
BlacklistedVariant == {t \in Issued : \E d \in Devices : session[d].current = t}

\* JTIBlacklist.blacklist_user_tokens, in Redis: at once, whatever becomes of
\* the database transaction.
Blacklisted == {t \in Issued : token[t].revoked = "no"}

RevokingAll == [Idle EXCEPT !.op = "revoke_all"]

\* The user's own logout_all, change_password and confirm_reset.
BeginRevokeAll(p) ==
    /\ blacklist' = blacklist \cup Blacklisted
    /\ Start(p, RevokingAll)
    /\ UNCHANGED <<user, issued, token, session, history>>

\* refresh_tokens with a token that is revoked or has been rotated.
PresentStale(p, t) == Delivered(t) /\ ~Usable(t) /\ BeginRevokeAll(p)

\* deactivate_user saves is_active and then calls logout_all.
DeactivateUser(p) ==
    /\ user.active /\ ~UserLocked
    /\ user' = [user EXCEPT !.active = FALSE]
    /\ Start(p, [Idle EXCEPT !.op = "deactivate"])
    /\ UNCHANGED <<issued, token, session, blacklist, history>>

ContinueDeactivate(p) ==
    /\ job[p].op = "deactivate"
    /\ blacklist' = blacklist \cup Blacklisted
    /\ Continue(p, RevokingAll)
    /\ UNCHANGED <<user, issued, token, session, history>>

ReactivateUser(p) ==
    /\ ~user.active /\ ~UserLocked
    /\ user' = [user EXCEPT !.active = TRUE]
    /\ Start(p, Idle)
    /\ UNCHANGED <<issued, token, session, blacklist, history>>

\* Variant: only the tokens the sessions show.
RevokedByUpdateVariant ==
    {t \in Issued : \E d \in Devices : session[d].current = t}

\* The rows of the user's UPDATE on RefreshToken.
RevokedByUpdate == {t \in Issued : token[t].revoked = "no"}

\* The UPDATE takes its snapshot; a row that a rotation holds it waits for.
UpdateTokens(p) ==
    /\ job[p].op = "revoke_all"
    /\ Continue(p, [job[p] EXCEPT !.op = "updating", !.seen = RevokedByUpdate])
    /\ UNCHANGED <<rows, history>>

CommitRevokeAll(p) ==
    /\ job[p].op = "updating"
    /\ \A t \in job[p].seen : ~TokenLocked(t)
    /\ \A d \in Devices : SessionLocked(d) => session[d].status = "none"
    /\ token' = [t \in Tokens |->
                   IF t \in job[p].seen /\ token[t].revoked = "no"
                   THEN [token[t] EXCEPT !.revoked = "logout_all"]
                   ELSE token[t]]
    /\ session' = [d \in Devices |->
                     IF session[d].status = "active"
                     THEN [session[d] EXCEPT !.status = "inactive"]
                     ELSE session[d]]
    /\ era' = era + 1
    /\ Finish(p)
    /\ UNCHANGED <<user, issued, blacklist, halfway, lost, guesses>>

-----------------------------------------------------------------------------
(* revoke_session: three commits                                           *)

BeginRevokeSession(p, d) ==
    /\ session[d].status = "active"
    /\ Start(p, [Idle EXCEPT !.op = "revoke_session", !.device = d,
                             !.token = session[d].current])
    /\ UNCHANGED <<rows, history>>

\* Variant: current_token is left as it is.
RevokedVariant(t) == token

\* current_token.revoke(reason="security")
Revoked(t) ==
    IF t = NoToken THEN token ELSE [token EXCEPT ![t].revoked = "security"]

RevokeCurrent(p) ==
    /\ job[p].op = "revoke_session" /\ ~TokenLocked(job[p].token)
    /\ token' = Revoked(job[p].token)
    /\ Continue(p, [job[p] EXCEPT !.op = "closing"])
    /\ UNCHANGED <<user, issued, session, blacklist, history>>

\* Variant: the session is taken to have a token.
ClosedJtisVariant(p) == {job[p].token}

\* The jti of current_token, if there is one.
ClosedJtis(p) == {job[p].token} \ {NoToken}

CloseSession(p) ==
    /\ job[p].op = "closing" /\ ~SessionLocked(job[p].device)
    /\ blacklist' = blacklist \cup ClosedJtis(p)
    /\ session' = [session EXCEPT ![job[p].device].status = "inactive"]
    /\ Finish(p)
    /\ UNCHANGED <<user, issued, token, history>>

\* The worker dies, or the database ends a deadlock: what was committed stays.
Abort(p) ==
    /\ ~Free(p)
    /\ halfway' = IF job[p].op = "closing" THEN halfway \cup ClosedJtis(p)
                  ELSE halfway
    /\ lost' = IF job[p].op = "oauth_link" THEN lost \cup {job[p].token}
               ELSE lost
    /\ Finish(p)
    /\ UNCHANGED <<rows, era, guesses>>

-----------------------------------------------------------------------------
NoRow == [device |-> Somewhere, revoked |-> "no", next |-> NoToken,
          root |-> 1, since |-> 0, late |-> FALSE, astray |-> FALSE]

Init ==
    /\ user = [active |-> TRUE, attempts |-> 0, locked |-> FALSE]
    /\ issued = 0
    /\ token = [t \in Tokens |-> NoRow]
    /\ session = [d \in Devices |-> [status |-> "none", current |-> NoToken]]
    /\ blacklist = {}
    /\ era = 0
    /\ halfway = {}
    /\ lost = {}
    /\ guesses = [count |-> 0, stale |-> FALSE]
    /\ calls = 0
    /\ job = [p \in Threads |-> Idle]

Next ==
    \/ LockElapses
    \/ \E p \in Threads :
         \/ WrongPassword(p) \/ SaveFailure(p)
         \/ OpenSession(p) \/ CommitLogin(p)
         \/ OAuthOpenSession(p) \/ OAuthIssue(p) \/ OAuthLink(p)
         \/ LockRefresh(p) \/ CommitRefresh(p)
         \/ BeginRevokeAll(p) \/ UpdateTokens(p) \/ CommitRevokeAll(p)
         \/ DeactivateUser(p) \/ ContinueDeactivate(p) \/ ReactivateUser(p)
         \/ RevokeCurrent(p) \/ CloseSession(p) \/ Abort(p)
         \/ \E d \in Devices : \/ Authenticate(p, d) \/ OAuthAuthenticate(p, d)
                               \/ BeginRevokeSession(p, d)
         \/ \E t \in Issued : \/ BeginRefresh(p, t) \/ PresentStale(p, t)
                              \/ Logout(p, t)

Spec == Init /\ [][Next]_vars

-----------------------------------------------------------------------------
\* Every variable holds what its comment says; a rotated row points at a younger
\* one, so the rotation chains have no cycle; and a session shows a token that
\* descends from a login on its device.
TypeOK ==
    /\ user \in Users
    /\ issued \in 0..calls
    /\ token \in [Tokens -> Rows]
    /\ \A t \in Issued : token[t].next # NoToken => token[t].next \in (t+1)..issued
    /\ session \in [Devices -> Sessions]
    /\ \A d \in Devices : LET t == session[d].current
                         IN  t \in 0..issued /\ (t # NoToken => token[t].device = d)
    /\ blacklist \subseteq Issued
    /\ era \in 0..calls
    /\ halfway \subseteq Issued /\ lost \subseteq Issued
    /\ guesses \in [count : 0..MaxAttempts, stale : BOOLEAN]
    /\ calls \in 0..MaxCalls
    /\ job \in [Threads -> Jobs]

\* A login yields at most one refresh token that can be used, whoever rotates
\* it however often at the same time: refresh_tokens re-reads the row it locks.
OneUsablePerChain ==
    \A t, u \in Issued :
        Usable(t) /\ Usable(u) /\ token[t].root = token[u].root => t = u

\* After a logout_all, a password change or reset, a deactivation or a reuse
\* alarm, the only usable tokens of an earlier date are those another call was
\* committing meanwhile: logout_all misses nothing that was there, the tokens
\* no session shows any more included.
RevocationReachesAll ==
    \A t \in Issued : Usable(t) /\ token[t].since < era => token[t].late

\* With the refresh tokens that a logout_all revokes, those that had been rotated
\* included, go their access tokens, unless committed while it ran; so does that
\* of a session that is revoked, when revoke_session comes to its end.
AccessEndsWithRevocation ==
    \A t \in Issued : AccessGood(t) =>
        /\ token[t].revoked = "logout_all" => token[t].late
        /\ token[t].revoked = "security" =>
              \/ t \in halfway
              \/ \E p \in Threads : job[p].op = "closing" /\ job[p].token = t

\* The token of a session that is shown as ended cannot be used, unless it was
\* committed while the session was being ended.
InactiveSessionHasNoToken ==
    \A d \in Devices :
        LET t == session[d].current
        IN  session[d].status = "inactive" /\ Usable(t) => token[t].astray

\* A usable token that its device's session does not point at (neither the list
\* of sessions nor revoke_session can reach it) has lost its place to another login
\* on the device, whose token was not revoked for it, or was issued by an OAuth login
\* that has not linked it yet, or died before: no rotation, whatever it overlaps
\* with, loses the session of its chain.
OrphanHasCause ==
    \A t \in Issued :
        Usable(t) /\ session[token[t].device].current # t
            => \/ \E u \in Issued : /\ token[u].device = token[t].device
                                    /\ token[u].root # token[t].root
               \/ Linking(t) \/ t \in lost

\* When MaxAttempts wrong passwords have been counted since the last reset, each
\* from the number of the one before, the next one finds the count at its limit
\* and locks, even if the lock had elapsed: only two calls at a time lose one.
FailuresAreCounted ==
    ~guesses.stale /\ guesses.count = MaxAttempts => user.attempts = MaxAttempts

\* A password login brings the account back within the session limit, however
\* far the OAuth logins have exceeded it, unless sessions came or went since
\* it listed them.
LoginRestoresLimit ==
    [][\A p \in Threads :
         /\ job[p].op = "login_open" /\ job'[p].op = "idle" /\ issued' # issued
         /\ job[p].others = ActiveDevices \ {job[p].device}
         => Cardinality(ActiveDevices') <= MaxSessions]_vars

-----------------------------------------------------------------------------
(* What the descriptions of the endpoints say and the code does not do.    *)

\* After a logout_all no access token issued before is good, whatever was done
\* with its refresh token earlier: a logout has blacklisted it at once, or
\* logout_all does.  Calls that overlap with it or died half way are left aside.
LogoutAllEndsAllAccess ==
    \A t \in Issued :
        AccessGood(t) /\ token[t].since < era
            => \/ token[t].late \/ t \in halfway
               \/ \E p \in Threads : job[p].op = "closing" /\ job[p].token = t

=============================================================================
