-------------------------- MODULE AuthSessionsProofs --------------------------
(***************************************************************************)
(* The sessions of an account with any devices, any number of calls in     *)
(* flight and any limits: a login has one usable refresh token at a time,  *)
(* a logout_all misses only what was committed around it, and so on for    *)
(* every property that AuthSessions states.  The invariant says what a     *)
(* call in flight may rely on: the row it is rotating is still usable and  *)
(* is rotated by it alone, the tokens it has listed are all there were,    *)
(* and those that came since are marked.                                   *)
(***************************************************************************)
EXTENDS AuthSessions, FiniteSetTheorems, TLAPS

\* A call issues one token or ends one era at most: with those in flight that have not
\* done so there are no more than calls.
Busy == {p \in Threads : job[p] # Idle /\ job[p].op # "oauth_link"}
Budget == IsFiniteSet(Busy) /\ issued + era + Cardinality(Busy) <= calls

Closing(t) == \E p \in Threads : job[p].op = "closing" /\ job[p].token = t

\* A logout_all has nothing to do with the access token issued with t.
Covered(t) == t \in blacklist \/ token[t].late

\* Why the access token issued with t may outlive the revocation of t, or does not.
Explained(t) ==
    /\ token[t].revoked = "logout_all" => Covered(t)
    /\ token[t].revoked = "security" => t \in blacklist \cup halfway \/ Closing(t)

\* The device has a token of another login.
Replaced(t) ==
    \E u \in Issued : /\ token[u].device = token[t].device
                      /\ token[u].root # token[t].root

TokensKnown ==
    \A t \in Issued :
        /\ token[t].root <= t /\ token[t].since <= era
        /\ token[t].late => token[t].astray
        /\ Explained(t)

\* What call j is about exists; what it rotates is usable and in the client's hands;
\* what it has yet to link begins a chain of its own.
Known(j) ==
    /\ j.token \in Issued \cup {NoToken} /\ j.seen \subseteq Issued
    /\ j.since <= era
    /\ j # Idle => j.op # "idle"
    /\ j.op \in {"refresh", "rotate"} => Delivered(j.token)
    /\ j.op = "rotate" => /\ Usable(j.token)
                          /\ j.device = token[j.token].device
                          /\ j.linked \/ Replaced(j.token)
    /\ j.op = "oauth_link" =>
          /\ j.token \in Issued /\ token[j.token].device = j.device
          /\ \A u \in Issued : token[u].root = j.token <=> u = j.token
    /\ j.op = "login_open" => Cardinality(j.others \ j.kicked) < MaxSessions

\* A call that is to end a session has its token, or the token is marked.
EndsSessions(j) ==
    /\ j.op = "login_open" =>
         \A e \in j.kicked : LET t == session[e].current
                             IN  Usable(t) => t \in j.seen \/ token[t].astray
    /\ j.op \in {"revoke_session", "closing"} =>
         LET t == session[j.device].current
         IN  Usable(t) => t = j.token \/ token[t].astray
    /\ j.op = "closing" => j.token = NoToken \/ token[j.token].revoked # "no"

\* A logout_all has blacklisted and listed what there was.
EndsEra(j) ==
    /\ j.op \in {"revoke_all", "updating"} =>
         \A t \in Issued : token[t].revoked = "no" => Covered(t)
    /\ j.op = "updating" =>
         \A t \in Issued : Usable(t) => t \in j.seen \/ token[t].late

Good(j) == Known(j) /\ EndsSessions(j) /\ EndsEra(j)

JobsKnown == \A p \in Threads : Good(job[p])

OneRotator ==
    \A p, q \in Threads :
        /\ job[p].op = "rotate" /\ job[q].op = "rotate"
        /\ job[p].token = job[q].token
        => p = q

Counts == ~guesses.stale => guesses.count = user.attempts

IInv ==
    /\ TypeOK /\ Budget /\ TokensKnown /\ JobsKnown /\ OneRotator
    /\ OneUsablePerChain /\ RevocationReachesAll
    /\ InactiveSessionHasNoToken /\ OrphanHasCause /\ Counts

-----------------------------------------------------------------------------
(* The job table                                                           *)

LEMMA IdleTyped ==
  Idle \in Jobs /\ Idle.op = "idle" /\ Idle.token = NoToken /\ Idle.seen = {}
<1>1. Somewhere \in Devices
  BY DevicesAssumption DEF Somewhere
<1> QED
  BY <1>1, CallBound, SessionBounds DEF Idle, Jobs, Ops, Eras

LEMMA IdleIsGood ==
  ASSUME era \in Nat, era' \in Nat
  PROVE  Good(Idle) /\ Good(Idle)'
BY IdleTyped DEF Idle, Good, Known, EndsSessions, EndsEra

\* A call that has listed and taken nothing relies on nothing.
LEMMA PlainIsGood ==
  ASSUME NEW j, j.op \in {"wrong_password", "login", "oauth", "oauth_open",
                          "deactivate", "refresh"},
         j.token \in Issued \cup {NoToken}, j.seen = {}, j.since <= era,
         j.op = "refresh" => Delivered(j.token)
  PROVE  Good(j)
BY DEF Good, Known, EndsSessions, EndsEra

\* The job table after p goes on with j.
LEMMA JobIs ==
  ASSUME TypeOK, NEW p \in Threads, NEW j \in Jobs,
         job' = [job EXCEPT ![p] = j]
  PROVE  /\ job' \in [Threads -> Jobs] /\ job'[p] = j
         /\ \A q \in Threads : q # p => job'[q] = job[q]
  BY DEF TypeOK

\* A call that begins is paid for by calls.
LEMMA StartKeepsBudget ==
  ASSUME TypeOK, Budget, NEW p \in Threads, NEW j \in Jobs, Start(p, j),
         issued' = issued, era' = era
  PROVE  Budget' /\ calls' \in 0..MaxCalls /\ calls \in 0..calls'
<1>1. /\ job[p] = Idle /\ calls' = calls + 1 /\ calls < MaxCalls
      /\ job' = [job EXCEPT ![p] = j]
  BY DEF Start, Free
<1>2. calls \in Nat /\ calls' \in 0..MaxCalls /\ calls \in 0..calls'
  BY <1>1, CallBound DEF TypeOK
<1>3. Busy' = Busy \/ Busy' = Busy \cup {p}
  BY <1>1, JobIs DEF Busy
<1>4. IsFiniteSet(Busy') /\ Cardinality(Busy') <= Cardinality(Busy) + 1
  <2>1. IsFiniteSet(Busy) /\ Cardinality(Busy) \in Nat
    BY FS_CardinalityType DEF Budget
  <2>2. /\ IsFiniteSet(Busy \cup {p})
        /\ Cardinality(Busy \cup {p}) <= Cardinality(Busy) + 1
    <3>1. /\ IsFiniteSet(Busy \cup {p})
          /\ Cardinality(Busy \cup {p}) =
               IF p \in Busy THEN Cardinality(Busy) ELSE Cardinality(Busy) + 1
      BY <2>1, FS_AddElement, Zenon
    <3> QED
      BY <2>1, <3>1
  <2>3. CASE Busy' = Busy
    BY <2>1, <2>3
  <2>4. CASE Busy' = Busy \cup {p}
    BY <2>2, <2>4, Zenon
  <2> QED
    BY <1>3, <2>3, <2>4
<1> QED
  BY <1>1, <1>2, <1>4, FS_CardinalityType DEF Budget, TypeOK

\* One that goes on costs nothing more.
LEMMA ContinueKeepsBudget ==
  ASSUME TypeOK, Budget, NEW p \in Threads, NEW j \in Jobs, Continue(p, j),
         job[p] # Idle, job[p].op # "oauth_link" \/ j = Idle,
         issued' = issued, era' = era
  PROVE  Budget' /\ calls' \in 0..MaxCalls
<1>1. calls' = calls /\ job' = [job EXCEPT ![p] = j]
  BY DEF Continue
<1>2. Busy' = Busy \/ Busy' = Busy \ {p}
  <2>1. \A q \in Threads : q # p => (q \in Busy' <=> q \in Busy)
    BY <1>1, JobIs DEF Busy
  <2>2. p \in Busy' => p \in Busy
    BY <1>1, JobIs, IdleTyped DEF Busy
  <2>3. Busy \subseteq Threads /\ Busy' \subseteq Threads
    BY DEF Busy
  <2> QED
    BY <2>1, <2>2, <2>3
<1>3. IsFiniteSet(Busy') /\ Cardinality(Busy') <= Cardinality(Busy)
  <2>1. IsFiniteSet(Busy) /\ Cardinality(Busy) \in Nat
    BY FS_CardinalityType DEF Budget
  <2>2. /\ IsFiniteSet(Busy \ {p})
        /\ Cardinality(Busy \ {p}) =
             IF p \in Busy THEN Cardinality(Busy) - 1 ELSE Cardinality(Busy)
    BY <2>1, FS_RemoveElement, Zenon
  <2>3. Cardinality(Busy \ {p}) <= Cardinality(Busy)
    BY <2>1, <2>2
  <2>4. CASE Busy' = Busy
    BY <2>1, <2>4
  <2>5. CASE Busy' = Busy \ {p}
    BY <2>2, <2>3, <2>5, Zenon
  <2> QED
    BY <1>2, <2>4, <2>5
<1> QED
  BY <1>1, <1>3, FS_CardinalityType DEF Budget, TypeOK

\* One that has issued nothing yet has left room for it.
LEMMA BusyHasRoom ==
  ASSUME TypeOK, Budget, NEW p \in Threads, job[p].op \notin {"idle", "oauth_link"}
  PROVE  issued + era < calls
<1>1. p \in Busy
  BY IdleTyped DEF Busy
<1>2. IsFiniteSet(Busy \ {p}) /\ Cardinality(Busy \ {p}) = Cardinality(Busy) - 1
  BY <1>1, FS_RemoveElement DEF Budget
<1>3. Cardinality(Busy) \in Nat /\ Cardinality(Busy \ {p}) \in Nat
  BY <1>2, FS_CardinalityType DEF Budget
<1>4. issued \in Nat /\ era \in Nat /\ calls \in Nat
  BY CallBound DEF TypeOK
<1> QED
  BY <1>2, <1>3, <1>4 DEF Budget

LEMMA IssuingSpends ==
  ASSUME TypeOK, Budget, NEW p \in Threads, NEW j \in Jobs, Continue(p, j),
         job[p].op \notin {"idle", "oauth_link"}, j = Idle \/ j.op = "oauth_link",
         issued' \in Nat, era' \in Nat, issued' + era' = issued + era + 1
  PROVE  calls' = calls /\ Budget'
<1>1. calls' = calls /\ job' = [job EXCEPT ![p] = j]
  BY DEF Continue
<1>2. Busy' = Busy \ {p} /\ p \in Busy
  BY <1>1, JobIs, IdleTyped DEF Busy
<1>3. /\ IsFiniteSet(Busy') /\ Cardinality(Busy') = Cardinality(Busy) - 1
      /\ Cardinality(Busy') \in Nat
  BY <1>2, FS_RemoveElement, FS_CardinalityType DEF Budget
<1>4. Cardinality(Busy) \in Nat
  BY FS_CardinalityType DEF Budget
<1>5. /\ issued \in Nat /\ era \in Nat /\ calls \in Nat
      /\ issued + era + Cardinality(Busy) <= calls
  BY CallBound DEF TypeOK, Budget
<1>6. issued' + era' + Cardinality(Busy') <= calls'
  <2>1. PICK b \in Nat, c \in Nat :
          b = Cardinality(Busy') /\ c = Cardinality(Busy) /\ b = c - 1
    BY <1>3, <1>4
  <2>2. issued + era + 1 + b <= calls
    BY <1>5, <2>1
  <2> QED
    BY <1>1, <1>5, <2>1, <2>2
<1> QED
  BY <1>1, <1>3, <1>6 DEF Budget

-----------------------------------------------------------------------------
(* Steps that issue no token                                               *)

\* Rows may be revoked, unless a rotation holds them; sessions may change their status.
Revoking ==
    /\ token' \in [Tokens -> Rows]
    /\ \A t \in Tokens :
         /\ token'[t].device = token[t].device /\ token'[t].next = token[t].next
         /\ token'[t].root = token[t].root /\ token'[t].since = token[t].since
         /\ token'[t].late = token[t].late
         /\ token'[t].astray = token[t].astray
         /\ token[t].revoked # "no" => token'[t].revoked # "no"
         /\ TokenLocked(t) => token'[t].revoked = token[t].revoked
    /\ session' \in [Devices -> Sessions]
    /\ \A d \in Devices : session'[d].current = session[d].current

\* Such a step keeps the invariant when it explains the tokens it revokes, ends no
\* session whose token stays usable, and leaves calls with what they rely on.
LEMMA QuietKeepsIInv ==
  ASSUME IInv, Revoking, issued' = issued, Budget',
         calls' \in 0..MaxCalls, calls <= calls',
         era' \in {era, era + 1}, era' <= calls',
         user' \in Users, Counts',
         guesses' \in [count : 0..MaxAttempts, stale : BOOLEAN],
         blacklist' \in SUBSET Issued, blacklist \subseteq blacklist',
         halfway' \in SUBSET Issued, lost' \in SUBSET Issued,
         \A t \in Issued : Explained(t)' /\ (Delivered(t)' <=> Delivered(t)),
         era' # era => \A t \in Issued : Usable(t)' => token[t].late,
         \A d \in Devices :
            LET t == session[d].current
            IN  session'[d].status = "inactive" /\ Usable(t)'
                   => session[d].status = "inactive" \/ token[t].astray,
         job' \in [Threads -> Jobs],
         \A q \in Threads : job'[q] = job[q] \/ Good(job[q])',
         OneRotator'
  PROVE  IInv'
<1>1. /\ TypeOK /\ TokensKnown /\ JobsKnown /\ issued \in Nat /\ era \in Nat
      /\ calls \in Nat /\ MaxCalls \in Nat
  BY CallBound DEF IInv, TypeOK
<1>2. \A t \in Issued : t \in Tokens
  BY <1>1 DEF TypeOK, Issued, Tokens
<1>3. Issued' = Issued
  BY DEF Issued
<1>4. \A t : Usable(t)' => Usable(t)
  BY <1>2, <1>3 DEF Usable, Revoking
<1>5. \A d \in Devices :
         /\ session[d].current \in Issued \cup {NoToken}
         /\ session[d].current # NoToken => token[session[d].current].device = d
  BY <1>1 DEF TypeOK, Issued, NoToken
<1>6. TypeOK'
  <2>1. issued' \in 0..calls' /\ era' \in 0..calls'
    BY <1>1 DEF TypeOK
  <2>2. \A t \in Issued' : token'[t].next # NoToken => token'[t].next \in (t+1)..issued'
    BY <1>1, <1>2, <1>3 DEF TypeOK, Revoking
  <2>3. \A d \in Devices :
           LET t == session'[d].current
           IN  t \in 0..issued' /\ (t # NoToken => token'[t].device = d)
    BY <1>1, <1>2, <1>5 DEF Revoking, TypeOK
  <2> QED
    BY <1>3, <2>1, <2>2, <2>3 DEF TypeOK, Revoking
<1>7. TokensKnown'
  <2> SUFFICES ASSUME NEW t \in Issued
               PROVE  /\ token'[t].root <= t /\ token'[t].since <= era'
                      /\ token'[t].late => token'[t].astray
                      /\ Explained(t)'
    BY <1>3 DEF TokensKnown
  <2>1. /\ t \in Tokens /\ token[t].since \in Nat
        /\ token[t].root <= t /\ token[t].since <= era
        /\ token[t].late => token[t].astray
    BY <1>1, <1>2 DEF TokensKnown, TypeOK, Rows, Eras
  <2> QED
    BY <1>1, <2>1 DEF Revoking
<1>8. JobsKnown'
  <2>1. ASSUME NEW j \in Jobs, Good(j), j.op = "rotate" => TokenLocked(j.token)
        PROVE  Good(j)'
    <3>1. j.op = "rotate" => Usable(j.token)' /\ Replaced(j.token)' = Replaced(j.token)
      BY <1>2, <1>3, <2>1 DEF Good, Known, Usable, Replaced, Revoking
    <3>2. j.op = "rotate" => token'[j.token].device = token[j.token].device
      BY <1>2, <2>1 DEF Good, Known, Usable, Revoking
    <3>3. Known(j)'
      <4>1. j.op \in {"refresh", "rotate"} => Delivered(j.token)'
        BY <2>1 DEF Good, Known, Delivered
      <4>2. \A t \in Issued : /\ token'[t].device = token[t].device
                              /\ token'[t].root = token[t].root
        BY <1>2 DEF Revoking
      <4>3. j.since <= era'
        BY <1>1, <2>1 DEF Good, Known, Jobs, Eras
      <4> QED
        BY <1>3, <2>1, <3>1, <3>2, <4>1, <4>2, <4>3 DEF Good, Known
    <3>4. EndsSessions(j)'
      <4>1. \A t \in Issued : /\ token'[t].astray = token[t].astray
                              /\ token[t].revoked # "no" => token'[t].revoked # "no"
        BY <1>2 DEF Revoking
      <4>2. ASSUME NEW d \in Devices, NEW t, t = session'[d].current, Usable(t)'
            PROVE  /\ t = session[d].current /\ Usable(t)
                   /\ token'[t].astray = token[t].astray
        <5>1. t = session[d].current
          BY <4>2 DEF Revoking
        <5>2. Usable(t)
          BY <1>4, <4>2
        <5>3. t \in Issued
          BY <5>2 DEF Usable
        <5> QED
          BY <4>1, <5>1, <5>2, <5>3
      <4>3. j.device \in Devices /\ j.kicked \subseteq Devices
            /\ j.token \in Issued \cup {NoToken}
        BY <2>1 DEF Jobs, Good, Known
      <4>4. ASSUME NEW e \in Devices, NEW t, t = session'[e].current, Usable(t)',
                   j.op = "login_open", e \in j.kicked
            PROVE  t \in j.seen \/ token'[t].astray
        BY <2>1, <4>2, <4>4 DEF Good, EndsSessions
      <4>5. ASSUME NEW t, t = session'[j.device].current, Usable(t)',
                   j.op \in {"revoke_session", "closing"}
            PROVE  t = j.token \/ token'[t].astray
        BY <2>1, <4>2, <4>3, <4>5 DEF Good, EndsSessions
      <4>6. j.op = "closing" => j.token = NoToken \/ token'[j.token].revoked # "no"
        BY <2>1, <4>1, <4>3 DEF Good, EndsSessions
      <4> QED
        BY <4>3, <4>4, <4>5, <4>6 DEF EndsSessions
    <3>5. EndsEra(j)'
      BY <1>2, <1>3, <1>4, <2>1 DEF Good, EndsEra, Revoking, Covered
    <3> QED
      BY <3>3, <3>4, <3>5 DEF Good
  <2>2. ASSUME NEW q \in Threads, job'[q] = job[q]
        PROVE  Good(job[q])'
    <3>1. job[q] \in Jobs /\ Good(job[q])
      BY <1>1 DEF TypeOK, JobsKnown
    <3>2. job[q].op = "rotate" => TokenLocked(job[q].token)
      BY DEF TokenLocked
    <3>3. PICK j \in Jobs : j = job[q]
      BY <3>1
    <3>4. Good(j)'
      BY <2>1, <3>1, <3>2, <3>3
    <3> QED
      BY <2>2, <3>3, <3>4 DEF Good, Known, EndsSessions, EndsEra
  <2> QED
    BY <2>2 DEF JobsKnown
<1>9. OneUsablePerChain' /\ RevocationReachesAll'
  BY <1>1, <1>2, <1>3, <1>4
  DEF IInv, OneUsablePerChain, RevocationReachesAll, Revoking
<1>10. InactiveSessionHasNoToken'
  BY <1>2, <1>4 DEF IInv, InactiveSessionHasNoToken, Revoking, Usable
<1>11. OrphanHasCause'
  <2> SUFFICES ASSUME NEW t \in Issued, Usable(t)',
                      session'[token'[t].device].current # t, Delivered(t)'
               PROVE  Replaced(t)'
    BY <1>3 DEF OrphanHasCause, Delivered, Replaced
  <2>1. /\ Usable(t) /\ Delivered(t) /\ token[t].device \in Devices
        /\ session[token[t].device].current # t
    BY <1>1, <1>2, <1>4 DEF Revoking, TypeOK, Rows
  <2>2. Replaced(t)
    BY <2>1 DEF IInv, OrphanHasCause, Delivered, Replaced
  <2> QED
    BY <1>2, <1>3, <2>2 DEF Replaced, Revoking
<1> QED
  BY <1>6, <1>7, <1>8, <1>9, <1>10, <1>11 DEF IInv

-----------------------------------------------------------------------------
(* Calls that only read                                                    *)

\* As long as p links no token, before or after, who has which token is a matter of
\* the rows.
LEMMA DeliveredStays ==
  ASSUME TypeOK, UNCHANGED <<issued, lost>>, NEW p \in Threads, NEW j \in Jobs,
         job' = [job EXCEPT ![p] = j], job[p].op # "oauth_link", j.op # "oauth_link"
  PROVE  \A t : Delivered(t)' <=> Delivered(t)
<1>1. \A t : Linking(t)' <=> Linking(t)
  BY JobIs DEF Linking
<1>2. Issued' = Issued
  BY DEF Issued
<1> QED
  BY <1>1, <1>2 DEF Delivered

\* Explanations last, but for a call that is ending a session.
LEMMA ExplanationsLast ==
  ASSUME TypeOK, TokensKnown, token' = token, blacklist \subseteq blacklist',
         halfway \subseteq halfway', NEW p \in Threads, NEW j \in Jobs,
         job' = [job EXCEPT ![p] = j],
         job[p].op = "closing" =>
            j.op = "closing" \/ job[p].token = NoToken
               \/ job[p].token \in blacklist' \cup halfway',
         j.token = job[p].token \/ j.op # "closing"
  PROVE  \A t \in Issued : Explained(t)'
<1>1. /\ job'[p] = j
      /\ \A q \in Threads : q # p => job'[q] = job[q]
  BY JobIs
<1>2. NoToken \notin Issued
  BY DEF NoToken, Issued
<1>3. \A t \in Issued : Closing(t) => Closing(t)' \/ t \in blacklist' \cup halfway'
  BY <1>1, <1>2 DEF Closing
<1> QED
  BY <1>3 DEF TokensKnown, Explained, Covered

\* A call may begin or go on with j when it may rely on what j says.
LEMMA JobKeepsIInv ==
  ASSUME IInv, UNCHANGED <<rows, history>>, NEW p \in Threads, NEW j \in Jobs,
         job' = [job EXCEPT ![p] = j], job[p].op \notin {"closing", "oauth_link"},
         j.op \notin {"closing", "oauth_link"},
         calls' \in 0..MaxCalls, calls <= calls', Budget', Good(j),
         j.op = "rotate" => ~TokenLocked(j.token)
  PROVE  IInv'
<1>1. /\ TypeOK /\ Counts /\ OneRotator /\ TokensKnown
      /\ UNCHANGED <<user, issued, token, session, blacklist, era, halfway, lost,
                     guesses>>
  BY DEF IInv, rows, history
<1>2. /\ job' \in [Threads -> Jobs] /\ job'[p] = j
      /\ \A q \in Threads : q # p => job'[q] = job[q]
  BY <1>1, JobIs
<1>3. \A t \in Issued : Explained(t)' /\ (Delivered(t)' <=> Delivered(t))
  BY <1>1, ExplanationsLast, DeliveredStays
<1>4. Good(j)'
  <2>1. Delivered(j.token)' <=> Delivered(j.token)
    BY <1>1, DeliveredStays
  <2> QED
    BY <1>1, <2>1
    DEF Good, Known, EndsSessions, EndsEra, Issued, Usable, Replaced, Covered
<1>5. Good(job[p])'
  BY <1>2, <1>4 DEF Good, Known, EndsSessions, EndsEra
<1>6. OneRotator'
  BY <1>1, <1>2 DEF OneRotator, TokenLocked
<1>7. Revoking
  BY <1>1 DEF Revoking, TypeOK
<1>8. Counts' /\ \A t : Usable(t)' <=> Usable(t)
  BY <1>1 DEF Counts, Usable, Issued
<1> QED
  BY <1>1, <1>2, <1>3, <1>5, <1>6, <1>7, <1>8, QuietKeepsIInv
  DEF TypeOK

LEMMA BeginKeepsIInv ==
  ASSUME IInv, UNCHANGED <<rows, history>>, NEW p \in Threads, NEW j \in Jobs,
         Start(p, j), Good(j), j.op \notin {"rotate", "closing", "oauth_link"}
  PROVE  IInv'
<1>1. issued' = issued /\ era' = era /\ TypeOK /\ Budget
  BY DEF IInv, rows, history
<1>2. /\ Budget' /\ calls' \in 0..MaxCalls /\ calls <= calls'
      /\ job[p].op = "idle" /\ job' = [job EXCEPT ![p] = j]
  <2>1. Budget' /\ calls' \in 0..MaxCalls /\ calls \in 0..calls'
    BY <1>1, StartKeepsBudget
  <2> QED
    BY <2>1, IdleTyped DEF Start, Free
<1> QED
  BY <1>2, JobKeepsIInv

LEMMA GoOnKeepsIInv ==
  ASSUME IInv, UNCHANGED <<rows, history>>, NEW p \in Threads, NEW j \in Jobs,
         Continue(p, j), Good(j), job[p].op \notin {"idle", "closing", "oauth_link"},
         j.op \notin {"closing", "oauth_link"},
         j.op = "rotate" => ~TokenLocked(j.token)
  PROVE  IInv'
<1>1. issued' = issued /\ era' = era /\ TypeOK /\ Budget /\ job[p] # Idle
  BY IdleTyped DEF IInv, rows, history
<1>2. /\ Budget' /\ calls' \in 0..MaxCalls /\ calls <= calls'
      /\ job' = [job EXCEPT ![p] = j]
  <2>1. Budget' /\ calls' \in 0..MaxCalls
    BY <1>1, ContinueKeepsBudget
  <2> QED
    BY <1>1, <2>1 DEF Continue, TypeOK
<1> QED
  BY <1>2, JobKeepsIInv

\* The calls that begin by reading.
LEMMA ReadsKeepIInv ==
  ASSUME IInv, NEW p \in Threads,
         \/ WrongPassword(p)
         \/ \E d \in Devices : \/ Authenticate(p, d) \/ OAuthAuthenticate(p, d)
                               \/ BeginRevokeSession(p, d)
         \/ \E t \in Issued : BeginRefresh(p, t)
  PROVE  IInv'
<1>1. /\ TypeOK /\ user.attempts \in 0..MaxAttempts
      /\ era \in 0..MaxCalls /\ Issued \subseteq Tokens
  BY CallBound DEF IInv, TypeOK, Users, Issued, Tokens
<1>2. /\ Idle \in Jobs /\ Idle.token = NoToken /\ Idle.seen = {} /\ Idle.since = 0
      /\ NoToken \in Issued \cup {NoToken} /\ 0 <= era
  BY <1>1, IdleTyped DEF Idle
<1>3. CASE WrongPassword(p)
  <2> DEFINE j == [Idle EXCEPT !.op = "wrong_password", !.read = user.attempts]
  <2>1. /\ j \in Jobs /\ j.op = "wrong_password"
        /\ j.token = NoToken /\ j.seen = {} /\ j.since = 0
    BY <1>1, <1>2 DEF Jobs, Ops
  <2>2. Start(p, j) /\ UNCHANGED <<rows, history>>
    BY <1>3 DEF WrongPassword
  <2> HIDE DEF j
  <2>3. Good(j)
    BY <1>2, <2>1, PlainIsGood
  <2> QED
    BY <2>1, <2>2, <2>3, BeginKeepsIInv
<1>4. ASSUME NEW d \in Devices, Authenticate(p, d)
      PROVE  IInv'
  <2> DEFINE j == [Idle EXCEPT !.op = "login", !.device = d, !.since = era,
                               !.read = user.attempts]
  <2>1. /\ j \in Jobs /\ j.op = "login"
        /\ j.token = NoToken /\ j.seen = {} /\ j.since = era
    BY <1>1, <1>2 DEF Jobs, Ops, Eras
  <2>2. Start(p, j) /\ UNCHANGED <<rows, history>>
    BY <1>4 DEF Authenticate
  <2> HIDE DEF j
  <2>3. Good(j)
    BY <1>1, <1>2, <2>1, PlainIsGood
  <2> QED
    BY <2>1, <2>2, <2>3, BeginKeepsIInv
<1>5. ASSUME NEW d \in Devices, OAuthAuthenticate(p, d)
      PROVE  IInv'
  <2> DEFINE j == [Idle EXCEPT !.op = "oauth", !.device = d, !.since = era]
  <2>1. /\ j \in Jobs /\ j.op = "oauth"
        /\ j.token = NoToken /\ j.seen = {} /\ j.since = era
    BY <1>1, <1>2 DEF Jobs, Ops, Eras
  <2>2. Start(p, j) /\ UNCHANGED <<rows, history>>
    BY <1>5 DEF OAuthAuthenticate
  <2> HIDE DEF j
  <2>3. Good(j)
    BY <1>1, <1>2, <2>1, PlainIsGood
  <2> QED
    BY <2>1, <2>2, <2>3, BeginKeepsIInv
<1>6. ASSUME NEW d \in Devices, BeginRevokeSession(p, d)
      PROVE  IInv'
  <2> DEFINE j == [Idle EXCEPT !.op = "revoke_session", !.device = d,
                               !.token = session[d].current]
  <2>1. session[d].current \in Issued \cup {NoToken}
    BY <1>1 DEF TypeOK, Issued, NoToken
  <2>2. /\ j \in Jobs /\ j.op = "revoke_session" /\ j.device = d
        /\ j.token = session[d].current /\ j.seen = {} /\ j.since = 0
    BY <1>1, <1>2, <2>1 DEF Jobs, Ops
  <2>3. Start(p, j) /\ UNCHANGED <<rows, history>>
    BY <1>6 DEF BeginRevokeSession
  <2> HIDE DEF j
  <2>4. Good(j)
    BY <1>2, <2>1, <2>2 DEF Good, Known, EndsSessions, EndsEra
  <2> QED
    BY <2>2, <2>3, <2>4, BeginKeepsIInv
<1>7. ASSUME NEW t \in Issued, BeginRefresh(p, t)
      PROVE  IInv'
  <2> DEFINE j == [Idle EXCEPT !.op = "refresh", !.token = t]
  <2>1. /\ j \in Jobs /\ j.op = "refresh"
        /\ j.token = t /\ j.seen = {} /\ j.since = 0
    BY <1>1, <1>2 DEF Jobs, Ops
  <2>2. Start(p, j) /\ UNCHANGED <<rows, history>>
    BY <1>7 DEF BeginRefresh
  <2> HIDE DEF j
  <2>3. Delivered(j.token)
    BY <1>7, <2>1 DEF BeginRefresh
  <2>4. Good(j)
    BY <1>2, <2>1, <2>3, PlainIsGood
  <2> QED
    BY <2>1, <2>2, <2>4, BeginKeepsIInv
<1> QED
  BY <1>3, <1>4, <1>5, <1>6, <1>7

\* The row that a rotation takes is usable, and taken by nobody else.
LEMMA LockRefreshKeepsIInv ==
  ASSUME IInv, NEW p \in Threads, LockRefresh(p)
  PROVE  IInv'
<1> DEFINE t == job[p].token
           d == token[t].device
           j == [job[p] EXCEPT !.op = "rotate", !.device = d,
                               !.linked = session[d].current = t, !.since = era]
<1>1. /\ TypeOK /\ job[p] \in Jobs /\ Good(job[p]) /\ job[p].op = "refresh"
      /\ ~TokenLocked(t) /\ UNCHANGED <<rows, history>> /\ era \in Eras
  BY CallBound DEF IInv, TypeOK, JobsKnown, LockRefresh, Eras
<1>2. t \in Issued /\ token[t] \in Rows /\ Delivered(t)
  <2>1. t \in Issued /\ Delivered(t)
    BY <1>1 DEF Good, Known, Delivered
  <2>2. t \in Tokens
    BY <1>1, <2>1, CallBound DEF TypeOK, Issued, Tokens
  <2> QED
    BY <1>1, <2>1, <2>2 DEF TypeOK
<1>3. CASE StillRotatable(t) /\ Continue(p, j)
  <2>1. Usable(t) /\ (session[d].current = t \/ Replaced(t))
    BY <1>2, <1>3 DEF StillRotatable, IInv, OrphanHasCause, Replaced, Delivered
  <2>2. /\ j \in Jobs /\ j.op = "rotate" /\ j.token = t /\ j.device = d
        /\ j.linked = (session[d].current = t) /\ j.since = era /\ j.seen = job[p].seen
    BY <1>1, <1>2 DEF Jobs, Ops, Rows
  <2>3. j.seen \subseteq Issued /\ era <= era
    BY <1>1, <2>2, CallBound DEF Good, Known, Eras
  <2> HIDE DEF j
  <2>4. Good(j)
    BY <1>2, <2>1, <2>2, <2>3 DEF Good, Known, EndsSessions, EndsEra
  <2> QED
    BY <1>1, <1>3, <2>2, <2>4, GoOnKeepsIInv
<1>4. CASE Finish(p)
  BY <1>1, <1>4, IdleTyped, IdleIsGood, GoOnKeepsIInv
  DEF Finish, TypeOK, rows, history
<1> QED
  BY <1>3, <1>4 DEF LockRefresh

\* The sessions that a login ends, with their tokens, and what it leaves.
LEMMA OpenSessionKeepsIInv ==
  ASSUME IInv, NEW p \in Threads, OpenSession(p)
  PROVE  IInv'
<1>1. PICK gone \in SUBSET Devices :
        /\ Kicked(job[p].device, gone)
        /\ Continue(p, [job[p] EXCEPT
                          !.op = "login_open", !.kicked = gone,
                          !.others = ActiveDevices \ {job[p].device},
                          !.seen = {session[e].current : e \in gone}
                                     \ {NoToken}])
  BY DEF OpenSession
<1> DEFINE others == ActiveDevices \ {job[p].device}
           seen == {session[e].current : e \in gone} \ {NoToken}
           j == [job[p] EXCEPT !.op = "login_open", !.kicked = gone,
                               !.others = others, !.seen = seen]
<1>2. /\ TypeOK /\ job[p] \in Jobs /\ Good(job[p]) /\ job[p].op = "login"
      /\ UNCHANGED <<rows, history>>
  BY DEF IInv, TypeOK, JobsKnown, OpenSession
<1>3. seen \subseteq Issued /\ Issued \subseteq Tokens
  BY <1>2, CallBound DEF TypeOK, Issued, Tokens, NoToken
<1>4. Cardinality(others \ gone) < MaxSessions
  <2>1. others \subseteq Devices
    BY DEF ActiveDevices
  <2>2. IsFiniteSet(others)
    BY <2>1, DevicesAssumption, FS_Subset
  <2>3. Cardinality(others) \in Nat
    BY <2>2, FS_CardinalityType
  <2>4. CASE Cardinality(others) >= MaxSessions
    BY <1>1, <2>4, SessionBounds DEF Kicked
  <2>5. CASE ~(Cardinality(others) >= MaxSessions)
    <3>1. gone = {}
      BY <1>1, <2>5 DEF Kicked
    <3>2. others \ gone = others
      BY <3>1
    <3> QED
      BY <2>3, <2>5, <3>2, SessionBounds
  <2> QED
    BY <2>4, <2>5
<1>5. others \in SUBSET Devices
  BY DEF ActiveDevices
<1> HIDE DEF others
<1>6. /\ j \in Jobs /\ j.op = "login_open" /\ j.kicked = gone /\ j.seen = seen
      /\ j.others = others /\ j.token = job[p].token /\ j.since = job[p].since
  BY <1>2, <1>3, <1>5 DEF Jobs, Ops
<1>7. \A e \in gone : Usable(session[e].current) => session[e].current \in seen
  BY DEF Usable, Issued, NoToken
<1>8. Continue(p, j)
  BY <1>1 DEF others
<1> HIDE DEF j, seen
<1>9. Good(j)
  BY <1>2, <1>3, <1>4, <1>6, <1>7 DEF Good, Known, EndsSessions, EndsEra
<1> QED
  BY <1>2, <1>6, <1>8, <1>9, GoOnKeepsIInv

\* What an UPDATE of all tokens has listed is all there is.
LEMMA UpdateTokensKeepsIInv ==
  ASSUME IInv, NEW p \in Threads, UpdateTokens(p)
  PROVE  IInv'
<1> DEFINE j == [job[p] EXCEPT !.op = "updating", !.seen = RevokedByUpdate]
<1>1. /\ TypeOK /\ job[p] \in Jobs /\ Good(job[p]) /\ job[p].op = "revoke_all"
      /\ UNCHANGED <<rows, history>> /\ Continue(p, j)
  BY DEF IInv, TypeOK, JobsKnown, UpdateTokens
<1>2. RevokedByUpdate \subseteq Issued /\ Issued \subseteq Tokens
  BY <1>1, CallBound DEF TypeOK, Issued, Tokens, RevokedByUpdate
<1>3. /\ j \in Jobs /\ j.op = "updating" /\ j.seen = RevokedByUpdate
      /\ j.token = job[p].token /\ j.since = job[p].since
  BY <1>1, <1>2 DEF Jobs, Ops
<1> HIDE DEF j
<1>4. \A t \in Issued : token[t].revoked = "no" => Covered(t)
  BY <1>1 DEF Good, EndsEra
<1>5. Good(j)
  BY <1>1, <1>2, <1>3, <1>4
  DEF Good, Known, EndsSessions, EndsEra, Usable, RevokedByUpdate
<1> QED
  BY <1>1, <1>3, <1>5, GoOnKeepsIInv

-----------------------------------------------------------------------------
(* Steps of one call that write and issue no token                         *)

LEMMA StepKeepsIInv ==
  ASSUME IInv, Revoking, UNCHANGED <<issued, era>>,
         NEW p \in Threads, NEW j \in Jobs,
         \/ Start(p, j)
         \/ Continue(p, j) /\ job[p] # Idle /\ (job[p].op # "oauth_link" \/ j = Idle),
         Good(j)', j.op # "rotate",
         user' \in Users, Counts',
         guesses' \in [count : 0..MaxAttempts, stale : BOOLEAN],
         blacklist' \in SUBSET Issued, blacklist \subseteq blacklist',
         halfway' \in SUBSET Issued, lost' \in SUBSET Issued,
         \A t \in Issued : Explained(t)' /\ (Delivered(t)' <=> Delivered(t)),
         \A d \in Devices :
            LET t == session[d].current
            IN  session'[d].status = "inactive" /\ Usable(t)'
                   => session[d].status = "inactive" \/ token[t].astray
  PROVE  IInv'
<1>1. TypeOK /\ Budget /\ OneRotator /\ calls \in Nat /\ era \in 0..calls
  BY CallBound DEF IInv, TypeOK
<1>2. Budget' /\ calls' \in 0..MaxCalls /\ calls <= calls'
  <2>1. CASE Start(p, j)
    <3>1. Budget' /\ calls' \in 0..MaxCalls /\ calls \in 0..calls'
      BY <1>1, <2>1, StartKeepsBudget
    <3> QED
      BY <3>1
  <2>2. CASE Continue(p, j) /\ job[p] # Idle /\ (job[p].op # "oauth_link" \/ j = Idle)
    <3>1. Budget' /\ calls' \in 0..MaxCalls
      BY <1>1, <2>2, ContinueKeepsBudget
    <3> QED
      BY <1>1, <2>2, <3>1 DEF Continue
  <2> QED
    BY <2>1, <2>2
<1>3. job' = [job EXCEPT ![p] = j]
  BY DEF Start, Continue
<1>4. /\ job' \in [Threads -> Jobs] /\ job'[p] = j
      /\ \A q \in Threads : q # p => job'[q] = job[q]
  BY <1>1, <1>3, JobIs
<1>5. Good(job[p])'
  BY <1>4 DEF Good, Known, EndsSessions, EndsEra
<1>6. OneRotator'
  BY <1>1, <1>4 DEF OneRotator
<1>7. era' \in {era, era + 1} /\ era' <= calls' /\ (era' # era => FALSE)
  BY <1>1, <1>2
<1> QED
  BY <1>2, <1>4, <1>5, <1>6, <1>7, QuietKeepsIInv

\* What leaves the tokens and the sessions alone.
LEMMA NothingRevoked ==
  ASSUME TypeOK, UNCHANGED <<token, session>>
  PROVE  Revoking
  BY DEF TypeOK, Revoking

\* As long as no failure is lost, the counter is the number of failures.
LEMMA SaveFailureKeepsIInv ==
  ASSUME IInv, NEW p \in Threads, SaveFailure(p)
  PROVE  IInv'
<1> DEFINE n == Incremented(job[p].read)
<1>1. /\ TypeOK /\ Counts /\ TokensKnown
      /\ job[p] \in Jobs /\ job[p].op = "wrong_password"
      /\ UNCHANGED <<issued, token, session, blacklist, era, halfway, lost>>
      /\ Finish(p) /\ job[p] # Idle
  BY IdleTyped DEF IInv, TypeOK, SaveFailure
<1>2. /\ user \in Users /\ guesses \in [count : 0..MaxAttempts, stale : BOOLEAN]
      /\ job[p].read \in 0..MaxAttempts /\ MaxAttempts \in Nat
  BY <1>1, SessionBounds DEF TypeOK, Jobs
<1>3. n \in 0..MaxAttempts
  BY <1>2 DEF Incremented
<1>4. user' = [user EXCEPT !.attempts = n, !.locked = n = MaxAttempts]
  BY DEF SaveFailure
<1>5. user' \in Users /\ user'.attempts = n
  BY <1>2, <1>3, <1>4 DEF Users
<1>6. /\ guesses' \in [count : 0..MaxAttempts, stale : BOOLEAN]
      /\ guesses'.count = Incremented(guesses.count)
      /\ guesses'.stale = (guesses.stale \/ job[p].read # user.attempts)
  BY <1>2 DEF SaveFailure, Incremented
<1>7. Counts'
  BY <1>1, <1>5, <1>6 DEF Counts
<1>8. /\ blacklist' \in SUBSET Issued /\ blacklist \subseteq blacklist'
      /\ halfway' \in SUBSET Issued /\ lost' \in SUBSET Issued
  BY <1>1 DEF TypeOK
<1>9. Good(Idle)' /\ Idle \in Jobs /\ Idle.op # "rotate"
  BY <1>1, IdleTyped, IdleIsGood DEF TypeOK
<1>10. \A t \in Issued : Explained(t)' /\ (Delivered(t)' <=> Delivered(t))
  BY <1>1, <1>9, ExplanationsLast, DeliveredStays, IdleTyped DEF Finish, Continue
<1> QED
  BY <1>1, <1>5, <1>6, <1>7, <1>8, <1>9, <1>10, NothingRevoked, StepKeepsIInv
  DEF Finish

LEMMA LockElapsesKeepsIInv == IInv /\ LockElapses => IInv'
<1> SUFFICES ASSUME IInv, LockElapses PROVE IInv'
  OBVIOUS
<1>1. /\ TypeOK /\ TokensKnown /\ user' = [user EXCEPT !.locked = FALSE]
      /\ UNCHANGED <<issued, token, session, blacklist, era, halfway, lost, guesses,
                     calls, job>>
  BY DEF IInv, LockElapses, history
<1>2. user' \in Users /\ user'.attempts = user.attempts
  BY <1>1 DEF TypeOK, Users
<1>3. Counts' /\ OneRotator' /\ Budget'
  BY <1>1, <1>2 DEF IInv, Counts, OneRotator, Budget, Busy
<1>4. \A t \in Issued : Explained(t)' /\ (Delivered(t)' <=> Delivered(t))
  BY <1>1 DEF TokensKnown, Explained, Covered, Closing, Delivered, Linking, Issued
<1>5. /\ calls' \in 0..MaxCalls /\ calls <= calls' /\ era' <= calls'
      /\ era' \in {era, era + 1} /\ (era' # era => FALSE)
      /\ blacklist' \in SUBSET Issued /\ blacklist \subseteq blacklist'
      /\ halfway' \in SUBSET Issued /\ lost' \in SUBSET Issued
      /\ guesses' \in [count : 0..MaxAttempts, stale : BOOLEAN]
      /\ job' \in [Threads -> Jobs]
  BY <1>1, CallBound DEF TypeOK
<1> QED
  BY <1>1, <1>2, <1>3, <1>4, <1>5, NothingRevoked, QuietKeepsIInv

\* Deactivation, its first commit, and the return of the account.
LEMMA ActivationKeepsIInv ==
  ASSUME IInv, NEW p \in Threads, DeactivateUser(p) \/ ReactivateUser(p)
  PROVE  IInv'
<1>1. /\ TypeOK /\ Counts /\ TokensKnown
      /\ UNCHANGED <<issued, token, session, blacklist, era, halfway, lost,
                     guesses>>
  BY DEF IInv, DeactivateUser, ReactivateUser, history
<1>2. user' \in Users /\ user'.attempts = user.attempts
  BY <1>1 DEF TypeOK, Users, DeactivateUser, ReactivateUser
<1>3. PICK j \in Jobs : /\ Start(p, j) /\ j.op \in {"deactivate", "idle"}
                        /\ j.token = NoToken /\ j.seen = {}
                        /\ (j = Idle \/ j.op = "deactivate") /\ j.since = 0
  <2> DEFINE k == [Idle EXCEPT !.op = "deactivate"]
  <2>1. k \in Jobs /\ k.op = "deactivate" /\ k.token = NoToken /\ k.seen = {}
        /\ k.since = 0 /\ Idle.since = 0
    BY IdleTyped DEF Jobs, Ops, Idle
  <2>2. Start(p, k) \/ Start(p, Idle)
    BY DEF DeactivateUser, ReactivateUser
  <2> HIDE DEF k
  <2> QED
    BY <2>1, <2>2, IdleTyped
<1>4. Good(j)'
  BY <1>1, <1>3, IdleIsGood DEF Good, Known, EndsSessions, EndsEra, TypeOK
<1>5. Counts'
  BY <1>1, <1>2 DEF Counts
<1>6. \A t \in Issued : Explained(t)' /\ (Delivered(t)' <=> Delivered(t))
  BY <1>1, <1>3, ExplanationsLast, DeliveredStays, IdleTyped DEF Start, Free
<1>7. /\ blacklist' \in SUBSET Issued /\ blacklist \subseteq blacklist'
      /\ halfway' \in SUBSET Issued /\ lost' \in SUBSET Issued
      /\ guesses' \in [count : 0..MaxAttempts, stale : BOOLEAN]
  BY <1>1 DEF TypeOK
<1> QED
  BY <1>1, <1>2, <1>3, <1>4, <1>5, <1>6, <1>7, NothingRevoked, StepKeepsIInv

\* A logout_all blacklists what is not revoked; the rest has an explanation.
LEMMA BlacklistingKeepsIInv ==
  ASSUME IInv, NEW p \in Threads, BeginRevokeAll(p) \/ ContinueDeactivate(p)
  PROVE  IInv'
<1> DEFINE j == RevokingAll
<1>1. /\ TypeOK /\ Counts /\ TokensKnown
      /\ Start(p, j) \/ (Continue(p, j) /\ job[p].op = "deactivate")
      /\ blacklist' = blacklist \cup Blacklisted
      /\ UNCHANGED <<user, issued, token, session, era, halfway, lost, guesses>>
  BY DEF IInv, BeginRevokeAll, ContinueDeactivate, history
<1>2. /\ j \in Jobs /\ j.op = "revoke_all" /\ j.token = NoToken /\ j.seen = {}
      /\ j.since = 0
  BY IdleTyped DEF RevokingAll, Jobs, Ops, Idle
<1> HIDE DEF j
<1>3. job' = [job EXCEPT ![p] = j] /\ job[p].op \notin {"closing", "oauth_link"}
  BY <1>1, IdleTyped DEF Start, Free, Continue
<1>4. \A t \in Issued : Explained(t)' /\ (Delivered(t)' <=> Delivered(t))
  BY <1>1, <1>2, <1>3, ExplanationsLast, DeliveredStays
<1>5. \A t \in Issued : token[t].revoked = "no" => Covered(t)'
  BY <1>1 DEF Blacklisted, Covered
<1>6. Good(j)'
  BY <1>1, <1>2, <1>5, IdleTyped
  DEF Good, Known, EndsSessions, EndsEra, TypeOK, Issued
<1>7. Counts' /\ user' \in Users
  BY <1>1 DEF Counts, TypeOK
<1>8. /\ blacklist' \in SUBSET Issued /\ blacklist \subseteq blacklist'
      /\ halfway' \in SUBSET Issued /\ lost' \in SUBSET Issued
      /\ guesses' \in [count : 0..MaxAttempts, stale : BOOLEAN]
  BY <1>1 DEF TypeOK, Blacklisted
<1> QED
  BY <1>1, <1>2, <1>4, <1>6, <1>7, <1>8, NothingRevoked, StepKeepsIInv, IdleTyped

LEMMA OAuthOpenSessionKeepsIInv ==
  ASSUME IInv, NEW p \in Threads, OAuthOpenSession(p)
  PROVE  IInv'
<1> DEFINE d == job[p].device
<1>1. /\ TypeOK /\ Counts /\ TokensKnown
      /\ job[p] \in Jobs /\ Good(job[p]) /\ job[p].op = "oauth"
      /\ Continue(p, [job[p] EXCEPT !.op = "oauth_open"]) /\ job[p] # Idle
      /\ UNCHANGED <<user, issued, token, blacklist, era, halfway, lost,
                     guesses>>
      /\ session' = [session EXCEPT ![d].status = "active"]
  BY IdleTyped DEF IInv, TypeOK, JobsKnown, OAuthOpenSession, history
<1>2. PICK j \in Jobs :
        /\ Continue(p, j) /\ j.op = "oauth_open" /\ j.token = job[p].token
        /\ j.seen = job[p].seen /\ j.since = job[p].since
  BY <1>1 DEF Jobs, Ops
<1>3. Good(j)'
  BY <1>1, <1>2, IdleTyped DEF Good, Known, EndsSessions, EndsEra, Issued
<1>4. /\ session' \in [Devices -> Sessions]
      /\ \A e \in Devices : /\ session'[e].current = session[e].current
                            /\ session'[e].status \in {session[e].status, "active"}
  <2>1. d \in Devices /\ \A e \in Devices : session[e] \in Sessions
    BY <1>1 DEF TypeOK, Jobs
  <2>2. \A e \in Devices :
          session'[e] = IF e = d THEN [session[e] EXCEPT !.status = "active"]
                        ELSE session[e]
    BY <1>1, <2>1 DEF TypeOK
  <2>3. DOMAIN session' = Devices /\ session' = [e \in Devices |-> session'[e]]
    BY <1>1 DEF TypeOK
  <2> QED
    BY <2>1, <2>2, <2>3 DEF Sessions
<1>5. Revoking
  BY <1>1, <1>4 DEF Revoking, TypeOK
<1>6. \A t \in Issued : Explained(t)' /\ (Delivered(t)' <=> Delivered(t))
  BY <1>1, <1>2, ExplanationsLast, DeliveredStays DEF Continue
<1>7. /\ user' \in Users /\ Counts'
      /\ blacklist' \in SUBSET Issued /\ blacklist \subseteq blacklist'
      /\ halfway' \in SUBSET Issued /\ lost' \in SUBSET Issued
      /\ guesses' \in [count : 0..MaxAttempts, stale : BOOLEAN]
  BY <1>1 DEF TypeOK, Counts
<1> QED
  BY <1>1, <1>2, <1>3, <1>4, <1>5, <1>6, <1>7, StepKeepsIInv

\* One token is revoked, for the reason r.
LEMMA RevokingOne ==
  ASSUME TypeOK, session' = session, NEW t \in Tokens, NEW r \in Reasons \ {"no"},
         ~TokenLocked(t), token' = [token EXCEPT ![t].revoked = r]
  PROVE  /\ Revoking /\ token'[t].revoked = r
         /\ \A u \in Tokens : u # t => token'[u] = token[u]
<1>1. \A u \in Tokens : token'[u] = IF u = t THEN [token[u] EXCEPT !.revoked = r]
                                    ELSE token[u]
  BY DEF TypeOK
<1>2. token' \in [Tokens -> Rows]
  BY DEF TypeOK, Rows
<1>3. \A u \in Tokens : token[u] \in Rows
  BY DEF TypeOK
<1> QED
  BY <1>1, <1>2, <1>3 DEF TypeOK, Revoking, Rows

LEMMA LogoutKeepsIInv ==
  ASSUME IInv, NEW p \in Threads, NEW t \in Issued, Logout(p, t)
  PROVE  IInv'
<1>1. /\ TypeOK /\ Counts /\ TokensKnown /\ Start(p, Idle) /\ ~TokenLocked(t)
      /\ token' = [token EXCEPT ![t].revoked = "logout"]
      /\ UNCHANGED <<user, issued, session, blacklist, era, halfway, lost,
                     guesses>>
  BY DEF IInv, Logout, history
<1>2. t \in Tokens /\ Issued \subseteq Tokens
  BY <1>1, CallBound DEF TypeOK, Issued, Tokens
<1>3. /\ Revoking /\ token'[t].revoked = "logout"
      /\ \A u \in Tokens : u # t => token'[u] = token[u]
  BY <1>1, <1>2, RevokingOne DEF Reasons
<1>4. \A u : Closing(u) => Closing(u)'
  BY <1>1, IdleTyped, JobIs DEF Start, Free, Closing
<1>5. \A u \in Issued : Explained(u)' /\ (Delivered(u)' <=> Delivered(u))
  <2>1. \A u \in Issued : Explained(u)'
    BY <1>1, <1>2, <1>3, <1>4 DEF TokensKnown, Explained, Covered
  <2> QED
    BY <1>1, <2>1, DeliveredStays, IdleTyped DEF Start, Free
<1>6. /\ user' \in Users /\ Counts' /\ Good(Idle)'
      /\ blacklist' \in SUBSET Issued /\ blacklist \subseteq blacklist'
      /\ halfway' \in SUBSET Issued /\ lost' \in SUBSET Issued
      /\ guesses' \in [count : 0..MaxAttempts, stale : BOOLEAN]
  BY <1>1, IdleIsGood DEF TypeOK, Counts
<1> QED
  BY <1>1, <1>3, <1>5, <1>6, IdleTyped, StepKeepsIInv

\* revoke_session revokes the token it has read; its access token is explained
\* by the call itself.
LEMMA RevokeCurrentKeepsIInv ==
  ASSUME IInv, NEW p \in Threads, RevokeCurrent(p)
  PROVE  IInv'
<1> DEFINE t == job[p].token
<1>1. /\ TypeOK /\ Counts /\ TokensKnown /\ job[p] \in Jobs /\ Good(job[p])
      /\ job[p].op = "revoke_session" /\ job[p] # Idle
      /\ ~TokenLocked(t) /\ token' = Revoked(t)
      /\ Continue(p, [job[p] EXCEPT !.op = "closing"])
      /\ UNCHANGED <<user, issued, session, blacklist, era, halfway, lost,
                     guesses>>
  BY IdleTyped DEF IInv, TypeOK, JobsKnown, RevokeCurrent, history
<1>2. PICK j \in Jobs :
        /\ Continue(p, j) /\ j.op = "closing" /\ j.token = t
        /\ j.seen = job[p].seen /\ j.since = job[p].since
        /\ j.device = job[p].device
  BY <1>1 DEF Jobs, Ops
<1>3. t \in Issued \cup {NoToken} /\ Issued \subseteq Tokens
  BY <1>1, CallBound DEF Good, Known, TypeOK, Issued, Tokens
<1>4. /\ Revoking /\ (t # NoToken => token'[t].revoked = "security")
      /\ \A u \in Tokens : u # t => token'[u] = token[u]
  <2>1. CASE t = NoToken
    BY <1>1, <2>1, NothingRevoked DEF Revoked
  <2>2. CASE t # NoToken
    <3>1. t \in Tokens /\ session' = session
      BY <1>1, <1>3, <2>2
    <3>2. token' = [token EXCEPT ![t].revoked = "security"]
      BY <1>1, <2>2 DEF Revoked
    <3> HIDE DEF t
    <3> QED
      BY <1>1, <3>1, <3>2, RevokingOne DEF Reasons
  <2> QED
    BY <2>1, <2>2
<1>5. job'[p] = j /\ \A q \in Threads : q # p => job'[q] = job[q]
  BY <1>1, <1>2, JobIs DEF Continue
<1>6. \A u : u = t \/ Closing(u) => Closing(u)'
  BY <1>1, <1>2, <1>5 DEF Closing
<1>7. \A u \in Issued : Explained(u)' /\ (Delivered(u)' <=> Delivered(u))
  <2>1. \A u \in Issued : u = t \/ token'[u] = token[u]
    BY <1>3, <1>4
  <2>2. t \in Issued => token'[t].revoked = "security"
    BY <1>4 DEF Issued, NoToken
  <2>3. blacklist' = blacklist /\ halfway' = halfway
    BY <1>1
  <2>4. \A u \in Issued : Explained(u)'
    BY <1>1, <1>6, <2>1, <2>2, <2>3 DEF TokensKnown, Explained, Covered
  <2>5. \A u \in Issued : Delivered(u)' <=> Delivered(u)
    BY <1>1, <1>2, DeliveredStays DEF Continue
  <2> QED
    BY <2>4, <2>5
<1>8. /\ user' \in Users /\ Counts'
      /\ blacklist' \in SUBSET Issued /\ blacklist \subseteq blacklist'
      /\ halfway' \in SUBSET Issued /\ lost' \in SUBSET Issued
      /\ guesses' \in [count : 0..MaxAttempts, stale : BOOLEAN]
  BY <1>1 DEF TypeOK, Counts
<1>9. Good(j)'
  <2>1. /\ j.token \in Issued \cup {NoToken} /\ j.seen \subseteq Issued
        /\ j.since <= era /\ Issued' = Issued /\ era' = era
    BY <1>1, <1>2 DEF Good, Known, Issued
  <2>2. \A v : Usable(v)' => /\ v # t /\ Usable(v)
                            /\ token'[v].astray = token[v].astray
    <3>1. t \in Issued => token'[t].revoked # "no"
      BY <1>4 DEF NoToken, Issued
    <3>2. \A v \in Issued : v # t => token'[v] = token[v]
      BY <1>3, <1>4
    <3> HIDE DEF t
    <3> QED
      BY <2>1, <3>1, <3>2 DEF Usable
  <2>3. j.token = NoToken \/ token'[j.token].revoked # "no"
    BY <1>2, <1>4
  <2>4. LET u == session[j.device].current
        IN  Usable(u) => u = t \/ token[u].astray
    BY <1>1, <1>2 DEF Good, EndsSessions
  <2>5. EndsSessions(j)'
    BY <1>1, <1>2, <2>2, <2>3, <2>4 DEF EndsSessions
  <2> QED
    BY <1>2, <2>1, <2>5, IdleTyped DEF Good, Known, EndsEra
<1> QED
  BY <1>1, <1>2, <1>4, <1>7, <1>8, <1>9, StepKeepsIInv

\* The session ends after its token has been revoked.
LEMMA CloseSessionKeepsIInv ==
  ASSUME IInv, NEW p \in Threads, CloseSession(p)
  PROVE  IInv'
<1> DEFINE d == job[p].device
           t == job[p].token
<1>1. /\ TypeOK /\ Counts /\ TokensKnown /\ job[p] \in Jobs /\ Good(job[p])
      /\ job[p].op = "closing" /\ job[p] # Idle /\ Finish(p)
      /\ blacklist' = blacklist \cup ({t} \ {NoToken})
      /\ session' = [session EXCEPT ![d].status = "inactive"]
      /\ UNCHANGED <<user, issued, token, era, halfway, lost, guesses>>
  BY IdleTyped DEF IInv, TypeOK, JobsKnown, CloseSession, ClosedJtis, history
<1>2. /\ session' \in [Devices -> Sessions]
      /\ \A e \in Devices :
           /\ session'[e].current = session[e].current
           /\ session'[e].status = IF e = d THEN "inactive" ELSE session[e].status
  BY <1>1 DEF TypeOK, Sessions, Jobs
<1>3. Revoking
  BY <1>1, <1>2 DEF Revoking, TypeOK
<1>4. Usable(session[d].current) => token[session[d].current].astray
  BY <1>1 DEF Good, EndsSessions, Usable, NoToken, Issued
<1>5. \A e \in Devices :
         LET u == session[e].current
         IN  session'[e].status = "inactive" /\ Usable(u)'
                => session[e].status = "inactive" \/ token[u].astray
  BY <1>1, <1>2, <1>4 DEF Usable, Issued
<1>6. \A u \in Issued : Explained(u)' /\ (Delivered(u)' <=> Delivered(u))
  BY <1>1, ExplanationsLast, DeliveredStays, IdleTyped DEF Finish, Continue
<1>7. /\ user' \in Users /\ Counts' /\ Good(Idle)'
      /\ blacklist' \in SUBSET Issued /\ blacklist \subseteq blacklist'
      /\ halfway' \in SUBSET Issued /\ lost' \in SUBSET Issued
      /\ guesses' \in [count : 0..MaxAttempts, stale : BOOLEAN]
  BY <1>1, IdleIsGood DEF TypeOK, Counts, Good, Known
<1> QED
  BY <1>1, <1>3, <1>5, <1>6, <1>7, IdleTyped, StepKeepsIInv DEF Finish

\* A call that dies explains the access token it leaves, and what it has not handed
\* over is lost.
LEMMA AbortKeepsIInv ==
  ASSUME IInv, NEW p \in Threads, Abort(p)
  PROVE  IInv'
<1> DEFINE t == job[p].token
<1>1. /\ TypeOK /\ Counts /\ TokensKnown /\ job[p] \in Jobs /\ Good(job[p])
      /\ job[p] # Idle /\ Finish(p)
      /\ lost' = IF job[p].op = "oauth_link" THEN lost \cup {t} ELSE lost
      /\ halfway' = IF job[p].op = "closing" THEN halfway \cup ({t} \ {NoToken})
                    ELSE halfway
      /\ UNCHANGED <<user, issued, token, session, blacklist, era, guesses>>
  BY DEF IInv, TypeOK, JobsKnown, Abort, Free, ClosedJtis, rows
<1>2. \A u \in Issued : Explained(u)'
  BY <1>1, ExplanationsLast, IdleTyped DEF Finish, Continue
<1>3. \A u \in Issued : Delivered(u)' <=> Delivered(u)
  <2>1. job'[p].op = "idle" /\ \A q \in Threads : q # p => job'[q] = job[q]
    BY <1>1, JobIs, IdleTyped DEF Finish, Continue
  <2>2. \A u : Linking(u) <=> (Linking(u)' \/ (job[p].op = "oauth_link" /\ u = t))
    BY <2>1 DEF Linking
  <2> QED
    BY <1>1, <2>2 DEF Delivered, Issued
<1>4. /\ user' \in Users /\ Counts' /\ Good(Idle)'
      /\ blacklist' \in SUBSET Issued /\ blacklist \subseteq blacklist'
      /\ halfway' \in SUBSET Issued /\ lost' \in SUBSET Issued
      /\ guesses' \in [count : 0..MaxAttempts, stale : BOOLEAN]
  BY <1>1, IdleIsGood DEF TypeOK, Counts, Good, Known
<1> QED
  BY <1>1, <1>2, <1>3, <1>4, IdleTyped, NothingRevoked, StepKeepsIInv DEF Finish

\* A logout_all ends: the tokens left are those it could not have listed.
LEMMA CommitRevokeAllKeepsIInv ==
  ASSUME IInv, NEW p \in Threads, CommitRevokeAll(p)
  PROVE  IInv'
<1> DEFINE seen == job[p].seen
<1>1. /\ TypeOK /\ Counts /\ TokensKnown /\ Budget /\ OneRotator
      /\ job[p] \in Jobs /\ Good(job[p]) /\ JobsKnown
      /\ job[p].op = "updating" /\ job[p] # Idle /\ Finish(p)
      /\ era' = era + 1 /\ era \in Nat /\ calls \in 0..MaxCalls
      /\ UNCHANGED <<user, issued, blacklist, halfway, lost, guesses>>
  BY IdleTyped, CallBound DEF IInv, TypeOK, JobsKnown, CommitRevokeAll
<1>2. Issued \subseteq Tokens /\ seen \subseteq Issued
  BY <1>1, CallBound DEF TypeOK, Issued, Tokens, Good, Known
<1>3. /\ token' \in [Tokens -> Rows]
      /\ \A t \in Tokens :
           token'[t] = IF t \in seen /\ token[t].revoked = "no"
                       THEN [token[t] EXCEPT !.revoked = "logout_all"]
                       ELSE token[t]
  BY <1>1 DEF CommitRevokeAll, TypeOK, Rows, Reasons
<1>4. /\ session' \in [Devices -> Sessions]
      /\ \A d \in Devices : session'[d].current = session[d].current
  BY <1>1 DEF CommitRevokeAll, TypeOK, Sessions
<1>5. \A t \in Tokens : token[t] \in Rows
  BY <1>1 DEF TypeOK
<1>6. \A t \in Tokens : /\ t \in seen => ~TokenLocked(t)
                        /\ t \in seen => token'[t].revoked # "no"
                        /\ token'[t].late = token[t].late
                        /\ token'[t].astray = token[t].astray
                        /\ \/ token'[t].revoked = token[t].revoked
                           \/ token[t].revoked = "no" /\ token'[t].revoked = "logout_all"
  BY <1>3, <1>5 DEF CommitRevokeAll, Rows
<1>7. Revoking
  BY <1>3, <1>4, <1>5, <1>6 DEF Revoking, Rows
<1>8. \A t \in Issued : /\ token[t].revoked = "no" => Covered(t)
                        /\ Usable(t) => t \in seen \/ token[t].late
  BY <1>1 DEF Good, EndsEra
<1>9. /\ job' = [job EXCEPT ![p] = Idle] /\ job' \in [Threads -> Jobs]
      /\ job'[p] = Idle /\ \A q \in Threads : q # p => job'[q] = job[q]
  BY <1>1, IdleTyped, JobIs DEF Finish, Continue
<1>10. \A t \in Issued : Explained(t)' /\ (Delivered(t)' <=> Delivered(t))
  <2>1. \A t \in Issued : Closing(t) => Closing(t)'
    BY <1>1, <1>9 DEF Closing
  <2>2. \A t \in Issued : Explained(t)'
    <3> SUFFICES ASSUME NEW t \in Issued
                 PROVE  Explained(t)'
      OBVIOUS
    <3>1. t \in Tokens
      BY <1>2
    <3>2. Covered(t)' <=> Covered(t)
      BY <1>1, <1>6, <3>1 DEF Covered
    <3>3. Explained(t)
      BY <1>1, Zenon DEF TokensKnown
    <3>4. token[t].revoked = "no" => Covered(t)
      BY <1>8, Zenon
    <3> QED
      BY <1>1, <1>6, <2>1, <3>1, <3>2, <3>3, <3>4 DEF Explained
  <2>3. Idle \in Jobs /\ job[p].op # "oauth_link" /\ Idle.op # "oauth_link"
    BY <1>1, IdleTyped
  <2>4. \A t \in Issued : Delivered(t)' <=> Delivered(t)
    BY <1>1, <1>9, <2>3, DeliveredStays
  <2> QED
    BY <2>2, <2>4
<1>11. \A t \in Issued : Usable(t)' => token[t].late
  <2> SUFFICES ASSUME NEW t \in Issued, Usable(t)'
               PROVE  token[t].late
    OBVIOUS
  <2>1. t \in Tokens /\ token'[t].revoked = "no" /\ token'[t].next = NoToken
    BY <1>2 DEF Usable
  <2>2. t \notin seen /\ token[t].revoked = "no" /\ token[t].next = NoToken
    BY <1>6, <1>7, <2>1 DEF Revoking
  <2>3. Usable(t)
    BY <2>2 DEF Usable
  <2>4. t \in seen \/ token[t].late
    BY <1>8, <2>3, Zenon
  <2> QED
    BY <2>2, <2>4
<1>12. \A d \in Devices :
          LET t == session[d].current
          IN  session'[d].status = "inactive" /\ Usable(t)'
                 => session[d].status = "inactive" \/ token[t].astray
  BY <1>1, <1>4, <1>11 DEF TokensKnown, Usable, Issued
<1>13. issued + era < calls /\ calls' = calls /\ Budget'
  <2>1. issued' \in Nat /\ era' \in Nat /\ issued' + era' = issued + era + 1
    BY <1>1, CallBound DEF TypeOK
  <2>2. job[p].op \notin {"idle", "oauth_link"} /\ Continue(p, Idle)
    BY <1>1 DEF Finish
  <2> QED
    BY <1>1, <2>1, <2>2, BusyHasRoom, IssuingSpends, IdleTyped
<1>14. OneRotator' /\ Counts' /\ Good(job[p])'
  <2>1. OneRotator' /\ Counts'
    BY <1>1, <1>9, IdleTyped DEF OneRotator, Counts
  <2>2. Good(Idle)'
    BY <1>1, IdleIsGood
  <2>3. Good(job[p])'
    BY <1>9, <2>2 DEF Good, Known, EndsSessions, EndsEra
  <2> QED
    BY <2>1, <2>3
<1>15. /\ calls' \in 0..MaxCalls /\ calls <= calls' /\ era' <= calls'
       /\ era' \in {era, era + 1} /\ user' \in Users
       /\ blacklist' \in SUBSET Issued /\ blacklist \subseteq blacklist'
      /\ halfway' \in SUBSET Issued /\ lost' \in SUBSET Issued
       /\ guesses' \in [count : 0..MaxAttempts, stale : BOOLEAN]
  BY <1>1, <1>13 DEF TypeOK
<1> QED
  BY <1>1, <1>7, <1>9, <1>10, <1>11, <1>12, <1>13, <1>14, <1>15, QuietKeepsIInv

-----------------------------------------------------------------------------
(* Steps that issue a token                                                *)

\* The call p issues token n for device d, in the chain of root.  Other tokens
\* may be revoked by the session limit or rotated into n, unless another call
\* holds them; a session that ends has no usable token that is not marked.
Issuing(p, n, d, root) ==
    /\ issued' = n /\ UNCHANGED <<blacklist, era, halfway, lost>>
    /\ token' \in [Tokens -> Rows]
    /\ token'[n].device = d /\ token'[n].root = root
    /\ token'[n].revoked = "no" /\ token'[n].next = NoToken
    /\ token'[n].since = job[p].since /\ token'[n].late = Late(p)
    /\ Astray(p, d) => token'[n].astray
    /\ \A t \in Issued :
         /\ token'[t].device = token[t].device /\ token'[t].root = token[t].root
         /\ token'[t].since = token[t].since /\ token'[t].late = token[t].late
         /\ token'[t].astray = token[t].astray
         /\ token'[t].next \in {token[t].next, n}
         /\ token[t].next = NoToken \/ token'[t].next # NoToken
         /\ token'[t].revoked \in {token[t].revoked, "session_limit"}
         /\ \A q \in Threads \ {p} :
              job[q].op = "rotate" /\ job[q].token = t => token'[t] = token[t]
    /\ \/ root = n
       \/ \E t \in Issued : /\ Usable(t) /\ ~Usable(t)' /\ token[t].root = root
                            /\ Delivered(t)
    /\ session' \in [Devices -> Sessions]
    /\ \A e \in Devices : \/ session'[e].current = session[e].current
                          \/ e = d /\ session'[e].current = n
    /\ session'[d].current = n /\ session'[d].status = "inactive" => token'[n].astray
    /\ session'[d].current = n \/ Replaced(n)' \/ Linking(n)'
    /\ \A e \in Devices :
         LET t == session[e].current
         IN  session'[e].status = "inactive" /\ session'[e].current = t /\ Usable(t)'
               => session[e].status = "inactive" \/ token[t].astray

\* It ends with that, or has yet to link the token that it has begun a chain with.
Rests(j, n, d, root) ==
    \/ j = Idle
    \/ /\ j.op = "oauth_link" /\ j.token = n /\ j.device = d /\ root = n
       /\ j.seen \subseteq Issued /\ j.since <= era

LEMMA IssueKeepsIInv ==
  ASSUME IInv, NEW p \in Threads, NEW n, NEW d \in Devices, NEW root, NEW j \in Jobs,
         n = NewToken, Issuing(p, n, d, root), Continue(p, j), Rests(j, n, d, root),
         job[p].op \notin {"idle", "closing", "oauth_link"}, user' \in Users, Counts',
         guesses' \in [count : 0..MaxAttempts, stale : BOOLEAN]
  PROVE  IInv'
<1>1. /\ TypeOK /\ Budget /\ TokensKnown /\ JobsKnown /\ OneRotator /\ job[p] # Idle
      /\ issued \in Nat /\ era \in Nat /\ calls \in Nat /\ MaxCalls \in Nat
      /\ calls <= MaxCalls /\ job[p] \in Jobs /\ Good(job[p])
  BY CallBound, IdleTyped DEF IInv, TypeOK, JobsKnown
<1>2. n = issued + 1 /\ issued' = n /\ era' = era /\ UNCHANGED <<blacklist, halfway, lost>>
  BY DEF NewToken, Issuing
<1>3. issued + era < calls /\ calls' = calls /\ Budget'
  <2>1. j = Idle \/ j.op = "oauth_link"
    BY DEF Rests
  <2>2. issued' \in Nat /\ era' \in Nat /\ issued' + era' = issued + era + 1
    BY <1>1, <1>2
  <2> QED
    BY <1>1, <2>1, <2>2, BusyHasRoom, IssuingSpends
<1>4. /\ n \in Tokens /\ Issued \subseteq Tokens /\ n \notin Issued /\ n \in Nat
      /\ Issued' = Issued \cup {n} /\ NoToken \notin Issued' /\ NoToken # n
      /\ \A t \in Issued : t \in Nat /\ t < n /\ token[t] \in Rows
  BY <1>1, <1>2, <1>3 DEF Issued, Tokens, NoToken, TypeOK
<1>5. /\ job' = [job EXCEPT ![p] = j] /\ job' \in [Threads -> Jobs]
      /\ job'[p] = j /\ \A q \in Threads : q # p => job'[q] = job[q]
  BY <1>1, JobIs DEF Continue
<1>6. \A t \in Issued : Usable(t)' => Usable(t) /\ token'[t] = token[t]
  <2>1. \A t \in Issued : token[t] \in Rows /\ token'[t] \in Rows
    BY <1>4 DEF Issuing
  <2>2. \A t \in Issued : Usable(t)' =>
            /\ token'[t].next = NoToken /\ token[t].next = NoToken
            /\ token'[t].revoked = "no" /\ token[t].revoked = "no"
    BY <1>4 DEF Usable, Issuing
  <2> QED
    BY <2>1, <2>2 DEF Usable, Issuing, Rows
<1>7. \A t \in Issued : Explained(t)' /\ (Delivered(t)' <=> Delivered(t))
  <2>1. \A t : Closing(t) => Closing(t)'
    BY <1>5 DEF Closing
  <2>2. \A t \in Issued : token'[t].revoked \in {token[t].revoked, "session_limit"}
                          /\ token'[t].late = token[t].late
    BY DEF Issuing
  <2>3. \A t \in Issued : Explained(t)'
    BY <1>1, <1>2, <2>1, <2>2 DEF TokensKnown, Explained, Covered
  <2>4. \A t \in Issued : Linking(t)' <=> Linking(t)
    BY <1>4, <1>5, IdleTyped DEF Linking, Rests
  <2> QED
    BY <1>2, <1>4, <2>3, <2>4 DEF Delivered
<1>8. /\ token'[n].since \in Nat /\ token'[n].since <= era
      /\ token'[n].since < era => token'[n].late
      /\ token'[n].late => token'[n].astray
      /\ Explained(n)'
  BY <1>1 DEF Issuing, Late, Astray, Good, Known, Explained, Jobs, Eras
<1>9. \A q \in Threads : /\ q # p
                         /\ job[q].op \in {"revoke_all", "updating"}
                         => token'[n].late
  BY DEF Issuing, Late
<1>10. \A t \in Issued : Replaced(t) => Replaced(t)'
  BY <1>4 DEF Replaced, Issuing
<1>11. \A e \in Devices : session[e].current \in Issued \cup {NoToken}
  BY <1>1 DEF TypeOK, Issued, NoToken
<1>12. TypeOK'
  <2>1. issued' \in 0..calls' /\ era' \in 0..calls' /\ calls' \in 0..MaxCalls
    BY <1>1, <1>2, <1>3
  <2>2. \A t \in Issued' : token'[t].next # NoToken => token'[t].next \in (t+1)..issued'
    BY <1>1, <1>2, <1>4 DEF TypeOK, Issuing
  <2>3. \A e \in Devices :
           LET t == session'[e].current
           IN  t \in 0..issued' /\ (t # NoToken => token'[t].device = e)
    <3> SUFFICES ASSUME NEW e \in Devices, NEW t, t = session'[e].current
                 PROVE  t \in 0..issued' /\ (t # NoToken => token'[t].device = e)
      OBVIOUS
    <3>1. CASE t = session[e].current
      BY <1>1, <1>2, <1>11, <3>1 DEF TypeOK, Issuing
    <3>2. CASE e = d /\ t = n
      BY <1>1, <1>2, <3>2 DEF Issuing
    <3> QED
      BY <3>1, <3>2 DEF Issuing
  <2>4. token' \in [Tokens -> Rows] /\ session' \in [Devices -> Sessions]
    BY DEF Issuing
  <2>5. blacklist' \subseteq Issued' /\ halfway' \subseteq Issued' /\ lost' \subseteq Issued'
    BY <1>1, <1>2, <1>4 DEF TypeOK
  <2> QED
    BY <1>5, <2>1, <2>2, <2>3, <2>4, <2>5 DEF TypeOK
<1>13. TokensKnown'
  <2> SUFFICES ASSUME NEW t \in Issued'
               PROVE  /\ token'[t].root <= t /\ token'[t].since <= era'
                      /\ token'[t].late => token'[t].astray
                      /\ Explained(t)'
    BY DEF TokensKnown
  <2>1. CASE t \in Issued
    <3>1. /\ token[t].root <= t /\ token[t].since <= era
          /\ token[t].late => token[t].astray
      BY <1>1, <2>1 DEF TokensKnown
    <3> QED
      BY <1>2, <1>7, <2>1, <3>1 DEF Issuing
  <2>2. CASE t = n
    <3>1. token'[n].root <= n
      <4>1. CASE root = n
        BY <1>4, <4>1 DEF Issuing
      <4>2. ASSUME NEW u \in Issued, token[u].root = root
            PROVE  token'[n].root <= n
        <5>1. /\ u \in Nat /\ u < n /\ token[u].root \in Nat
              /\ token[u].root <= u
          BY <1>1, <1>4 DEF TokensKnown, Rows, Tokens
        <5>2. token'[n].root = token[u].root
          BY <4>2 DEF Issuing
        <5> QED
          BY <1>4, <5>1, <5>2
      <4> QED
        BY <4>1, <4>2 DEF Issuing
    <3> QED
      BY <1>2, <1>8, <2>2, <3>1 DEF Issuing
  <2> QED
    BY <1>4, <2>1, <2>2
<1>14. JobsKnown'
  <2> SUFFICES ASSUME NEW q \in Threads
               PROVE  Good(job[q])'
    BY DEF JobsKnown
  <2>1. CASE q = p
    <3>1. CASE j = Idle
      <4>1. Good(Idle)'
        BY <1>1, <1>2, IdleIsGood
      <4> QED
        BY <1>5, <2>1, <3>1, <4>1 DEF Good, Known, EndsSessions, EndsEra
    <3>2. CASE j # Idle
      <4>1. /\ j.op = "oauth_link" /\ j.token = n /\ j.device = d /\ root = n
            /\ j.seen \subseteq Issued /\ j.since <= era
        BY <3>2 DEF Rests
      <4>2. \A u \in Issued' : token'[u].root = n <=> u = n
        <5>1. \A u \in Issued : token[u].root <= u /\ token[u].root \in Nat
          BY <1>1, <1>4 DEF TokensKnown, Rows, Tokens
        <5>2. \A u \in Issued : token'[u].root # n /\ u # n
          BY <1>4, <5>1 DEF Issuing
        <5> QED
          BY <1>4, <4>1, <5>2 DEF Issuing
      <4>3. Known(j)'
        BY <1>2, <1>4, <4>1, <4>2 DEF Known, Issuing
      <4>4. Good(j)'
        BY <4>1, <4>3 DEF Good, EndsSessions, EndsEra
      <4> QED
        BY <1>5, <2>1, <4>4 DEF Good, Known, EndsSessions, EndsEra
    <3> QED
      BY <3>1, <3>2
  <2>2. CASE q # p
    <3>1. PICK k \in Jobs : k = job[q]
      BY <1>1 DEF TypeOK
    <3>2. Good(k) /\ job'[q] = k
      BY <1>1, <1>5, <2>2, <3>1 DEF JobsKnown
    <3>3. Known(k)'
      <4>1. /\ k.token \in (Issued \cup {NoToken})' /\ k.seen \subseteq Issued'
            /\ k.since <= era'
            /\ k.op \in {"refresh", "rotate"} => Delivered(k.token)'
        BY <1>2, <1>4, <1>7, <3>2 DEF Good, Known, Delivered
      <4>2. k.op = "rotate" => /\ Usable(k.token)'
                               /\ k.device = token'[k.token].device
                               /\ k.linked \/ Replaced(k.token)'
        <5> SUFFICES ASSUME k.op = "rotate"
                     PROVE  /\ Usable(k.token)'
                            /\ k.device = token'[k.token].device
                            /\ k.linked \/ Replaced(k.token)'
          OBVIOUS
        <5>1. /\ Usable(k.token) /\ k.token \in Issued
              /\ k.device = token[k.token].device
              /\ k.linked \/ Replaced(k.token)
          BY <3>2 DEF Good, Known, Usable
        <5>2. token'[k.token] = token[k.token]
          BY <2>2, <3>1, <5>1 DEF Issuing
        <5> QED
          BY <1>4, <1>10, <5>1, <5>2 DEF Usable
      <4>3. k.op = "oauth_link" =>
              /\ k.token \in Issued' /\ token'[k.token].device = k.device
              /\ \A u \in Issued' : token'[u].root = k.token <=> u = k.token
        <5> SUFFICES ASSUME k.op = "oauth_link"
                     PROVE  /\ k.token \in Issued' /\ token'[k.token].device = k.device
                            /\ \A u \in Issued' : token'[u].root = k.token <=> u = k.token
          OBVIOUS
        <5>1. /\ k.token \in Issued /\ token[k.token].device = k.device
              /\ \A u \in Issued : token[u].root = k.token <=> u = k.token
          BY <3>2 DEF Good, Known
        <5>2. ~Delivered(k.token)
          BY <3>1 DEF Delivered, Linking
        <5>3. root # k.token
          <6>1. CASE root = n
            BY <1>4, <5>1, <6>1
          <6>2. CASE root # n
            BY <5>1, <5>2, <6>2 DEF Issuing
          <6> QED
            BY <6>1, <6>2
        <5>4. \A u \in Issued : token'[u].root = token[u].root
                                /\ token'[u].device = token[u].device
          BY DEF Issuing
        <5>5. token'[n].root = root
          BY DEF Issuing
        <5> QED
          BY <1>4, <5>1, <5>3, <5>4, <5>5
      <4> QED
        BY <3>2, <4>1, <4>2, <4>3, IdleTyped DEF Good, Known
    <3>4. EndsSessions(k)'
      <4>1. ASSUME NEW e \in Devices, NEW u, u = session'[e].current, Usable(u)',
                   \/ k.op = "login_open" /\ e \in k.kicked
                   \/ k.op \in {"revoke_session", "closing"} /\ k.device = e
            PROVE  \/ token'[u].astray
                   \/ u = session[e].current /\ Usable(u) /\ token'[u] = token[u]
        <5>1. CASE u = session[e].current
          BY <1>4, <1>6, <1>11, <4>1, <5>1 DEF Usable
        <5>2. CASE e = d /\ u = n
          <6>1. Astray(p, d)
            BY <2>2, <3>1, <4>1, <5>2 DEF Astray, Ending
          <6> QED
            BY <5>2, <6>1 DEF Issuing
        <5> QED
          BY <4>1, <5>1, <5>2 DEF Issuing
      <4>2. k.op = "closing" => k.token = NoToken \/ token'[k.token].revoked # "no"
        BY <3>2 DEF Good, Known, EndsSessions, Issuing
      <4>3. k.op = "login_open" =>
              \A e \in k.kicked : \A u :
                 u = session'[e].current /\ Usable(u)'
                    => u \in k.seen \/ token'[u].astray
        BY <3>2, <4>1 DEF Good, EndsSessions, Jobs
      <4>4. k.op \in {"revoke_session", "closing"} =>
              \A u : u = session'[k.device].current /\ Usable(u)'
                       => u = k.token \/ token'[u].astray
        BY <3>2, <4>1 DEF Good, EndsSessions, Jobs
      <4> QED
        BY <4>2, <4>3, <4>4 DEF EndsSessions
    <3>5. EndsEra(k)'
      <4>1. \A t \in Issued : Covered(t) => Covered(t)'
        BY <1>2 DEF Covered, Issuing
      <4>2. \A t \in Issued : token'[t].revoked = "no" => token[t].revoked = "no"
        BY DEF Issuing
      <4>3. k.op \in {"revoke_all", "updating"} => Covered(n)' /\ token'[n].late
        BY <1>9, <2>2, <3>1 DEF Covered
      <4> QED
        BY <1>4, <1>6, <3>2, <4>1, <4>2, <4>3 DEF Good, EndsEra
    <3> QED
      BY <3>2, <3>3, <3>4, <3>5 DEF Good, Known, EndsSessions, EndsEra
  <2> QED
    BY <2>1, <2>2
<1>15. OneRotator'
  BY <1>1, <1>5, IdleTyped DEF OneRotator, Rests
<1>16. \A t \in Issued : Usable(t)' => token[t].root # root
  <2>1. CASE root = n
    BY <1>1, <1>4, <2>1 DEF TokensKnown, Rows, Tokens
  <2>2. ASSUME NEW u \in Issued, Usable(u), ~Usable(u)', token[u].root = root
        PROVE  \A t \in Issued : Usable(t)' => token[t].root # root
    BY <1>6, <2>2 DEF IInv, OneUsablePerChain
  <2> QED
    BY <2>1, <2>2 DEF Issuing
<1>17. OneUsablePerChain'
  <2> SUFFICES ASSUME NEW t \in Issued', NEW u \in Issued', Usable(t)', Usable(u)',
                      token'[t].root = token'[u].root
               PROVE  t = u
    BY DEF OneUsablePerChain
  <2>1. CASE t \in Issued /\ u \in Issued
    BY <1>6, <2>1 DEF IInv, OneUsablePerChain
  <2>2. CASE t = n \/ u = n
    BY <1>4, <1>16, <2>2 DEF Issuing
  <2> QED
    BY <1>4, <2>1, <2>2
<1>18. RevocationReachesAll'
  BY <1>2, <1>4, <1>6, <1>8 DEF IInv, RevocationReachesAll
<1>19. InactiveSessionHasNoToken'
  <2> SUFFICES ASSUME NEW e \in Devices, session'[e].status = "inactive",
                      Usable(session[e].current)'
               PROVE  token'[session'[e].current].astray
    BY DEF InactiveSessionHasNoToken
  <2>1. CASE session'[e].current = session[e].current
    <3>1. PICK t : t = session[e].current
      OBVIOUS
    <3>2. Usable(t)' /\ t \in Issued
      BY <1>4, <1>11, <2>1, <3>1 DEF Usable
    <3>3. Usable(t) /\ token'[t] = token[t]
      BY <1>6, <3>2
    <3>4. session[e].status = "inactive" \/ token[t].astray
      BY <2>1, <3>1, <3>2 DEF Issuing
    <3> QED
      BY <2>1, <3>1, <3>3, <3>4 DEF IInv, InactiveSessionHasNoToken
  <2>2. CASE e = d /\ session'[e].current = n
    BY <2>2 DEF Issuing
  <2> QED
    BY <2>1, <2>2 DEF Issuing
<1>20. OrphanHasCause'
  <2> SUFFICES ASSUME NEW t \in Issued', Usable(t)',
                      session'[token'[t].device].current # t
               PROVE  Replaced(t)' \/ ~Delivered(t)'
    BY DEF OrphanHasCause, Replaced, Delivered
  <2>1. CASE t = n
    BY <2>1 DEF Issuing, Delivered
  <2>2. CASE t \in Issued /\ Delivered(t)
    <3>1. Usable(t) /\ token'[t] = token[t] /\ token[t].device \in Devices
      BY <1>4, <1>6, <2>2 DEF Rows
    <3>2. CASE session[token[t].device].current # t
      <4>1. Replaced(t)
        BY <2>2, <3>1, <3>2 DEF IInv, OrphanHasCause, Replaced, Delivered
      <4> QED
        BY <1>10, <2>2, <4>1
    <3>3. CASE session[token[t].device].current = t
      <4>1. token[t].device = d
        BY <3>1, <3>3 DEF Issuing
      <4>2. token'[n].device = d /\ token'[n].root # token[t].root
        BY <1>16, <2>2 DEF Issuing
      <4> QED
        BY <1>4, <3>1, <4>1, <4>2 DEF Replaced
    <3> QED
      BY <3>2, <3>3
  <2> QED
    BY <1>4, <1>7, <2>1, <2>2
<1> QED
  BY <1>3, <1>12, <1>13, <1>14, <1>15, <1>17, <1>18, <1>19, <1>20 DEF IInv

LEMMA RowIs ==
  ASSUME TypeOK, NEW p \in Threads, NEW d \in Devices, NEW root \in Tokens,
         NEW astray \in BOOLEAN, NEW row, row = Row(p, d, root, astray)
  PROVE  /\ row \in Rows /\ row.device = d /\ row.root = root
         /\ row.revoked = "no" /\ row.next = NoToken /\ row.since = job[p].since
         /\ row.late = Late(p) /\ row.astray = astray
<1>1. job[p].since \in Eras
  BY DEF TypeOK, Jobs
<1>2. Late(p) \in BOOLEAN
  BY DEF Late
<1> QED
  BY <1>1, <1>2 DEF Row, Rows, Reasons

\* What a call that issues a token has before it.
LEMMA BeforeIssue ==
  ASSUME IInv, NEW p \in Threads, job[p].op \notin {"idle", "oauth_link"}
  PROVE  /\ TypeOK /\ TokensKnown /\ OneRotator /\ Counts
         /\ job[p] \in Jobs /\ Good(job[p]) /\ job[p].device \in Devices
         /\ NewToken \in Tokens /\ NewToken # NoToken /\ NewToken \notin Issued
         /\ Issued \subseteq Tokens /\ NoToken \notin Issued
         /\ \A e \in Devices : session[e].current # NewToken
         /\ \A d : Astray(p, d) \in BOOLEAN
<1>1. TypeOK /\ TokensKnown /\ OneRotator /\ Counts /\ Budget /\ job[p] # Idle
      /\ job[p] \in Jobs /\ Good(job[p])
  BY IdleTyped DEF IInv, JobsKnown, TypeOK
<1>2. issued + era < calls
  BY <1>1, BusyHasRoom
<1>3. issued \in Nat /\ era \in Nat /\ calls <= MaxCalls /\ calls \in Nat
  BY <1>1, CallBound DEF TypeOK
<1>4. NewToken \in Tokens /\ NewToken # NoToken /\ NewToken \notin Issued
      /\ Issued \subseteq Tokens /\ NoToken \notin Issued
  BY <1>2, <1>3, CallBound DEF NewToken, Tokens, NoToken, Issued
<1>5. \A e \in Devices : session[e].current # NewToken
  BY <1>1, <1>3 DEF TypeOK, NewToken
<1>6. \A d : Astray(p, d) \in BOOLEAN
  BY DEF Astray, Late, Ending
<1> QED
  BY <1>1, <1>4, <1>5, <1>6 DEF Jobs

\* An OAuth login starts a chain, which no session shows yet.
LEMMA OAuthIssueKeepsIInv ==
  ASSUME IInv, NEW p \in Threads, OAuthIssue(p)
  PROVE  IInv'
<1>1. PICK d \in Devices, n \in Tokens : d = job[p].device /\ n = NewToken
  BY BeforeIssue DEF OAuthIssue
<1>2. /\ TypeOK /\ Counts /\ job[p].op = "oauth_open" /\ job[p] \in Jobs
      /\ Good(job[p]) /\ n # NoToken /\ n \notin Issued /\ Issued \subseteq Tokens
      /\ NoToken \notin Issued /\ Astray(p, d) \in BOOLEAN
      /\ \A e \in Devices : session[e].current # n
  BY <1>1, BeforeIssue DEF OAuthIssue
<1> DEFINE row == Row(p, d, n, Astray(p, d))
<1>3. /\ issued' = n /\ token' = [token EXCEPT ![n] = row]
      /\ Continue(p, [job[p] EXCEPT !.op = "oauth_link", !.token = n])
      /\ UNCHANGED <<user, session, blacklist, era, halfway, lost, guesses>>
  BY <1>1 DEF OAuthIssue, history
<1>4. /\ row \in Rows /\ row.device = d /\ row.root = n
      /\ row.revoked = "no" /\ row.next = NoToken /\ row.since = job[p].since
      /\ row.late = Late(p) /\ row.astray = Astray(p, d)
  BY <1>2, RowIs
<1> HIDE DEF row
<1>5. /\ token' \in [Tokens -> Rows] /\ token'[n] = row
      /\ \A t \in Issued : token'[t] = token[t]
  BY <1>2, <1>3, <1>4 DEF TypeOK
<1>6. PICK j \in Jobs :
        /\ Continue(p, j) /\ j.op = "oauth_link" /\ j.token = n /\ j.device = d
        /\ j.seen = job[p].seen /\ j.since = job[p].since
  <2>1. PICK k \in Jobs : k = job[p] /\ k.device = d
    BY <1>1, <1>2
  <2> DEFINE j == [k EXCEPT !.op = "oauth_link", !.token = n]
  <2>2. /\ j \in Jobs /\ j.op = "oauth_link" /\ j.token = n /\ j.device = d
        /\ j.seen = k.seen /\ j.since = k.since
    BY <2>1 DEF Jobs, Ops
  <2>3. Continue(p, j)
    BY <1>3, <2>1
  <2> HIDE DEF j
  <2> QED
    BY <2>1, <2>2, <2>3
<1>7. Linking(n)' /\ Rests(j, n, d, n)
  <2>1. job'[p] = j
    BY <1>2, <1>6, JobIs DEF Continue
  <2>2. j.seen \subseteq Issued /\ j.since <= era
    BY <1>2, <1>6 DEF Good, Known
  <2> QED
    BY <1>6, <2>1, <2>2 DEF Linking, Rests
<1>8. session' \in [Devices -> Sessions]
  BY <1>2, <1>3 DEF TypeOK
<1>9. Issuing(p, n, d, n)
  BY <1>2, <1>3, <1>4, <1>5, <1>7, <1>8 DEF Issuing
<1>10. /\ user' \in Users /\ Counts'
       /\ guesses' \in [count : 0..MaxAttempts, stale : BOOLEAN]
  BY <1>2, <1>3 DEF TypeOK, Counts
<1> QED
  BY <1>1, <1>2, <1>6, <1>7, <1>9, <1>10, IssueKeepsIInv

\* ... until the session is linked to it, in the place of the token it had.
LEMMA OAuthLinkKeepsIInv ==
  ASSUME IInv, NEW p \in Threads, OAuthLink(p)
  PROVE  IInv'
<1>1. PICK d \in Devices, t \in Issued : d = job[p].device /\ t = job[p].token
  BY DEF OAuthLink, IInv, TypeOK, Jobs, JobsKnown, Good, Known
<1> DEFINE astray == token[t].astray \/ Ending(p, d) \/ session[d].status # "active"
<1>2. /\ TypeOK /\ TokensKnown /\ JobsKnown /\ OneRotator /\ Counts /\ Budget
      /\ job[p].op = "oauth_link" /\ job[p] # Idle /\ Finish(p) /\ ~SessionLocked(d)
      /\ session' = [session EXCEPT ![d].current = t]
      /\ token' = [token EXCEPT ![t].astray = astray]
      /\ UNCHANGED <<user, issued, blacklist, era, halfway, lost, guesses>>
  BY <1>1, IdleTyped DEF IInv, OAuthLink, history
<1>3. Issued' = Issued /\ Issued \subseteq Tokens /\ NoToken \notin Issued
  BY <1>2, CallBound DEF TypeOK, Issued, Tokens, NoToken
<1>4. /\ token[t].device = d
      /\ \A u \in Issued : token[u].root = t <=> u = t
  BY <1>1, <1>2 DEF JobsKnown, Good, Known
<1>5. astray \in BOOLEAN
  BY <1>2, <1>3 DEF TypeOK, Rows, Ending
<1> HIDE DEF astray
<1>6. /\ token' \in [Tokens -> Rows] /\ token'[t].astray = astray
      /\ \A u \in Tokens :
           /\ token'[u].device = token[u].device /\ token'[u].revoked = token[u].revoked
           /\ token'[u].next = token[u].next /\ token'[u].root = token[u].root
           /\ token'[u].since = token[u].since /\ token'[u].late = token[u].late
           /\ u # t => token'[u] = token[u]
  <2>1. \A u \in Tokens : token[u] \in Rows
    BY <1>2 DEF TypeOK
  <2>2. \A u \in Tokens : token'[u] = IF u = t THEN [token[u] EXCEPT !.astray = astray]
                                      ELSE token[u]
    BY <1>2, <1>3 DEF TypeOK
  <2>3. token' \in [Tokens -> Rows]
    <3>1. \A u \in Tokens : token'[u] \in Rows
      BY <1>5, <2>1, <2>2 DEF Rows
    <3>2. token' = [u \in Tokens |-> token'[u]]
      BY <1>2 DEF TypeOK
    <3> QED
      BY <3>1, <3>2
  <2> QED
    BY <1>3, <2>1, <2>2, <2>3 DEF Rows
<1>7. \A u \in Issued : token[u].astray => token'[u].astray
  BY <1>3, <1>6 DEF astray
<1>8. \A u : Usable(u)' <=> Usable(u)
  BY <1>3, <1>6 DEF Usable
<1>9. /\ session' \in [Devices -> Sessions] /\ session'[d].current = t
      /\ \A e \in Devices : /\ session'[e].status = session[e].status
                            /\ e # d => session'[e] = session[e]
  BY <1>2, <1>3 DEF TypeOK, Sessions
<1>10. /\ job' = [job EXCEPT ![p] = Idle] /\ job' \in [Threads -> Jobs]
       /\ job'[p] = Idle /\ \A q \in Threads : q # p => job'[q] = job[q]
       /\ calls' = calls
  BY <1>2, IdleTyped, JobIs DEF Finish, Continue
<1>11. \A u : /\ Linking(u)' => Linking(u)
              /\ Linking(u) => Linking(u)' \/ u = t
  BY <1>1, <1>10, IdleTyped DEF Linking
<1>12. \A u : Delivered(u) => Delivered(u)'
  BY <1>2, <1>3, <1>11 DEF Delivered
<1>13. TypeOK'
  <2>1. \A u \in Issued' : token'[u].next # NoToken => token'[u].next \in (u+1)..issued'
    BY <1>2, <1>3, <1>6 DEF TypeOK
  <2>2. \A e \in Devices :
           LET u == session'[e].current
           IN  u \in 0..issued' /\ (u # NoToken => token'[u].device = e)
    BY <1>2, <1>3, <1>4, <1>6, <1>9 DEF TypeOK, Issued, Tokens, NoToken
  <2> QED
    BY <1>2, <1>3, <1>6, <1>9, <1>10, <2>1, <2>2 DEF TypeOK
<1>14. Budget'
  <2>1. calls' = calls /\ issued' = issued /\ era' = era
    BY <1>2, <1>10
  <2>2. Busy' = Busy
    BY <1>2, <1>10, IdleTyped DEF Busy
  <2> QED
    BY <1>2, <2>1, <2>2 DEF Budget
<1>15. TokensKnown'
  <2>1. \A u : Closing(u) => Closing(u)'
    BY <1>2, <1>10 DEF Closing
  <2>2. \A u \in Issued : Explained(u)'
    BY <1>2, <1>3, <1>6, <2>1 DEF TokensKnown, Explained, Covered
  <2> QED
    BY <1>2, <1>3, <1>6, <1>7, <2>2 DEF TokensKnown
<1>16. JobsKnown'
  <2> SUFFICES ASSUME NEW q \in Threads
               PROVE  Good(job[q])'
    BY DEF JobsKnown
  <2>1. CASE q = p
    <3>1. Good(Idle)'
      BY <1>2, IdleIsGood, CallBound DEF TypeOK
    <3> QED
      BY <1>10, <2>1, <3>1 DEF Good, Known, EndsSessions, EndsEra
  <2>2. CASE q # p
    <3>1. PICK k \in Jobs : k = job[q]
      BY <1>2 DEF TypeOK
    <3>2. Good(k) /\ job'[q] = k
      BY <1>2, <1>10, <2>2, <3>1 DEF JobsKnown
    <3>3. Known(k)'
      <4>1. \A u : Replaced(u) /\ u \in Issued => Replaced(u)'
        BY <1>3, <1>6 DEF Replaced
      <4>2. \A u \in Issued : /\ token'[u].device = token[u].device
                              /\ token'[u].root = token[u].root
        BY <1>3, <1>6
      <4> QED
        BY <1>2, <1>3, <1>8, <1>12, <3>2, <4>1, <4>2 DEF Good, Known, Delivered
    <3>4. EndsSessions(k)'
      <4>1. ASSUME NEW e \in Devices, NEW u, u = session'[e].current, Usable(u)',
                   \/ k.op = "login_open" /\ e \in k.kicked
                   \/ k.op \in {"revoke_session", "closing"} /\ k.device = e
            PROVE  \/ token'[u].astray
                   \/ u = session[e].current /\ Usable(u)
        <5>1. CASE e # d
          BY <1>8, <1>9, <4>1, <5>1
        <5>2. CASE e = d
          <6>1. Ending(p, d)
            BY <2>2, <3>1, <4>1, <5>2 DEF Ending
          <6> QED
            BY <1>6, <1>9, <4>1, <5>2, <6>1 DEF astray
        <5> QED
          BY <5>1, <5>2
      <4>2. k.op = "closing" => k.token = NoToken \/ token'[k.token].revoked # "no"
        BY <1>3, <1>6, <3>2 DEF Good, Known, EndsSessions
      <4>3. k.op = "login_open" =>
              \A e \in k.kicked : \A u :
                 u = session'[e].current /\ Usable(u)'
                    => u \in k.seen \/ token'[u].astray
        BY <1>7, <3>2, <4>1 DEF Good, EndsSessions, Jobs, Usable
      <4>4. k.op \in {"revoke_session", "closing"} =>
              \A u : u = session'[k.device].current /\ Usable(u)'
                       => u = k.token \/ token'[u].astray
        BY <1>7, <3>2, <4>1 DEF Good, EndsSessions, Jobs, Usable
      <4> QED
        BY <4>2, <4>3, <4>4 DEF EndsSessions
    <3>5. EndsEra(k)'
      BY <1>2, <1>3, <1>6, <1>8, <3>2 DEF Good, EndsEra, Covered
    <3> QED
      BY <3>2, <3>3, <3>4, <3>5 DEF Good, Known, EndsSessions, EndsEra
  <2> QED
    BY <2>1, <2>2
<1>17. OneRotator' /\ Counts'
  BY <1>2, <1>10, IdleTyped DEF OneRotator, Counts
<1>18. OneUsablePerChain' /\ RevocationReachesAll'
  BY <1>2, <1>3, <1>6, <1>8 DEF IInv, OneUsablePerChain, RevocationReachesAll
<1>19. InactiveSessionHasNoToken'
  <2> SUFFICES ASSUME NEW e \in Devices, session'[e].status = "inactive",
                      Usable(session[e].current)'
               PROVE  token'[session'[e].current].astray
    BY DEF InactiveSessionHasNoToken
  <2>1. CASE e = d
    BY <1>6, <1>9, <2>1 DEF astray
  <2>2. CASE e # d
    BY <1>7, <1>8, <1>9, <2>2 DEF IInv, InactiveSessionHasNoToken, Usable
  <2> QED
    BY <2>1, <2>2
<1>20. OrphanHasCause'
  <2> SUFFICES ASSUME NEW u \in Issued, Usable(u)',
                      session'[token'[u].device].current # u, Delivered(u)'
               PROVE  Replaced(u)'
    BY <1>3 DEF OrphanHasCause, Replaced, Delivered
  <2>1. /\ Usable(u) /\ token'[u].device = token[u].device
        /\ token[u].device \in Devices
    BY <1>2, <1>3, <1>6, <1>8 DEF TypeOK, Rows
  <2>2. CASE token[u].device = d
    <3>1. u # t /\ token[u].root # t /\ token[t].root = t
      BY <1>1, <1>4, <1>9, <2>1, <2>2
    <3> QED
      BY <1>3, <1>4, <1>6, <2>1, <2>2, <3>1 DEF Replaced
  <2>3. CASE token[u].device # d
    <3>1. session[token[u].device].current # u /\ u # t
      BY <1>4, <1>9, <2>1, <2>3
    <3>2. Delivered(u)
      BY <1>2, <1>3, <1>11, <3>1 DEF Delivered
    <3>3. Replaced(u)
      BY <2>1, <3>1, <3>2 DEF IInv, OrphanHasCause, Replaced, Delivered
    <3> QED
      BY <1>3, <1>6, <3>3 DEF Replaced
  <2> QED
    BY <2>2, <2>3
<1> QED
  BY <1>13, <1>14, <1>15, <1>16, <1>17, <1>18, <1>19, <1>20 DEF IInv

\* A rotation continues a chain with the row it holds.
LEMMA CommitRefreshKeepsIInv ==
  ASSUME IInv, NEW p \in Threads, CommitRefresh(p)
  PROVE  IInv'
<1>1. PICK d \in Devices, n \in Tokens : d = job[p].device /\ n = NewToken
  BY BeforeIssue DEF CommitRefresh
<1>2. /\ TypeOK /\ Counts /\ OneRotator /\ job[p].op = "rotate" /\ Finish(p)
      /\ n # NoToken /\ n \notin Issued /\ Issued \subseteq Tokens
      /\ NoToken \notin Issued /\ Astray(p, d) \in BOOLEAN
      /\ \A e \in Devices : session[e].current # n
      /\ job[p] \in Jobs /\ Good(job[p])
  BY <1>1, BeforeIssue DEF CommitRefresh
<1>3. PICK t \in Tokens : t = job[p].token /\ t \in Issued
  BY <1>2 DEF Good, Known, Usable
<1>4. /\ Usable(t) /\ Delivered(t) /\ token[t].device = d
      /\ (job[p].linked \/ Replaced(t))
      /\ token[t] \in Rows /\ job[p].linked \in BOOLEAN /\ t # n
  BY <1>1, <1>2, <1>3 DEF Good, Known, TypeOK, Jobs
<1>5. PICK root \in Tokens : root = token[t].root
  BY <1>4 DEF Rows
<1>6. PICK astray \in BOOLEAN :
        astray = (\/ token[t].astray \/ Astray(p, d)
                  \/ job[p].linked /\ session[d].status # "active")
  OBVIOUS
<1> DEFINE row == Row(p, d, root, astray)
<1>7. /\ issued' = n /\ token' = [token EXCEPT ![n] = row, ![t].next = n]
      /\ session' = [session EXCEPT ![d].current = CurrentAfter(p, d)]
      /\ UNCHANGED <<user, blacklist, era, halfway, lost, guesses>>
  BY <1>1, <1>3, <1>5, <1>6 DEF CommitRefresh, history
<1>8. /\ row \in Rows /\ row.device = d /\ row.root = root
      /\ row.revoked = "no" /\ row.next = NoToken /\ row.since = job[p].since
      /\ row.late = Late(p) /\ row.astray = astray
  BY <1>2, RowIs
<1> HIDE DEF row
<1>9. /\ token' \in [Tokens -> Rows] /\ token'[n] = row
      /\ token'[t] = [token[t] EXCEPT !.next = n]
      /\ \A u \in Issued : u # t => token'[u] = token[u]
  <2>1. /\ token'[n] = row /\ token'[t] = [token[t] EXCEPT !.next = n]
        /\ \A u \in Tokens : u \notin {t, n} => token'[u] = token[u]
    BY <1>2, <1>4, <1>7 DEF TypeOK
  <2>2. [token[t] EXCEPT !.next = n] \in Rows
    BY <1>4 DEF Rows
  <2>3. DOMAIN token' = Tokens /\ token' = [u \in Tokens |-> token'[u]]
    BY <1>2, <1>7 DEF TypeOK
  <2> QED
    BY <1>2, <1>8, <2>1, <2>2, <2>3 DEF TypeOK
<1>10. /\ session' \in [Devices -> Sessions]
       /\ session'[d].current = CurrentAfter(p, d)
       /\ \A e \in Devices : session'[e].status = session[e].status
       /\ \A e \in Devices : e # d => session'[e].current = session[e].current
  BY <1>1, <1>2, <1>7 DEF TypeOK, Sessions, CurrentAfter
<1>11. CurrentAfter(p, d) = IF job[p].linked THEN n ELSE session[d].current
  BY <1>1 DEF CurrentAfter
<1>12. ~Usable(t)' /\ token[t].root = root /\ Usable(t)
  BY <1>2, <1>4, <1>5, <1>9 DEF Usable, Rows
<1>13. \A u \in Issued :
         /\ token'[u].device = token[u].device /\ token'[u].root = token[u].root
         /\ token'[u].since = token[u].since /\ token'[u].late = token[u].late
         /\ token'[u].astray = token[u].astray
         /\ token'[u].next \in {token[u].next, n}
         /\ token[u].next = NoToken \/ token'[u].next # NoToken
         /\ token'[u].revoked = token[u].revoked
  BY <1>2, <1>4, <1>9 DEF Rows
<1>14. \A u \in Issued, q \in Threads \ {p} :
         job[q].op = "rotate" /\ job[q].token = u => token'[u] = token[u]
  BY <1>2, <1>3, <1>9 DEF OneRotator
<1>15. session'[d].current = n \/ Replaced(n)'
  <2>1. CASE job[p].linked
    BY <1>10, <1>11, <2>1
  <2>2. CASE Replaced(t)
    <3>1. PICK u \in Issued : token[u].device = d /\ token[u].root # root
      BY <1>4, <1>5, <2>2 DEF Replaced
    <3>2. u \in Issued' /\ token'[u].device = d /\ token'[u].root # root
      BY <1>1, <1>2, <1>7, <1>13, <3>1, CallBound DEF Issued, NewToken, TypeOK
    <3> QED
      BY <1>8, <1>9, <3>2 DEF Replaced
  <2> QED
    BY <1>4, <2>1, <2>2
<1>16. session'[d].current = n /\ session'[d].status = "inactive" => astray
  BY <1>2, <1>6, <1>10, <1>11
<1>17. Issuing(p, n, d, root)
  <2>1. \/ root = n
        \/ \E u \in Issued : /\ Usable(u) /\ ~Usable(u)' /\ token[u].root = root
                             /\ Delivered(u)
    BY <1>3, <1>4, <1>12
  <2>2. /\ \A e \in Devices : \/ session'[e].current = session[e].current
                              \/ e = d /\ session'[e].current = n
        /\ session'[d].current = n /\ session'[d].status = "inactive" => astray
        /\ \A e \in Devices :
             LET u == session[e].current
             IN  session'[e].status = "inactive" /\ session'[e].current = u /\ Usable(u)'
                   => session[e].status = "inactive" \/ token[u].astray
    BY <1>10, <1>11, <1>16
  <2>3. Astray(p, d) => astray
    BY <1>6
  <2> QED
    BY <1>7, <1>8, <1>9, <1>10, <1>13, <1>14, <1>15, <2>1, <2>2, <2>3 DEF Issuing
<1>18. /\ user' \in Users /\ Counts'
       /\ guesses' \in [count : 0..MaxAttempts, stale : BOOLEAN]
  BY <1>2, <1>7 DEF TypeOK, Counts
<1>19. Idle \in Jobs /\ Continue(p, Idle) /\ Rests(Idle, n, d, root)
  BY <1>2, IdleTyped DEF Finish, Rests
<1> QED
  BY <1>1, <1>2, <1>17, <1>18, <1>19, IssueKeepsIInv

\* A login ends the sessions it has listed, with the tokens they had.
LEMMA CommitLoginKeepsIInv ==
  ASSUME IInv, NEW p \in Threads, CommitLogin(p)
  PROVE  IInv'
<1>1. PICK d \in Devices, n \in Tokens : d = job[p].device /\ n = NewToken
  BY BeforeIssue DEF CommitLogin
<1>2. /\ TypeOK /\ Counts /\ job[p].op = "login_open" /\ Finish(p)
      /\ n # NoToken /\ n \notin Issued /\ Issued \subseteq Tokens
      /\ NoToken \notin Issued /\ Astray(p, d) \in BOOLEAN
      /\ \A e \in Devices : session[e].current # n
      /\ job[p] \in Jobs /\ Good(job[p])
  BY <1>1, BeforeIssue DEF CommitLogin
<1>3. PICK seen \in SUBSET Issued, kicked \in SUBSET Devices :
        seen = job[p].seen /\ kicked = job[p].kicked
  BY <1>2 DEF Good, Known, Jobs
<1> DEFINE row == Row(p, d, n, Astray(p, d))
<1>4. /\ issued' = n
      /\ token' = [t \in Tokens |->
                     IF t = n THEN row
                     ELSE IF t \in seen
                          THEN [token[t] EXCEPT !.revoked = "session_limit"]
                          ELSE token[t]]
      /\ session' = [e \in Devices |->
                       IF e = d THEN [status |-> "active", current |-> n]
                       ELSE IF e \in kicked
                            THEN [session[e] EXCEPT !.status = "inactive"]
                            ELSE session[e]]
      /\ \A t \in seen : ~TokenLocked(t)
      /\ UNCHANGED <<blacklist, era, halfway, lost>>
  BY <1>1, <1>3 DEF CommitLogin
<1>5. /\ row \in Rows /\ row.device = d /\ row.root = n
      /\ row.revoked = "no" /\ row.next = NoToken /\ row.since = job[p].since
      /\ row.late = Late(p) /\ row.astray = Astray(p, d)
  BY <1>2, RowIs
<1> HIDE DEF row
<1>6. \A t \in Tokens : token[t] \in Rows
  BY <1>2 DEF TypeOK
<1>7. /\ token' \in [Tokens -> Rows] /\ token'[n] = row
      /\ \A t \in Issued : token'[t] = IF t \in seen
                           THEN [token[t] EXCEPT !.revoked = "session_limit"]
                           ELSE token[t]
  BY <1>2, <1>4, <1>5, <1>6 DEF Rows, Reasons
<1>8. \A t \in Issued :
         /\ token'[t].device = token[t].device /\ token'[t].root = token[t].root
         /\ token'[t].since = token[t].since /\ token'[t].late = token[t].late
         /\ token'[t].astray = token[t].astray /\ token'[t].next = token[t].next
         /\ token'[t].revoked \in {token[t].revoked, "session_limit"}
         /\ t \in seen => token'[t].revoked = "session_limit"
  <2> SUFFICES ASSUME NEW t \in Issued, NEW row0 \in Rows, row0 = token[t]
               PROVE  /\ token'[t].device = row0.device /\ token'[t].root = row0.root
                      /\ token'[t].since = row0.since /\ token'[t].late = row0.late
                      /\ token'[t].astray = row0.astray /\ token'[t].next = row0.next
                      /\ token'[t].revoked \in {row0.revoked, "session_limit"}
                      /\ t \in seen => token'[t].revoked = "session_limit"
    BY <1>2, <1>6
  <2>1. token'[t] \in {row0, [row0 EXCEPT !.revoked = "session_limit"]}
        /\ (t \in seen => token'[t] = [row0 EXCEPT !.revoked = "session_limit"])
    BY <1>7
  <2> QED
    BY <2>1 DEF Rows
<1>9. \A t \in Issued, q \in Threads \ {p} :
         job[q].op = "rotate" /\ job[q].token = t => token'[t] = token[t]
  BY <1>4, <1>7 DEF TokenLocked
<1>10. /\ session' \in [Devices -> Sessions] /\ session'[d].current = n
       /\ session'[d].status = "active"
       /\ \A e \in Devices : e # d => session'[e].current = session[e].current
       /\ \A e \in Devices \ kicked : e # d => session'[e] = session[e]
  BY <1>2, <1>4 DEF TypeOK, Sessions
<1>11. \A e \in Devices : \A t :
         /\ t = session[e].current
         /\ session'[e].status = "inactive" /\ session'[e].current = t /\ Usable(t)'
         => session[e].status = "inactive" \/ token[t].astray
  <2> SUFFICES ASSUME NEW e \in Devices, NEW t, t = session[e].current,
                      session'[e].status = "inactive", Usable(t)'
               PROVE  session[e].status = "inactive" \/ token[t].astray
    OBVIOUS
  <2>1. CASE e \notin kicked
    BY <1>10, <2>1
  <2>2. CASE e \in kicked
    <3>1. t \in Issued
      BY <1>1, <1>2, <1>4 DEF Usable, Issued, TypeOK, NewToken
    <3>2. t \notin seen /\ Usable(t)
      BY <1>7, <1>8, <3>1 DEF Usable
    <3> QED
      BY <1>2, <1>3, <2>2, <3>2 DEF Good, EndsSessions
  <2> QED
    BY <2>1, <2>2
<1>12. Issuing(p, n, d, n)
  BY <1>4, <1>5, <1>7, <1>8, <1>9, <1>10, <1>11 DEF Issuing
<1>13. /\ user' \in Users /\ Counts'
       /\ guesses' \in [count : 0..MaxAttempts, stale : BOOLEAN]
  <2>1. CASE UNCHANGED <<user, guesses>>
    BY <1>2, <2>1 DEF TypeOK, Counts
  <2>2. CASE /\ user' = [user EXCEPT !.attempts = 0, !.locked = FALSE]
             /\ guesses' = [count |-> 0, stale |-> FALSE]
    <3>1. 0 \in 0..MaxAttempts
      BY SessionBounds
    <3> QED
      BY <1>2, <2>2, <3>1 DEF TypeOK, Users, Counts
  <2> QED
    BY <2>1, <2>2 DEF CommitLogin
<1>14. Idle \in Jobs /\ Continue(p, Idle) /\ Rests(Idle, n, d, n)
  BY <1>2, IdleTyped DEF Finish, Rests
<1> QED
  BY <1>1, <1>2, <1>12, <1>13, <1>14, IssueKeepsIInv

-----------------------------------------------------------------------------
(* The invariant, and the properties                                       *)

LEMMA InitIsIInv == Init => IInv
<1> SUFFICES ASSUME Init PROVE IInv
  OBVIOUS
<1>1. /\ issued = 0 /\ era = 0 /\ calls = 0
      /\ blacklist = {} /\ halfway = {} /\ lost = {}
      /\ token = [t \in Tokens |-> NoRow]
      /\ session = [d \in Devices |-> [status |-> "none", current |-> NoToken]]
      /\ user = [active |-> TRUE, attempts |-> 0, locked |-> FALSE]
      /\ guesses = [count |-> 0, stale |-> FALSE]
      /\ job = [p \in Threads |-> Idle]
  BY DEF Init
<1>2. Issued = {}
  BY <1>1 DEF Issued
<1>3. TypeOK
  <2>1. NoRow \in Rows
    <3>1. Somewhere \in Devices
      BY DevicesAssumption DEF Somewhere
    <3> QED
      BY <3>1, CallBound DEF NoRow, Rows, Reasons, Tokens, Eras
  <2>2. job \in [Threads -> Jobs]
    BY <1>1, IdleTyped
  <2>3. session \in [Devices -> Sessions] /\ \A d \in Devices : session[d].current = 0
    BY <1>1 DEF Sessions, NoToken
  <2>4. user \in Users /\ guesses \in [count : 0..MaxAttempts, stale : BOOLEAN]
    BY <1>1, SessionBounds DEF Users
  <2> QED
    BY <1>1, <1>2, <2>1, <2>2, <2>3, <2>4, CallBound DEF TypeOK
<1>4. Budget
  <2>1. Busy = {}
    BY <1>1 DEF Busy
  <2> QED
    BY <1>1, <2>1, FS_EmptySet DEF Budget
<1>5. JobsKnown
  <2>1. Good(Idle)
    BY <1>1, IdleTyped DEF Idle, Good, Known, EndsSessions, EndsEra
  <2> QED
    BY <1>1, <2>1 DEF JobsKnown
<1>6. TokensKnown /\ OneUsablePerChain /\ RevocationReachesAll /\ OrphanHasCause
  BY <1>2 DEF TokensKnown, OneUsablePerChain, RevocationReachesAll, OrphanHasCause
<1>7. OneRotator /\ Counts /\ InactiveSessionHasNoToken
  BY <1>1, IdleTyped DEF OneRotator, Counts, InactiveSessionHasNoToken
<1> QED
  BY <1>3, <1>4, <1>5, <1>6, <1>7 DEF IInv

LEMMA NextKeepsIInv == IInv /\ [Next]_vars => IInv'
<1> SUFFICES ASSUME IInv, [Next]_vars PROVE IInv'
  OBVIOUS
<1>1. CASE UNCHANGED vars
  <2>1. /\ user' = user /\ issued' = issued /\ token' = token
        /\ session' = session /\ blacklist' = blacklist /\ era' = era
        /\ halfway' = halfway /\ lost' = lost /\ guesses' = guesses
        /\ calls' = calls /\ job' = job
    BY <1>1 DEF vars, rows, history
  <2>2. TypeOK' /\ Budget'
    <3>1. Busy' = Busy
      BY <2>1 DEF Busy
    <3>2. Budget'
      BY <2>1, <3>1 DEF IInv, Budget
    <3>3. TypeOK'
      <4>1. Issued' = Issued
        BY <2>1 DEF Issued
      <4> QED
        BY <2>1, <4>1 DEF IInv, TypeOK
    <3> QED
      BY <3>2, <3>3
  <2>3. /\ Issued' = Issued /\ \A t : Usable(t)' <=> Usable(t)
        /\ \A t : Explained(t)' <=> Explained(t)
        /\ \A t : Replaced(t)' <=> Replaced(t)
        /\ \A t : Covered(t)' <=> Covered(t)
        /\ \A t : Linking(t)' <=> Linking(t)
        /\ \A t : Delivered(t)' <=> Delivered(t)
    <3>1. ASSUME NEW t
          PROVE  Explained(t)' <=> Explained(t)
      BY <2>1 DEF Explained, Covered, Closing
    <3>2. Issued' = Issued
      BY <2>1 DEF Issued
    <3>3. ASSUME NEW t
          PROVE  Usable(t)' <=> Usable(t)
      BY <2>1, <3>2 DEF Usable
    <3>4. ASSUME NEW t
          PROVE  Replaced(t)' <=> Replaced(t)
      BY <2>1, <3>2 DEF Replaced
    <3>5. ASSUME NEW t
          PROVE  Covered(t)' <=> Covered(t)
      BY <2>1 DEF Covered
    <3>6. ASSUME NEW t
          PROVE  (Linking(t)' <=> Linking(t)) /\ (Delivered(t)' <=> Delivered(t))
      BY <2>1, <3>2 DEF Delivered, Linking
    <3> QED
      BY <3>1, <3>2, <3>3, <3>4, <3>5, <3>6
  <2>4. TokensKnown'
    BY <2>1, <2>3 DEF IInv, TokensKnown
  <2>5. JobsKnown'
    BY <2>1, <2>3 DEF IInv, JobsKnown, Good, Known, EndsSessions, EndsEra
  <2>6. OneRotator' /\ Counts'
    BY <2>1 DEF IInv, OneRotator, Counts
  <2>7. OneUsablePerChain' /\ OrphanHasCause'
    BY <2>1, <2>3 DEF IInv, OneUsablePerChain, OrphanHasCause, Replaced
  <2>8. RevocationReachesAll' /\ InactiveSessionHasNoToken'
    BY <2>1, <2>3 DEF IInv, RevocationReachesAll, InactiveSessionHasNoToken
  <2> QED
    BY <2>2, <2>4, <2>5, <2>6, <2>7, <2>8 DEF IInv
<1>2. CASE LockElapses
  BY <1>2, LockElapsesKeepsIInv
<1>3. ASSUME NEW p \in Threads,
             \/ WrongPassword(p) \/ SaveFailure(p)
             \/ OpenSession(p) \/ CommitLogin(p)
             \/ OAuthOpenSession(p) \/ OAuthIssue(p) \/ OAuthLink(p)
             \/ LockRefresh(p) \/ CommitRefresh(p)
      PROVE  IInv'
  BY <1>3, ReadsKeepIInv, SaveFailureKeepsIInv, OpenSessionKeepsIInv,
     CommitLoginKeepsIInv, OAuthOpenSessionKeepsIInv, OAuthIssueKeepsIInv, OAuthLinkKeepsIInv,
     LockRefreshKeepsIInv, CommitRefreshKeepsIInv
<1>4. ASSUME NEW p \in Threads,
             \/ BeginRevokeAll(p) \/ UpdateTokens(p) \/ CommitRevokeAll(p)
             \/ DeactivateUser(p) \/ ContinueDeactivate(p) \/ ReactivateUser(p)
             \/ RevokeCurrent(p) \/ CloseSession(p) \/ Abort(p)
      PROVE  IInv'
  BY <1>4, BlacklistingKeepsIInv, UpdateTokensKeepsIInv, CommitRevokeAllKeepsIInv,
     ActivationKeepsIInv, RevokeCurrentKeepsIInv, CloseSessionKeepsIInv,
     AbortKeepsIInv
<1>5. ASSUME NEW p \in Threads, NEW d \in Devices,
             \/ Authenticate(p, d) \/ OAuthAuthenticate(p, d)
             \/ BeginRevokeSession(p, d)
      PROVE  IInv'
  BY <1>5, ReadsKeepIInv
<1>6. ASSUME NEW p \in Threads, NEW t \in Issued,
             BeginRefresh(p, t) \/ PresentStale(p, t) \/ Logout(p, t)
      PROVE  IInv'
  BY <1>6, ReadsKeepIInv, BlacklistingKeepsIInv, LogoutKeepsIInv DEF PresentStale
<1> QED
  BY <1>1, <1>2, <1>3, <1>4, <1>5, <1>6 DEF Next

\* In every behaviour of AuthService the rows, the calls in flight and what
\* each may rely on are as IInv says.
THEOREM SessionInvariant == Spec => []IInv
<1> QED
  BY InitIsIInv, NextKeepsIInv, PTL DEF Spec

\* Every variable holds what its comment says, and a rotated token points at a
\* younger one: create_token numbers the rows, refresh_tokens links them.
THEOREM SessionsTyped == Spec => []TypeOK
<1>1. IInv => TypeOK
  BY DEF IInv
<1> QED
  BY <1>1, SessionInvariant, PTL

\* A login has one usable refresh token at a time, however many calls of
\* refresh_tokens rotate it at once.
THEOREM OneTokenPerLogin == Spec => []OneUsablePerChain
<1>1. IInv => OneUsablePerChain
  BY DEF IInv
<1> QED
  BY <1>1, SessionInvariant, PTL

\* logout_all leaves no usable refresh token of an earlier date but those committed
\* while it ran.
THEOREM LogoutAllReaches == Spec => []RevocationReachesAll
<1>1. IInv => RevocationReachesAll
  BY DEF IInv
<1> QED
  BY <1>1, SessionInvariant, PTL

\* With the refresh tokens that a logout_all or a revoke_session revokes go their access
\* tokens, but for those committed while the logout_all ran and those of a
\* revoke_session that has not come to its end.
THEOREM RevocationEndsAccess == Spec => []AccessEndsWithRevocation
<1>1. IInv => AccessEndsWithRevocation
  BY DEF IInv, TokensKnown, Explained, Covered, Closing, AccessEndsWithRevocation,
     AccessGood
<1> QED
  BY <1>1, SessionInvariant, PTL

\* A session that revoke_session or the session limit has ended shows no usable
\* token, but one committed meanwhile.
THEOREM EndedSessionsHoldNothing == Spec => []InactiveSessionHasNoToken
<1>1. IInv => InactiveSessionHasNoToken
  BY DEF IInv
<1> QED
  BY <1>1, SessionInvariant, PTL

\* A usable token that its session does not show is left by another login on the
\* device, or by an OAuth login that is about to link it or has died before.
THEOREM OrphansExplained == Spec => []OrphanHasCause
<1>1. IInv => OrphanHasCause
  BY DEF IInv
<1> QED
  BY <1>1, SessionInvariant, PTL

\* Failed logins that do not overlap are all counted: the limit is reached.
THEOREM GuessesAreCounted == Spec => []FailuresAreCounted
<1>1. IInv => FailuresAreCounted
  BY DEF IInv, Counts, FailuresAreCounted
<1> QED
  BY <1>1, SessionInvariant, PTL

\* Only the commit of p's login ends it with a token.
LEMMA LoginEnds ==
  ASSUME IInv, Next, NEW p \in Threads, job[p].op = "login_open",
         job'[p].op = "idle", issued' # issued
  PROVE  CommitLogin(p)
<1>1. PICK q \in Threads : CommitLogin(q) \/ OAuthIssue(q) \/ CommitRefresh(q)
  BY DEF rows, Next, LockElapses, WrongPassword, SaveFailure, OpenSession,
     OAuthOpenSession, OAuthLink, LockRefresh, BeginRevokeAll, UpdateTokens, CommitRevokeAll,
     DeactivateUser, ContinueDeactivate, ReactivateUser, RevokeCurrent,
     CloseSession, Abort, Authenticate, OAuthAuthenticate, BeginRevokeSession,
     BeginRefresh, PresentStale, Logout
<1>2. PICK j : job' = [job EXCEPT ![q] = j]
  BY <1>1 DEF CommitLogin, OAuthIssue, CommitRefresh, Finish, Continue
<1>3. p = q
  BY <1>2 DEF IInv, TypeOK
<1> QED
  BY <1>1, <1>3 DEF OAuthIssue, CommitRefresh

\* _enforce_session_limit leaves room for the session of the login, whatever the
\* OAuth logins had exceeded it by.
THEOREM LimitRestored == Spec => LoginRestoresLimit
<1>1. ASSUME IInv, [Next]_vars
      PROVE  [\A p \in Threads :
                /\ job[p].op = "login_open" /\ job'[p].op = "idle" /\ issued' # issued
                /\ job[p].others = ActiveDevices \ {job[p].device}
                => Cardinality(ActiveDevices') <= MaxSessions]_vars
  <2> SUFFICES ASSUME Next, NEW p \in Threads,
                      job[p].op = "login_open", job'[p].op = "idle", issued' # issued,
                      job[p].others = ActiveDevices \ {job[p].device}
               PROVE  Cardinality(ActiveDevices') <= MaxSessions
    BY <1>1
  <2>1. CommitLogin(p)
    BY <1>1, LoginEnds
  <2>2. PICK d \in Devices, kicked \in SUBSET Devices :
          d = job[p].device /\ kicked = job[p].kicked
    BY <1>1 DEF IInv, TypeOK, Jobs
  <2> DEFINE rest == (ActiveDevices \ {d}) \ kicked
  <2>3. Cardinality(rest) < MaxSessions
    BY <1>1, <2>2 DEF IInv, JobsKnown, Good, Known
  <2>4. ActiveDevices' \subseteq rest \cup {d}
    BY <2>1, <2>2 DEF CommitLogin, ActiveDevices
  <2>5. IsFiniteSet(rest)
    <3>1. rest \subseteq Devices
      BY DEF ActiveDevices
    <3> QED
      BY <3>1, DevicesAssumption, FS_Subset
  <2> HIDE DEF rest
  <2>6. /\ IsFiniteSet(rest \cup {d})
        /\ Cardinality(rest \cup {d}) =
             IF d \in rest THEN Cardinality(rest) ELSE Cardinality(rest) + 1
    BY <2>5, FS_AddElement, Zenon
  <2>7. Cardinality(rest) \in Nat /\ Cardinality(rest \cup {d}) <= MaxSessions
    BY <2>3, <2>5, <2>6, SessionBounds, FS_CardinalityType
  <2>8. IsFiniteSet(ActiveDevices') /\ Cardinality(ActiveDevices') <= Cardinality(rest \cup {d})
    BY <2>4, <2>6, FS_Subset, Zenon
  <2>9. Cardinality(ActiveDevices') \in Nat /\ Cardinality(rest \cup {d}) \in Nat
    BY <2>6, <2>8, FS_CardinalityType, Zenon
  <2> QED
    BY <2>7, <2>8, <2>9, SessionBounds
<1> QED
  BY <1>1, SessionInvariant, PTL DEF Spec, LoginRestoresLimit
=============================================================================
