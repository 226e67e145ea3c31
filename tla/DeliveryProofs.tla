--------------------------- MODULE DeliveryProofs ---------------------------
(***************************************************************************)
(* Notifications and e-mails, for any number of them and of workers: an    *)
(* e-mail is sent twice only after a doubtful answer or an overwritten     *)
(* status, nothing that waits is without its task unless the task was      *)
(* lost, and a failed e-mail stays failed until somebody resends it.  The  *)
(* invariant says who may be working on a row: one worker dispatches a     *)
(* notification, and one has claimed an e-mail as long as no status was    *)
(* overwritten.                                                            *)
(***************************************************************************)
EXTENDS Delivery, TLAPS

Dispatching == {"dispatch", "queueing", "resolving"}
Claiming == {"sending", "accepted", "refused"}

\* A worker that is not idle, and a resend that has begun, is about a notification
\* whose e-mail may be resent once more.
JobsKnown ==
    /\ \A w \in Workers :
         job[w] = Idle \/ (job[w].op # "idle" /\ job[w].about \in Notes)
    /\ \A a \in Admins :
         \/ resend[a] = NoResend
         \/ /\ resend[a].about \in Notes /\ resend[a].tries < MaxRetries
            /\ mail[resend[a].about].status # "none"

\* A notification is dispatched by one worker, while it is PROCESSING.
OneDispatcher ==
    /\ \A w \in Workers :
         job[w].op \in Dispatching => note[job[w].about].status = "processing"
    /\ \A w, v \in Workers :
         /\ job[w].op \in Dispatching /\ job[v].op \in Dispatching
         /\ job[w].about = job[v].about
         => w = v

\* The e-mail is logged by the dispatch and not before.
MailAfterDispatch ==
    /\ \A n \in Notes :
         /\ note[n].status \in {"none", "open", "undone", "pending"}
              => mail[n].status = "none"
         /\ note[n].status = "none" => note[n].channels = {}
         /\ mail[n].status = "none" => ~mail[n].known /\ mail[n].accepted = 0
    /\ \A w \in Workers :
         /\ job[w].op = "dispatch" => mail[job[w].about].status = "none"
         /\ job[w].op \in Claiming \cup {"queueing", "counting"}
              => mail[job[w].about].status # "none"

\* What the channels answered is true of the e-mail.
Answered ==
    /\ \A w \in Workers : job[w].op = "dispatch" => job[w].email = "skipped"
    /\ \A w \in Workers : job[w].op = "resolving" =>
         /\ ByMail(job[w].about) => job[w].email # "skipped"
         /\ job[w].email = "sent" => mail[job[w].about].status # "none"
         /\ job[w].email = "failed" => \/ mail[job[w].about].status = "none"
                                       \/ job[w].about \in dropped["mail"]

\* While no status was overwritten, an e-mail being sent is SENDING and is being
\* sent by one worker.
OneClaimant ==
    \A w \in Workers :
        job[w].op \in Claiming /\ ~mail[job[w].about].overtaken =>
            /\ mail[job[w].about].status = "sending"
            /\ \A v \in Workers : /\ job[v].op \in Claiming
                                  /\ job[v].about = job[w].about
                                  => v = w

\* An e-mail that was accepted is not sent and not reported as failed.
AcceptedIsKept ==
    \A n \in Notes :
        mail[n].accepted # 0 /\ ~mail[n].doubtful /\ ~mail[n].overtaken =>
            /\ mail[n].status \in {"sending", "sent"} \cup Reported
            /\ mail[n].accepted = 1
            /\ ~Working(n, {"sending", "refused"})

\* The task of an open notification is queued, or was dropped.
OpenIsQueued ==
    \A n \in Notes :
        note[n].status = "open" => n \in dispatchq \cup dropped["note"]

IInv ==
    /\ TypeOK /\ JobsKnown
    /\ OneDispatcher /\ MailAfterDispatch /\ Answered
    /\ OneClaimant /\ AcceptedIsKept
    /\ OpenIsQueued /\ NothingForgotten /\ ResultMatchesMail

-----------------------------------------------------------------------------
\* What a save of a status leaves as it was, and when it is not recorded as
\* overtaken.
LEMMA SaveKeeps ==
  ASSUME NEW m \in MailRows, NEW s \in MailStatus, NEW seen
  PROVE  /\ Save(m, s, seen) \in MailRows
         /\ Save(m, s, seen).status = s
         /\ Save(m, s, seen).known = m.known
         /\ Save(m, s, seen).accepted = m.accepted
         /\ Save(m, s, seen).doubtful = m.doubtful
         /\ ~Save(m, s, seen).overtaken => ~m.overtaken /\ m.status \in seen
  BY DEF Save, MailRows

\* The job of a worker that has the channels' answer.
LEMMA AnswerFrames ==
  ASSUME TypeOK, NEW w \in Workers, NEW r \in Result, Answer(w, r)
  PROVE  /\ job' \in [Workers -> Jobs]
         /\ job'[w].op = "resolving" /\ job'[w].about = job[w].about
         /\ job'[w].email = r
         /\ \A v \in Workers : v # w => job'[v] = job[v]
<1>1. job[w] \in Jobs /\ "resolving" \in Ops
  BY DEF TypeOK, Ops
<1>2. job'[w] = [job[w] EXCEPT !.op = "resolving", !.email = r]
  BY DEF TypeOK, Answer
<1>3. /\ job'[w] \in Jobs
      /\ job'[w].op = "resolving" /\ job'[w].about = job[w].about
      /\ job'[w].email = r
  BY <1>1, <1>2 DEF Jobs
<1> QED
  BY <1>3 DEF TypeOK, Answer

\* What the dispatch makes of the answers of the channels.
LEMMA FinalStatusAnswers ==
  ASSUME TypeOK, NEW w \in Workers, job[w].about \in Notes
  PROVE  /\ FinalStatus(Results(w)) \in {"sent", "failed"}
         /\ FinalStatus(Results(w)) = "failed" => job[w].email = "failed"
         /\ FinalStatus(Results(w)) = "sent" /\ ByMail(job[w].about)
              => job[w].email # "failed"
<1> DEFINE r == Results(w)
<1>1. /\ DOMAIN r = note[job[w].about].channels
      /\ \A c \in DOMAIN r : r[c] = IF c = "email" THEN job[w].email ELSE "skipped"
  BY DEF Results
<1>2. job[w].email \in Result
  BY DEF TypeOK, Jobs
<1>3. {r[c] : c \in DOMAIN r} \ {"skipped"}
        = IF "email" \in DOMAIN r THEN {job[w].email} \ {"skipped"} ELSE {}
  BY <1>1
<1> QED
  BY <1>1, <1>2, <1>3 DEF FinalStatus, Result, ByMail

LEMMA SendNothingKeepsIInv ==
  ASSUME IInv, NEW n \in Notes, SendNothing(n)
  PROVE  IInv'
<1>1. TypeOK /\ JobsKnown
  BY DEF IInv
<1>2. /\ note' \in [Notes -> NoteRows]
      /\ note[n].status = "none"
      /\ note'[n].status = "sent"
      /\ note'[n].channels = note[n].channels
      /\ note'[n].template = note[n].template
      /\ \A m \in Notes : m # n => note'[m] = note[m]
  BY <1>1, NoNoteAssumption, RetryAssumption
     DEF TypeOK, SendNothing, NoteRows, NoteStatus
<1>3. UNCHANGED <<mail, dispatchq, mailq, job, resend, dropped>>
  BY DEF SendNothing
<1>4. TypeOK'
  BY <1>1, <1>2, <1>3, NoNoteAssumption DEF IInv, TypeOK
<1>5. OneDispatcher'
  BY <1>1, <1>2, <1>3, NoNoteAssumption
     DEF IInv, OneDispatcher, JobsKnown, Dispatching, Idle
<1>6. MailAfterDispatch'
  BY <1>1, <1>2, <1>3, NoNoteAssumption
     DEF IInv, MailAfterDispatch, Reported, JobsKnown, OneDispatcher,
         Dispatching, Claiming, Waiting, Idle
<1>7. Answered'
  BY <1>1, <1>2, <1>3, NoNoteAssumption
     DEF IInv, Answered, Reported, Claiming, JobsKnown, OneDispatcher,
         Dispatching, ByMail, Idle, Waiting, MailAfterDispatch
<1>8. OpenIsQueued'
  BY <1>1, <1>2, <1>3, NoNoteAssumption
     DEF IInv, OpenIsQueued, JobsKnown, Idle, OneDispatcher, Dispatching
<1>9. NothingForgotten'
  BY <1>1, <1>2, <1>3, NoNoteAssumption
     DEF IInv, NothingForgotten, JobsKnown, OpenIsQueued, Working, Waiting,
         Reported, OneDispatcher, OneClaimant, Claiming, Dispatching, Idle
<1>10. ResultMatchesMail'
  BY <1>1, <1>2, <1>3, NoNoteAssumption
     DEF IInv, ResultMatchesMail, Result, Reported, Claiming, JobsKnown, Idle,
         ByMail, OneDispatcher, Dispatching, MailAfterDispatch, Answered
<1> QED
  BY <1>4, <1>5, <1>6, <1>7, <1>8, <1>9, <1>10, <1>3
     DEF IInv, JobsKnown, OneClaimant, AcceptedIsKept, Working

LEMMA SendNotificationKeepsIInv ==
  ASSUME IInv, NEW n \in Notes, SendNotification(n)
  PROVE  IInv'
<1>1. TypeOK /\ JobsKnown
  BY DEF IInv
<1>2. /\ note' \in [Notes -> NoteRows]
      /\ note[n].status = "none"
      /\ note'[n].status = "open"
      /\ \A m \in Notes : m # n => note'[m] = note[m]
  BY <1>1, NoNoteAssumption, RetryAssumption
     DEF TypeOK, SendNotification, NoteRows, NoteStatus
<1>3. /\ dispatchq' \subseteq Notes
      /\ dropped' \in [Tables -> SUBSET Notes]
      /\ dispatchq \subseteq dispatchq'
      /\ dropped["note"] \subseteq dropped'["note"]
      /\ dropped'["mail"] = dropped["mail"]
      /\ n \in dispatchq' \cup dropped'["note"]
  BY <1>1, <1>2, NoNoteAssumption, RetryAssumption
     DEF TypeOK, SendNotification, Drop, Tables
<1>4. UNCHANGED <<mail, mailq, job, resend>>
  BY DEF SendNotification
<1>5. TypeOK'
  BY <1>1, <1>2, <1>3, <1>4, NoNoteAssumption DEF IInv, TypeOK
<1>6. OneDispatcher'
  BY <1>1, <1>2, <1>3, <1>4, NoNoteAssumption
     DEF IInv, OneDispatcher, JobsKnown, Dispatching, Idle
<1>7. MailAfterDispatch'
  BY <1>1, <1>2, <1>3, <1>4, NoNoteAssumption
     DEF IInv, MailAfterDispatch, Reported, JobsKnown, OneDispatcher,
         Dispatching, Claiming, Waiting, Idle
<1>8. Answered'
  BY <1>1, <1>2, <1>3, <1>4, NoNoteAssumption
     DEF IInv, Answered, Reported, Claiming, JobsKnown, OneDispatcher,
         Dispatching, ByMail, Idle, Waiting, MailAfterDispatch
<1>9. OpenIsQueued'
  BY <1>1, <1>2, <1>3, <1>4, NoNoteAssumption
     DEF IInv, OpenIsQueued, JobsKnown, Idle, OneDispatcher, Dispatching
<1>10. NothingForgotten'
  BY <1>1, <1>2, <1>3, <1>4, NoNoteAssumption
     DEF IInv, NothingForgotten, JobsKnown, OpenIsQueued, Working, Waiting,
         Reported, OneDispatcher, OneClaimant, Claiming, Dispatching, Idle
<1>11. ResultMatchesMail'
  BY <1>1, <1>2, <1>3, <1>4, NoNoteAssumption
     DEF IInv, ResultMatchesMail, Result, Reported, Claiming, JobsKnown, Idle,
         ByMail, OneDispatcher, Dispatching, MailAfterDispatch, Answered
<1> QED
  BY <1>5, <1>6, <1>7, <1>8, <1>9, <1>10, <1>11, <1>4
     DEF IInv, JobsKnown, OneClaimant, AcceptedIsKept, Working

LEMMA EndCallerKeepsIInv ==
  ASSUME IInv, NEW n \in Notes, CommitCaller(n) \/ RollbackCaller(n)
  PROVE  IInv'
<1>1. TypeOK /\ JobsKnown
  BY DEF IInv
<1>2. /\ note' \in [Notes -> NoteRows]
      /\ note[n].status = "open"
      /\ note'[n].status \in {"pending", "undone"}
      /\ note'[n].channels = note[n].channels
      /\ note'[n].template = note[n].template
      /\ \A m \in Notes : m # n => note'[m] = note[m]
  BY <1>1, NoNoteAssumption, RetryAssumption
     DEF TypeOK, CommitCaller, RollbackCaller, NoteRows, NoteStatus
<1>3. UNCHANGED <<mail, dispatchq, mailq, job, resend, dropped>>
  BY DEF CommitCaller, RollbackCaller
<1>4. TypeOK'
  BY <1>1, <1>2, <1>3, NoNoteAssumption DEF IInv, TypeOK
<1>5. OneDispatcher'
  BY <1>1, <1>2, <1>3, NoNoteAssumption
     DEF IInv, OneDispatcher, JobsKnown, Dispatching, Idle
<1>6. MailAfterDispatch'
  BY <1>1, <1>2, <1>3, NoNoteAssumption
     DEF IInv, MailAfterDispatch, Reported, JobsKnown, OneDispatcher,
         Dispatching, Claiming, Waiting, Idle
<1>7. Answered'
  BY <1>1, <1>2, <1>3, NoNoteAssumption
     DEF IInv, Answered, Reported, Claiming, JobsKnown, OneDispatcher,
         Dispatching, ByMail, Idle, Waiting, MailAfterDispatch
<1>8. OpenIsQueued'
  BY <1>1, <1>2, <1>3, NoNoteAssumption
     DEF IInv, OpenIsQueued, JobsKnown, Idle, OneDispatcher, Dispatching
<1>9. NothingForgotten'
  BY <1>1, <1>2, <1>3, NoNoteAssumption
     DEF IInv, NothingForgotten, JobsKnown, OpenIsQueued, Working, Waiting,
         Reported, OneDispatcher, OneClaimant, Claiming, Dispatching, Idle
<1>10. ResultMatchesMail'
  BY <1>1, <1>2, <1>3, NoNoteAssumption
     DEF IInv, ResultMatchesMail, Result, Reported, Claiming, JobsKnown, Idle,
         ByMail, OneDispatcher, Dispatching, MailAfterDispatch, Answered
<1> QED
  BY <1>4, <1>5, <1>6, <1>7, <1>8, <1>9, <1>10, <1>3
     DEF IInv, JobsKnown, OneClaimant, AcceptedIsKept, Working

LEMMA ChannelsSkipKeepsIInv ==
  ASSUME IInv, NEW w \in Workers, ChannelsSkip(w)
  PROVE  IInv'
<1>1. TypeOK /\ JobsKnown
  BY DEF IInv
<1>2. /\ job' \in [Workers -> Jobs]
      /\ job[w].op = "dispatch"
      /\ job[w].about \in Notes
      /\ job'[w].op = "resolving"
      /\ job'[w].about = job[w].about
      /\ job'[w].email = job[w].email
      /\ \A v \in Workers : v # w => job'[v] = job[v]
      /\ ~ByMail(job[w].about)
  BY <1>1, NoNoteAssumption, RetryAssumption
     DEF TypeOK, ChannelsSkip, Go, Jobs, Ops, Result, JobsKnown, Idle
<1>3. UNCHANGED <<note, mail, dispatchq, mailq, resend, dropped>>
  BY DEF ChannelsSkip
<1>4. TypeOK'
  BY <1>1, <1>2, <1>3, NoNoteAssumption DEF IInv, TypeOK
<1>5. JobsKnown'
  BY <1>1, <1>2, <1>3, NoNoteAssumption
     DEF IInv, JobsKnown, Reported, Idle, NoResend, Waiting
<1>6. OneDispatcher'
  BY <1>1, <1>2, <1>3, NoNoteAssumption
     DEF IInv, OneDispatcher, JobsKnown, Dispatching, Idle
<1>7. MailAfterDispatch'
  BY <1>1, <1>2, <1>3, NoNoteAssumption
     DEF IInv, MailAfterDispatch, Reported, JobsKnown, OneDispatcher,
         Dispatching, Claiming, Waiting, Idle
<1>8. Answered'
  BY <1>1, <1>2, <1>3, NoNoteAssumption
     DEF IInv, Answered, Reported, Claiming, JobsKnown, OneDispatcher,
         Dispatching, ByMail, Idle, Waiting, MailAfterDispatch
<1>9. OneClaimant'
  BY <1>1, <1>2, <1>3, NoNoteAssumption
     DEF IInv, OneClaimant, JobsKnown, MailAfterDispatch, Claiming, Waiting,
         Reported, Idle
<1>10. AcceptedIsKept'
  BY <1>1, <1>2, <1>3, NoNoteAssumption
     DEF IInv, AcceptedIsKept, JobsKnown, OneClaimant, Claiming, Working,
         Waiting, Reported, MailAfterDispatch, Idle
<1>11. NothingForgotten'
  BY <1>1, <1>2, <1>3, NoNoteAssumption
     DEF IInv, NothingForgotten, JobsKnown, OpenIsQueued, Working, Waiting,
         Reported, OneDispatcher, OneClaimant, Claiming, Dispatching, Idle
<1> QED
  BY <1>4, <1>5, <1>6, <1>7, <1>8, <1>9, <1>10, <1>11, <1>3
     DEF IInv, OpenIsQueued, ResultMatchesMail, ByMail

LEMMA ChannelQueuesMailKeepsIInv ==
  ASSUME IInv, NEW w \in Workers, ChannelQueuesMail(w)
  PROVE  IInv'
<1> DEFINE n == job[w].about
<1>1. TypeOK /\ JobsKnown
  BY DEF IInv
<1>2. /\ job' \in [Workers -> Jobs]
      /\ job[w].op = "dispatch"
      /\ n \in Notes
      /\ job'[w].op = "queueing"
      /\ job'[w].about = n
      /\ job'[w].email = job[w].email
      /\ \A v \in Workers : v # w => job'[v] = job[v]
  BY <1>1, NoNoteAssumption, RetryAssumption
     DEF TypeOK, ChannelQueuesMail, Go, Jobs, Ops, Result, JobsKnown, Idle
<1>3. /\ mail' \in [Notes -> MailRows]
      /\ mail'[n].status = "pending"
      /\ mail'[n].accepted = 0
      /\ \A m \in Notes : m # n => mail'[m] = mail[m]
      /\ mailq' \in [Notes -> Nat]
      /\ mailq'[n] > 0
      /\ \A m \in Notes : m # n => mailq'[m] = mailq[m]
  BY <1>1, <1>2, NoNoteAssumption, RetryAssumption
     DEF TypeOK, ChannelQueuesMail, NewMail, Enqueued, MailRows, MailStatus
<1>4. UNCHANGED <<note, dispatchq, resend, dropped>>
  BY DEF ChannelQueuesMail
<1>5. TypeOK'
  BY <1>1, <1>2, <1>3, <1>4, NoNoteAssumption DEF IInv, TypeOK
<1>6. JobsKnown'
  BY <1>1, <1>2, <1>3, <1>4, NoNoteAssumption
     DEF IInv, JobsKnown, Reported, Idle, NoResend, Waiting
<1>7. OneDispatcher'
  BY <1>1, <1>2, <1>3, <1>4, NoNoteAssumption
     DEF IInv, OneDispatcher, JobsKnown, Dispatching, Idle
<1>8. MailAfterDispatch'
  BY <1>1, <1>2, <1>3, <1>4, NoNoteAssumption
     DEF IInv, MailAfterDispatch, Reported, JobsKnown, OneDispatcher,
         Dispatching, Claiming, Waiting, Idle
<1>9. Answered'
  BY <1>1, <1>2, <1>3, <1>4, NoNoteAssumption
     DEF IInv, Answered, Reported, Claiming, JobsKnown, OneDispatcher,
         Dispatching, ByMail, Idle, Waiting, MailAfterDispatch
<1>10. OneClaimant'
  BY <1>1, <1>2, <1>3, <1>4, NoNoteAssumption
     DEF IInv, OneClaimant, JobsKnown, MailAfterDispatch, Claiming, Waiting,
         Reported, Idle
<1>11. AcceptedIsKept'
  BY <1>1, <1>2, <1>3, <1>4, NoNoteAssumption
     DEF IInv, AcceptedIsKept, JobsKnown, OneClaimant, Claiming, Working,
         Waiting, Reported, MailAfterDispatch, Idle
<1>12. NothingForgotten'
  BY <1>1, <1>2, <1>3, <1>4, NoNoteAssumption
     DEF IInv, NothingForgotten, JobsKnown, OpenIsQueued, Working, Waiting,
         Reported, OneDispatcher, OneClaimant, Claiming, Dispatching, Idle
<1>13. ResultMatchesMail'
  BY <1>1, <1>2, <1>3, <1>4, NoNoteAssumption
     DEF IInv, ResultMatchesMail, Result, Reported, Claiming, JobsKnown, Idle,
         ByMail, OneDispatcher, Dispatching, MailAfterDispatch, Answered
<1> QED
  BY <1>5, <1>6, <1>7, <1>8, <1>9, <1>10, <1>11, <1>12, <1>13, <1>4
     DEF IInv, OpenIsQueued

LEMMA SaveQueuedKeepsIInv ==
  ASSUME IInv, NEW w \in Workers, SaveQueued(w)
  PROVE  IInv'
<1> DEFINE n == job[w].about
<1>1. TypeOK /\ JobsKnown
  BY DEF IInv
<1>2. /\ job' \in [Workers -> Jobs]
      /\ job[w].op = "queueing"
      /\ n \in Notes
      /\ job'[w].op = "resolving"
      /\ job'[w].about = n
      /\ job'[w].email = "sent"
      /\ \A v \in Workers : v # w => job'[v] = job[v]
  BY <1>1, AnswerFrames DEF SaveQueued, JobsKnown, Idle, Result
<1>3. /\ mail' \in [Notes -> MailRows]
      /\ mail'[n].status = "queued"
      /\ mail'[n].known = mail[n].known
      /\ mail'[n].accepted = mail[n].accepted
      /\ mail'[n].doubtful = mail[n].doubtful
      /\ ~mail'[n].overtaken => ~mail[n].overtaken /\ mail[n].status = "pending"
      /\ \A m \in Notes : m # n => mail'[m] = mail[m]
  <2> DEFINE s == Save(mail[n], "queued", {"pending"})
  <2>1. /\ s \in MailRows /\ s.status = "queued" /\ s.known = mail[n].known
        /\ s.accepted = mail[n].accepted
        /\ s.doubtful = mail[n].doubtful
        /\ ~s.overtaken => /\ ~mail[n].overtaken
                           /\ mail[n].status = "pending"
    BY <1>1, <1>2, SaveKeeps DEF TypeOK, MailStatus, Waiting
  <2>2. mail' = [mail EXCEPT ![n] = s]
    BY DEF SaveQueued
  <2> HIDE DEF s
  <2> QED
    BY <1>1, <1>2, <2>1, <2>2 DEF TypeOK
<1>4. UNCHANGED <<note, dispatchq, mailq, resend, dropped>>
  BY DEF SaveQueued
<1>5. TypeOK'
  BY <1>1, <1>2, <1>3, <1>4, NoNoteAssumption DEF IInv, TypeOK
<1>6. JobsKnown'
  BY <1>1, <1>2, <1>3, <1>4, NoNoteAssumption
     DEF IInv, JobsKnown, Reported, Idle, NoResend, Waiting
<1>7. OneDispatcher'
  BY <1>1, <1>2, <1>3, <1>4, NoNoteAssumption
     DEF IInv, OneDispatcher, JobsKnown, Dispatching, Idle
<1>8. MailAfterDispatch'
  BY <1>1, <1>2, <1>3, <1>4, NoNoteAssumption
     DEF IInv, MailAfterDispatch, Reported, JobsKnown, OneDispatcher,
         Dispatching, Claiming, Waiting, Idle
<1>9. Answered'
  BY <1>1, <1>2, <1>3, <1>4, NoNoteAssumption
     DEF IInv, Answered, Reported, Claiming, JobsKnown, OneDispatcher,
         Dispatching, ByMail, Idle, Waiting, MailAfterDispatch
<1>10. OneClaimant'
  BY <1>1, <1>2, <1>3, <1>4, NoNoteAssumption
     DEF IInv, OneClaimant, JobsKnown, MailAfterDispatch, Claiming, Waiting,
         Reported, Idle
<1>11. AcceptedIsKept'
  BY <1>1, <1>2, <1>3, <1>4, NoNoteAssumption
     DEF IInv, AcceptedIsKept, JobsKnown, OneClaimant, Claiming, Working,
         Waiting, Reported, MailAfterDispatch, Idle
<1>12. NothingForgotten'
  BY <1>1, <1>2, <1>3, <1>4, NoNoteAssumption
     DEF IInv, NothingForgotten, JobsKnown, OpenIsQueued, Working, Waiting,
         Reported, OneDispatcher, OneClaimant, Claiming, Dispatching, Idle
<1>13. ResultMatchesMail'
  BY <1>1, <1>2, <1>3, <1>4, NoNoteAssumption
     DEF IInv, ResultMatchesMail, Result, Reported, Claiming, JobsKnown, Idle,
         ByMail, OneDispatcher, Dispatching, MailAfterDispatch, Answered
<1> QED
  BY <1>5, <1>6, <1>7, <1>8, <1>9, <1>10, <1>11, <1>12, <1>13, <1>4
     DEF IInv, OpenIsQueued

LEMMA ProviderAcceptsKeepsIInv ==
  ASSUME IInv, NEW w \in Workers, ProviderAccepts(w)
  PROVE  IInv'
<1> DEFINE n == job[w].about
<1>1. TypeOK /\ JobsKnown
  BY DEF IInv
<1>2. /\ job' \in [Workers -> Jobs]
      /\ job[w].op = "sending"
      /\ n \in Notes
      /\ job'[w].op = "accepted"
      /\ job'[w].about = n
      /\ job'[w].email = job[w].email
      /\ \A v \in Workers : v # w => job'[v] = job[v]
  BY <1>1, NoNoteAssumption, RetryAssumption
     DEF TypeOK, ProviderAccepts, Go, Jobs, Ops, Result, JobsKnown, Idle
<1>3. /\ mail' \in [Notes -> MailRows]
      /\ mail'[n].status = mail[n].status
      /\ mail'[n].known = mail[n].known
      /\ mail'[n].doubtful = mail[n].doubtful
      /\ mail'[n].overtaken = mail[n].overtaken
      /\ mail'[n].accepted # 0
      /\ (mail[n].accepted = 0 => mail'[n].accepted = 1)
      /\ \A m \in Notes : m # n => mail'[m] = mail[m]
  BY <1>1, <1>2, NoNoteAssumption, RetryAssumption
     DEF TypeOK, ProviderAccepts, AcceptedOnceMore, MailRows, MailStatus
<1>4. UNCHANGED <<note, dispatchq, mailq, resend, dropped>>
  BY DEF ProviderAccepts
<1>5. TypeOK'
  BY <1>1, <1>2, <1>3, <1>4, NoNoteAssumption DEF IInv, TypeOK
<1>6. JobsKnown'
  BY <1>1, <1>2, <1>3, <1>4, NoNoteAssumption
     DEF IInv, JobsKnown, Reported, Idle, NoResend, Waiting
<1>7. OneDispatcher'
  BY <1>1, <1>2, <1>3, <1>4, NoNoteAssumption
     DEF IInv, OneDispatcher, JobsKnown, Dispatching, Idle
<1>8. MailAfterDispatch'
  BY <1>1, <1>2, <1>3, <1>4, NoNoteAssumption
     DEF IInv, MailAfterDispatch, Reported, JobsKnown, OneDispatcher,
         Dispatching, Claiming, Waiting, Idle
<1>9. Answered'
  BY <1>1, <1>2, <1>3, <1>4, NoNoteAssumption
     DEF IInv, Answered, Reported, Claiming, JobsKnown, OneDispatcher,
         Dispatching, ByMail, Idle, Waiting, MailAfterDispatch
<1>10. OneClaimant'
  BY <1>1, <1>2, <1>3, <1>4, NoNoteAssumption
     DEF IInv, OneClaimant, JobsKnown, MailAfterDispatch, Claiming, Waiting,
         Reported, Idle
<1>11. AcceptedIsKept'
  BY <1>1, <1>2, <1>3, <1>4, NoNoteAssumption
     DEF IInv, AcceptedIsKept, JobsKnown, OneClaimant, Claiming, Working,
         Waiting, Reported, MailAfterDispatch, Idle
<1>12. NothingForgotten'
  BY <1>1, <1>2, <1>3, <1>4, NoNoteAssumption
     DEF IInv, NothingForgotten, JobsKnown, OpenIsQueued, Working, Waiting,
         Reported, OneDispatcher, OneClaimant, Claiming, Dispatching, Idle
<1>13. ResultMatchesMail'
  BY <1>1, <1>2, <1>3, <1>4, NoNoteAssumption
     DEF IInv, ResultMatchesMail, Result, Reported, Claiming, JobsKnown, Idle,
         ByMail, OneDispatcher, Dispatching, MailAfterDispatch, Answered
<1> QED
  BY <1>5, <1>6, <1>7, <1>8, <1>9, <1>10, <1>11, <1>12, <1>13, <1>4
     DEF IInv, OpenIsQueued

LEMMA ProviderFailsKeepsIInv ==
  ASSUME IInv, NEW w \in Workers, ProviderFails(w)
  PROVE  IInv'
<1> DEFINE n == job[w].about
<1>1. TypeOK /\ JobsKnown
  BY DEF IInv
<1>2. /\ job' \in [Workers -> Jobs]
      /\ job[w].op = "sending"
      /\ n \in Notes
      /\ job'[w].op = "refused"
      /\ job'[w].about = n
      /\ job'[w].email = job[w].email
      /\ \A v \in Workers : v # w => job'[v] = job[v]
  BY <1>1, NoNoteAssumption, RetryAssumption
     DEF TypeOK, ProviderFails, Go, Jobs, Ops, Result, JobsKnown, Idle
<1>3. /\ mail' \in [Notes -> MailRows]
      /\ mail'[n].status = mail[n].status
      /\ mail'[n].known = mail[n].known
      /\ mail'[n].overtaken = mail[n].overtaken
      /\ ~mail'[n].doubtful => ~mail[n].doubtful /\ mail'[n].accepted = mail[n].accepted
      /\ \A m \in Notes : m # n => mail'[m] = mail[m]
  BY <1>1, <1>2, NoNoteAssumption, RetryAssumption
     DEF TypeOK, ProviderFails, AcceptedOnceMore, MailRows, MailStatus
<1>4. UNCHANGED <<note, dispatchq, mailq, resend, dropped>>
  BY DEF ProviderFails
<1>5. TypeOK'
  BY <1>1, <1>2, <1>3, <1>4, NoNoteAssumption DEF IInv, TypeOK
<1>6. JobsKnown'
  BY <1>1, <1>2, <1>3, <1>4, NoNoteAssumption
     DEF IInv, JobsKnown, Reported, Idle, NoResend, Waiting
<1>7. OneDispatcher'
  BY <1>1, <1>2, <1>3, <1>4, NoNoteAssumption
     DEF IInv, OneDispatcher, JobsKnown, Dispatching, Idle
<1>8. MailAfterDispatch'
  BY <1>1, <1>2, <1>3, <1>4, NoNoteAssumption
     DEF IInv, MailAfterDispatch, Reported, JobsKnown, OneDispatcher,
         Dispatching, Claiming, Waiting, Idle
<1>9. Answered'
  BY <1>1, <1>2, <1>3, <1>4, NoNoteAssumption
     DEF IInv, Answered, Reported, Claiming, JobsKnown, OneDispatcher,
         Dispatching, ByMail, Idle, Waiting, MailAfterDispatch
<1>10. OneClaimant'
  BY <1>1, <1>2, <1>3, <1>4, NoNoteAssumption
     DEF IInv, OneClaimant, JobsKnown, MailAfterDispatch, Claiming, Waiting,
         Reported, Idle
<1>11. AcceptedIsKept'
  BY <1>1, <1>2, <1>3, <1>4, NoNoteAssumption
     DEF IInv, AcceptedIsKept, JobsKnown, OneClaimant, Claiming, Working,
         Waiting, Reported, MailAfterDispatch, Idle
<1>12. NothingForgotten'
  BY <1>1, <1>2, <1>3, <1>4, NoNoteAssumption
     DEF IInv, NothingForgotten, JobsKnown, OpenIsQueued, Working, Waiting,
         Reported, OneDispatcher, OneClaimant, Claiming, Dispatching, Idle
<1>13. ResultMatchesMail'
  BY <1>1, <1>2, <1>3, <1>4, NoNoteAssumption
     DEF IInv, ResultMatchesMail, Result, Reported, Claiming, JobsKnown, Idle,
         ByMail, OneDispatcher, Dispatching, MailAfterDispatch, Answered
<1> QED
  BY <1>5, <1>6, <1>7, <1>8, <1>9, <1>10, <1>11, <1>12, <1>13, <1>4
     DEF IInv, OpenIsQueued

LEMMA SaveSentKeepsIInv ==
  ASSUME IInv, NEW w \in Workers, SaveSent(w)
  PROVE  IInv'
<1> DEFINE n == job[w].about
<1>1. TypeOK /\ JobsKnown
  BY DEF IInv
<1>2. /\ job' \in [Workers -> Jobs]
      /\ job[w].op = "accepted"
      /\ n \in Notes
      /\ job'[w] = Idle
      /\ \A v \in Workers : v # w => job'[v] = job[v]
  BY <1>1, NoNoteAssumption, RetryAssumption
     DEF TypeOK, SaveSent, Finish, Jobs, Ops, Result, JobsKnown, Idle
<1>3. /\ mail' \in [Notes -> MailRows]
      /\ mail'[n].status = "sent"
      /\ mail'[n].accepted = mail[n].accepted
      /\ mail'[n].doubtful = mail[n].doubtful
      /\ ~mail'[n].overtaken => ~mail[n].overtaken /\ mail[n].status = "sending"
      /\ \A m \in Notes : m # n => mail'[m] = mail[m]
  <2> DEFINE s == Save(mail[n], "sent", {"sending"})
  <2>1. /\ s \in MailRows /\ s.status = "sent"
        /\ s.accepted = mail[n].accepted
        /\ s.doubtful = mail[n].doubtful
        /\ ~s.overtaken => /\ ~mail[n].overtaken
                           /\ mail[n].status = "sending"
    BY <1>1, <1>2, SaveKeeps DEF TypeOK, MailStatus
  <2>2. mail' = [mail EXCEPT ![n] = [s EXCEPT !.known = TRUE]]
    BY DEF SaveSent
  <2> HIDE DEF s
  <2> QED
    BY <1>1, <1>2, <2>1, <2>2 DEF TypeOK, MailRows
<1>4. UNCHANGED <<note, dispatchq, mailq, resend, dropped>>
  BY DEF SaveSent
<1>5. TypeOK'
  BY <1>1, <1>2, <1>3, <1>4, NoNoteAssumption DEF IInv, TypeOK
<1>6. JobsKnown'
  BY <1>1, <1>2, <1>3, <1>4, NoNoteAssumption
     DEF IInv, JobsKnown, Reported, Idle, NoResend, Waiting
<1>7. OneDispatcher'
  BY <1>1, <1>2, <1>3, <1>4, NoNoteAssumption
     DEF IInv, OneDispatcher, JobsKnown, Dispatching, Idle
<1>8. MailAfterDispatch'
  BY <1>1, <1>2, <1>3, <1>4, NoNoteAssumption
     DEF IInv, MailAfterDispatch, Reported, JobsKnown, OneDispatcher,
         Dispatching, Claiming, Waiting, Idle
<1>9. Answered'
  BY <1>1, <1>2, <1>3, <1>4, NoNoteAssumption
     DEF IInv, Answered, Reported, Claiming, JobsKnown, OneDispatcher,
         Dispatching, ByMail, Idle, Waiting, MailAfterDispatch
<1>10. OneClaimant'
  BY <1>1, <1>2, <1>3, <1>4, NoNoteAssumption
     DEF IInv, OneClaimant, JobsKnown, MailAfterDispatch, Claiming, Waiting,
         Reported, Idle
<1>11. AcceptedIsKept'
  BY <1>1, <1>2, <1>3, <1>4, NoNoteAssumption
     DEF IInv, AcceptedIsKept, JobsKnown, OneClaimant, Claiming, Working,
         Waiting, Reported, MailAfterDispatch, Idle
<1>12. NothingForgotten'
  BY <1>1, <1>2, <1>3, <1>4, NoNoteAssumption
     DEF IInv, NothingForgotten, JobsKnown, OpenIsQueued, Working, Waiting,
         Reported, OneDispatcher, OneClaimant, Claiming, Dispatching, Idle
<1>13. ResultMatchesMail'
  BY <1>1, <1>2, <1>3, <1>4, NoNoteAssumption
     DEF IInv, ResultMatchesMail, Result, Reported, Claiming, JobsKnown, Idle,
         ByMail, OneDispatcher, Dispatching, MailAfterDispatch, Answered
<1> QED
  BY <1>5, <1>6, <1>7, <1>8, <1>9, <1>10, <1>11, <1>12, <1>13, <1>4
     DEF IInv, OpenIsQueued

LEMMA SaveFailedKeepsIInv ==
  ASSUME IInv, NEW w \in Workers, SaveFailed(w)
  PROVE  IInv'
<1> DEFINE n == job[w].about
<1>1. TypeOK /\ JobsKnown
  BY DEF IInv
<1>2. /\ job' \in [Workers -> Jobs]
      /\ job[w].op = "refused"
      /\ n \in Notes
      /\ job'[w].op = "counting"
      /\ job'[w].about = n
      /\ job'[w].email = job[w].email
      /\ \A v \in Workers : v # w => job'[v] = job[v]
  BY <1>1, NoNoteAssumption, RetryAssumption
     DEF TypeOK, SaveFailed, Go, Jobs, Ops, Result, JobsKnown, Idle
<1>3. /\ mail' \in [Notes -> MailRows]
      /\ mail'[n].status = "failed"
      /\ mail'[n].known = mail[n].known
      /\ mail'[n].accepted = mail[n].accepted
      /\ mail'[n].doubtful = mail[n].doubtful
      /\ ~mail'[n].overtaken => ~mail[n].overtaken /\ mail[n].status = "sending"
      /\ \A m \in Notes : m # n => mail'[m] = mail[m]
  <2> DEFINE s == Save(mail[n], "failed", {"sending"})
  <2>1. /\ s \in MailRows /\ s.status = "failed" /\ s.known = mail[n].known
        /\ s.accepted = mail[n].accepted
        /\ s.doubtful = mail[n].doubtful
        /\ ~s.overtaken => /\ ~mail[n].overtaken
                           /\ mail[n].status = "sending"
    BY <1>1, <1>2, SaveKeeps DEF TypeOK, MailStatus, Waiting
  <2>2. mail' = [mail EXCEPT ![n] = s]
    BY DEF SaveFailed
  <2> HIDE DEF s
  <2> QED
    BY <1>1, <1>2, <2>1, <2>2 DEF TypeOK
<1>4. UNCHANGED <<note, dispatchq, mailq, resend, dropped>>
  BY DEF SaveFailed
<1>5. TypeOK'
  BY <1>1, <1>2, <1>3, <1>4, NoNoteAssumption DEF IInv, TypeOK
<1>6. JobsKnown'
  BY <1>1, <1>2, <1>3, <1>4, NoNoteAssumption
     DEF IInv, JobsKnown, Reported, Idle, NoResend, Waiting
<1>7. OneDispatcher'
  BY <1>1, <1>2, <1>3, <1>4, NoNoteAssumption
     DEF IInv, OneDispatcher, JobsKnown, Dispatching, Idle
<1>8. MailAfterDispatch'
  BY <1>1, <1>2, <1>3, <1>4, NoNoteAssumption
     DEF IInv, MailAfterDispatch, Reported, JobsKnown, OneDispatcher,
         Dispatching, Claiming, Waiting, Idle
<1>9. Answered'
  BY <1>1, <1>2, <1>3, <1>4, NoNoteAssumption
     DEF IInv, Answered, Reported, Claiming, JobsKnown, OneDispatcher,
         Dispatching, ByMail, Idle, Waiting, MailAfterDispatch
<1>10. OneClaimant'
  BY <1>1, <1>2, <1>3, <1>4, NoNoteAssumption
     DEF IInv, OneClaimant, JobsKnown, MailAfterDispatch, Claiming, Waiting,
         Reported, Idle
<1>11. AcceptedIsKept'
  BY <1>1, <1>2, <1>3, <1>4, NoNoteAssumption
     DEF IInv, AcceptedIsKept, JobsKnown, OneClaimant, Claiming, Working,
         Waiting, Reported, MailAfterDispatch, Idle
<1>12. NothingForgotten'
  BY <1>1, <1>2, <1>3, <1>4, NoNoteAssumption
     DEF IInv, NothingForgotten, JobsKnown, OpenIsQueued, Working, Waiting,
         Reported, OneDispatcher, OneClaimant, Claiming, Dispatching, Idle
<1>13. ResultMatchesMail'
  BY <1>1, <1>2, <1>3, <1>4, NoNoteAssumption
     DEF IInv, ResultMatchesMail, Result, Reported, Claiming, JobsKnown, Idle,
         ByMail, OneDispatcher, Dispatching, MailAfterDispatch, Answered
<1> QED
  BY <1>5, <1>6, <1>7, <1>8, <1>9, <1>10, <1>11, <1>12, <1>13, <1>4
     DEF IInv, OpenIsQueued

LEMMA CountRetryKeepsIInv ==
  ASSUME IInv, NEW w \in Workers, CountRetry(w)
  PROVE  IInv'
<1> DEFINE n == job[w].about
<1>1. TypeOK /\ JobsKnown
  BY DEF IInv
<1>2. /\ job' \in [Workers -> Jobs]
      /\ job[w].op = "counting"
      /\ n \in Notes
      /\ job'[w] = Idle
      /\ \A v \in Workers : v # w => job'[v] = job[v]
  BY <1>1, NoNoteAssumption, RetryAssumption
     DEF TypeOK, CountRetry, Finish, Jobs, Ops, Result, JobsKnown, Idle
<1>3. /\ mail' \in [Notes -> MailRows]
      /\ mail'[n].status = mail[n].status
      /\ mail'[n].known = mail[n].known
      /\ mail'[n].accepted = mail[n].accepted
      /\ mail'[n].doubtful = mail[n].doubtful
      /\ mail'[n].overtaken = mail[n].overtaken
      /\ \A m \in Notes : m # n => mail'[m] = mail[m]
  <2>1. mail \in [Notes -> MailRows] /\ mail[n] \in MailRows
    BY <1>1, <1>2 DEF TypeOK
  <2>2. PICK tries \in 0..MaxRetries : tries = Counted(mail[n].tries)
    <3>1. mail[n].tries \in 0..MaxRetries /\ MaxRetries \in Nat
      BY <2>1, RetryAssumption DEF MailRows
    <3> QED
      BY <3>1 DEF Counted
  <2>3. PICK row : row = [mail[n] EXCEPT
                            !.tries = tries, !.due = @ \/ tries < MaxRetries]
    OBVIOUS
  <2>4. /\ row \in MailRows
        /\ row.status = mail[n].status /\ row.known = mail[n].known
        /\ row.accepted = mail[n].accepted /\ row.doubtful = mail[n].doubtful
        /\ row.overtaken = mail[n].overtaken
    BY <2>1, <2>3 DEF MailRows
  <2>5. mail' = [mail EXCEPT ![n] = row]
    BY <1>2, <2>1, <2>2, <2>3 DEF CountRetry
  <2> QED
    BY <1>2, <2>1, <2>4, <2>5
<1>4. /\ mailq' \in [Notes -> Nat]
      /\ mailq'[n] > 0
      /\ \A m \in Notes : m # n => mailq'[m] = mailq[m]
  BY <1>1, <1>2, <1>3, NoNoteAssumption, RetryAssumption
     DEF TypeOK, CountRetry, Enqueued
<1>5. UNCHANGED <<note, dispatchq, resend, dropped>>
  BY DEF CountRetry
<1>6. TypeOK'
  BY <1>1, <1>2, <1>3, <1>4, <1>5, NoNoteAssumption DEF IInv, TypeOK
<1>7. JobsKnown'
  BY <1>1, <1>2, <1>3, <1>4, <1>5, NoNoteAssumption
     DEF IInv, JobsKnown, Reported, Idle, NoResend, Waiting
<1>8. OneDispatcher'
  BY <1>1, <1>2, <1>3, <1>4, <1>5, NoNoteAssumption
     DEF IInv, OneDispatcher, JobsKnown, Dispatching, Idle
<1>9. MailAfterDispatch'
  BY <1>1, <1>2, <1>3, <1>4, <1>5, NoNoteAssumption
     DEF IInv, MailAfterDispatch, Reported, JobsKnown, OneDispatcher,
         Dispatching, Claiming, Waiting, Idle
<1>10. Answered'
  BY <1>1, <1>2, <1>3, <1>4, <1>5, NoNoteAssumption
     DEF IInv, Answered, Reported, Claiming, JobsKnown, OneDispatcher,
         Dispatching, ByMail, Idle, Waiting, MailAfterDispatch
<1>11. OneClaimant'
  BY <1>1, <1>2, <1>3, <1>4, <1>5, NoNoteAssumption
     DEF IInv, OneClaimant, JobsKnown, MailAfterDispatch, Claiming, Waiting,
         Reported, Idle
<1>12. AcceptedIsKept'
  BY <1>1, <1>2, <1>3, <1>4, <1>5, NoNoteAssumption
     DEF IInv, AcceptedIsKept, JobsKnown, OneClaimant, Claiming, Working,
         Waiting, Reported, MailAfterDispatch, Idle
<1>13. NothingForgotten'
  BY <1>1, <1>2, <1>3, <1>4, <1>5, NoNoteAssumption
     DEF IInv, NothingForgotten, JobsKnown, OpenIsQueued, Working, Waiting,
         Reported, OneDispatcher, OneClaimant, Claiming, Dispatching, Idle
<1>14. ResultMatchesMail'
  BY <1>1, <1>2, <1>3, <1>4, <1>5, NoNoteAssumption
     DEF IInv, ResultMatchesMail, Result, Reported, Claiming, JobsKnown, Idle,
         ByMail, OneDispatcher, Dispatching, MailAfterDispatch, Answered
<1> QED
  BY <1>6, <1>7, <1>8, <1>9, <1>10, <1>11, <1>12, <1>13, <1>14, <1>5
     DEF IInv, OpenIsQueued

LEMMA ResolveNoteKeepsIInv ==
  ASSUME IInv, NEW w \in Workers, ResolveNote(w)
  PROVE  IInv'
<1> DEFINE n == job[w].about
<1>1. TypeOK /\ JobsKnown
  BY DEF IInv
<1>2. /\ job[w].email \in Result
      /\ job' \in [Workers -> Jobs]
      /\ job[w].op = "resolving"
      /\ n \in Notes
      /\ job'[w] = Idle
      /\ \A v \in Workers : v # w => job'[v] = job[v]
  BY <1>1, NoNoteAssumption, RetryAssumption
     DEF TypeOK, ResolveNote, Finish, Jobs, Ops, Result, JobsKnown, Idle
<1>3. /\ note' \in [Notes -> NoteRows]
      /\ note'[n].status \in {"sent", "failed"}
      /\ note'[n].status = "failed" => job[w].email = "failed"
      /\ note'[n].status = "sent" /\ ByMail(n) => job[w].email # "failed"
      /\ note'[n].channels = note[n].channels
      /\ note'[n].template = note[n].template
      /\ \A m \in Notes : m # n => note'[m] = note[m]
  <2>1. /\ FinalStatus(Results(w)) \in NoteStatus
        /\ FinalStatus(Results(w)) \in {"sent", "failed"}
        /\ FinalStatus(Results(w)) = "failed" => job[w].email = "failed"
        /\ FinalStatus(Results(w)) = "sent" /\ ByMail(n)
             => job[w].email # "failed"
    BY <1>1, <1>2, FinalStatusAnswers DEF NoteStatus
  <2>2. note' = [note EXCEPT ![n].status = FinalStatus(Results(w))]
    BY DEF ResolveNote
  <2>3. PICK row : row = [note[n] EXCEPT !.status = FinalStatus(Results(w))]
    OBVIOUS
  <2>4. note \in [Notes -> NoteRows] /\ note[n] \in NoteRows
    BY <1>1, <1>2 DEF TypeOK
  <2>5. /\ row \in NoteRows /\ row.status = FinalStatus(Results(w))
        /\ row.channels = note[n].channels /\ row.template = note[n].template
    BY <2>1, <2>3, <2>4 DEF NoteRows
  <2>6. note' = [note EXCEPT ![n] = row]
    BY <2>2, <2>3
  <2>7. /\ note' \in [Notes -> NoteRows] /\ note'[n] = row
        /\ \A m \in Notes : m # n => note'[m] = note[m]
    BY <1>2, <2>4, <2>5, <2>6
  <2> QED
    BY <2>1, <2>5, <2>7
<1>4. UNCHANGED <<mail, dispatchq, mailq, resend, dropped>>
  BY DEF ResolveNote
<1>5. TypeOK'
  BY <1>1, <1>2, <1>3, <1>4, NoNoteAssumption DEF IInv, TypeOK
<1>6. JobsKnown'
  BY <1>1, <1>2, <1>3, <1>4, NoNoteAssumption
     DEF IInv, JobsKnown, Reported, Idle, NoResend, Waiting
<1>7. OneDispatcher'
  BY <1>1, <1>2, <1>3, <1>4, NoNoteAssumption
     DEF IInv, OneDispatcher, JobsKnown, Dispatching, Idle
<1>8. MailAfterDispatch'
  BY <1>1, <1>2, <1>3, <1>4, NoNoteAssumption
     DEF IInv, MailAfterDispatch, Reported, JobsKnown, OneDispatcher,
         Dispatching, Claiming, Waiting, Idle
<1>9. Answered'
  BY <1>1, <1>2, <1>3, <1>4, NoNoteAssumption
     DEF IInv, Answered, Reported, Claiming, JobsKnown, OneDispatcher,
         Dispatching, ByMail, Idle, Waiting, MailAfterDispatch
<1>10. OneClaimant'
  BY <1>1, <1>2, <1>3, <1>4, NoNoteAssumption
     DEF IInv, OneClaimant, JobsKnown, MailAfterDispatch, Claiming, Waiting,
         Reported, Idle
<1>11. AcceptedIsKept'
  BY <1>1, <1>2, <1>3, <1>4, NoNoteAssumption
     DEF IInv, AcceptedIsKept, JobsKnown, OneClaimant, Claiming, Working,
         Waiting, Reported, MailAfterDispatch, Idle
<1>12. OpenIsQueued'
  BY <1>1, <1>2, <1>3, <1>4, NoNoteAssumption
     DEF IInv, OpenIsQueued, JobsKnown, Idle, OneDispatcher, Dispatching
<1>13. NothingForgotten'
  BY <1>1, <1>2, <1>3, <1>4, NoNoteAssumption
     DEF IInv, NothingForgotten, JobsKnown, OpenIsQueued, Working, Waiting,
         Reported, OneDispatcher, OneClaimant, Claiming, Dispatching, Idle
<1>14. ResultMatchesMail'
  BY <1>1, <1>2, <1>3, <1>4, NoNoteAssumption
     DEF IInv, ResultMatchesMail, Result, Reported, Claiming, JobsKnown, Idle,
         ByMail, OneDispatcher, Dispatching, MailAfterDispatch, Answered
<1> QED
  BY <1>5, <1>6, <1>7, <1>8, <1>9, <1>10, <1>11, <1>12, <1>13, <1>14, <1>4
     DEF IInv

LEMMA RetryFailedEmailsKeepsIInv ==
  ASSUME IInv, RetryFailedEmails
  PROVE  IInv'
<1>1. TypeOK /\ JobsKnown
  BY DEF IInv
<1>2. /\ mailq' \in [Notes -> Nat]
      /\ \A n \in Notes : mailq[n] > 0 => mailq'[n] > 0
  BY <1>1, NoNoteAssumption, RetryAssumption DEF TypeOK, RetryFailedEmails
<1>3. UNCHANGED <<note, mail, dispatchq, job, resend, dropped>>
  BY DEF RetryFailedEmails
<1>4. TypeOK'
  BY <1>1, <1>2, <1>3, NoNoteAssumption DEF IInv, TypeOK
<1>5. NothingForgotten'
  BY <1>1, <1>2, <1>3, NoNoteAssumption
     DEF IInv, NothingForgotten, JobsKnown, OpenIsQueued, Working, Waiting,
         Reported, OneDispatcher, OneClaimant, Claiming, Dispatching, Idle
<1> QED
  BY <1>4, <1>5, <1>3
     DEF IInv, JobsKnown, OneDispatcher, MailAfterDispatch, Answered,
         OneClaimant, AcceptedIsKept, OpenIsQueued, ResultMatchesMail, Working,
         ByMail

LEMMA BeginResendKeepsIInv ==
  ASSUME IInv, NEW a \in Admins, NEW n \in Notes, BeginResend(a, n)
  PROVE  IInv'
<1>1. TypeOK /\ JobsKnown
  BY DEF IInv
<1>2. /\ resend' \in [Admins -> Resends]
      /\ mail[n].status = "failed"
      /\ resend'[a].about = n
      /\ resend'[a].tries < MaxRetries
      /\ \A b \in Admins : b # a => resend'[b] = resend[b]
  BY <1>1, NoNoteAssumption, RetryAssumption
     DEF TypeOK, BeginResend, CanRetry, Resends, MailRows
<1>3. UNCHANGED <<note, mail, dispatchq, mailq, job, dropped>>
  BY DEF BeginResend
<1>4. TypeOK'
  BY <1>1, <1>2, <1>3, NoNoteAssumption DEF IInv, TypeOK
<1>5. JobsKnown'
  BY <1>1, <1>2, <1>3, NoNoteAssumption
     DEF IInv, JobsKnown, Reported, Idle, NoResend, Waiting
<1> QED
  BY <1>4, <1>5, <1>3
     DEF IInv, OneDispatcher, MailAfterDispatch, Answered, OneClaimant,
         AcceptedIsKept, OpenIsQueued, NothingForgotten, ResultMatchesMail,
         Working, ByMail

LEMMA CommitResendKeepsIInv ==
  ASSUME IInv, NEW a \in Admins, CommitResend(a)
  PROVE  IInv'
<1> DEFINE n == resend[a].about
<1>1. TypeOK /\ JobsKnown
  BY DEF IInv
<1>2. /\ resend' \in [Admins -> Resends]
      /\ resend'[a] = NoResend
      /\ \A b \in Admins : b # a => resend'[b] = resend[b]
      /\ n \in Notes
      /\ mail[n].status # "none"
  BY <1>1, NoNoteAssumption, RetryAssumption
     DEF TypeOK, CommitResend, Resends, NoResend, JobsKnown
<1>3. /\ mail' \in [Notes -> MailRows]
      /\ mail'[n].status = "pending"
      /\ mail'[n].known = mail[n].known
      /\ mail'[n].accepted = mail[n].accepted
      /\ mail'[n].doubtful = mail[n].doubtful
      /\ ~mail'[n].overtaken => ~mail[n].overtaken /\ mail[n].status = "failed"
      /\ \A m \in Notes : m # n => mail'[m] = mail[m]
  <2> DEFINE s == Save(mail[n], "pending", {"failed"})
  <2>1. /\ s \in MailRows /\ s.status = "pending" /\ s.known = mail[n].known
        /\ s.accepted = mail[n].accepted
        /\ s.doubtful = mail[n].doubtful
        /\ ~s.overtaken => /\ ~mail[n].overtaken
                           /\ mail[n].status = "failed"
    BY <1>1, <1>2, SaveKeeps DEF TypeOK, MailStatus, Waiting
  <2>2. /\ mail' = [mail EXCEPT ![n] =
                        [s EXCEPT !.tries = resend[a].tries + 1]]
        /\ resend[a].tries + 1 \in 0..MaxRetries
    BY <1>1, RetryAssumption
       DEF CommitResend, TypeOK, JobsKnown, Resends, NoResend
  <2> HIDE DEF s
  <2> QED
    BY <1>1, <1>2, <2>1, <2>2 DEF TypeOK, MailRows
<1>4. /\ mailq' \in [Notes -> Nat]
      /\ dropped' \in [Tables -> SUBSET Notes]
      /\ mailq'[n] > 0 \/ n \in dropped'["mail"]
      /\ dropped["mail"] \subseteq dropped'["mail"]
      /\ dropped'["note"] = dropped["note"]
      /\ \A m \in Notes : m # n => mailq'[m] = mailq[m]
  BY <1>1, <1>2, <1>3, NoNoteAssumption, RetryAssumption
     DEF TypeOK, CommitResend, ResendQueues, Enqueued, Drop, Tables
<1>5. UNCHANGED <<note, dispatchq, job>>
  BY DEF CommitResend
<1>6. TypeOK'
  BY <1>1, <1>2, <1>3, <1>4, <1>5, NoNoteAssumption DEF IInv, TypeOK
<1>7. JobsKnown'
  BY <1>1, <1>2, <1>3, <1>4, <1>5, NoNoteAssumption
     DEF IInv, JobsKnown, Reported, Idle, NoResend, Waiting
<1>8. MailAfterDispatch'
  BY <1>1, <1>2, <1>3, <1>4, <1>5, NoNoteAssumption
     DEF IInv, MailAfterDispatch, Reported, JobsKnown, OneDispatcher,
         Dispatching, Claiming, Waiting, Idle
<1>9. Answered'
  BY <1>1, <1>2, <1>3, <1>4, <1>5, NoNoteAssumption
     DEF IInv, Answered, Reported, Claiming, JobsKnown, OneDispatcher,
         Dispatching, ByMail, Idle, Waiting, MailAfterDispatch
<1>10. OneClaimant'
  BY <1>1, <1>2, <1>3, <1>4, <1>5, NoNoteAssumption
     DEF IInv, OneClaimant, JobsKnown, MailAfterDispatch, Claiming, Waiting,
         Reported, Idle
<1>11. AcceptedIsKept'
  BY <1>1, <1>2, <1>3, <1>4, <1>5, NoNoteAssumption
     DEF IInv, AcceptedIsKept, JobsKnown, OneClaimant, Claiming, Working,
         Waiting, Reported, MailAfterDispatch, Idle
<1>12. OpenIsQueued'
  BY <1>1, <1>2, <1>3, <1>4, <1>5, NoNoteAssumption
     DEF IInv, OpenIsQueued, JobsKnown, Idle, OneDispatcher, Dispatching
<1>13. NothingForgotten'
  BY <1>1, <1>2, <1>3, <1>4, <1>5, NoNoteAssumption
     DEF IInv, NothingForgotten, JobsKnown, OpenIsQueued, Working, Waiting,
         Reported, OneDispatcher, OneClaimant, Claiming, Dispatching, Idle
<1>14. ResultMatchesMail'
  BY <1>1, <1>2, <1>3, <1>4, <1>5, NoNoteAssumption
     DEF IInv, ResultMatchesMail, Result, Reported, Claiming, JobsKnown, Idle,
         ByMail, OneDispatcher, Dispatching, MailAfterDispatch, Answered
<1> QED
  BY <1>6, <1>7, <1>8, <1>9, <1>10, <1>11, <1>12, <1>13, <1>14, <1>5
     DEF IInv, OneDispatcher

LEMMA WebhookKeepsIInv ==
  ASSUME IInv, NEW n \in Notes, NEW r \in Reported, Webhook(n, r)
  PROVE  IInv'
<1>1. TypeOK /\ JobsKnown
  BY DEF IInv
<1>2. /\ mail' \in [Notes -> MailRows]
      /\ mail'[n].status = r
      /\ mail'[n].known = mail[n].known
      /\ mail'[n].accepted = mail[n].accepted
      /\ mail'[n].doubtful = mail[n].doubtful
      /\ mail[n].known
      /\ ~mail'[n].overtaken => ~mail[n].overtaken /\ mail[n].status \in {"sent"} \cup Reported
      /\ \A m \in Notes : m # n => mail'[m] = mail[m]
  <2> DEFINE s == Save(mail[n], r, {"sent"} \cup Reported)
  <2>0. r \in MailStatus
    BY DEF MailStatus
  <2>1. /\ s \in MailRows /\ s.status = r /\ s.known = mail[n].known
        /\ s.accepted = mail[n].accepted
        /\ s.doubtful = mail[n].doubtful
        /\ ~s.overtaken => /\ ~mail[n].overtaken
                           /\ mail[n].status \in {"sent"} \cup Reported
    BY <1>1, <2>0, SaveKeeps DEF TypeOK
  <2>2. mail' = [mail EXCEPT ![n] = s] /\ mail[n].known
    BY DEF Webhook
  <2> HIDE DEF s
  <2> QED
    BY <1>1, <2>1, <2>2 DEF TypeOK
<1>3. UNCHANGED <<note, dispatchq, mailq, job, resend, dropped>>
  BY DEF Webhook
<1>4. TypeOK'
  BY <1>1, <1>2, <1>3, NoNoteAssumption DEF IInv, TypeOK
<1>5. JobsKnown'
  BY <1>1, <1>2, <1>3, NoNoteAssumption
     DEF IInv, JobsKnown, Reported, Idle, NoResend, Waiting
<1>6. MailAfterDispatch'
  BY <1>1, <1>2, <1>3, NoNoteAssumption
     DEF IInv, MailAfterDispatch, Reported, JobsKnown, OneDispatcher,
         Dispatching, Claiming, Waiting, Idle
<1>7. Answered'
  BY <1>1, <1>2, <1>3, NoNoteAssumption
     DEF IInv, Answered, Reported, Claiming, JobsKnown, OneDispatcher,
         Dispatching, ByMail, Idle, Waiting, MailAfterDispatch
<1>8. OneClaimant'
  BY <1>1, <1>2, <1>3, NoNoteAssumption
     DEF IInv, OneClaimant, JobsKnown, MailAfterDispatch, Claiming, Waiting,
         Reported, Idle
<1>9. AcceptedIsKept'
  BY <1>1, <1>2, <1>3, NoNoteAssumption
     DEF IInv, AcceptedIsKept, JobsKnown, OneClaimant, Claiming, Working,
         Waiting, Reported, MailAfterDispatch, Idle
<1>10. NothingForgotten'
  BY <1>1, <1>2, <1>3, NoNoteAssumption
     DEF IInv, NothingForgotten, JobsKnown, OpenIsQueued, Working, Waiting,
         Reported, OneDispatcher, OneClaimant, Claiming, Dispatching, Idle
<1>11. ResultMatchesMail'
  BY <1>1, <1>2, <1>3, NoNoteAssumption
     DEF IInv, ResultMatchesMail, Result, Reported, Claiming, JobsKnown, Idle,
         ByMail, OneDispatcher, Dispatching, MailAfterDispatch, Answered
<1> QED
  BY <1>4, <1>5, <1>6, <1>7, <1>8, <1>9, <1>10, <1>11, <1>3
     DEF IInv, OneDispatcher, OpenIsQueued

LEMMA WorkerDiesKeepsIInv ==
  ASSUME IInv, NEW w \in Workers, WorkerDies(w)
  PROVE  IInv'
<1>1. TypeOK /\ JobsKnown
  BY DEF IInv
<1>2. /\ job' \in [Workers -> Jobs]
      /\ job[w].about \in Notes
      /\ job'[w] = Idle
      /\ \A v \in Workers : v # w => job'[v] = job[v]
  BY <1>1, NoNoteAssumption, RetryAssumption
     DEF TypeOK, WorkerDies, Finish, Free, Jobs, Ops, Result, JobsKnown, Idle
<1>3. /\ dropped' \in [Tables -> SUBSET Notes]
      /\ dropped["note"] \subseteq dropped'["note"]
      /\ dropped["mail"] \subseteq dropped'["mail"]
      /\ job[w].op \in Dispatching => job[w].about \in dropped'["note"]
      /\ job[w].op \notin Dispatching => job[w].about \in dropped'["mail"]
  BY <1>1, <1>2, NoNoteAssumption, RetryAssumption
     DEF TypeOK, WorkerDies, Free, JobsKnown, Dispatching, Tables
<1>4. UNCHANGED <<note, mail, dispatchq, mailq, resend>>
  BY DEF WorkerDies
<1>5. TypeOK'
  BY <1>1, <1>2, <1>3, <1>4, NoNoteAssumption DEF IInv, TypeOK
<1>6. JobsKnown'
  BY <1>1, <1>2, <1>3, <1>4, NoNoteAssumption
     DEF IInv, JobsKnown, Reported, Idle, NoResend, Waiting
<1>7. OneDispatcher'
  BY <1>1, <1>2, <1>3, <1>4, NoNoteAssumption
     DEF IInv, OneDispatcher, JobsKnown, Dispatching, Idle
<1>8. MailAfterDispatch'
  BY <1>1, <1>2, <1>3, <1>4, NoNoteAssumption
     DEF IInv, MailAfterDispatch, Reported, JobsKnown, OneDispatcher,
         Dispatching, Claiming, Waiting, Idle
<1>9. Answered'
  BY <1>1, <1>2, <1>3, <1>4, NoNoteAssumption
     DEF IInv, Answered, Reported, Claiming, JobsKnown, OneDispatcher,
         Dispatching, ByMail, Idle, Waiting, MailAfterDispatch
<1>10. OneClaimant'
  BY <1>1, <1>2, <1>3, <1>4, NoNoteAssumption
     DEF IInv, OneClaimant, JobsKnown, MailAfterDispatch, Claiming, Waiting,
         Reported, Idle
<1>11. AcceptedIsKept'
  BY <1>1, <1>2, <1>3, <1>4, NoNoteAssumption
     DEF IInv, AcceptedIsKept, JobsKnown, OneClaimant, Claiming, Working,
         Waiting, Reported, MailAfterDispatch, Idle
<1>12. OpenIsQueued'
  BY <1>1, <1>2, <1>3, <1>4, NoNoteAssumption
     DEF IInv, OpenIsQueued, JobsKnown, Idle, OneDispatcher, Dispatching
<1>13. NothingForgotten'
  BY <1>1, <1>2, <1>3, <1>4, NoNoteAssumption
     DEF IInv, NothingForgotten, JobsKnown, OpenIsQueued, Working, Waiting,
         Reported, OneDispatcher, OneClaimant, Claiming, Dispatching, Idle
<1>14. ResultMatchesMail'
  BY <1>1, <1>2, <1>3, <1>4, NoNoteAssumption
     DEF IInv, ResultMatchesMail, Result, Reported, Claiming, JobsKnown, Idle,
         ByMail, OneDispatcher, Dispatching, MailAfterDispatch, Answered
<1> QED
  BY <1>5, <1>6, <1>7, <1>8, <1>9, <1>10, <1>11, <1>12, <1>13, <1>14, <1>4
     DEF IInv

LEMMA TakeDispatchKeepsIInv ==
  ASSUME IInv, NEW w \in Workers, NEW n \in Notes, TakeDispatch(w, n)
  PROVE  IInv'
<1>1. TypeOK /\ JobsKnown
  BY DEF IInv
<1>2. /\ job[w] = Idle /\ dispatchq' = dispatchq \ {n}
      /\ UNCHANGED <<mail, mailq, resend>>
  BY DEF TakeDispatch, Free
<1>3. CASE note[n].status = "pending"
  <2>1. /\ job' \in [Workers -> Jobs]
        /\ job'[w].op = "dispatch" /\ job'[w].about = n
        /\ job'[w].email = "skipped"
        /\ \A v \in Workers : v # w => job'[v] = job[v]
        /\ UNCHANGED dropped
    BY <1>1, <1>3 DEF TakeDispatch, TypeOK, Start, Jobs, Ops, Result
  <2>2. /\ note' \in [Notes -> NoteRows]
        /\ note'[n].status = "processing"
        /\ note'[n].channels = note[n].channels
        /\ note'[n].template = note[n].template
        /\ \A m \in Notes : m # n => note'[m] = note[m]
    BY <1>1, <1>3 DEF TakeDispatch, TypeOK, NoteRows, NoteStatus
  <2>3. TypeOK' /\ JobsKnown'
    BY <1>1, <1>2, <2>1, <2>2 DEF TypeOK, JobsKnown
  <2>4. OneDispatcher'
    BY <1>1, <1>2, <1>3, <2>1, <2>2, NoNoteAssumption
       DEF IInv, JobsKnown, OneDispatcher, Dispatching, Idle
  <2>5. MailAfterDispatch'
    BY <1>1, <1>2, <1>3, <2>1, <2>2
       DEF IInv, MailAfterDispatch, Claiming
  <2>6. Answered'
    BY <1>1, <1>2, <1>3, <2>1, <2>2, NoNoteAssumption
       DEF IInv, JobsKnown, Answered, ByMail, Idle
  <2>7. OneClaimant' /\ AcceptedIsKept'
    BY <1>1, <1>2, <2>1 DEF IInv, OneClaimant, AcceptedIsKept, Claiming, Working
  <2>8. OpenIsQueued'
    BY <1>2, <1>3, <2>1, <2>2 DEF IInv, OpenIsQueued
  <2>9. NothingForgotten'
    BY <1>1, <1>2, <1>3, <2>1, <2>2 DEF IInv, NothingForgotten, Working, Idle
  <2>10. ResultMatchesMail'
    BY <1>2, <1>3, <2>1, <2>2 DEF IInv, ResultMatchesMail, ByMail
  <2> QED
    BY <2>3, <2>4, <2>5, <2>6, <2>7, <2>8, <2>9, <2>10 DEF IInv
<1>4. CASE note[n].status # "pending"
  <2>1. /\ UNCHANGED <<note, job>>
        /\ dropped' \in [Tables -> SUBSET Notes]
        /\ dropped'["note"] = dropped["note"] \cup {n}
        /\ dropped'["mail"] = dropped["mail"]
    BY <1>1, <1>4 DEF TakeDispatch, Drop, TypeOK, Tables
  <2>2. TypeOK' /\ JobsKnown'
    BY <1>1, <1>2, <2>1 DEF TypeOK, JobsKnown
  <2>3. Answered' /\ OpenIsQueued' /\ NothingForgotten' /\ ResultMatchesMail'
    BY <1>2, <2>1 DEF IInv, Answered, OpenIsQueued, NothingForgotten,
                      ResultMatchesMail, ByMail, Working
  <2> QED
    BY <1>2, <2>1, <2>2, <2>3
       DEF IInv, OneDispatcher, MailAfterDispatch, OneClaimant, AcceptedIsKept,
           Working
<1> QED
  BY <1>3, <1>4

LEMMA ChannelFailsKeepsIInv ==
  ASSUME IInv, NEW w \in Workers, ChannelFails(w)
  PROVE  IInv'
<1> DEFINE n == job[w].about
<1>1. TypeOK /\ JobsKnown
  BY DEF IInv
<1>2. /\ job' \in [Workers -> Jobs]
      /\ job[w].op = "dispatch" /\ n \in Notes
      /\ job'[w].op = "resolving" /\ job'[w].about = n
      /\ job'[w].email = "failed"
      /\ \A v \in Workers : v # w => job'[v] = job[v]
      /\ UNCHANGED <<note, dispatchq, mailq, resend>>
  BY <1>1, AnswerFrames DEF ChannelFails, Result, JobsKnown, Idle
<1>3. mail[n].status = "none"
  BY <1>2 DEF IInv, MailAfterDispatch
<1>4. CASE UNCHANGED <<mail, dropped>>
  <2>1. TypeOK' /\ JobsKnown'
    BY <1>1, <1>2, <1>4 DEF TypeOK, JobsKnown, Idle
  <2>2. OneDispatcher' /\ MailAfterDispatch'
    BY <1>2, <1>4 DEF IInv, OneDispatcher, MailAfterDispatch, Dispatching,
                      Claiming
  <2>3. Answered'
    BY <1>2, <1>3, <1>4 DEF IInv, Answered, ByMail
  <2>4. OneClaimant' /\ AcceptedIsKept'
    BY <1>2, <1>4 DEF IInv, OneClaimant, AcceptedIsKept, Claiming, Working
  <2>5. NothingForgotten'
    BY <1>2, <1>4 DEF IInv, NothingForgotten, Working
  <2> QED
    BY <1>2, <1>4, <2>1, <2>2, <2>3, <2>4, <2>5
       DEF IInv, OpenIsQueued, ResultMatchesMail, ByMail
<1>5. CASE mail' = [mail EXCEPT ![n] = NewMail] /\ Drop("mail", n)
  <2>1. /\ mail' \in [Notes -> MailRows]
        /\ mail'[n].status = "pending" /\ mail'[n].accepted = 0
        /\ \A m \in Notes : m # n => mail'[m] = mail[m]
    BY <1>1, <1>2, <1>5, RetryAssumption
       DEF TypeOK, NewMail, MailRows, MailStatus, Waiting
  <2>2. /\ dropped' \in [Tables -> SUBSET Notes]
        /\ dropped'["mail"] = dropped["mail"] \cup {n}
        /\ dropped'["note"] = dropped["note"]
    BY <1>1, <1>2, <1>5 DEF TypeOK, Drop, Tables
  <2>3. TypeOK' /\ JobsKnown'
    BY <1>1, <1>2, <2>1, <2>2 DEF TypeOK, JobsKnown, Idle
  <2>4. OneDispatcher'
    BY <1>2 DEF IInv, OneDispatcher, Dispatching
  <2>5. MailAfterDispatch'
    BY <1>1, <1>2, <2>1
       DEF IInv, JobsKnown, OneDispatcher, MailAfterDispatch, Dispatching,
           Claiming, Idle
  <2>6. Answered'
    BY <1>1, <1>2, <2>1, <2>2
       DEF IInv, JobsKnown, OneDispatcher, Answered, Dispatching, ByMail, Idle
  <2>7. OneClaimant' /\ AcceptedIsKept'
    BY <1>1, <1>2, <1>3, <2>1
       DEF IInv, JobsKnown, MailAfterDispatch, OneClaimant, AcceptedIsKept,
           Claiming, Working, Idle
  <2>8. NothingForgotten'
    BY <1>2, <2>1, <2>2 DEF IInv, NothingForgotten, Working
  <2>9. ResultMatchesMail'
    BY <1>2, <2>1, <2>2
       DEF IInv, OneDispatcher, ResultMatchesMail, Dispatching, ByMail
  <2> QED
    BY <1>2, <2>2, <2>3, <2>4, <2>5, <2>6, <2>7, <2>8, <2>9
       DEF IInv, OpenIsQueued
<1> QED
  BY <1>4, <1>5 DEF ChannelFails
LEMMA TakeMailKeepsIInv ==
  ASSUME IInv, NEW w \in Workers, NEW n \in Notes, TakeMail(w, n)
  PROVE  IInv'
<1>a. TypeOK /\ JobsKnown
  BY DEF IInv
<1>b. /\ job[w] = Idle /\ mailq' \in [Notes -> Nat]
      /\ \A m \in Notes : m # n => mailq'[m] = mailq[m]
      /\ UNCHANGED <<note, dispatchq, resend, dropped>>
  BY <1>a DEF TakeMail, TypeOK, Free
<1>1. CASE Sendable(n)
  <2>1. /\ job' \in [Workers -> Jobs]
        /\ job'[w].op = "sending" /\ job'[w].about = n
        /\ \A v \in Workers : v # w => job'[v] = job[v]
    BY <1>1, <1>a DEF TakeMail, TypeOK, Start, Jobs, Ops, Result
  <2>2. /\ mail' \in [Notes -> MailRows]
        /\ mail[n].status \in Waiting /\ mail'[n].status = "sending"
        /\ mail'[n].known = mail[n].known
        /\ mail'[n].accepted = mail[n].accepted
        /\ mail'[n].doubtful = mail[n].doubtful
        /\ mail'[n].overtaken = mail[n].overtaken
        /\ \A m \in Notes : m # n => mail'[m] = mail[m]
    BY <1>1, <1>a DEF TakeMail, TypeOK, Sendable, MailRows, MailStatus
  <2>3. TypeOK'
    BY <1>a, <1>b, <2>1, <2>2 DEF TypeOK
  <2>4. JobsKnown'
    BY <1>a, <1>b, <2>1, <2>2 DEF JobsKnown, TypeOK, Waiting
  <2>5. OneDispatcher'
    BY <1>a, <1>b, <2>1 DEF IInv, OneDispatcher, Dispatching
  <2>6. MailAfterDispatch'
    BY <1>a, <1>b, <2>1, <2>2, NoNoteAssumption DEF IInv, JobsKnown, MailAfterDispatch, Claiming, Waiting, Idle
  <2>7. Answered'
    BY <1>a, <1>b, <2>1, <2>2, NoNoteAssumption DEF IInv, JobsKnown, Answered, ByMail, Idle, Waiting
  <2>8. OneClaimant'
    BY <1>a, <1>b, <2>1, <2>2, NoNoteAssumption DEF IInv, JobsKnown, OneClaimant, Claiming, Waiting, Idle
  <2>9. AcceptedIsKept'
    BY <1>a, <1>b, <2>1, <2>2 DEF IInv, AcceptedIsKept, Working, Waiting, Reported
  <2>10. NothingForgotten'
    BY <1>a, <1>b, <2>1, <2>2 DEF IInv, NothingForgotten, Working, Waiting, Idle
  <2>11. ResultMatchesMail' /\ OpenIsQueued'
    BY <1>a, <1>b, <2>1, <2>2 DEF IInv, ResultMatchesMail, ByMail, OpenIsQueued, Waiting
  <2> QED
    BY <2>3, <2>4, <2>5, <2>6, <2>7, <2>8, <2>9, <2>10, <2>11 DEF IInv
<1>2. CASE ~Sendable(n)
  <2>1. UNCHANGED <<mail, job>>
    BY <1>2 DEF TakeMail
  <2>2. NothingForgotten'
    BY <1>2, <1>b, <2>1 DEF IInv, NothingForgotten, Working, Sendable, Waiting
  <2> QED
    BY <1>a, <1>b, <2>1, <2>2
       DEF IInv, TypeOK, JobsKnown, OneDispatcher, MailAfterDispatch, Answered,
           OneClaimant, AcceptedIsKept, Working, OpenIsQueued, ResultMatchesMail, ByMail
<1> QED
  BY <1>1, <1>2

LEMMA InitIInv == Init => IInv
<1> SUFFICES ASSUME Init PROVE IInv
  OBVIOUS
<1>1. TypeOK
  <2>1. [NewMail EXCEPT !.status = "none"] \in MailRows
    <3>1. NewMail \in MailRows
      BY RetryAssumption DEF NewMail, MailRows, MailStatus, Waiting
    <3>2. \A m \in MailRows : [m EXCEPT !.status = "none"] \in MailRows
      BY DEF MailRows, MailStatus
    <3> QED
      BY <3>1, <3>2
  <2>2. Idle \in Jobs /\ NoResend \in Resends
    BY RetryAssumption DEF Jobs, Ops, Result, Idle, Resends, NoResend
  <2> QED
    BY <2>1, <2>2 DEF Init, TypeOK, NoteRows, NoteStatus, Tables
<1>2. \A n \in Notes : /\ note[n].status = "none" /\ note[n].channels = {}
                       /\ mail[n].status = "none" /\ ~mail[n].known
                       /\ mail[n].accepted = 0
  BY DEF Init, NewMail
<1>3. /\ \A w \in Workers : job[w] = Idle
      /\ \A a \in Admins : resend[a] = NoResend
  BY DEF Init
<1>4. JobsKnown /\ OneDispatcher /\ MailAfterDispatch /\ Answered
  BY <1>2, <1>3 DEF JobsKnown, OneDispatcher, MailAfterDispatch, Answered,
                    Dispatching, Claiming, Idle
<1>5. /\ OneClaimant /\ AcceptedIsKept /\ OpenIsQueued
      /\ NothingForgotten /\ ResultMatchesMail
  BY <1>2, <1>3 DEF OneClaimant, AcceptedIsKept, OpenIsQueued, Claiming, Idle,
                    NothingForgotten, ResultMatchesMail, Waiting
<1> QED
  BY <1>1, <1>4, <1>5 DEF IInv

LEMMA WorkKeepsIInv ==
  ASSUME IInv, NEW w \in Workers, Work(w)
  PROVE  IInv'
  BY ChannelsSkipKeepsIInv, ChannelQueuesMailKeepsIInv, ChannelFailsKeepsIInv,
     SaveQueuedKeepsIInv, ResolveNoteKeepsIInv, ProviderAcceptsKeepsIInv,
     ProviderFailsKeepsIInv, SaveSentKeepsIInv, SaveFailedKeepsIInv,
     CountRetryKeepsIInv DEF Work

LEMMA StutterKeepsIInv == IInv /\ UNCHANGED vars => IInv'
  BY DEF vars, IInv, TypeOK, JobsKnown, OneDispatcher, MailAfterDispatch,
         Answered, OneClaimant, AcceptedIsKept, OpenIsQueued, NothingForgotten,
         ResultMatchesMail, Working, ByMail

LEMMA NextKeepsIInv == IInv /\ [Next]_vars => IInv'
<1> SUFFICES ASSUME IInv, Next PROVE IInv'
  BY StutterKeepsIInv
<1>1. ASSUME NEW n \in Notes, Take(n)
      PROVE  IInv'
  BY <1>1, TakeDispatchKeepsIInv, TakeMailKeepsIInv DEF Take
<1>2. ASSUME NEW n \in Notes,
             \/ SendNothing(n) \/ SendNotification(n)
             \/ CommitCaller(n) \/ RollbackCaller(n)
             \/ \E a \in Admins : BeginResend(a, n)
             \/ \E r \in Reported : Webhook(n, r)
      PROVE  IInv'
  BY <1>2, SendNothingKeepsIInv, SendNotificationKeepsIInv, EndCallerKeepsIInv,
     BeginResendKeepsIInv, WebhookKeepsIInv
<1> QED
  BY <1>1, <1>2, RetryFailedEmailsKeepsIInv, WorkKeepsIInv,
     WorkerDiesKeepsIInv, CommitResendKeepsIInv DEF Next

\* Who may be working on which row, whatever is lost, repeated or late.
THEOREM DeliveryInvariant == Spec => []IInv
  BY InitIInv, NextKeepsIInv, PTL DEF Spec

\* Every variable holds what its comment says.
THEOREM DeliveryTyped == Spec => []TypeOK
<1>1. IInv => TypeOK
  BY DEF IInv
<1> QED
  BY <1>1, DeliveryInvariant, PTL

\* The provider takes an e-mail a second time only after it reported an
\* acceptance as an error, or after a save went over a status it had not seen.
THEOREM SentAtMostOnce == Spec => []SentOnce
<1>1. IInv => SentOnce
  BY DEF IInv, AcceptedIsKept, SentOnce
<1> QED
  BY <1>1, DeliveryInvariant, PTL

\* Nothing waits without a task, or is being worked on without a worker, unless
\* its task was lost or its status overwritten.
THEOREM NothingIsForgotten == Spec => []NothingForgotten
<1>1. IInv => NothingForgotten
  BY DEF IInv
<1> QED
  BY <1>1, DeliveryInvariant, PTL

\* The final status of a notification is true of its e-mail.
THEOREM ResultsMatch == Spec => []ResultMatchesMail
<1>1. IInv => ResultMatchesMail
  BY DEF IInv
<1> QED
  BY <1>1, DeliveryInvariant, PTL

\* The two retries of the code at work: a FAILED e-mail becomes sendable again only
\* by a resend, or by the QUEUED that EmailService.send saves late.
FailedUntilResent ==
    [][\A n \in Notes :
         /\ mail[n].status = "failed"
         /\ mail'[n].status \in Waiting \cup {"sending"}
         => \/ \E a \in Admins : resend[a].about = n /\ resend'[a] = NoResend
            \/ \E w \in Workers : job[w].about = n /\ job[w].op = "queueing"]_vars

\* Why FailedIsRetried is violated, for every number of attempts: no step of the
\* periodic task or of a retried send_email_task sends a failed e-mail again.
THEOREM FailedStaysFailed == Spec => FailedUntilResent
<1> DEFINE Step(n) ==
      mail[n].status = "failed" /\ mail'[n].status \in Waiting \cup {"sending"}
      => \/ \E a \in Admins : resend[a].about = n /\ resend'[a] = NoResend
         \/ \E w \in Workers : job[w].about = n /\ job[w].op = "queueing"
<1>1. ASSUME IInv, Next, NEW n \in Notes
      PROVE  Step(n)
  <2>1. TypeOK /\ JobsKnown /\ MailAfterDispatch
    BY <1>1 DEF IInv
  <2>2. ASSUME NEW w \in Workers, SaveQueued(w)
        PROVE  Step(n)
    <3>1. job[w].about # n => mail'[n] = mail[n]
      BY <2>1, <2>2 DEF SaveQueued, TypeOK
    <3> QED
      BY <2>2, <3>1 DEF SaveQueued, Waiting
  <2>3. ASSUME NEW a \in Admins, CommitResend(a)
        PROVE  Step(n)
    <3>1. resend[a].about # n => mail'[n] = mail[n]
      BY <2>1, <2>3 DEF CommitResend, TypeOK
    <3>2. resend'[a] = NoResend
      BY <2>1, <2>3 DEF CommitResend, TypeOK
    <3> QED
      BY <3>1, <3>2 DEF Waiting
  <2>4. ASSUME NEW w \in Workers, NEW m \in Notes, TakeMail(w, m)
        PROVE  Step(n)
    BY <2>1, <2>4 DEF TakeMail, Sendable, Waiting, TypeOK
  <2>5. ASSUME NEW w \in Workers, ChannelQueuesMail(w) \/ ChannelFails(w)
        PROVE  Step(n)
    <3>1. job[w].about = n => mail[n].status = "none"
      BY <2>1, <2>5 DEF ChannelQueuesMail, ChannelFails, MailAfterDispatch
    <3>2. job[w].about # n => mail'[n] = mail[n]
      BY <2>1, <2>5 DEF ChannelQueuesMail, ChannelFails, TypeOK
    <3> QED
      BY <3>1, <3>2 DEF Waiting
  <2>6. ASSUME NEW w \in Workers,
               ProviderAccepts(w) \/ ProviderFails(w) \/ CountRetry(w)
        PROVE  Step(n)
    <3>1. mail'[n].status = mail[n].status
      BY <2>1, <2>6 DEF ProviderAccepts, ProviderFails, CountRetry, TypeOK,
                        MailRows
    <3> QED
      BY <3>1 DEF Waiting
  <2>9. ASSUME NEW w \in Workers, SaveSent(w) \/ SaveFailed(w)
        PROVE  Step(n)
    <3>1. mail'[n].status \in {mail[n].status, "sent", "failed"}
      <4>1. CASE job[w].about = n
        <5> DEFINE s == Save(mail[n], "sent", {"sending"})
        <5>1. s \in MailRows /\ s.status = "sent"
          BY <2>1, SaveKeeps DEF TypeOK, MailStatus
        <5>2. SaveSent(w) => mail'[n] = [s EXCEPT !.known = TRUE]
          BY <2>1, <4>1 DEF SaveSent, TypeOK
        <5>3. SaveFailed(w) => mail'[n].status = "failed"
          BY <2>1, <4>1, SaveKeeps DEF SaveFailed, TypeOK, MailStatus
        <5> HIDE DEF s
        <5> QED
          BY <2>9, <5>1, <5>2, <5>3 DEF MailRows
      <4>2. CASE job[w].about # n
        BY <2>1, <2>9, <4>2 DEF SaveSent, SaveFailed, TypeOK
      <4> QED
        BY <4>1, <4>2
    <3> QED
      BY <3>1 DEF Waiting
  <2>7. ASSUME NEW m \in Notes, NEW r \in Reported, Webhook(m, r)
        PROVE  Step(n)
    BY <2>1, <2>7 DEF Webhook, Save, Reported, Waiting, TypeOK
  <2>8. ASSUME UNCHANGED mail
        PROVE  Step(n)
    BY <2>8 DEF Waiting
  <2> QED
    BY <1>1, <2>2, <2>3, <2>4, <2>5, <2>6, <2>7, <2>8, <2>9
       DEF Next, Work, Take, SendNothing, SendNotification, CommitCaller,
           RollbackCaller, TakeDispatch, BeginResend, RetryFailedEmails,
           ChannelsSkip, ResolveNote, WorkerDies
<1>2. ASSUME UNCHANGED vars, NEW n \in Notes
      PROVE  Step(n)
  BY <1>2 DEF vars, Waiting
<1> DEFINE Kept ==
      \A n \in Notes :
         /\ mail[n].status = "failed"
         /\ mail'[n].status \in Waiting \cup {"sending"}
         => \/ \E a \in Admins : resend[a].about = n /\ resend'[a] = NoResend
            \/ \E w \in Workers : job[w].about = n /\ job[w].op = "queueing"
<1>3. IInv /\ [Next]_vars => [Kept]_vars
  BY <1>1, <1>2
<1> QED
  BY <1>3, DeliveryInvariant, PTL DEF Spec, FailedUntilResent

=============================================================================
