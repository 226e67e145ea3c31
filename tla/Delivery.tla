------------------------------ MODULE Delivery ------------------------------
(***************************************************************************)
(* Notifications and e-mails: NotificationService, its dispatch task, the  *)
(* e-mail channel, EmailService, send_email_task and the task that is to   *)
(* retry failed e-mails, over the NotificationLog and EmailLog tables, the *)
(* Celery queues and the mail provider.                                    *)
(*                                                                         *)
(* A notification is logged in its caller's transaction and a task is      *)
(* queued at once; the worker that runs the task claims the log and hands  *)
(* the notification to its channels.  The e-mail channel logs an e-mail    *)
(* and queues a second task, whose worker claims that log and calls the    *)
(* provider.  A claim is made under the row lock and the work is done      *)
(* outside: other calls run in between, and every later save of a status   *)
(* is unconditional.                                                       *)
(*                                                                         *)
(* A task is acknowledged when a worker takes it: nothing runs it again if *)
(* the worker dies.  The broker may refuse a task, the provider may accept *)
(* an e-mail and still report an error.                                    *)
(***************************************************************************)
EXTENDS Integers, FiniteSets

CONSTANTS
    Notes,        \* notifications, each with the one e-mail it may cause
    Workers,      \* Celery workers
    Admins,       \* callers of EmailService.resend
    NoNote,       \* where no notification is meant
    MaxRetries,   \* EmailLog.max_retries
    MaxQueued     \* bound: tasks queued for one e-mail before the periodic
                  \* task or a resend adds another

ASSUME NoNoteAssumption == NoNote \notin Notes
ASSUME RetryAssumption == MaxRetries \in Nat \ {0} /\ MaxQueued \in Nat \ {0}

VARIABLES
    note,        \* the NotificationLog table
    mail,        \* the EmailLog table: mail[n] is the e-mail of note n
    dispatchq,   \* notes whose dispatch_notification_task is queued
    mailq,       \* [Notes -> queued send_email_task messages of that e-mail]
    job,         \* [Workers -> the task in progress]
    resend,      \* [Admins -> what a resend in progress has read]
    dropped      \* history: notes and e-mails whose task was lost, by table

vars == <<note, mail, dispatchq, mailq, job, resend, dropped>>

Channels == {"email", "push"}        \* sms behaves as push does
Result == {"sent", "failed", "skipped"}

\* "open": inserted, the caller's transaction not yet committed; "undone": it
\* was rolled back.  template: the type of the notification has an e-mail template.
NoteStatus == {"none", "open", "undone", "pending", "processing",
               "sent", "partial", "failed"}
NoteRows == [status : NoteStatus, channels : SUBSET Channels,
             template : BOOLEAN]

Reported == {"delivered", "bounced", "complained"}
MailStatus == {"none", "pending", "queued", "sending", "sent", "failed"}
                 \cup Reported
Waiting == {"pending", "queued"}

\* tries: retry_count, which only matters below MaxRetries.  due: next_retry_at is
\* set.  known: message_id is set.
\* accepted: history, times the provider took it (2: more than once).  doubtful:
\* history, an attempt that was reported as failed had been accepted.
\* overtaken: history, a status was saved over one its writer had not seen.
MailRows == [status : MailStatus, tries : 0..MaxRetries, due : BOOLEAN,
             known : BOOLEAN, accepted : 0..2, doubtful : BOOLEAN,
             overtaken : BOOLEAN]

Ops == {"idle", "dispatch", "queueing", "resolving", "sending", "accepted",
        "refused", "counting"}
Jobs == [op : Ops, about : Notes \cup {NoNote}, email : Result]
Idle == [op |-> "idle", about |-> NoNote, email |-> "skipped"]

\* tries: the retry_count read.
Resends == [about : Notes \cup {NoNote}, tries : 0..MaxRetries]
NoResend == [about |-> NoNote, tries |-> 0]

-----------------------------------------------------------------------------
Free(w) == job[w] = Idle
Start(w, op, n) ==
    job' = [job EXCEPT ![w] = [op |-> op, about |-> n, email |-> "skipped"]]
Go(w, op) == job' = [job EXCEPT ![w].op = op]
Answer(w, result) ==
    job' = [job EXCEPT ![w] = [@ EXCEPT !.op = "resolving", !.email = result]]
Finish(w) == job' = [job EXCEPT ![w] = Idle]
Working(n, ops) == \E w \in Workers : job[w].about = n /\ job[w].op \in ops

Tables == {"note", "mail"}
Drop(table, n) == dropped' = [dropped EXCEPT ![table] = @ \cup {n}]

\* send_email_task.delay(): the message is queued, or the broker refuses it and
\* delay raises.
Enqueued(n) == mailq' = [mailq EXCEPT ![n] = @ + 1]

\* save(update_fields=["status", ...]) by a writer that expects one of seen.
Save(m, status, seen) ==
    [m EXCEPT !.status = status, !.overtaken = @ \/ m.status \notin seen]

-----------------------------------------------------------------------------
(* NotificationService.send                                                *)

\* Without a channel the log is SENT and that is all.
SendNothing(n) ==
    /\ note[n].status = "none"
    /\ note' = [note EXCEPT ![n].status = "sent"]
    /\ UNCHANGED <<mail, dispatchq, mailq, job, resend, dropped>>

\* The log is created in the caller's transaction, the task is queued before it
\* commits; callers survive a delay that raises.
SendNotification(n) ==
    /\ note[n].status = "none"
    /\ \E c \in SUBSET Channels \ {{}}, t \in BOOLEAN :
         note' = [note EXCEPT ![n] = [status |-> "open", channels |-> c,
                                      template |-> t]]
    /\ \/ dispatchq' = dispatchq \cup {n} /\ UNCHANGED dropped
       \/ Drop("note", n) /\ UNCHANGED dispatchq
    /\ UNCHANGED <<mail, mailq, job, resend>>

CommitCaller(n) ==
    /\ note[n].status = "open"
    /\ note' = [note EXCEPT ![n].status = "pending"]
    /\ UNCHANGED <<mail, dispatchq, mailq, job, resend, dropped>>

RollbackCaller(n) ==
    /\ note[n].status = "open"
    /\ note' = [note EXCEPT ![n].status = "undone"]
    /\ UNCHANGED <<mail, dispatchq, mailq, job, resend, dropped>>

-----------------------------------------------------------------------------
(* dispatch_notification_task                                              *)

\* A log that cannot be seen yet, or never will, is "not found"; one that is not
\* PENDING has been processed.
TakeDispatch(w, n) ==
    /\ Free(w) /\ n \in dispatchq
    /\ dispatchq' = dispatchq \ {n}
    /\ \/ /\ note[n].status = "pending"
          /\ note' = [note EXCEPT ![n].status = "processing"]
          /\ Start(w, "dispatch", n)
          /\ UNCHANGED dropped
       \/ /\ note[n].status # "pending"
          /\ Drop("note", n)
          /\ UNCHANGED <<note, job>>
    /\ UNCHANGED <<mail, mailq, resend>>

ByMail(n) == "email" \in note[n].channels /\ note[n].template

\* PushChannel.send and SMSChannel.send are placeholders; the e-mail channel
\* skips a type without a template.
ChannelsSkip(w) ==
    LET n == job[w].about
    IN  /\ job[w].op = "dispatch" /\ ~ByMail(n)
        /\ Go(w, "resolving")
        /\ UNCHANGED <<note, mail, dispatchq, mailq, resend, dropped>>

NewMail == [status |-> "pending", tries |-> 0, due |-> FALSE, known |-> FALSE,
            accepted |-> 0, doubtful |-> FALSE, overtaken |-> FALSE]

\* EmailChannel.send: the log of the e-mail and its task.  Whatever raises on
\* the way is the channel's result: no template or no valid context (no log), a
\* delay that raises (the log stays).
ChannelQueuesMail(w) ==
    LET n == job[w].about
    IN  /\ job[w].op = "dispatch" /\ ByMail(n)
        /\ mail' = [mail EXCEPT ![n] = NewMail]
        /\ Enqueued(n)
        /\ Go(w, "queueing")
        /\ UNCHANGED <<note, dispatchq, resend, dropped>>

ChannelFails(w) ==
    LET n == job[w].about
    IN  /\ job[w].op = "dispatch" /\ ByMail(n)
        /\ \/ UNCHANGED <<mail, dropped>>
           \/ mail' = [mail EXCEPT ![n] = NewMail] /\ Drop("mail", n)
        /\ Answer(w, "failed")
        /\ UNCHANGED <<note, dispatchq, mailq, resend>>

\* EmailService.send saves QUEUED once the task is queued, and has no look at
\* what the task has done by then.
SaveQueued(w) ==
    LET n == job[w].about
    IN  /\ job[w].op = "queueing"
        /\ mail' = [mail EXCEPT ![n] = Save(@, "queued", {"pending"})]
        /\ Answer(w, "sent")
        /\ UNCHANGED <<note, dispatchq, mailq, resend, dropped>>

\* channel_results, with the placeholders.
Results(w) ==
    [c \in note[job[w].about].channels |->
        IF c = "email" THEN job[w].email ELSE "skipped"]

\* Variant: a skipped channel counts as one that was not sent.
FinalStatusVariant(results) ==
    LET effective == {results[c] : c \in DOMAIN results}
    IN  IF effective \subseteq {"sent"} THEN "sent"
        ELSE IF "sent" \in effective THEN "partial" ELSE "failed"

\* _resolve_final_status
FinalStatus(results) ==
    LET effective == {results[c] : c \in DOMAIN results} \ {"skipped"}
    IN  IF effective \subseteq {"sent"} THEN "sent"
        ELSE IF "sent" \in effective THEN "partial" ELSE "failed"

ResolveNote(w) ==
    /\ job[w].op = "resolving"
    /\ note' = [note EXCEPT ![job[w].about].status = FinalStatus(Results(w))]
    /\ Finish(w)
    /\ UNCHANGED <<mail, dispatchq, mailq, resend, dropped>>

-----------------------------------------------------------------------------
(* send_email_task                                                         *)

\* Variant: a failed e-mail is taken as well.
SendableAgainVariant(n) == mail[n].status \in Waiting \cup {"sending", "failed"}

\* Variant: QUEUED is forgotten.
SendablePendingVariant(n) == mail[n].status = "pending"

\* _send_now claims an e-mail that is PENDING or QUEUED.
Sendable(n) == mail[n].status \in Waiting

TakeMail(w, n) ==
    /\ Free(w) /\ mailq[n] > 0
    /\ mailq' = [mailq EXCEPT ![n] = @ - 1]
    /\ \/ /\ Sendable(n)
          /\ mail' = [mail EXCEPT ![n].status = "sending"]
          /\ Start(w, "sending", n)
       \/ ~Sendable(n) /\ UNCHANGED <<mail, job>>
    /\ UNCHANGED <<note, dispatchq, resend, dropped>>

\* backend.send
AcceptedOnceMore(n) == IF mail[n].accepted = 2 THEN 2 ELSE mail[n].accepted + 1

ProviderAccepts(w) ==
    LET n == job[w].about
    IN  /\ job[w].op = "sending"
        /\ mail' = [mail EXCEPT ![n].accepted = AcceptedOnceMore(n)]
        /\ Go(w, "accepted")
        /\ UNCHANGED <<note, dispatchq, mailq, resend, dropped>>

ProviderFails(w) ==
    LET n == job[w].about
    IN  /\ job[w].op = "sending"
        /\ \/ UNCHANGED mail
           \/ mail' = [mail EXCEPT ![n].accepted = AcceptedOnceMore(n),
                                   ![n].doubtful = TRUE]
        /\ Go(w, "refused")
        /\ UNCHANGED <<note, dispatchq, mailq, resend, dropped>>

SaveSent(w) ==
    LET n == job[w].about
    IN  /\ job[w].op = "accepted"
        /\ mail' = [mail EXCEPT ![n] = [Save(@, "sent", {"sending"})
                                          EXCEPT !.known = TRUE]]
        /\ Finish(w)
        /\ UNCHANGED <<note, dispatchq, mailq, resend, dropped>>

SaveFailed(w) ==
    LET n == job[w].about
    IN  /\ job[w].op = "refused"
        /\ mail' = [mail EXCEPT ![n] = Save(@, "failed", {"sending"})]
        /\ Go(w, "counting")
        /\ UNCHANGED <<note, dispatchq, mailq, resend, dropped>>

Counted(tries) == IF tries < MaxRetries THEN tries + 1 ELSE MaxRetries

\* The task counts the attempt, sets next_retry_at while attempts are left, and
\* raises: Celery queues the task again (its own limit of 3 is never reached
\* before max_retries).
CountRetry(w) ==
    LET n == job[w].about
    IN  /\ job[w].op = "counting"
        /\ mail' = [mail EXCEPT
                      ![n].tries = Counted(@),
                      ![n].due = @ \/ Counted(mail[n].tries) < MaxRetries]
        /\ Enqueued(n)
        /\ Finish(w)
        /\ UNCHANGED <<note, dispatchq, resend, dropped>>

\* retry_failed_emails_task
Due == {n \in Notes : /\ mail[n].status = "failed" /\ mail[n].due
                      /\ mail[n].tries < MaxRetries}   \* the batch of 100 apart

RetryFailedEmails ==
    /\ Due # {}
    /\ \A n \in Due : mailq[n] < MaxQueued
    /\ mailq' = [n \in Notes |-> mailq[n] + (IF n \in Due THEN 1 ELSE 0)]
    /\ UNCHANGED <<note, mail, dispatchq, job, resend, dropped>>

-----------------------------------------------------------------------------
(* EmailService.resend, and the provider's webhook                         *)

\* Variant: as often as one likes.
CanRetryVariant(n) == mail[n].status = "failed"

\* EmailLog.can_retry
CanRetry(n) == mail[n].status = "failed" /\ mail[n].tries < MaxRetries

BeginResend(a, n) ==
    /\ resend[a] = NoResend
    /\ CanRetry(n)
    /\ resend' = [resend EXCEPT ![a] = [about |-> n, tries |-> mail[n].tries]]
    /\ UNCHANGED <<note, mail, dispatchq, mailq, job, dropped>>

\* Variant: the task is left to retry_failed_emails_task.
ResendQueuesVariant(n) == UNCHANGED <<mailq, dropped>>

ResendQueues(n) ==
    \/ mailq[n] < MaxQueued /\ Enqueued(n) /\ UNCHANGED dropped
    \/ Drop("mail", n) /\ UNCHANGED mailq

CommitResend(a) ==
    LET n == resend[a].about
    IN  /\ resend[a] # NoResend
        /\ mail' = [mail EXCEPT ![n] = [Save(@, "pending", {"failed"})
                                          EXCEPT !.tries = resend[a].tries + 1]]
        /\ ResendQueues(n)
        /\ resend' = [resend EXCEPT ![a] = NoResend]
        /\ UNCHANGED <<note, dispatchq, job>>

\* _handle_delivery, _handle_bounce, _handle_complaint: an UPDATE by message_id,
\* in whatever order the reports arrive; one that comes before message_id is
\* saved updates nothing.
Webhook(n, report) ==
    /\ mail[n].known
    /\ mail' = [mail EXCEPT ![n] = Save(@, report, {"sent"} \cup Reported)]
    /\ UNCHANGED <<note, dispatchq, mailq, job, resend, dropped>>

\* A worker dies: nobody runs its task again.
WorkerDies(w) ==
    /\ ~Free(w)
    /\ dropped' = [t \in Tables |->
         IF (t = "note") = (job[w].op \in {"dispatch", "queueing", "resolving"})
         THEN dropped[t] \cup {job[w].about} ELSE dropped[t]]
    /\ Finish(w)
    /\ UNCHANGED <<note, mail, dispatchq, mailq, resend>>

-----------------------------------------------------------------------------
Init ==
    /\ note = [n \in Notes |-> [status |-> "none", channels |-> {},
                            template |-> FALSE]]
    /\ mail = [n \in Notes |-> [NewMail EXCEPT !.status = "none"]]
    /\ dispatchq = {}
    /\ mailq = [n \in Notes |-> 0]
    /\ job = [w \in Workers |-> Idle]
    /\ resend = [a \in Admins |-> NoResend]
    /\ dropped = [t \in Tables |-> {}]

\* What a worker does once it has a task.
Work(w) ==
    \/ ChannelsSkip(w) \/ ChannelQueuesMail(w) \/ ChannelFails(w)
    \/ SaveQueued(w) \/ ResolveNote(w)
    \/ ProviderAccepts(w) \/ ProviderFails(w)
    \/ SaveSent(w) \/ SaveFailed(w) \/ CountRetry(w)

Take(n) == \E w \in Workers : TakeDispatch(w, n) \/ TakeMail(w, n)

Next ==
    \/ \E n \in Notes :
         \/ SendNothing(n) \/ SendNotification(n)
         \/ CommitCaller(n) \/ RollbackCaller(n)
         \/ Take(n)
         \/ \E a \in Admins : BeginResend(a, n)
         \/ \E r \in Reported : Webhook(n, r)
    \/ RetryFailedEmails
    \/ \E w \in Workers : Work(w) \/ WorkerDies(w)
    \/ \E a \in Admins : CommitResend(a)

Spec == Init /\ [][Next]_vars

\* Callers end their transactions, workers go on with what they have and take
\* every queued message in the end (the queues are first in, first out).
Fairness ==
    /\ \A n \in Notes : /\ WF_vars(CommitCaller(n) \/ RollbackCaller(n))
                        /\ SF_vars(Take(n))
    /\ \A w \in Workers : WF_vars(Work(w))

FairSpec == Spec /\ Fairness

\* Celery Beat starts the periodic task as long as there is something to retry.
RetrySpec == FairSpec /\ WF_vars(RetryFailedEmails)

-----------------------------------------------------------------------------
\* Every variable holds what its comment says.
TypeOK ==
    /\ note \in [Notes -> NoteRows]
    /\ mail \in [Notes -> MailRows]
    /\ dispatchq \subseteq Notes
    /\ mailq \in [Notes -> Nat]
    /\ job \in [Workers -> Jobs]
    /\ resend \in [Admins -> Resends]
    /\ dropped \in [Tables -> SUBSET Notes]

\* The provider gets an e-mail a second time only if it reported an earlier
\* acceptance as an error, or if a save went over a status its writer had not
\* seen (a late QUEUED, two resends at once): the claim keeps the tasks that
\* several retry mechanisms queue for one e-mail from sending it twice.
SentOnce ==
    \A n \in Notes : mail[n].accepted = 2 => mail[n].doubtful \/ mail[n].overtaken

\* What waits has a task that will pick it up, and what is being worked on has a
\* worker, unless the task was lost (refused by the broker, taken before the
\* caller's commit, or its worker died) or a status was saved over another.
NothingForgotten ==
    \A n \in Notes :
        /\ note[n].status = "pending" => n \in dispatchq \cup dropped["note"]
        /\ note[n].status = "processing" =>
             \/ Working(n, {"dispatch", "queueing", "resolving"})
             \/ n \in dropped["note"]
        /\ mail[n].status \in Waiting \cup {"sending"} =>
             \/ n \in dropped["mail"] \/ mail[n].overtaken
             \/ mail[n].status \in Waiting /\ mailq[n] > 0
             \/ mail[n].status = "sending"
                  /\ Working(n, {"sending", "accepted", "refused"})

\* A notification is never PARTIAL, so retry_partial_notification_task has
\* nothing to do; SENT means that the e-mail it asked for was logged, FAILED that it has no
\* e-mail that a task may still send.
ResultMatchesMail ==
    \A n \in Notes :
        /\ note[n].status # "partial"
        /\ note[n].status = "sent" /\ ByMail(n)
             => mail[n].status # "none"
        /\ note[n].status = "failed"
             => mail[n].status = "none" \/ n \in dropped["mail"]

\* Whatever is logged gets an answer, unless its task was lost or its status was
\* overwritten.
EventuallySettled ==
    \A n \in Notes :
        /\ note[n].status \in {"open", "pending", "processing"}
             ~> \/ note[n].status \in {"undone", "sent", "failed"}
                \/ n \in dropped["note"]
        /\ mail[n].status \in Waiting \cup {"sending"}
             ~> \/ mail[n].status \in {"sent", "failed"} \cup Reported
                \/ n \in dropped["mail"] \/ mail[n].overtaken

\* What email/tasks.py says of its retries ("Uses exponential backoff on failure",
\* "Retry emails that have failed but haven't exceeded max retries"): an e-mail
\* that failed and is due does not stay so for good; it is sent again, or an
\* attempt is used up.
FailedIsRetried == \A n \in Notes : n \in Due ~> n \notin Due
=============================================================================
