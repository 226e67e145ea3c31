\* One notification with its e-mail, two workers, two people who resend it.
SPECIFICATION FairSpec
CONSTANTS
    n1 = n1
    w1 = w1
    w2 = w2
    a1 = a1
    a2 = a2
    Notes <- MCNotes
    Workers <- MCWorkers
    Admins <- MCAdmins
    NoNote = NoNote
    MaxRetries = 2
    MaxQueued = 2
INVARIANTS
    TypeOK
    SentOnce
    NothingForgotten
    ResultMatchesMail
PROPERTIES
    EventuallySettled
CHECK_DEADLOCK FALSE
