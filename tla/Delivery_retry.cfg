\* One notification with its e-mail and one worker, nobody who resends it: only
\* Celery's retries and the periodic task can.
SPECIFICATION RetrySpec
CONSTANTS
    n1 = n1
    w1 = w1
    w2 = w2
    a1 = a1
    a2 = a2
    Notes <- MCNotes
    Workers <- MCOneWorker
    Admins <- MCNoAdmin
    NoNote = NoNote
    MaxRetries = 2
    MaxQueued = 2
PROPERTY
    FailedIsRetried
CHECK_DEADLOCK FALSE
