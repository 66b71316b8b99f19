\* Three reports by two threads; a queue of one is full at the second event.
CONSTANTS
    n1 = n1
    n2 = n2
    n3 = n3
    n4 = n4
    p = p
    q = q
    none = none
    aws = aws
    slack = slack
    Thread = {t1, t2}
    Notice = {n1, n2, n3, n4}
    Weight <- MCWeight
    Session = {p, q}
    NoSession = none
    Family = {aws, slack}
    Scan <- MCScan
    Failure = {failed}
    MaxItems = 2
    MaxChars = 3
    MaxSessions = 1
    QueueMax = 1
    MaxReports = 3
SPECIFICATION FairSpec
\* The bounded reports come to an end.
CHECK_DEADLOCK FALSE
INVARIANTS
    OnceWhileRemembered
    IdleMeansWritten
PROPERTIES
    HotPathReturns
    AcceptedIsWritten
