SPECIFICATION Spec
CONSTANTS
    Messages = {m1, m2}
    Mails <- MCMails
    MaxRecipients = 2
    Allowed = {x, y, z}
    MaxHeaderCount = 3
    MaxHeaderBytes = 22
    MaxHeaderValueBytes = 5
    NameBytes = 5
    IdBytes = 2
    MaxAttempts = 3
    MaxRetryAfter = 3
    RetryAfter <- MCRetryAfter
    Null = Null
    a = a
    b = b
    c = c
    own = own
    old = old
    x = x
    y = y
    z = z
    other = other
SYMMETRY Symmetry
INVARIANTS TypeOK FailedReachedNobody CopiesExplained BlockedBriefly AddressedOnce HiddenApart FailsFast PartsSentOnce WithinLimits ThreadKept
CHECK_DEADLOCK FALSE
