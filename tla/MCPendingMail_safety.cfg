SPECIFICATION FairSpec
CONSTANTS
    Mail = {m1, m2, m3}
    Undeliverable = {m3}
    BadTLS = {m1, m2}
    CommandLike = {m1}
    Leftover = {m1}
    None = None
    MaxDeath = 1
    MaxFailure = 1
    MaxCopies = 2
INVARIANTS PInv AcceptedNotLost RelaysWholeMails CopiesExcused SkippedNotSent
PROPERTIES AcceptedIsAttempted
CHECK_DEADLOCK FALSE
