SPECIFICATION FairSpec
CONSTANTS
    Mail = {m1, m2}
    Undeliverable = {}
    BadTLS = {}
    CommandLike = {}
    Leftover = {}
    None = None
    MaxDeath = 1
    MaxFailure = 0
    MaxCopies = 1
PROPERTIES PendingIsAttempted
CHECK_DEADLOCK FALSE
