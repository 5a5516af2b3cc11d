SPECIFICATION FairSpec
CONSTANTS
    Accounts = {alice, bob}
    Bare = {carol}
    Messages = {m1}
    Tags = {t1, t2}
    NoArg = NoArg
    None = None
    MaxInput = 2
INVARIANTS SecureLogin StateAgrees
PROPERTIES CompletedOnce ErrorBeforeOK SilentSessionEnds
CHECK_DEADLOCK FALSE
