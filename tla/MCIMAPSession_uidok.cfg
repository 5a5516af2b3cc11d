SPECIFICATION Spec
CONSTANTS
    Accounts = {alice}
    Bare = {}
    Messages = {m1}
    Tags = {t1}
    NoArg = NoArg
    None = None
    MaxInput = 1
PROPERTY OKMeansDone
CHECK_DEADLOCK FALSE
