SPECIFICATION Spec
CONSTANTS
    Accounts = {alice}
    Strangers = {nobody}
    Foreign = {remote}
    NoArg = NoArg
    NoColon = NoColon
    NoAt = NoAt
    None = None
    MaxErrors = 3
    MaxLines = 1
    MaxInput = 1
    MaxMails = 1
INVARIANTS InboundToOurDomain
CHECK_DEADLOCK FALSE
