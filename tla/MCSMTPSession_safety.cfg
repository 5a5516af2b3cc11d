SPECIFICATION FairSpec
CONSTANTS
    Accounts = {alice}
    Strangers = {nobody}
    Foreign = {remote}
    NoArg = NoArg
    NoColon = NoColon
    NoAt = NoAt
    None = None
    MaxErrors = 3
    MaxLines = 2
    MaxInput = 1
    MaxMails = 2
INVARIANTS SenderVouched RecipientKnown TLSStartsOver MailGivenOnce FailuresBelowLimit AuthOfferHonoured
PROPERTIES CommandAnswered AcceptedMeansTaken GoneClientIsClosed
CHECK_DEADLOCK FALSE
