SPECIFICATION PathSpec
CONSTANTS
    MaxLine = 3
    MaxSize = 12
    MaxOctets = 2
    MaxLines = 3
    MaxText = 11
    Hosts = {h1, h2}
    Sender = h1
    MaxTerms = 3
    MaxLater = 2
    MaxRedirects = 10
    None = None
INVARIANTS PathTypeOK DataArrives RelayedWhole ShownAsStored EvaluatesMeaning
PROPERTIES VerificationEnds
CHECK_DEADLOCK FALSE
