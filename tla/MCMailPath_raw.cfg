SPECIFICATION PathSpec
CONSTANTS
    MaxLine = 3
    MaxSize = 12
    MaxOctets = 2
    MaxLines = 3
    MaxText = 11
    Hosts = {h1, h2}
    Sender = h1
    MaxTerms = 1
    MaxLater = 1
    MaxRedirects = 1
    None = None
INVARIANTS BodyIsRaw
CHECK_DEADLOCK FALSE
