SPECIFICATION FairSpec
CONSTANTS
    Credentials = TRUE
    MaxGarbled = 1
INVARIANTS CredentialsOverTLS
PROPERTIES TransferSpec SendMailEnds
CHECK_DEADLOCK FALSE
