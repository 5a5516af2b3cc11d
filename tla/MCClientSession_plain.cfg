SPECIFICATION Spec
CONSTANTS
    Credentials = FALSE
    MaxGarbled = 0
INVARIANTS TLSFirst
CHECK_DEADLOCK FALSE
