SPECIFICATION Spec
CONSTANTS
    Credentials = FALSE
    MaxGarbled = 0
INVARIANTS NilMeansTaken
CHECK_DEADLOCK FALSE
