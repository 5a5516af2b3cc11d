SPECIFICATION FairSpec
CONSTANTS
    Mail = {m1}
    Session = {s1, s2, s3}
    None = None
    Validity = {7}
    UIDSpace = 9
    MaxTick = 1
    MaxVanish = 1
    MaxRaces = 1
PROPERTIES SelectServed
CHECK_DEADLOCK FALSE
