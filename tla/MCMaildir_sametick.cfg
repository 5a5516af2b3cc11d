SPECIFICATION Spec
CONSTANTS
    Mail = {m1, m2}
    Session = {s1}
    None = None
    Validity = {7}
    UIDSpace = 9
    MaxTick = 2
    MaxVanish = 0
    MaxRaces = 0
INVARIANT EveryMailKept
CHECK_DEADLOCK FALSE
