SPECIFICATION Spec
CONSTANTS
    Mail = {m1}
    Session = {s1, s2}
    None = None
    Validity = {7}
    UIDSpace = 9
    MaxTick = 1
    MaxVanish = 0
    MaxRaces = 1
PROPERTY DroppedMeansVanished
CHECK_DEADLOCK FALSE
