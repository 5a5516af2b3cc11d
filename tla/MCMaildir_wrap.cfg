SPECIFICATION Spec
CONSTANTS
    Mail = {m1, m2, m3}
    Session = {s1}
    None = None
    Validity = {7}
    UIDSpace = 2
    MaxTick = 3
    MaxVanish = 0
    MaxRaces = 0
SYMMETRY Symmetry
PROPERTIES SelectSeesStoredMail
CHECK_DEADLOCK FALSE
