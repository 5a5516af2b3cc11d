SPECIFICATION Spec
CONSTANTS
    Mail = {m1, m2}
    Session = {s1, s2}
    None = None
    Validity = {7, 8}
    UIDSpace = 9
    MaxTick = 2
    MaxVanish = 0
    MaxRaces = 1
SYMMETRY Symmetry
INVARIANTS IInv UIDNamesOneMail ShownWasIssued SnapshotAscending MailKeepsUID NoMailLost
PROPERTIES SelectSeesStoredMail UIDNextIsPromise LedgerSpec
CHECK_DEADLOCK FALSE
