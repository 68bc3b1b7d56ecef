SPECIFICATION Spec
CONSTANTS
    a1 = a1
    a2 = a2
    t1 = t1
    t2 = t2
    Accounts = {a1, a2}
    Tokens = {t1, t2}
    Permitted <- MCPermitted
    Sessions = {s1, s2}
    MaxEmailSizeMB = 5
    OtherSizeMB = 20
    MaxChanges = 3
    Null = Null
SYMMETRY Symmetry
INVARIANTS TypeOK CloudflareServerComplete ChosenMeansCleared SkippedDeserved
PROPERTY DetectedHonestly
