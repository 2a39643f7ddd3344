\* Two students, an assignment that syncs itself.
SPECIFICATION MCSpec
CONSTANTS
    ann = ann
    bob = bob
    Students <- MCTwo
    Nobody = Nobody
    Totals = {1}
    None = None
    Maxima = {1, 2}
    Tokens = {t1, t2}
    NoToken = NoToken
    AutoSync = TRUE
    MAX_ATTEMPTS = 2
    MaxChanges = 1
    MaxPresses = 1
    MaxTrouble = 2
    MaxLost = 1
INVARIANTS
    TypeOK
    SentIsAtTheLms
    OnlyALateCreationDoubles
    AttemptsWithinBudget
PROPERTIES
    ImplementsPassback
    CurrentGradeArrives
