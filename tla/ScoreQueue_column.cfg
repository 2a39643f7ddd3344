\* A column whose creation went unanswered, and new points.
SPECIFICATION Spec
CONSTANTS
    ann = ann
    bob = bob
    Students <- MCOne
    Nobody = Nobody
    Totals = {1}
    None = None
    Maxima = {1, 2}
    Tokens = {t1, t2}
    NoToken = NoToken
    AutoSync = TRUE
    MAX_ATTEMPTS = 2
    MaxChanges = 1
    MaxPresses = 0
    MaxTrouble = 1
    MaxLost = 0
INVARIANT
    ColumnIsWorthTheScore
