\* A submission while staff move students or unpublish.
SPECIFICATION Spec
CONSTANTS
    P = 1
    ann = ann
    bob = bob
    red = red
    blue = blue
    r1 = r1
    r2 = r2
    r3 = r3
    NoGroup = NoGroup
    Nobody = Nobody
    Students <- MCStudents
    Groups <- MCGroups
    Placement <- MCTogether
    Requests <- MCPair
    Menu <- MCHandIn
    Points = {1, 2}
    Marks = {1, 2}
    Cap = 0
CHECK_DEADLOCK FALSE
PROPERTY
    NothingReadMovesBeforeTheInsert
