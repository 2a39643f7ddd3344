\* One staff change among two requests that grade or hand in.
\* Requests are served once each, so every behaviour stops.
SPECIFICATION Spec
CONSTANTS
    P = 1
    ann = ann
    bob = bob
    red = red
    blue = blue
    r1 = r1
    r2 = r2
    r3 = r3
    NoGroup = NoGroup
    Nobody = Nobody
    Students <- MCStudents
    Groups <- MCGroups
    Placement <- MCTogether
    Requests <- MCRequests
    Menu <- MCOneChange
    Points = {1, 2}
    Marks = {1, 2}
    Cap = 1
SYMMETRY Writers
CHECK_DEADLOCK FALSE
INVARIANTS
    TypeOK
    GradesWithinPoints
    CapHolds
    OnlyAStampOrAScanMeets
PROPERTIES
    GroupsFreezeOnceUsed
    NoUnseenMarkIsFlattened
    HandMarksSurviveTheWorker
    OnlyIdleWorkIsUnpublished
    ImplementsSheet
