\* Two submissions of one student; faults, crashes, reruns and new settings.
SPECIFICATION FairSpec
CONSTANTS
    N = 2
    ann = ann
    bob = bob
    team = team
    l1 = l1
    l2 = l2
    ta = ta
    NoGroup = NoGroup
    Students <- MCStudents
    Groups <- MCGroups
    Author <- MCOnePupil
    GroupOf <- MCAlone
    Loops <- MCLoops
    Staff <- MCStaff
    MaxPoints = 1
    Evaluations <- MCFailures
    Settings <- MCSettings
    DefaultSettings <- MCDefaults
    MaxAttemptsEver = 2
    Troubles <- MCAllTroubles
    MaxTrouble = 2
PROPERTIES
    ImplementsBoard
    FailureMovesNoGrade
    EverySubmissionSettles
