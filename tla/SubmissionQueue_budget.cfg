\* One query of an evaluation fails.
SPECIFICATION Spec
CONSTANTS
    N = 2
    ann = ann
    bob = bob
    team = team
    l1 = l1
    l2 = l2
    ta = ta
    NoGroup = NoGroup
    Students <- MCStudents
    Groups <- MCGroups
    Author <- MCAuthor
    GroupOf <- MCTeamwork
    Loops <- MCLoops
    Staff <- MCStaff
    MaxPoints = 1
    Evaluations <- MCVerdicts
    Settings <- MCSettings
    DefaultSettings <- MCDefaults
    MaxAttemptsEver = 2
    Troubles <- MCTroubles
    MaxTrouble = 1
PROPERTIES
    FailsOnlyABurnedBudget
