------------------------ MODULE MC_SubmissionQueue ------------------------
(* Instances of SubmissionQueue small enough for TLC.                      *)
EXTENDS SubmissionQueue, TLC

CONSTANTS ann, bob, team, l1, l2, ta

MCStudents == {ann, bob}
MCGroups == {team}
MCLoops == {l1, l2}
MCStaff == {ta}

\* Ann hands in, then Bob, each alone or for the team they share.
MCAuthor == [i \in 1 .. N |-> IF i = 2 THEN bob ELSE ann]
MCTeamwork == [s \in MCStudents |-> team]
MCAlone == [s \in MCStudents |-> NoGroup]
MCOnePupil == [i \in 1 .. N |-> ann]

Right == [status |-> "COMPLETED", correct |-> "right"]
Wrong == [status |-> "COMPLETED", correct |-> "wrong"]
NoVerdict == [status |-> "COMPLETED", correct |-> "none"]
\* A failure can be reported with `correct: false` beside it.
Broken == [status |-> "FAILED", correct |-> "wrong"]

MCVerdicts == {Right, Wrong}
MCFailures == {Right, NoVerdict, Broken}

MCDefaults == [maxConcurrent |-> 2, maxAttempts |-> 2]
MCSettings == {MCDefaults, [maxConcurrent |-> 1, maxAttempts |-> 1]}

MCTroubles == {"fault", "stall", "crash", "rerun", "key", "grade"}
MCAllTroubles == MCTroubles \cup {"settings"}

Symmetric == Permutations(MCLoops)
=============================================================================
