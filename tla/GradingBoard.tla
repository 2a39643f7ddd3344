---------------------------- MODULE GradingBoard ----------------------------
(***************************************************************************)
(* What the submission queue promises, with no worker in it: a board of    *)
(* submissions that wait, are worked on and are settled, and the grades    *)
(* that the settled ones earn.  No loops, claims, tokens, attempts, stale  *)
(* reads, lost answers, crashes or reaper: whatever those do may show only *)
(* as work that starts, is put back, is given up, or is settled once.      *)
(*                                                                         *)
(* SubmissionQueue is shown to implement it.                               *)
(***************************************************************************)
EXTENDS Integers

CONSTANTS N, Students, Groups, NoGroup, Author, GroupOf, MaxPoints, Evaluations

VARIABLES
    status,     \* status[i]: ABSENT, PENDING, PROCESSING, COMPLETED or FAILED
    correct,    \* correct[i]: the verdict submission i shows
    key,        \* key[i]: the answer key that verdict was measured against
    queuedKey,  \* queuedKey[i]: the answer key when i was last asked to be graded
    answerKey,  \* the answer key of the problem
    grades,     \* grades[s]: the standing grade of student s
    touched     \* the students whose grade staff changed by hand

board == <<status, correct, key, queuedKey, answerKey, grades, touched>>

Submissions == 1 .. N
NoGrade == [value |-> -1, manual |-> FALSE]

Owners(i) ==
    IF GroupOf[Author[i]] = NoGroup
    THEN {Author[i]}
    ELSE {s \in Students : GroupOf[s] = GroupOf[Author[i]]}

\* No later submission speaks for the same student or group.
IsLatest(i) ==
    \A j \in Submissions : j > i /\ Owners(j) = Owners(i) => status[j] = "ABSENT"

Worth(verdict) == [value |-> IF verdict = "right" THEN MaxPoints ELSE 0, manual |-> FALSE]

Init ==
    /\ status = [i \in Submissions |-> "ABSENT"]
    /\ correct = [i \in Submissions |-> "none"]
    /\ key = [i \in Submissions |-> 0]
    /\ queuedKey = [i \in Submissions |-> 0]
    /\ answerKey = 1
    /\ grades = [s \in Students |-> NoGrade]
    /\ touched = {}

Submit(i) ==
    /\ status[i] = "ABSENT"
    /\ status' = [status EXCEPT ![i] = "PENDING"]
    /\ queuedKey' = [queuedKey EXCEPT ![i] = answerKey]
    /\ UNCHANGED <<correct, key, answerKey, grades, touched>>

Start(i) ==
    /\ status[i] = "PENDING"
    /\ status' = [status EXCEPT ![i] = "PROCESSING"]
    /\ UNCHANGED <<correct, key, queuedKey, answerKey, grades, touched>>

PutBack(S) ==
    /\ \A i \in S : status[i] = "PROCESSING"
    /\ status' = [i \in Submissions |-> IF i \in S THEN "PENDING" ELSE status[i]]
    /\ UNCHANGED <<correct, key, queuedKey, answerKey, grades, touched>>

GiveUp(i) ==
    /\ status[i] \in {"PENDING", "PROCESSING"}
    /\ status' = [status EXCEPT ![i] = "FAILED"]
    /\ UNCHANGED <<correct, key, queuedKey, answerKey, grades, touched>>

\* The verdict and the grades it earns appear together, measured against a key
\* that was in force at some moment since the work was asked for.
Settle(i) ==
    /\ status[i] = "PROCESSING"
    /\ \E e \in Evaluations, k \in queuedKey[i] .. answerKey :
         /\ status' = [status EXCEPT ![i] = e.status]
         /\ correct' = [correct EXCEPT ![i] = e.correct]
         /\ key' = [key EXCEPT ![i] = IF e.status = "COMPLETED" THEN k ELSE 0]
         /\ grades' = IF e.status = "COMPLETED" /\ e.correct # "none" /\ IsLatest(i)
                      THEN [s \in Students |->
                              IF s \in Owners(i) /\ ~ grades[s].manual
                              THEN Worth(e.correct) ELSE grades[s]]
                      ELSE grades
    /\ UNCHANGED <<queuedKey, answerKey, touched>>

Rerun(S) ==
    /\ \A i \in S : status[i] # "ABSENT"
    /\ status' = [i \in Submissions |-> IF i \in S THEN "PENDING" ELSE status[i]]
    /\ correct' = [i \in Submissions |-> IF i \in S THEN "none" ELSE correct[i]]
    /\ queuedKey' = [i \in Submissions |-> IF i \in S THEN answerKey ELSE queuedKey[i]]
    /\ UNCHANGED <<key, answerKey, grades, touched>>

ReplaceAnswerKey ==
    /\ answerKey' = answerKey + 1
    /\ UNCHANGED <<status, correct, key, queuedKey, grades, touched>>

\* Staff enter, clear, hold or release the grade of one student.
StaffGrade(s) ==
    /\ \E v \in -1 .. MaxPoints, manual \in BOOLEAN :
         grades' = [grades EXCEPT ![s] = [value |-> v, manual |-> manual]]
    /\ touched' = touched \cup {s}
    /\ UNCHANGED <<status, correct, key, queuedKey, answerKey>>

Next ==
    \/ \E i \in Submissions : Submit(i) \/ Start(i) \/ GiveUp(i) \/ Settle(i)
    \/ \E S \in SUBSET Submissions : PutBack(S) \/ Rerun(S)
    \/ ReplaceAnswerKey
    \/ \E s \in Students : StaffGrade(s)

Spec == Init /\ [][Next]_board

=============================================================================
