-------------------------- MODULE SubmissionQueue --------------------------
(***************************************************************************)
(* The submission queue: the Submission rows, the worker process that      *)
(* claims and evaluates them, the reaper that takes them back, the staff   *)
(* who rerun them, and the standing grades the evaluations write.          *)
(* src/lib/submission-worker.ts and the two rerun routes.                  *)
(*                                                                         *)
(* A worker loop is one runWorkerLoop chain.  Every await on the database  *)
(* is a step of its own, so what a loop read before an await is kept in    *)
(* the loop's record and may be stale when it is used.  A transaction is   *)
(* one step: persistEvaluation is Serializable.                            *)
(*                                                                         *)
(* One problem of one assignment, autograded, worth MaxPoints.  Groups     *)
(* do not change here.                                                     *)
(***************************************************************************)
EXTENDS Integers, FiniteSets

CONSTANTS
    N,              \* the submissions are 1..N, in the order of submittedAt
    Students,
    Groups,
    NoGroup,
    Author,         \* Author[i]: studentId of submission i
    GroupOf,        \* GroupOf[s]: the group student s works in, or NoGroup
    Loops,          \* names of the worker loops
    Staff,          \* staff members pressing Rerun
    MaxPoints,
    Evaluations,    \* what the evaluator may answer
    Settings,       \* the values SystemSettings may give the queue
    DefaultSettings,
    MaxAttemptsEver,    \* MAX_SUBMISSION_MAX_ATTEMPTS: the settings are clamped to it
    Troubles,       \* the kinds of trouble that may happen
    MaxTrouble      \* bound of the model: how many of them happen in one behaviour

Submissions == 1 .. N

OnQueue == {"PENDING", "PROCESSING"}
Settled == {"COMPLETED", "FAILED"}
Verdicts == {"right", "wrong", "none"}

AllEvaluations == [status : Settled, correct : Verdicts]

ASSUME BoundsAssumption ==
    /\ N \in Nat
    /\ MaxPoints \in Nat
    /\ MaxAttemptsEver \in Nat \ {0}
    /\ MaxTrouble \in Nat

ASSUME RosterAssumption ==
    /\ NoGroup \notin Groups
    /\ Author \in [Submissions -> Students]
    /\ GroupOf \in [Students -> Groups \cup {NoGroup}]

ASSUME SettingsAssumption ==
    /\ Evaluations \subseteq AllEvaluations
    /\ Settings \subseteq [maxConcurrent : Nat \ {0}, maxAttempts : Nat \ {0}]
    /\ DefaultSettings \in [maxConcurrent : Nat \ {0}, maxAttempts : Nat \ {0}]
    /\ IsFiniteSet(Loops)
    /\ \A s \in Settings \cup {DefaultSettings} :
         s.maxConcurrent <= Cardinality(Loops) /\ s.maxAttempts <= MaxAttemptsEver

----------------------------------------------------------------------------
(* Values that stand for "nothing there".                                  *)

NoToken == 0        \* processingToken NULL; the tokens of a row are 1, 2, ...
NoRow == 0
NoKey == 0          \* answerFileName NULL; the keys ever stored are 1, 2, ...
Unknown == -1       \* attempts of a submission this loop never managed to read

NoGrade == [value |-> -1, manual |-> FALSE]

AbsentRow == [status |-> "ABSENT", attempts |-> 0, token |-> NoToken,
              correct |-> "none", key |-> NoKey]

IdleLoop == [pc |-> "start", busy |-> {}, id |-> NoRow, attempts |-> 0,
             token |-> NoToken, key |-> NoKey, status |-> "FAILED", correct |-> "none"]

DeadLoop == [IdleLoop EXCEPT !.pc = "off"]

Pcs == {"off", "start", "scan", "picked", "claimed", "evaluated", "catch"}

VARIABLES
    rows,       \* the Submission table
    minted,     \* minted[i]: how many claim tokens row i was ever given
    grades,     \* the AssignmentProblemGrade rows of the problem
    answerKey,  \* the answer key the problem holds now
    loops,      \* the loops of the worker process, with their locals
    queue,      \* desiredWorkers and maxAttempts of the worker process
    rerun,      \* rerun[a]: the row staff member a is about to reset, or NoRow
    queuedKey,  \* history: the answer key when row i was last asked to be graded
    touched,    \* history: the students whose grade staff changed by hand
    trouble     \* how much trouble there has been: no behaviour has more than MaxTrouble

vars == <<rows, minted, grades, answerKey, loops, queue, rerun, queuedKey, touched, trouble>>

----------------------------------------------------------------------------
(* Reading the tables.                                                     *)

Present(i) == rows[i].status # "ABSENT"

BusyStudents == {Author[i] : i \in {j \in Submissions : rows[j].status = "PROCESSING"}}

\* What findFirst returns to a loop that skips the students in busy: nearest
\* deadline first, which is the same here for all, then FIFO.
IsNext(i, busy) ==
    LET waiting == {j \in Submissions : rows[j].status = "PENDING" /\ Author[j] \notin busy}
    IN  i \in waiting /\ \A j \in waiting : i <= j

NothingWaits(busy) ==
    \A j \in Submissions : rows[j].status = "PENDING" => Author[j] \in busy

\* A group's submissions form one stream, a lone student's another.
SameStream(i, j) ==
    IF GroupOf[Author[i]] = NoGroup
    THEN Author[j] = Author[i]
    ELSE GroupOf[Author[j]] = GroupOf[Author[i]]

\* The students submission i speaks for.
Owners(i) ==
    IF GroupOf[Author[i]] = NoGroup
    THEN {Author[i]}
    ELSE {s \in Students : GroupOf[s] = GroupOf[Author[i]]}

\* Mistake: whatever finishes last sets the grade.
EveryoneHoldsTheGrade(i) == TRUE

HoldsTheStandingGrade(i) ==
    \A j \in Submissions : Present(j) /\ SameStream(i, j) => j <= i

\* Mistake: a `correct: false` reported beside a failure is taken as a verdict.
AnyVerdictYields(status, correct) == correct # "none"

YieldsAGrade(status, correct) == status = "COMPLETED" /\ correct # "none"

EarnedGrade(correct) == [value |-> IF correct = "right" THEN MaxPoints ELSE 0,
                         manual |-> FALSE]

Live == {w \in Loops : loops[w].pc # "off"}

\* The loop's claim on its row still stands: processingToken is the loop's.
Owns(w) == /\ loops[w].token # NoToken
           /\ rows[loops[w].id].token = loops[w].token

----------------------------------------------------------------------------
(* Writing the Submission table.                                           *)

SubmittedRow == [AbsentRow EXCEPT !.status = "PENDING"]

\* Mistake: a rerun gives one attempt back instead of starting the budget afresh.
RerunRefunds(r) == [r EXCEPT !.status = "PENDING", !.attempts = @ - 1, !.token = NoToken,
                             !.correct = "none"]

\* Mistake: a rerun leaves the claim of whoever is evaluating the row.
RerunKeepsClaim(r) == [r EXCEPT !.status = "PENDING", !.attempts = 0, !.correct = "none"]

\* What both rerun routes write: a fresh attempt budget, and nobody's claim.
RerunRow(r) == [r EXCEPT !.status = "PENDING", !.attempts = 0, !.token = NoToken,
                         !.correct = "none"]

\* The reaper, and the retry of a failed evaluation.
RequeuedRow(r) == [r EXCEPT !.status = "PENDING", !.token = NoToken]

GivenUpRow(r) == [r EXCEPT !.status = "FAILED", !.token = NoToken]

EvaluatedRow(r, l) == [r EXCEPT !.status = l.status, !.correct = l.correct,
                                !.key = l.key, !.token = NoToken]

\* Mistake: the attempt number as the fence (what the code used to do).
AttemptAsToken(i) == rows[i].attempts + 1

FreshToken(i) == minted[i] + 1

\* Mistake: UPDATE ... WHERE id alone.
WriteById(w, new) == rows' = [rows EXCEPT ![loops[w].id] = new]

\* UPDATE ... WHERE id AND processingToken = the loop's token: new is what the
\* row of the loop becomes, if it still is the loop's.
WriteIfStillOwned(w, new) ==
    rows' = IF Owns(w) THEN [rows EXCEPT ![loops[w].id] = new] ELSE rows

\* What nobody needs for a submission to be graded, counted to bound the model.
Trouble(kind) == /\ kind \in Troubles
                 /\ trouble < MaxTrouble
                 /\ trouble' = trouble + 1

\* A loop ends its pass: it drops every local and will look at the queue again.
EndsPass(w) == loops' = [loops EXCEPT ![w] = IdleLoop]

----------------------------------------------------------------------------
(* Students.                                                               *)

\* A row appears PENDING (the checks before it are not modelled here).
Submit(i) ==
    /\ ~ Present(i)
    /\ \A j \in Submissions : j < i => Present(j)
    /\ rows' = [rows EXCEPT ![i] = SubmittedRow]
    /\ queuedKey' = [queuedKey EXCEPT ![i] = answerKey]
    /\ UNCHANGED <<minted, grades, answerKey, loops, queue, rerun, touched, trouble>>

----------------------------------------------------------------------------
(* One pass of a worker loop.                                              *)

\* Scale down: a loop above desiredWorkers retires itself.
Retire(w) ==
    /\ loops[w].pc = "start"
    /\ Cardinality(Live) > queue.maxConcurrent
    /\ loops' = [loops EXCEPT ![w] = DeadLoop]
    /\ UNCHANGED <<rows, minted, grades, answerKey, queue, rerun, queuedKey, touched, trouble>>

\* findMany: the students with a submission in flight.
ReadBusy(w) ==
    /\ loops[w].pc = "start"
    /\ Cardinality(Live) <= queue.maxConcurrent
    /\ loops' = [loops EXCEPT ![w].pc = "scan", ![w].busy = BusyStudents]
    /\ UNCHANGED <<rows, minted, grades, answerKey, queue, rerun, queuedKey, touched, trouble>>

\* findFirst: a waiting submission of a student who was not busy then.
PickNext(w) ==
    /\ loops[w].pc = "scan"
    /\ \/ /\ NothingWaits(loops[w].busy)
          /\ EndsPass(w)
       \/ \E i \in Submissions :
            /\ IsNext(i, loops[w].busy)
            /\ loops' = [loops EXCEPT ![w].pc = "picked", ![w].id = i, ![w].busy = {},
                                      ![w].attempts = rows[i].attempts]
    /\ UNCHANGED <<rows, minted, grades, answerKey, queue, rerun, queuedKey, touched, trouble>>

\* The poison-pill guard, on the attempts read with the row.
FailPoisonPill(w) ==
    /\ loops[w].pc = "picked"
    /\ loops[w].attempts >= queue.maxAttempts
    /\ LET i == loops[w].id
       IN  rows' = IF rows[i].status = "PENDING"
                   THEN [rows EXCEPT ![i].status = "FAILED"]
                   ELSE rows
    /\ EndsPass(w)
    /\ UNCHANGED <<minted, grades, answerKey, queue, rerun, queuedKey, touched, trouble>>

ClaimedRow(r, token) ==
    [r EXCEPT !.status = "PROCESSING", !.attempts = @ + 1, !.token = token]

\* Mistake: no poison-pill guard.
MayAlwaysClaim(w) == loops[w].pc = "picked"

MayClaim(w) == loops[w].pc = "picked" /\ loops[w].attempts < queue.maxAttempts

\* claimSubmission: the row is the loop's if it was still PENDING.
Claim(w) ==
    /\ MayClaim(w)
    /\ LET i == loops[w].id
       IN  \/ /\ rows[i].status = "PENDING"
              /\ rows' = [rows EXCEPT ![i] = ClaimedRow(@, FreshToken(i))]
              /\ minted' = [minted EXCEPT ![i] = FreshToken(i)]
              /\ loops' = [loops EXCEPT ![w].pc = "claimed", ![w].attempts = Unknown,
                                        ![w].token = FreshToken(i)]
           \/ /\ rows[i].status # "PENDING"
              /\ EndsPass(w)
              /\ UNCHANGED <<rows, minted>>
    /\ UNCHANGED <<grades, answerKey, queue, rerun, queuedKey, touched, trouble>>

\* The claim commits and its answer is lost: the loop backs off with no token.
ClaimAnswerLost(w) ==
    /\ MayClaim(w)
    /\ LET i == loops[w].id
       IN  /\ rows[i].status = "PENDING"
           /\ rows' = [rows EXCEPT ![i] = ClaimedRow(@, FreshToken(i))]
           /\ minted' = [minted EXCEPT ![i] = FreshToken(i)]
    /\ EndsPass(w)
    /\ Trouble("fault")
    /\ UNCHANGED <<grades, answerKey, queue, rerun, queuedKey, touched>>

\* answerFileName of a completed evaluation.  (Which key a failed one names is
\* left out: no property reads it.)
KeyNamed(e) == IF e.status = "COMPLETED" THEN answerKey ELSE NoKey

\* findUnique, then the evaluator: the submission is measured against the
\* answer key the read named, however long the jar then runs.
Evaluate(w) ==
    /\ loops[w].pc = "claimed"
    /\ \E e \in Evaluations :
         loops' = [loops EXCEPT ![w].pc = "evaluated",
                                ![w].attempts = rows[loops[w].id].attempts,
                                ![w].key = KeyNamed(e),
                                ![w].status = e.status, ![w].correct = e.correct]
    /\ UNCHANGED <<rows, minted, grades, answerKey, queue, rerun, queuedKey, touched, trouble>>

\* The read itself throws, so `submission` is still null in the catch.
LoadFails(w) ==
    /\ loops[w].pc = "claimed"
    /\ loops' = [loops EXCEPT ![w].pc = "catch"]
    /\ Trouble("fault")
    /\ UNCHANGED <<rows, minted, grades, answerKey, queue, rerun, queuedKey, touched>>

\* Mistake: an upsert that forgets the hold.
GradedOverTheHold(i, correct) ==
    [s \in Students |-> IF s \in Owners(i) THEN EarnedGrade(correct) ELSE grades[s]]

\* The grade rows after submission i earned its verdict.
Graded(i, correct) ==
    [s \in Students |-> IF s \in Owners(i) /\ ~ grades[s].manual
                        THEN EarnedGrade(correct) ELSE grades[s]]

\* Mistake: the grade is written whether or not the result was.
PersistSeparately(w) ==
    LET l == loops[w]
    IN  /\ WriteIfStillOwned(w, EvaluatedRow(rows[l.id], l))
        /\ grades' = IF YieldsAGrade(l.status, l.correct) /\ HoldsTheStandingGrade(l.id)
                     THEN Graded(l.id, l.correct)
                     ELSE grades

\* persistEvaluation, when it commits.
PersistTransaction(w) ==
    LET l == loops[w]
    IN  /\ WriteIfStillOwned(w, EvaluatedRow(rows[l.id], l))
        /\ grades' = IF /\ Owns(w)
                        /\ YieldsAGrade(l.status, l.correct)
                        /\ HoldsTheStandingGrade(l.id)
                     THEN Graded(l.id, l.correct)
                     ELSE grades

Persist(w) ==
    /\ loops[w].pc = "evaluated"
    /\ PersistTransaction(w)
    /\ EndsPass(w)
    /\ UNCHANGED <<minted, answerKey, queue, rerun, queuedKey, touched, trouble>>

\* A serialization failure or a lost connection: nothing of it is written.
PersistRollsBack(w) ==
    /\ loops[w].pc = "evaluated"
    /\ loops' = [loops EXCEPT ![w].pc = "catch"]
    /\ Trouble("fault")
    /\ UNCHANGED <<rows, minted, grades, answerKey, queue, rerun, queuedKey, touched>>

\* It commits, and the worker is told that it failed.
PersistAnswerLost(w) ==
    /\ loops[w].pc = "evaluated"
    /\ PersistTransaction(w)
    /\ loops' = [loops EXCEPT ![w].pc = "catch"]
    /\ Trouble("fault")
    /\ UNCHANGED <<minted, answerKey, queue, rerun, queuedKey, touched>>

GivesUp(w) == loops[w].attempts = Unknown \/ loops[w].attempts >= queue.maxAttempts

\* The catch of evaluateSubmission: retry, or fail the submission for good.
Recover(w) ==
    /\ loops[w].pc = "catch"
    /\ LET r == rows[loops[w].id]
       IN  WriteIfStillOwned(w, IF GivesUp(w) THEN GivenUpRow(r) ELSE RequeuedRow(r))
    /\ EndsPass(w)
    /\ UNCHANGED <<minted, grades, answerKey, queue, rerun, queuedKey, touched, trouble>>

\* A query of the pass throws: the loop's own catch, and the row stays as it is.
PassFails(w) ==
    /\ loops[w].pc \in {"scan", "picked", "catch"}
    /\ EndsPass(w)
    /\ Trouble("fault")
    /\ UNCHANGED <<rows, minted, grades, answerKey, queue, rerun, queuedKey, touched>>

LoopStep(w) ==
    \/ Retire(w) \/ ReadBusy(w) \/ PickNext(w) \/ FailPoisonPill(w) \/ Claim(w)
    \/ Evaluate(w) \/ Persist(w) \/ Recover(w)

LoopFault(w) ==
    \/ ClaimAnswerLost(w) \/ LoadFails(w) \/ PersistRollsBack(w)
    \/ PersistAnswerLost(w) \/ PassFails(w)

----------------------------------------------------------------------------
(* Staff.                                                                  *)

\* POST /submissions/[id]/rerun reads the row and refuses one on the queue ...
RerunReads(a, i) ==
    /\ rerun[a] = NoRow
    /\ rows[i].status \in Settled
    /\ rerun' = [rerun EXCEPT ![a] = i]
    /\ Trouble("rerun")
    /\ UNCHANGED <<rows, minted, grades, answerKey, loops, queue, queuedKey, touched>>

\* ... and after some more reads resets it, whatever it has become.
RerunWrites(a) ==
    /\ rerun[a] # NoRow
    /\ rows' = [rows EXCEPT ![rerun[a]] = RerunRow(@)]
    /\ queuedKey' = [queuedKey EXCEPT ![rerun[a]] = answerKey]
    /\ rerun' = [rerun EXCEPT ![a] = NoRow]
    /\ UNCHANGED <<minted, grades, answerKey, loops, queue, touched, trouble>>

\* The course-wide rerun: one statement, over the rows not on the queue.
CourseRerun ==
    LET settled == {i \in Submissions : rows[i].status \in Settled}
    IN  /\ settled # {}
        /\ rows' = [i \in Submissions |-> IF i \in settled THEN RerunRow(rows[i]) ELSE rows[i]]
        /\ queuedKey' = [i \in Submissions |-> IF i \in settled THEN answerKey ELSE queuedKey[i]]
        /\ Trouble("rerun")
        /\ UNCHANGED <<minted, grades, answerKey, loops, queue, rerun, touched>>

\* Faculty upload a new answer key; the superseded one is kept.
ReplaceAnswerKey ==
    /\ answerKey' = answerKey + 1
    /\ Trouble("key")
    /\ UNCHANGED <<rows, minted, grades, loops, queue, rerun, queuedKey, touched>>

StaffGrade(s, g) ==
    /\ grades' = [grades EXCEPT ![s] = g]
    /\ touched' = touched \cup {s}
    /\ Trouble("grade")
    /\ UNCHANGED <<rows, minted, answerKey, loops, queue, rerun, queuedKey>>

\* A grade entered by hand is held against the autograder.
EnterGrade(s) == \E v \in 0 .. MaxPoints : StaffGrade(s, [value |-> v, manual |-> TRUE])

ClearGrade(s) == grades[s] # NoGrade /\ StaffGrade(s, NoGrade)

\* Hold a grade, or release it to the autograder.
ToggleHold(s) ==
    /\ grades[s] # NoGrade
    /\ StaffGrade(s, [grades[s] EXCEPT !.manual = ~ @])

----------------------------------------------------------------------------
(* The worker process.                                                     *)

\* ensureWorkers: spawn loops until there are n of them (more are left alone).
EnsureWorkers(n) ==
    \E spawned \in SUBSET (Loops \ Live) :
        /\ \/ Cardinality(Live) + Cardinality(spawned) = n
           \/ Cardinality(Live) >= n /\ spawned = {}
        /\ loops' = [w \in Loops |-> IF w \in spawned THEN IdleLoop ELSE loops[w]]

\* refreshQueueSettings.
RefreshQueueSettings ==
    /\ Live # {}
    /\ \E s \in Settings \ {queue} :
         /\ queue' = s
         /\ EnsureWorkers(s.maxConcurrent)
    /\ Trouble("settings")
    /\ UNCHANGED <<rows, minted, grades, answerKey, rerun, queuedKey, touched>>

\* A loop that is still at work on row i, with a claim that stands.
Worked(i) == \E w \in Loops : Owns(w) /\ loops[w].id = i

\* Mistake: rows with no attempt left are not worth taking back.
ReapWithinBudget(stuck) ==
    /\ stuck # {}
    /\ \A i \in stuck : rows[i].status = "PROCESSING" /\ rows[i].attempts < queue.maxAttempts
    /\ Live # {}
    /\ rows' = [i \in Submissions |-> IF i \in stuck THEN RequeuedRow(rows[i]) ELSE rows[i]]
    /\ IF \E i \in stuck : Worked(i) THEN Trouble("stall") ELSE UNCHANGED trouble
    /\ UNCHANGED <<minted, grades, answerKey, loops, queue, rerun, queuedKey, touched>>

\* reapStuckSubmissions: the PROCESSING rows older than the evaluator's timeout
\* and the grace.  The jar is killed at the timeout, so a row that a loop is
\* still at work on gets that old only when something else stalls the loop.
Reap(stuck) ==
    /\ stuck # {}
    /\ \A i \in stuck : rows[i].status = "PROCESSING"
    /\ Live # {}
    /\ rows' = [i \in Submissions |-> IF i \in stuck THEN RequeuedRow(rows[i]) ELSE rows[i]]
    /\ IF \E i \in stuck : Worked(i) THEN Trouble("stall") ELSE UNCHANGED trouble
    /\ UNCHANGED <<minted, grades, answerKey, loops, queue, rerun, queuedKey, touched>>

\* SIGTERM, a redeploy, an out-of-memory kill: every loop is gone mid-step.
Crash ==
    /\ Live # {}
    /\ loops' = [w \in Loops |-> DeadLoop]
    /\ Trouble("crash")
    /\ UNCHANGED <<rows, minted, grades, answerKey, queue, rerun, queuedKey, touched>>

\* startSubmissionWorker: the built-in defaults, until the settings are read.
StartSubmissionWorker ==
    /\ Live = {}
    /\ queue' = DefaultSettings
    /\ EnsureWorkers(DefaultSettings.maxConcurrent)
    /\ UNCHANGED <<rows, minted, grades, answerKey, rerun, queuedKey, touched, trouble>>

----------------------------------------------------------------------------
Init ==
    /\ rows = [i \in Submissions |-> AbsentRow]
    /\ minted = [i \in Submissions |-> 0]
    /\ grades = [s \in Students |-> NoGrade]
    /\ answerKey = 1
    /\ loops = [w \in Loops |-> DeadLoop]
    /\ queue = DefaultSettings
    /\ rerun = [a \in Staff |-> NoRow]
    /\ queuedKey = [i \in Submissions |-> NoKey]
    /\ touched = {}
    /\ trouble = 0

Next ==
    \/ \E i \in Submissions : Submit(i)
    \/ \E w \in Loops : LoopStep(w) \/ LoopFault(w)
    \/ \E a \in Staff : RerunWrites(a) \/ \E i \in Submissions : RerunReads(a, i)
    \/ CourseRerun
    \/ ReplaceAnswerKey
    \/ \E s \in Students : EnterGrade(s) \/ ClearGrade(s) \/ ToggleHold(s)
    \/ RefreshQueueSettings
    \/ \E stuck \in SUBSET Submissions : Reap(stuck)
    \/ Crash
    \/ StartSubmissionWorker

Spec == Init /\ [][Next]_vars

----------------------------------------------------------------------------
(* Fairness.  A loop reschedules itself at the end of every pass, the       *)
(* reaper reschedules itself and meets every row that stays PROCESSING once *)
(* it is old enough, and the container is restarted (unless-stopped).       *)

Fairness ==
    /\ \A w \in Loops : WF_vars(LoopStep(w))
    /\ \A i \in Submissions :
         WF_vars(\E stuck \in SUBSET Submissions : i \in stuck /\ Reap(stuck))
    /\ WF_vars(StartSubmissionWorker)

FairSpec == Spec /\ Fairness

----------------------------------------------------------------------------
(* Type correctness.                                                       *)

Row == [status : OnQueue \cup Settled \cup {"ABSENT"}, attempts : Nat, token : Nat,
        correct : Verdicts, key : Nat]

Grade == [value : -1 .. MaxPoints, manual : BOOLEAN]

Loop == [pc : Pcs, busy : SUBSET Students, id : Submissions \cup {NoRow},
         attempts : Nat \cup {Unknown}, token : Nat, key : Nat,
         status : Settled, correct : Verdicts]

\* Every variable keeps its type, and a loop that has picked a submission
\* names one.
TypeOK ==
    /\ rows \in [Submissions -> Row]
    /\ minted \in [Submissions -> Nat]
    /\ grades \in [Students -> Grade]
    /\ answerKey \in Nat
    /\ loops \in [Loops -> Loop]
    /\ \A w \in Loops : loops[w].pc \in {"picked", "claimed", "evaluated", "catch"}
                          => loops[w].id \in Submissions
    /\ queue \in Settings \cup {DefaultSettings}
    /\ rerun \in [Staff -> Submissions \cup {NoRow}]
    /\ queuedKey \in [Submissions -> Nat]
    /\ touched \subseteq Students
    /\ trouble \in 0 .. MaxTrouble

----------------------------------------------------------------------------
(* Safety.                                                                 *)

\* A row carries a claim exactly while it is PROCESSING, and of all the loops
\* that ever claimed it (reaped, rerun and crashed ones included) at most one
\* holds that claim.  The fence of every write after the claim.
ClaimIsExclusive ==
    /\ \A i \in Submissions : rows[i].status = "PROCESSING" <=> rows[i].token # NoToken
    /\ \A v, w \in Loops :
         v # w /\ Owns(v) /\ Owns(w) => loops[v].id # loops[w].id

\* The result a row shows was measured against an answer key no older than the
\* one in force when the row was last asked to be graded: a worker that was
\* evaluating when staff replaced the key and reran the work never lands its
\* result, through any sequence of reaps, reruns, crashes and reclaims.
ResultIsAsNewAsItsRequest ==
    \A i \in Submissions :
        rows[i].status = "COMPLETED" => rows[i].key >= queuedKey[i]

\* The last submission of the stream that s belongs to, if there is one.
LatestOf(s) == {i \in Submissions : Present(i) /\ s \in Owners(i) /\ HoldsTheStandingGrade(i)}

\* Unless staff stepped in, once the latest submission of a student (or of the
\* group) has a verdict, every one of its owners has exactly the grade that
\* verdict earns: however the evaluations of the older ones end, and in
\* whatever order.  No verdict is recorded without its grade.
StandingGradeIsLatest ==
    \A s \in Students \ touched : \A i \in LatestOf(s) :
        YieldsAGrade(rows[i].status, rows[i].correct)
            => grades[s] = EarnedGrade(rows[i].correct)

\* How far a row can go past the attempt budget: the guard reads the attempts
\* before it claims, so each of the other loops may hold one read from before
\* the last allowed attempt.
AttemptsBounded ==
    \A i \in Submissions :
        rows[i].attempts < MaxAttemptsEver + Cardinality(Loops)

\* A step of the worker never changes a grade that is held.
HeldGradeSurvivesTheWorker ==
    [][rows' # rows =>
         \A s \in Students : grades[s].manual => grades'[s] = grades[s]]_vars

\* A submission that ends FAILED, whatever failed it, moves nobody's grade.
FailureMovesNoGrade ==
    [][(\E i \in Submissions : rows[i].status # "FAILED" /\ rows'[i].status = "FAILED")
         => grades' = grades]_vars

\* A result that has landed is only ever taken away by a rerun: no late retry,
\* no reaper and no second evaluation touches a settled row.
OnlyARerunUnsettles ==
    [][\A i \in Submissions :
         rows[i].status \in Settled /\ rows'[i] # rows[i]
           => rows'[i].status = "PENDING" /\ rows'[i].attempts = 0]_vars

\* What is left of "retry by returning to PENDING until we've burned through the
\* attempt budget" (submission-worker.ts:820): a catch that fails a row with
\* attempts left never managed to read the row.  Whatever else became of it
\* meanwhile (reaped, claimed again, rerun with a fresh budget), the attempts
\* the loop decides on are those of the row it fails.
OnlyAnUnreadRowFailsEarly ==
    [][\A w \in Loops, i \in Submissions :
         /\ loops[w].pc = "catch" /\ loops'[w].pc # "catch" /\ loops[w].id = i
         /\ rows[i].status # "FAILED" /\ rows'[i].status = "FAILED"
         => loops[w].attempts = Unknown \/ rows[i].attempts >= queue.maxAttempts]_vars

----------------------------------------------------------------------------
(* Why the claim is exclusive and the result fresh: the inductive           *)
(* invariants of the proofs.                                               *)

\* Tokens are minted in order and never twice, so two loops that hold a token of
\* the same row hold different ones, and the row shows at most one of them.
ClaimInv ==
    /\ \A i \in Submissions : rows[i].status = "PROCESSING" <=> rows[i].token # NoToken
    /\ \A i \in Submissions : rows[i].token <= minted[i]
    /\ \A w \in Loops : loops[w].token # NoToken =>
         /\ loops[w].pc \in {"claimed", "evaluated", "catch"}
         /\ loops[w].id \in Submissions
         /\ loops[w].token <= minted[loops[w].id]
    /\ \A v, w \in Loops :
         v # w /\ loops[v].token # NoToken /\ loops[v].id = loops[w].id
           => loops[v].token # loops[w].token

\* The loops that have picked i and read attempts within some budget: each may
\* still claim it once on that reading.
Pickers(i) == {w \in Loops : /\ loops[w].pc = "picked"
                             /\ loops[w].id = i
                             /\ loops[w].attempts < MaxAttemptsEver}

\* A claim spends an attempt and a picker; a pick adds one only below the budget.
AttemptsInv ==
    \A i \in Submissions :
        rows[i].attempts + Cardinality(Pickers(i)) < MaxAttemptsEver + Cardinality(Loops)

\* An evaluation whose claim still stands used a key no older than the request:
\* a rerun moves queuedKey and takes the claim away in the same statement.
KeyInv ==
    /\ \A i \in Submissions : queuedKey[i] <= answerKey
    /\ \A w \in Loops :
         loops[w].pc = "evaluated" /\ Owns(w) /\ loops[w].status = "COMPLETED"
           => loops[w].key >= queuedKey[loops[w].id]
    /\ ResultIsAsNewAsItsRequest

----------------------------------------------------------------------------
(* What the queue promises: GradingBoard, seen through the table alone.    *)

Board == INSTANCE GradingBoard WITH
    status <- [i \in Submissions |-> rows[i].status],
    correct <- [i \in Submissions |-> rows[i].correct],
    key <- [i \in Submissions |-> rows[i].key]

\* Every behaviour of the workers, the reaper and the staff is one of the board:
\* verdict and grades appear together, once per request, from a claim that still
\* stood; everything else a worker does is invisible or puts the work back.
ImplementsBoard == Board!Spec

----------------------------------------------------------------------------
(* Liveness.                                                               *)

\* Every submission on the queue is settled in the end.
EverySubmissionSettles ==
    \A i \in Submissions : rows[i].status \in OnQueue ~> rows[i].status \in Settled

----------------------------------------------------------------------------
(* What the comments of the code say of it.                                *)

\* submission-worker.ts:336 "one student cannot occupy multiple worker slots at
\* once".
OneSlotPerStudent ==
    \A i, j \in Submissions :
        i # j /\ rows[i].status = "PROCESSING" /\ rows[j].status = "PROCESSING"
            => Author[i] # Author[j]

\* submission-worker.ts:820 "retry by returning to PENDING until we've burned
\* through the attempt budget, then fail it for good".
FailsOnlyABurnedBudget ==
    [][\A w \in Loops, i \in Submissions :
         /\ loops[w].pc = "catch" /\ loops'[w].pc # "catch" /\ loops[w].id = i
         /\ rows[i].status # "FAILED" /\ rows'[i].status = "FAILED"
         => rows[i].attempts >= queue.maxAttempts]_vars

\* rerun/route.ts:80 "A submission already on the queue is not rerun."
QueuedIsNotRerun ==
    [][\A i \in Submissions :
         rows[i].status \in OnQueue => rows'[i].attempts >= rows[i].attempts]_vars

=============================================================================
