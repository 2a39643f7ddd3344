# AFCT in TLA+

AFCT is a course platform for automata and formal languages: students hand in
automata, grammars and expressions, a Java evaluator compares each with the
answer key of its problem, and the verdict becomes a grade that may travel on to
an LMS. This directory holds a formal model of the part of it where timing
matters, the TLC instances that check the model, and proofs of its main
properties for instances of any size. Paths below are relative to the
repository.

## Inventory

| Component | State | Operations | What is hard | Module |
|---|---|---|---|---|
| Submission worker (`src/lib/submission-worker.ts`, `src/worker.ts`) | `Submission` rows; in memory: `loopCount`, `desiredWorkers`, `maxAttempts` | a pass of a loop (trial, pick, claim, evaluate, persist), retry, reaper, settings refresh, start | loops interleave at every `await`; reads go stale; crash, slow loop, lost answer of a commit | `SubmissionQueue`, `Gradebook` |
| Reruns (`src/app/api/submissions/[id]/rerun`, `src/app/api/courses/[id]/submissions/rerun`) | `Submission` rows | reset one, reset a course | a read and a later write, racing loops and each other | `SubmissionQueue` |
| Grade writes (`src/lib/grade-writes.ts`, the `grade`, `manual`, `problem-grades`, `group-grade` and problem settings routes) | `AssignmentProblemGrade`, `AssignmentProblem.maxPoints`, `GroupSet.lockedAt` | enter, clear, hold, release, grade a student, all problems or a group, change the points | races with the worker and with each other; row locks taken in several orders; snapshots older than the locks | `SubmissionQueue`, `Gradebook` |
| Answer keys (`src/app/api/courses/[id]/problems/[pid]/route.ts`) | `Problem.fileName` and its hashes | upload, edit | a running evaluation uses the old key; an edit can overwrite a concurrent upload | `SubmissionQueue` |
| Submission intake (`src/lib/create-submission.ts`) | `Submission`, grants, group sets | create | cap, cooldown and group membership are decided while they change | `SubmissionQueue`, `Gradebook` |
| Evaluator trials (`src/lib/trial-runner.ts`) | `EvaluatorTrial` rows | claim, run, finish, reap | a ceiling counted before the claim | - |
| Grade passback (`src/lib/lti/score-queue.ts`, `score-sender.ts`, `grade-sync.ts`, `ags.ts`) | `LtiScoreQueue`, `LtiLineItem`, the LMS | queue, claim with a lease, post, mark sent or failed | a score replaced while it is being sent, a lost answer, duplicate posts | `ScoreQueue`, `GradePassback` |
| Mail queue and tokens (`src/lib/mail-queue.ts`, `mail-sender.ts`, `single-use-token.ts`, `password-reset.ts`) | `MailQueue`, `SingleUseToken` | queue, claim, mark, consume, revoke | marks are not fenced on the claim; two resets at once | `MailQueue` |
| Group sets (`src/lib/group-set-service.ts`) | memberships, `lockedAt` | edit, lock at first use | editing races the first submission or grade | `Gradebook` |
| Sign-in, sessions, LTI launch and roster | accounts, sessions, links | login, link, launch, apply a roster | lockout counters, linking races | - |
| Publishing (`src/lib/course-status-checks.ts`, the assignment route) | `Assignment.isPublished` | publish, unpublish | the guard counts what others insert | `Gradebook` |
| Similarity, deadlines, pages, viewer, deployment | - | - | little shared state | - |

The parts meet in the database. The web application and the worker are different
processes (`src/worker.ts` says why) that share nothing else: a submission
request inserts a PENDING row, the loops poll for it, staff routes rewrite the
same row or the grade it leads to, and a changed grade is queued for the LMS by
a third loop in the web process. So what a component must guarantee is nearly
always a statement about who may still write a row.

What makes each part correct:

* worker and reruns: one evaluation per claim; a result lands only for the
  request that asked for it; verdict and grade land together; the standing grade
  is that of the latest work; a failure gives no grade; work is never lost;
* grade writes: a hand grade survives the worker, no grade exceeds the points,
  no two routes deadlock;
* intake: cap and cooldown hold under concurrency; the work is filed under the
  group the student is in;
* passback: the LMS ends with the last grade queued; nothing older is recorded
  as delivered over it;
* mail and tokens: a token is spent once; a mail that was sent stays sent.

## Plan

| Module | What it is | State |
|---|---|---|
| `GradingBoard` | the grading queue with no worker in it (abstract) | done |
| `SubmissionQueue` | the worker, the reruns, keys and single hand grades; implements `GradingBoard` | done; safety and refinement proved |
| `GradeSheet` | what the requests on an assignment promise, with no locks and snapshots (abstract) | done |
| `Gradebook` | the transactions that meet on one assignment: their row locks, snapshots and decisions; implements `GradeSheet` | done; safety and refinement proved |
| `GradePassback` | what the score queue promises (abstract) | done |
| `ScoreQueue` | passes, sender, column and LMS; implements `GradePassback` | done; safety and refinement proved |
| `MailDesk` | what the mail and the links in it promise (abstract) | done |
| `MailQueue` | mail, single-use links and password resets; implements `MailDesk` | done; safety and refinement proved |
| `X_proofs`, `MC_X` | the theorems about module `X`; the TLC instances of it | done |
| `SubmissionBoard_proofs` | that `SubmissionQueue` implements `GradingBoard`, and the standing grade | done |
| `GradePoints_proofs`, `GradeSheet_proofs`, `GradeLocks_proofs` | when marks stay within the points; that `Gradebook` implements `GradeSheet`; which requests can wait for each other in a circle | done |

`SubmissionQueue` and `Gradebook` look at the worker's grade write from two sides:
the first has everything a submission row goes through and takes the transaction as
one step, the second opens the transaction up among the others that lock, read
and write the same grades. `ScoreQueue` starts where both end, with the sum of a
student's marks.

What is left would be, in this order: how many loops an attempt budget and a lost
answer can keep busy for one row (a bound on evaluations, not on attempts);
`persistEvaluation` of the first composed with the transactions of the second; the
evaluator trials on the loops of
`SubmissionQueue`; edits of a problem that overlap an answer-key upload; several
linked LMS courses.

Constants are parameters with named assumptions, every operation is one action,
and no module uses RECURSIVE, so that all of them can be proved about.

## SubmissionQueue

One problem of one assignment, autograded, worth `MaxPoints`; submissions `1..N`
in the order of `submittedAt`; students, some of them in a group.

| Variable | In the code |
|---|---|
| `rows` | the `Submission` table: `status`, `attempts`, `processingToken`, `correct`, `answerFileName` |
| `minted` | how many tokens a row was given: the n-th `randomUUID()` of a row is the number n |
| `grades` | `AssignmentProblemGrade`: `grade`, `gradedManually`; no row is `NoGrade` |
| `answerKey` | `Problem.fileName`: each upload stores a fresh name, numbered upwards |
| `loops` | one record per `runWorkerLoop` chain with what it read: `busyStudentIds`, `nextSubmission`, the token, `submission`, `evaluation` |
| `queue` | `desiredWorkers` and `maxAttempts` in memory |
| `rerun` | the row a rerun request has read and will reset |
| `queuedKey`, `touched` | history: the key when work was last asked for; whose grade staff changed |
| `trouble` | a bound of the model, below |

A loop moves through the program counters

    start --ReadBusy--> scan --PickNext--> picked --Claim--> claimed --Evaluate--> evaluated --Persist--> start
                                             |                  |                     |
                                       FailPoisonPill       LoadFails          PersistRollsBack, PersistAnswerLost
                                             v                  +------> catch <------+
                                           start                           |-- Recover --> start

with one step per `await` on the database, since every other actor may run
there. `persistEvaluation` is Serializable and ends with the grade write, so it
is one step that either commits, rolls back (`PersistRollsBack`) or commits
while the caller is told that it failed (`PersistAnswerLost`). The jar runs
inside `Evaluate`: the key it uses is the one `findUnique` named, so what counts
is the state at that read, and everything that happens while the jar runs
happens between `Evaluate` and `Persist`. `Recover` decides and writes in one step where
the code waits for a log entry in between; the limit it decided by may have changed
by then, on which none of the properties turns. `PassFails` is the loop's own catch,
which leaves the row as it is for the reaper.

`Reap` takes back any set of PROCESSING rows: age is not modelled, since a row
with nobody behind it gets old. A row whose loop is alive and still holds it gets
that old only if the loop stalls beyond the evaluator's timeout and 60 seconds
more; that is counted as trouble. `Crash` is SIGTERM or a kill: the loops go,
the table stays. `StartSubmissionWorker` starts from the built-in defaults and
`RefreshQueueSettings` reads the settings afterwards.

The other actors are the two reruns, `ReplaceAnswerKey`, and staff who enter,
clear, hold or release a grade. `Submit` inserts the row.

**Abstractions.** A verdict is `right`, `wrong` or `none`; the evaluator answers
anything in `Evaluations`. Feedback, raw output, timestamps and logs are left
out (the audit entries are written after the commit and no decision reads them).
All submissions belong to one assignment, so the nearest-deadline order is FIFO.

**Not modelled here.** The trial that a loop looks for before it looks at the
queue (it touches other rows); deletion of a submission while it is evaluated;
changes of `maxPoints`, of group membership and of `autograderEnabled`; the key a
FAILED evaluation names, or a COMPLETED one with no verdict on the stand-in for the
evaluator that development on Windows uses; several worker processes at once (the deployment has
one; more would be more loops, which the claim treats alike).

### Properties

| Property | Says |
|---|---|
| `ClaimIsExclusive` | a row has a token exactly while PROCESSING, and of all loops that ever claimed it at most one holds that token |
| `ResultIsAsNewAsItsRequest` | a COMPLETED row was measured against a key no older than the one in force when the work was last asked for |
| `StandingGradeIsLatest` | unless staff stepped in, a student's grade is what the latest submission of the student or the group earned, once that has a verdict |
| `AttemptsBounded` | how far stale reads can push a row past its attempt budget: one attempt per other loop |
| `HeldGradeSurvivesTheWorker` | no step that writes a submission changes a held grade |
| `OnlyARerunUnsettles` | a settled row changes only by a rerun |
| `OnlyAnUnreadRowFailsEarly` | work failed in a loop's catch with attempts left was never read by that loop (what is left of the promise that `queue_budget` violates) |
| `FailureMovesNoGrade` | a submission that becomes FAILED moves nobody's grade |
| `ImplementsBoard` | every behaviour is one of `GradingBoard` |
| `EverySubmissionSettles` | everything on the queue is settled in the end |

`GradingBoard` is the queue with no worker in it: submissions wait, are worked
on, are put back, given up or settled, and settling writes verdict and grades in
one step. It has no loop, token, attempt or fault. That `SubmissionQueue`
implements it (`Board`, with the row's columns for its variables) says that
nothing a worker does shows in the table but those steps, in particular that a
verdict and its grades are never seen apart.

### Runs

| Run | Shows |
|---|---|
| `queue_safety` | two loops, two submissions by the two members of a group, three troubles out of fault, stall, crash, rerun, key and hand grade: about a million states, complete |
| `queue_promise` | two submissions of one student, evaluations that are right, without verdict, or FAILED with `correct: false`, two troubles, settings that halve loops and attempts under way: refinement and liveness |
| `queue_slots` | **violated**: one student in two slots, with no trouble at all |
| `queue_budget` | **violated**: one failed read fails the work for good |
| `queue_rerun` | **violated**: a queued submission is rerun |

Two loops and two submissions are enough for every race that needs two actors on
one row and for every order of an older and a newer submission; a third actor on
the row is the reaper, a rerun or a crash. `MaxTrouble` counts the events nobody
needs (faults, stalls, crashes, reruns, new keys, hand grades, new settings) and
so bounds the state space: the longest scenario the code comments describe, claim,
reap or rerun, claim again, late answer of the first, needs two. Budgets are one
or two attempts so that they run out within the bound. Loop names are
interchangeable, hence the symmetry in the safety run; the liveness run has none.
Deadlock is checked in every run.

**Fairness** (`FairSpec`), for liveness only: a loop always schedules its next
pass, in every branch and in its catch (`runWorkerLoop`), so each is weakly fair;
the reaper reschedules itself in a `finally` every minute, so a row that stays
PROCESSING is taken back; the container is `restart: unless-stopped`
(`deploy/docker-compose.yml`), so a dead worker starts again. Nothing is assumed
of students, staff, faults or crashes.

### What the violated runs show

* **One student, two slots.** The comment at `submission-worker.ts:336` says that a
  student with work in flight is skipped so that they cannot hold several slots.
  The students in flight are read, then the next row, then the row is claimed with
  PENDING as its only guard; two loops that read together both claim. No result is
  lost by it (`StandingGradeIsLatest` holds), the fairness between students is.
* **A blip fails the work.** `giveUp` is `(submission?.attempts ?? maxAttempts) >=
  maxAttempts`: when the read that fills `submission` is what throws, the fallback
  makes it true, and the row is FAILED on its first attempt, where the comment
  above it promises retries until the budget is gone.
* **A queued row is rerun.** The refusal in the single rerun is decided on a read
  several queries before an update by id. A course-wide rerun and a claim fit in
  between; the claim is then taken away and the budget refilled. The fence keeps
  the results right; what is lost is the refusal, and one evaluation.

## Gradebook

One assignment of a group set with problems `1..P`, and the requests that race on
it, each served once. `SubmissionQueue` takes a grade write as one step; here each
is a transaction that takes row locks one by one and decides on what it has read.

| Variable | In the code |
|---|---|
| `points`, `grades`, `filed` | `AssignmentProblem.maxPoints`, `AssignmentProblemGrade`, `Submission` |
| `member`, `locked` | `GroupMembership`, and whether `GroupSet.lockedAt` is set |
| `published` | `Assignment.isPublished` |
| `setLock`, `problemLock` | who holds the row of the group set, and of each problem |
| `req` | one record per request: what was asked for, what was read before the transaction (`worth`), the snapshot (`saw`), how far it is |

A request goes through

    new --Arrive*--> begin --Begin--> set --LockSet--> problem --LockProblem*--> check --Check--> commit --Commit*--> done
                   (Serializable)  (takes the set)   (each row it wants)

and leaves out what its route leaves out; `FirstStep`, `TakesTheSetFirst`,
`TakesNoProblem` and `Wanted` say which rows it takes and in which order.
`RollsBack` may happen at any time: a refusal, a serialization failure, a broken
deadlock, the transaction's timeout.

| `kind` | Route |
|---|---|
| `single`, `batch` | a mark for one student on one problem, on all problems; READ COMMITTED; they stamp the group set last |
| `group` | a mark for every member of a group; Serializable; refused where members' marks differ, unless told to overwrite |
| `settings` | new points of a problem; looks at the marks only when it lowers them |
| `memberships` | a student moves to another group; refused once the set is locked |
| `submit` | `createSubmission`; Serializable; cap, and the group the work is filed under |
| `unpublish` | refused once there is work or a mark; holds every problem's row |
| `autograde` | the grade write of `persistEvaluation`; Serializable |
| `clear` | a mark is taken back, one statement with no lock |

What a transaction writes shows when it commits, so its writes are one step. At
READ COMMITTED a statement sees what is committed when it runs. A Serializable
transaction sees its snapshot, taken when its first statement *starts*, so before
that statement waits for a lock; it is refused when it locks or writes a row
written since (`RowsAsSeen`, `MayAutograde`, `SetAsSeen`, the guard of
`LockProblem`), and two that each counted what the other inserts do not both
commit (`CountAsSeen`). These are PostgreSQL's rules and the only external part.
The check of a request and its locks are one read apart in the code and one step
here where nothing it reads can move while the rows are held; the two reads of a
batch before its transaction are one step as well.

**Abstractions.** A mark and a problem's points are small numbers; feedback and
audit entries are left out. `FOR UPDATE` and `FOR NO KEY UPDATE` exclude each other
alike between these requests. **Left out:** the cooldown, the window and the files
of a submission; deletion of a problem, a group or an assignment; the row of
`Assignment` that an unpublish locks first and updates, which no other request here
writes.

| Property | Says |
|---|---|
| `GradesWithinPoints` | no mark is above what its problem is worth |
| `CapHolds` | members who hand in at the same moment do not get past the cap |
| `GroupsFreezeOnceUsed` | with work or a hand mark in the set, nobody changes group |
| `NoUnseenMarkIsFlattened` | a group grade changes no mark it was not shown |
| `HandMarksSurviveTheWorker` | a mark entered while the worker is at its transaction is still there after it |
| `OnlyIdleWorkIsUnpublished` | what the unpublish counted is still so when it commits |
| `OnlyAStampOrAScanMeets` | requests that wait for each other in a circle have among them a grader who stamps the set late, or an unpublish, which takes the problems in the order of the scan |
| `ImplementsSheet` | every behaviour is one of `GradeSheet` |

`GradeSheet` is the assignment with no transaction in it: a request does what it
does at once and decides on what is there at that moment. `Gradebook` implements it
by its tables alone (`Sheet`; locks, snapshots and requests are not seen), each
commit being one step: marks are within the points the sheet has when they are
written, a group grade meets no differing mark, new points have no mark above them,
nobody moves in a locked set, an unpublish finds no work. It says where a
decision on an old snapshot or an early read is as good as one on the sheet, and
where it is not, it promises less: while the set is not locked yet, work is filed
for a group the submitter may have just left and a group is graded that may have
changed; work may be filed in an assignment unpublished a moment ago; and the
worker grades those of the owners it saw without a hand mark, which leaves out none
who has no grade.

| Run | Shows |
|---|---|
| `gradebook_safety` | one staff change (points, groups, unpublish, clear) among two requests that grade, hand in or autograde: the six properties of the tables, in every order of locks, snapshots and commits, and the two below them |
| `gradebook_locks` | **violated**: one student is graded while the group is |
| `gradebook_points` | **violated**: two changes of the points and one mark |
| `gradebook_snapshot` | **violated**: a submission while staff move students or unpublish |

Three requests suffice for a pair that races and a third that decides on what the
pair left; one change among them, because two changes of the points break
`GradesWithinPoints` (the run `gradebook_points` has them). Marks and points come
from `{1, 2}`, so that a mark can be above the points; the cap is 1, so that the
second submission is over it; both students start in one group. There is one
problem in the instances, and `AsksFor` matters only with more; the proofs have
any number. The two requests that may be of the same kinds are interchangeable,
hence the symmetry. A behaviour ends when every request was served, so deadlock
is not checked; what a deadlock would be here, requests that wait for each other,
is `NobodyMeetsInTheMiddle`.

What the violated runs show:

* **They meet in the middle.** `grade-writes.ts:43` states the lock order and that
  every path keeps to it. Grading one student, and the batch, take the problem's
  row and stamp the group set afterwards (`lockGroupSetIfUsed`); while the set is
  not yet locked, that stamp waits for a group grade or a submission that holds
  the set and waits for the problem. The database fails one of the two.
* **A mark above the points.** Whether an edit lowers the points is decided against
  the points read before the transaction. Raise 1 to 2, enter a 2, and an edit to
  1 that had read 1 sees no lowering and does not look at the marks.
* **A snapshot older than the locks.** The comment in `create-submission.ts:620` says
  that nothing read can move before the insert, because the locks come first. The
  snapshot comes before both: a submission that waited for the lock files work in
  an assignment unpublished meanwhile, or for a group the student has left.

## ScoreQueue

The grades of one linked assignment on their way to the LMS.

| Variable | In the code |
|---|---|
| `total`, `maximum` | the sum of a student's marks, the sum of the points |
| `rows` | `LtiScoreQueue`: state, score, attempts, claim token, whether `nextAttemptAt` has come |
| `passes` | the runs of `queueChangedGrades`, the sender's own (`auto`) and the button's, with what each has read |
| `sender` | the one loop of `score-sender.ts`, with the row it found, claimed and read back |
| `remembered` | `LtiLineItem`: the column and the maximum it is thought to have |
| `columns`, `shown`, `late` | the LMS: the columns asked of it and whether each was made in time, late or not yet, the score it shows, a score it has yet to take in |

A pass reads the points, the marks and the rows in three statements and writes a
row at a time (`PassReadsTotals`, `PassReadsRows`, `PassQueues`). The sender claims
(`FindNext`, `Claim` or `ClaimMisses`, `ReadClaimed`), gets the column
(`ColumnIsKnown`, `CorrectColumn`, `FindColumn`, or `FindNone` and then, with a request
of its own, `CreateColumn`), posts, and records (`MarkSent`, `MarkFailed`, both fenced
on the claim's token by `ClaimStands`). Every request to the LMS may be refused or be
done with the answer lost; a score or a new column may also come after its sender
has given up on it (`LmsTrouble`, `LateScoreArrives`, `LateColumnArrives`), which for a
column may be between the lookup and the creation of another send. A send or a pass may
throw, and the process may stop at any point (`SendThrows`, `PassThrows`, `Crash`);
the row then stays claimed until its lease ends (`ComesDue`). `Regrade` and
`Reweigh` stand for every route of `Gradebook`, as a pass sees them.

**Abstractions.** Time is the flag `due`: a lease or a backoff ends some time, also
while the sender is still at the row. The label that says whether marking is
complete is part of the score. The LMS ignores a score with an older timestamp
than the one it has, as the AGS specification asks of it. A token is any that
nobody holds. **Left out:** several linked LMS courses, the student's identity in
the LMS (its absence is one of the failures before the column), the limit on
sends in a round, the correction of a column that is carried out late (it matters to
`ColumnIsWorthTheScore` alone, which is violated without it, and the theorem about it
assumes that corrections are answered), a second sender (`score-queue.ts:119` says
there is one per process and one process). A crash while a request is under way is
the loss of its answer followed by the crash.

`GradePassback` is the queue with no sender in it: a score is asked for, the LMS is
shown scores, and one is called delivered only while it is the one shown; from
then on nothing else is shown until another is asked for. `ScoreQueue` implements
it, with the score and the state of a row for `asked` and `state`.

| Property | Says |
|---|---|
| `SentIsAtTheLms` | a row that reads SENT is what the LMS shows |
| `OnlyALateCreationDoubles` | at most one column was made while its sender waited; any other came late |
| `AttemptsWithinBudget` | a score passes its budget only by the sends that threw or died |
| `ImplementsPassback` | every behaviour is one of `GradePassback` |
| `CurrentGradeArrives` | with automatic sync the grade as it stands in the end is on the row, delivered or given up |

| Run | Shows |
|---|---|
| `passback` | two students who share the column; up to three of a change, a press of the button, two failures of the LMS and a loss while one student has a grade, up to two once both have: all of the above |
| `passback_column` | **violated**: a column whose creation went unanswered, and new points |

Students share the column and the sender, so two of them are in the run: one whose
column is under way and one whose send follows at once. The races of two passes and
a sender are on one row. The bounds count the events nobody needs (changes, presses,
failures, losses) and hold back nothing else (`MCNext`): three of them are a score
that is late, a newer one and the button, or a budget that is used up and a lease
with nobody behind it; two suffice for a second column, of which one is late, and a
failure beside it. The maxima differ in nothing, so the run begins with the first.
Two
tokens suffice, for the row's and the one an earlier claim still holds.
`MAX_ATTEMPTS` is 2, so that the budget runs out within the bounds. Deadlock is
checked: the sender never rests.

**Fairness** (`FairSpec`): the sender schedules its next round in every branch
(`loop` in `score-sender.ts`) and is started again with the process; its own pass
goes on; leases and backoffs end. Nothing is assumed of the button, the gradebook
or the LMS, whose troubles are bounded.

The violated run: a column found by lookup is remembered with the maximum of the
score at hand and never corrected (`ags.ts:333`). If the column was made by a
request whose answer was lost, and the points have changed since, every score is
posted against the old maximum, which `ags.ts:316` says must not happen.

**A second column.** The lookup before the creation does not rule it out. When a
creation is not carried out before the timeout, the backoff holds up that row alone
(`score-queue.ts:248`); `drain` goes on with the next student's row of the assignment
(`score-sender.ts:188`), whose lookup finds nothing (`ags.ts:331`) and which creates
again. If the first request lands after all, at any time after that lookup, there are
two columns. `ags.ts:149` says that the lookup "is what stops a second column appearing
when AFCT has forgotten the first"; it does so for a column that is listed by then,
which is what `OnlyALateCreationDoubles` says. Scores go to the column that was
remembered, so the other stays empty.

## MailQueue

The mail to one person, the single-use links some of it carries, and the password
resets made with them.

| Variable | In the code |
|---|---|
| `mails`, `sender` | `MailQueue` rows (state, attempts, due, whether the body is there) and the one loop of `mail-sender.ts` |
| `links` | `SingleUseToken`: the link mail `k` carries, `usedAt`, expired |
| `active` | `User.inactive` is false |
| `delivered` | the mails the mail server has taken |
| `resets`, `linkLock`, `userLock` | requests that complete a reset, and the rows their transactions hold |

The sender claims a row, looks whether its link still works (`CheckLink`), sends, and
records (`MarkMailSent`, `MarkMailFailed`, `AbandonMail`), by the row's id and with no
token: what keeps a settled row settled is that there is one sender and that only
PENDING rows are claimed. A send may fail with or without the mail having been
taken, and the sender may die between any two steps (`SenderDies`).

`completePasswordReset` is one READ COMMITTED transaction: spend the link
(`Consume`), read the account, write the password, and withdraw every other link
(`LooksForTheRest`, `RevokeTheRest`), each an update that waits for rows another
reset holds. If the account is disabled it returns instead of throwing, which
commits the spending of the link alone (`SpendsTheLinkAlone`).

**Abstractions.** One account: rows of different people are never touched by one
transaction. An expired link that is purged behaves like an expired one. Wording,
encryption and the throttle of the request are left out. A request for a reset reads
the account just before the transaction that issues the link, in one step here, and
`RevokeTheRest` takes its rows together, where the update takes them one by one: that
two of them deadlock on the way is one reason for `RollsBack`. Disabling an account
withdraws no links here because the route does not do so, although
`single-use-token.ts:119` names it; what stops such a link is the check in the reset.

| Property | Says |
|---|---|
| `EachLinkResetsOnce` | no two resets succeed with one link |
| `AnOlderLinkIsDead` | a reset that succeeds was not made with a link that an earlier success withdrew |
| `BodyWhileWaiting` | a mail has its body exactly while it waits |
| `SettledMailIsNotClaimed` | a mail that was sent or given up changes only by being purged |
| `ImplementsDesk` | every behaviour is one of `MailDesk` |
| `EveryMailSettles` | every queued mail is sent or given up in the end |

`MailDesk` has no lease, row lock or half a transaction. A mail waits, is taken by the
mail server while it waits, once or more often, and is called sent only then; a link
comes with its mail and reaches people with it; a reset looks round for unspent
links, and succeeds only while its own is one of them and still unspent, which
spends, at that moment, all it found. `MailQueue` is seen through `mails[k].state`,
`LinkSeen` and `StageSeen`. It promises less where the code does: a mail may be given
up although the server has it (a lost answer), a link issued after a reset looked
round lives on, a reset that finds the account disabled spends its link for
nothing. Expiry and the account are not seen, since a reset judges them when it
takes its link and not when it commits.

The run `mail` has two mails, two resets and two faults (failures, deaths, an expiry,
an account disabled or enabled, all counted by `MaxFaults`): two resets with two
links is the race the comments describe, two with one link the other. Mails end
and resets are made once, so behaviours end and deadlock is not checked.
**Fairness**: the sender's loop goes on in every branch and comes back with the
process; leases and backoffs end.

## Proofs

Each `X_proofs` module proves its theorems for every value of the constants that
meets the assumptions named in `X`: any number of submissions, students, loops,
requests, mails and resets, any bound on trouble.

**`SubmissionQueue_proofs`**

* `TypeCorrect`: `Spec => []TypeOK`.
* `ClaimExclusive`: `Spec => []ClaimIsExclusive`. The property is not inductive: it
  says nothing of the tokens of loops that lost their claim, one of which could
  return. `ClaimInv` adds that tokens are minted in order (`rows[i].token` and
  every loop's token are at most `minted[i]`), that only loops past their claim
  carry one, and that two loops on one row carry different ones. Every step either
  releases claims (`ReleasingKeepsClaims`) or makes one with a token nobody has
  (`ClaimingKeepsClaims`); each action is shown to be of one kind.
* `ResultFresh`: `Spec => []ResultIsAsNewAsItsRequest`, by `KeyInv`: an evaluation
  whose claim still stands used a key no older than the request. It rests on
  `ClaimInv`: a claim made while an old evaluation is in hand gives the row a
  token that evaluation does not have, and a rerun moves `queuedKey` and clears
  the token in one statement.
* `BudgetHolds`: `Spec => []AttemptsBounded`. How far a row is past its budget says
  nothing of the loops that may still claim it on an old reading, so `AttemptsInv`
  counts them: the attempts of a row and its `Pickers` (loops that picked it below
  the budget) stay together below the budget and the number of loops. A claim
  turns a picker into an attempt, a pick adds a picker only below the budget, and
  a rerun starts at 0.
* `RerunsAloneUnsettle`, `HeldGradesSurvive`, `FailuresMoveNoGrade`: the action
  properties `OnlyARerunUnsettles`, `HeldGradeSurvivesTheWorker` and
  `FailureMovesNoGrade`. The first rests on `ClaimInv`: what a loop writes after its
  claim is fenced on the token, and a settled row has none. The other two on
  `GradeStep`: the only step that writes a row and a grade is a commit of
  `persistEvaluation` with a COMPLETED evaluation, on the loop's own row.

* `EarlyFailuresAreUnread`: `Spec => OnlyAnUnreadRowFailsEarly`, by `ReadInv`: while the
  claim of a loop stands, the attempts it read are those of the row, because a row
  changes only by losing its claim or by a claim nobody ever held
  (`RowIsReleasedOrClaimed`, from `ClaimInv`).
* `OneSlotUnlessTwoLook`: `Spec /\ []OneLooksAtATime => []OneSlotPerStudent`. Alone the
  property is false (run `queue_slots`); `OneLooksAtATime` says that no two loops are
  between their read of the busy students and their claim, which is so with a
  single loop (`OneLoopOneSlot`). `LookInv` keeps what the loop that looks has read: all who are busy
  are in its list, and whom it picked is not busy. So nothing else (reaper, reruns,
  lost answers) ever puts a student in two slots.

The assumptions are those named in the module: the bounds are naturals, the
roster maps submissions to students and students to groups, evaluations and
settings have their types, `Loops` is finite, and the settings never ask for more
loops than `Loops` has names nor for more than `MaxAttemptsEver` attempts (the
clamp of `src/lib/system-settings.ts`).

**`SubmissionBoard_proofs`**, from the same assumptions

* `BoardImplemented`: `Spec => ImplementsBoard`, each step of the system being a step
  of the board or one it does not see. It takes `ClaimInv` (a commit under a claim
  meets a PROCESSING row), `KeyInv` (its key is one of the request or later) and
  `BoardInv`: a row that was never submitted is blank, a rerun in hand is of a row
  that is there, and an evaluation in hand is one the evaluator gave with a key
  that was in force.
* `StandingGradeHolds`: `Spec => []StandingGradeIsLatest`, from the steps of the board
  alone. The invariant is `Standing`, which adds that a student whom staff left
  alone has no held grade. A verdict of the latest submission comes with its
  grade; the verdict of any other reaches none of its owners, because a student
  has one stream and the stream one latest (`OneLatest`); and no other step makes a
  row show a verdict.

**`Gradebook_proofs`**

The invariant is `Inv`: the type; `HeldInv` (a request past a lock holds that row
until it commits or rolls back); `UsedIsLocked` (with work or a hand mark the set
is locked); `DecidedAsSeen` (what a Serializable request checked holds of its
snapshot) and `DecidedUnderLocks` (what an edit of the groups or an unpublish
checked holds *now*). The last is what the locks are for: it survives another
request's commit only because everything that could break it takes a row the
first one holds, and `HeldInv` says that it does.

* `TypeCorrect`: `TypeOK`. It needs that a request which has reached its snapshot
  has one, so the type carries how far each request is.
* `GroupsStayFrozen`, `IdleWorkIsUnpublished`: from `DecidedUnderLocks`.
* `UnseenMarksStay`: a mark that was not there in the snapshot refuses the write, and
  one that was there agrees with the mark to enter, by `DecidedAsSeen`.
* `HandMarksSurvive`: what the worker writes, it saw without a hand mark and
  unchanged since.
* `CapIsKept`: the count in a scope grows only by a submission whose snapshot had the
  same scope below the cap.

**`GradePoints_proofs`**

`GradesWithinPoints` is false with two overlapping changes of the points (run
`gradebook_points`). What is proved is that nothing else breaks it:

* `OnlyAMissedRaiseBreaksTheRange`: `Spec /\ []NoRaiseIsMissed => []GradesWithinPoints`,
  where `NoRaiseIsMissed` says that a change of the points, when it decides, finds
  the problem worth no more than it read before its transaction. `PointsInv` adds
  what each request decided under the problem's row (marks in range, or all marks
  within the new points) until its commit, and that the worker, past its locks, has
  the problem's points in its snapshot as they are (`SawItsPoints`). So no grader, group grade or worker has
  to be kept apart from a change of the points.
* `OneChangeAtATimeKeepsTheRange`: the same from `OneChangeAtATime`, which speaks of the
  requests and not of what they read: no two changes of points run at once, and
  then none misses a raise.
* `OneWhoChangesThePoints`: the same where the menus let only one request change the
  points, which is the instance `gradebook_safety` checks.

**`GradeSheet_proofs`**

* `SheetImplemented`, `SheetImplementedOneAtATime`: `Spec => ImplementsSheet` under the
  same two conditions, without which it is false for the same reason. `SheetInv`
  carries, up to the commit, what makes a decision on a snapshot one on the sheet:
  a Serializable request that holds the set saw it as it is (`SetAsSeen`), so once
  the set is locked the group it saw is the group (`SeesTheGroups`, `SeesTheLock`); the
  worker grades work that is there, of a locked set; who filed is done (`FiledOnce`).
  Each `Commit*` is then shown
  to be its action of the sheet, and every other step to leave the sheet alone.

**`GradeLocks_proofs`**

* `LockOrder`: `Spec => []OnlyAStampOrAScanMeets`. `OrderInv` says what a request may
  hold where it is: the set only if it takes it first, problems only that it wants
  and none before it asks, a batch the first of those it wants. In a circle with no
  late stamp and no unpublish somebody waits for a problem, since who holds the set
  waits for problems; of the problems waited for there is a last one
  (`LastProblem`), whose holder waits for a later one.
* `InAUsedSetNobodyMeets`: once the set is locked for good and while nobody unpublishes,
  `NobodyMeetsInTheMiddle` holds as `grade-writes.ts` states it. The run
  `gradebook_locks` shows that it fails before.

The assumptions: the requests have names and menus, the students are finitely
many, marks and points are naturals and everybody starts in a group or in none.

**`ScoreQueue_proofs`**

* `TypeCorrect`: by `TypeInv`, which says what the sender has in hand where it is.
* `OnlyALateCreationMakesASecond`: by `MadeInv`: while a column is asked for, none was made
  in time, because the lookup found none listed (`OnlyFindNoneAsks`) and a column that
  arrives since then is late.
* `SentIsDelivered`: by `Delivery`. While the claim of a send stands, the row still
  asks for the score being sent (`SendsWhatIsQueued`); after an accepted post the
  LMS shows that score and has nothing older to come (`AcceptedIsShown`); a row
  that reads SENT is shown and nothing is late (`SentIsLast`). Taking the claim away
  in `PassQueues`, and a post carrying the time it was made, are what keep it.
* `PassbackImplemented`: each step of `ScoreQueue` is a step of `GradePassback` or
  leaves its variables alone, given `Delivery`.
* `BudgetHolds`: a row that may be claimed has an attempt left, counting the claims
  that ended with nothing recorded (`HasAnAttemptLeft`), which takes knowing the
  attempts the sender goes by (`KnowsTheAttempt`) and that a pass of its own is over
  before it goes on (`SyncsFirst`).

* `HeardColumnIsWorthTheScore`:
  `Spec /\ [][HeardOfTheColumn]_vars => []ColumnIsWorthTheScore`, where `HeardOfTheColumn`
  rules out a lost answer to the creation or correction of the column and a creation
  that comes late, and nothing else. Without it the property is false (run `passback_column`). `ColumnInv` says
  that what is remembered of the column is what the LMS has.

The assumptions: names are distinct, totals and maxima are naturals, `None` is not
one, the limits are naturals and `MAX_ATTEMPTS` is positive.

**`MailQueue_proofs`**

* `BodiesWait`, `SettledMailRests`: by `QueueInv`: the mail the sender has in hand is
  PENDING until the sender itself settles it, so a mark by id meets only that.
* `LinksResetOnce`, `OlderLinksAreDead`: by `ResetInv`: a reset past `Consume` holds the
  row of its link, which is unspent until it commits; the links it is about to
  withdraw are held or spent; and what a finished reset withdrew is spent. Two
  resets that each want the other's link cannot both get past `RevokeTheRest`.
* `TypeCorrect`: `TypeOK`, after both.
* `DeskImplemented`: `Spec => ImplementsDesk`. Two facts are added: the sender comes to
  mark a mail sent only after the server took it (`TakenBeforeSaid`), and a reset not
  yet opened has seen nothing. A commit is `Succeed` because `ResetInv` has its link
  unspent and among those found; taking rows shows nothing (`OnItsWayIsUnseen`).

The assumptions: names are distinct, `MAX_ATTEMPTS` is positive.

**Model-checked only**: liveness (`EverySubmissionSettles`, `CurrentGradeArrives`,
`EveryMailSettles`), which is out of the prover's reach, as is whether an action of
the sheet or the desk can be taken. Every invariant and action property of a passing
run is stated by a theorem; `GradesWithinPoints` and `ImplementsSheet`, and the
properties that a violated run refutes, by theorems with the condition under which
they hold. Of the other violated properties, `FailsOnlyABurnedBudget` has its true
part proved as `OnlyAnUnreadRowFailsEarly`, and `NothingReadMovesBeforeTheInsert` its
true part in `GradeSheet`, where the group is right once the set is locked;
`QueuedIsNotRerun` has none that is not the fence already proved.

## Not modelled

* **Pages, components, API types, seeds** (nine tenths of the source): rendering and
  client state, forms, and route handlers that read and show or update one row on
  its own; they share nothing with each other but the tables modelled above.
* **Evaluator trials**: they share the loops with grading and no data; the ceiling on
  them is counted before the claim and so only approximate.
* **Edits of a problem** that overlap an upload of its key; deletions of problems,
  groups, group sets and assignments.
* **Deadlines, windows, audiences, similarity**: pure functions of one request over
  dates or long texts, a matter of arithmetic, which the unit tests reach.
* **Sign-in, sessions, LTI launch, linking and roster**: single requests around a
  library's protocol and tokens; the roster is an upsert of a list kept elsewhere.
* **Several worker or web processes**: the deployment has one of each.
* **Deployment, backup, updates, TLS**: scripts around the program.
