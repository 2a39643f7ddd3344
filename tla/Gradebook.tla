------------------------------ MODULE Gradebook ------------------------------
(***************************************************************************)
(* One group assignment and the requests that race on it: staff who grade  *)
(* a student, all problems of a student or a whole group, who change the   *)
(* points of a problem, move students between groups and unpublish the     *)
(* assignment; students who hand in; and the worker writing a grade.       *)
(*                                                                         *)
(* Each of them is a database transaction, and what is modelled is what    *)
(* the code leaves to the database: the rows a transaction locks, in the   *)
(* order it asks for them, and the data it decides on.  At READ COMMITTED  *)
(* a statement sees what is committed when it runs.  A Serializable        *)
(* transaction sees its snapshot, taken when its first statement starts,   *)
(* which is before that statement waits for a lock; it is refused when it  *)
(* locks or writes a row that was written since.                           *)
(*                                                                         *)
(* What a transaction writes becomes visible when it commits, so its       *)
(* writes are one step.                                                    *)
(***************************************************************************)
EXTENDS Integers, FiniteSets

CONSTANTS
    Students,
    Groups,
    NoGroup,
    P,              \* the problems are 1..P, in the order of problemId
    Requests,
    Nobody,
    Menu,           \* Menu[r]: the kinds of request r may be
    Points,         \* what a problem may be worth
    Marks,          \* the marks staff enter
    Cap,            \* maxSubmissions with the grants; 0 is no limit
    Placement       \* Placement[s]: the group student s is in at first

Problems == 1 .. P

Kinds == {"single", "batch", "group", "settings", "memberships", "submit",
          "unpublish", "autograde", "clear"}

ASSUME RequestsAssumption ==
    /\ Nobody \notin Requests
    /\ Menu \in [Requests -> SUBSET Kinds]

ASSUME CourseAssumption ==
    /\ P \in Nat
    /\ NoGroup \notin Groups
    /\ Placement \in [Students -> Groups \cup {NoGroup}]
    /\ Points \subseteq Nat
    /\ Marks \subseteq Nat
    /\ Cap \in Nat
    /\ IsFiniteSet(Students)

----------------------------------------------------------------------------

NoGrade == [value |-> -1, manual |-> FALSE]
HandGrade(v) == [value |-> v, manual |-> TRUE]

\* What a grading request does with a problem, when it does not enter a mark.
Keep == -2
Clear == -1

VARIABLES
    points,         \* AssignmentProblem.maxPoints
    grades,         \* grades[s][p]: the AssignmentProblemGrade row
    member,         \* GroupMembership: the group of each student in the set
    locked,         \* GroupSet.lockedAt is not null
    published,      \* Assignment.isPublished
    filed,          \* the Submission rows
    setLock,        \* the request that holds the GroupSet row
    problemLock,    \* problemLock[p]: the one that holds the AssignmentProblem row
    req             \* the requests, with what each has read

vars == <<points, grades, member, locked, published, filed, setLock, problemLock, req>>

\* What a statement that starts now sees.
Now == [points |-> points, grades |-> grades, member |-> member, locked |-> locked,
        published |-> published, filed |-> filed]

----------------------------------------------------------------------------
(* The requests.                                                           *)

NewRequest == [kind |-> "none", pc |-> "new", student |-> Nobody, group |-> NoGroup,
               problem |-> 0, marks |-> [p \in Problems |-> Keep], overwrite |-> FALSE,
               worth |-> 0, right |-> FALSE, saw |-> Nobody]

Serializable == {"group", "submit", "autograde"}
TakesTheSetFirst == {"group", "submit", "memberships"}
TakesNoProblem == {"memberships"}

\* Mistake: the guard on unpublishing counts with nothing held.
FirstStepUnguarded(kind) ==
    IF kind = "unpublish" THEN "check"
    ELSE IF kind \in Serializable THEN "begin"
    ELSE IF kind \in TakesTheSetFirst THEN "set" ELSE "problem"

\* Where the transaction of a request starts.
FirstStep(kind) ==
    IF kind \in Serializable THEN "begin"
    ELSE IF kind \in TakesTheSetFirst THEN "set" ELSE "problem"

Running(r) == req[r].pc \notin {"new", "done"}

\* The AssignmentProblem rows a request locks.
Wanted(r) ==
    IF req[r].kind \in {"batch", "unpublish"} THEN Problems ELSE {req[r].problem}

Held(r) == {p \in Problems : problemLock[p] = r}

\* The rows it may ask for next: the batch orders them, an unpublish takes them
\* as the scan finds them.
AsksFor(r) ==
    LET rest == Wanted(r) \ Held(r)
    IN  IF req[r].kind = "batch" THEN {p \in rest : \A q \in rest : p <= q} ELSE rest

SetsAMark(r) == \E p \in Problems : req[r].marks[p] \in Nat

InRange(mark, ceiling) == mark \in Nat => mark <= ceiling

\* Mistake: the stamp does not take the row that an edit of the groups holds.
StampsAnyway(r) == FALSE

\* lockGroupSetIfUsed updates the row only where lockedAt is null, and then has
\* to wait for whoever holds it.
StampWaits(r) ==
    /\ req[r].kind \in {"single", "batch"}
    /\ SetsAMark(r)
    /\ ~locked
    /\ setLock \notin {Nobody, r}

Arrive(r, kind, request) ==
    /\ req[r].pc = "new"
    /\ kind \in Menu[r]
    /\ req' = [req EXCEPT ![r] = [request EXCEPT !.kind = kind, !.pc = FirstStep(kind)]]
    /\ UNCHANGED <<points, grades, member, locked, published, filed, setLock, problemLock>>

\* A mark for one student on one problem, in the range as it is now.
ArriveSingle(r, s, p, v) ==
    /\ InRange(v, points[p])
    /\ Arrive(r, "single", [NewRequest EXCEPT !.student = s, !.problem = p,
                                              !.marks = [NewRequest.marks EXCEPT ![p] = v]])

\* A new row of marks for one student; what is there already is left out.
ArriveBatch(r, s, marks) ==
    LET changes == [p \in Problems |-> IF marks[p] = grades[s][p].value THEN Keep ELSE marks[p]]
    IN  /\ \A p \in Problems : InRange(marks[p], points[p])
        /\ \E p \in Problems : changes[p] # Keep
        /\ Arrive(r, "batch", [NewRequest EXCEPT !.student = s, !.marks = changes])

ArriveGroup(r, g, p, v, overwrite) ==
    /\ InRange(v, points[p])
    /\ \E s \in Students : member[s] = g
    /\ Arrive(r, "group", [NewRequest EXCEPT !.group = g, !.problem = p, !.overwrite = overwrite,
                                             !.marks = [NewRequest.marks EXCEPT ![p] = v]])

\* New points; `worth` is what the link was worth before the transaction.
ArriveSettings(r, p, v) ==
    Arrive(r, "settings", [NewRequest EXCEPT !.problem = p, !.worth = points[p],
                                             !.marks = [NewRequest.marks EXCEPT ![p] = v]])

ArriveMemberships(r, s, g) ==
    Arrive(r, "memberships", [NewRequest EXCEPT !.student = s, !.group = g])

ArriveSubmit(r, s, p) ==
    /\ published
    /\ Arrive(r, "submit", [NewRequest EXCEPT !.student = s, !.problem = p])

ArriveUnpublish(r) == Arrive(r, "unpublish", NewRequest)

\* The worker comes to write the grade of work that was handed in.
ArriveAutograde(r, w, right) ==
    Arrive(r, "autograde", [NewRequest EXCEPT !.student = w.student, !.group = w.group,
                                              !.problem = w.problem, !.right = right])

\* Clearing one grade is one statement, with no lock.
ClearGrade(r, s, p) ==
    /\ req[r].pc = "new"
    /\ "clear" \in Menu[r]
    /\ grades' = [grades EXCEPT ![s][p] = NoGrade]
    /\ req' = [req EXCEPT ![r] = [NewRequest EXCEPT !.kind = "clear", !.pc = "done"]]
    /\ UNCHANGED <<points, member, locked, published, filed, setLock, problemLock>>

----------------------------------------------------------------------------
(* The rows it locks.                                                      *)

\* The first statement of a Serializable transaction fixes its snapshot.
Begin(r) ==
    /\ req[r].pc = "begin"
    /\ req' = [req EXCEPT ![r].saw = Now,
                          ![r].pc = IF req[r].kind \in TakesTheSetFirst THEN "set" ELSE "problem"]
    /\ UNCHANGED <<points, grades, member, locked, published, filed, setLock, problemLock>>

\* Mistake: READ COMMITTED, where the row that is locked is the latest.
SetAsItIs(r) == TRUE

\* A set that was locked for good since the snapshot refuses the transaction.
SetAsSeen(r) == req[r].kind \in Serializable => req[r].saw.locked = locked

\* SELECT ... FROM "GroupSet" ... FOR UPDATE
LockSet(r) ==
    /\ req[r].pc = "set"
    /\ setLock = Nobody
    /\ SetAsSeen(r)
    /\ setLock' = r
    /\ req' = [req EXCEPT ![r].pc = IF req[r].kind \in TakesNoProblem THEN "check" ELSE "problem"]
    /\ UNCHANGED <<points, grades, member, locked, published, filed, problemLock>>

\* Mistake: the worker comes for the set when it holds the problem.
LockProblemThenSet(r, p) ==
    /\ req[r].pc = "problem"
    /\ p \in AsksFor(r)
    /\ problemLock[p] = Nobody
    /\ problemLock' = [problemLock EXCEPT ![p] = r]
    /\ req' = [req EXCEPT ![r].pc = IF req[r].kind = "autograde" THEN "set" ELSE "check"]
    /\ UNCHANGED <<points, grades, member, locked, published, filed, setLock>>

\* SELECT ... FROM "AssignmentProblem" ... FOR UPDATE, or FOR NO KEY UPDATE:
\* between these requests the two exclude each other alike.
LockProblem(r, p) ==
    /\ req[r].pc = "problem"
    /\ p \in AsksFor(r)
    /\ problemLock[p] = Nobody
    /\ req[r].kind \in Serializable => req[r].saw.points[p] = points[p]
    /\ problemLock' = [problemLock EXCEPT ![p] = r]
    /\ req' = [req EXCEPT ![r].pc = IF Wanted(r) \subseteq Held(r) \cup {p} THEN "check" ELSE "problem"]
    /\ UNCHANGED <<points, grades, member, locked, published, filed, setLock>>

ReleaseLocks(r) ==
    /\ setLock' = IF setLock = r THEN Nobody ELSE setLock
    /\ problemLock' = [p \in Problems |-> IF problemLock[p] = r THEN Nobody ELSE problemLock[p]]
    /\ req' = [req EXCEPT ![r] = [NewRequest EXCEPT !.kind = req[r].kind, !.pc = "done"]]

\* A refusal, a serialization failure, a deadlock the database breaks, or the
\* timeout of the transaction: nothing was written.
RollsBack(r) ==
    /\ Running(r)
    /\ ReleaseLocks(r)
    /\ UNCHANGED <<points, grades, member, locked, published, filed>>

----------------------------------------------------------------------------
(* What it decides, with the rows held.                                    *)

MembersSeen(r) == {s \in Students : req[r].saw.member[s] = req[r].group}

\* The attempts that count against the cap: the group's, or the student's own.
CountScope(s, g, p, submissions) ==
    {w \in submissions : w.problem = p /\ IF g # NoGroup THEN w.group = g ELSE w.student = s}

GroupSeen(r) == req[r].saw.member[req[r].student]

\* Mistake: the range as it was when the request arrived is trusted.
MarksWereInRange(r) == TRUE

MarksInRange(r) == \A p \in Problems : InRange(req[r].marks[p], points[p])

\* The members whose mark differs are reported, unless the request overwrites.
NoConflict(r) ==
    LET p == req[r].problem
        v == req[r].marks[p]
    IN  \/ req[r].overwrite
        \/ \A s \in MembersSeen(r) : req[r].saw.grades[s][p].value \in {NoGrade.value, v}

\* Only points below what the link was worth look at the grades.
PointsFitTheGrades(r) ==
    LET p == req[r].problem
    IN  req[r].marks[p] < req[r].worth =>
            \A s \in Students : grades[s][p].value <= req[r].marks[p]

BelowTheCap(r) ==
    Cap > 0 => Cardinality(CountScope(req[r].student, GroupSeen(r), req[r].problem,
                                      req[r].saw.filed)) < Cap

NoWork == filed = {} /\ \A s \in Students, p \in Problems : grades[s][p] = NoGrade

Allowed(r) ==
    CASE req[r].kind \in {"single", "batch"} -> MarksInRange(r)
      [] req[r].kind = "group" -> MembersSeen(r) # {} /\ MarksInRange(r) /\ NoConflict(r)
      [] req[r].kind = "settings" -> PointsFitTheGrades(r)
      [] req[r].kind = "memberships" -> ~locked
      [] req[r].kind = "submit" -> req[r].saw.published /\ BelowTheCap(r)
      [] req[r].kind = "unpublish" -> NoWork
      [] OTHER -> TRUE

Check(r) ==
    /\ req[r].pc = "check"
    /\ Allowed(r)
    /\ req' = [req EXCEPT ![r].pc = "commit"]
    /\ UNCHANGED <<points, grades, member, locked, published, filed, setLock, problemLock>>

----------------------------------------------------------------------------
(* What it writes.                                                         *)

Commits(r, kinds) ==
    /\ req[r].pc = "commit"
    /\ req[r].kind \in kinds
    /\ ReleaseLocks(r)

\* Mistake: a null is stored like a mark.
MarkedAsSent(grade, mark) == IF mark = Keep THEN grade ELSE HandGrade(mark)

Marked(grade, mark) ==
    CASE mark = Keep -> grade
      [] mark = Clear -> NoGrade
      [] OTHER -> HandGrade(mark)

CommitMarks(r) ==
    /\ Commits(r, {"single", "batch"})
    /\ ~StampWaits(r)
    /\ grades' = [grades EXCEPT ![req[r].student] =
                    [p \in Problems |-> Marked(grades[req[r].student][p], req[r].marks[p])]]
    /\ locked' = (locked \/ SetsAMark(r))
    /\ UNCHANGED <<points, member, published, filed>>

\* Mistake: READ COMMITTED, which refuses nothing.
RowsAsTheyAre(r) == TRUE

\* A row of a member that was written since the snapshot refuses the write.
RowsAsSeen(r) ==
    \A s \in MembersSeen(r) : grades[s][req[r].problem] = req[r].saw.grades[s][req[r].problem]

CommitGroup(r) ==
    LET p == req[r].problem
    IN  /\ Commits(r, {"group"})
        /\ RowsAsSeen(r)
        /\ grades' = [s \in Students |->
                        IF s \in MembersSeen(r)
                        THEN [grades[s] EXCEPT ![p] = HandGrade(req[r].marks[p])] ELSE grades[s]]
        /\ locked' = TRUE
        /\ UNCHANGED <<points, member, published, filed>>

CommitSettings(r) ==
    /\ Commits(r, {"settings"})
    /\ points' = [points EXCEPT ![req[r].problem] = req[r].marks[req[r].problem]]
    /\ UNCHANGED <<grades, member, locked, published, filed>>

CommitMemberships(r) ==
    /\ Commits(r, {"memberships"})
    /\ member' = [member EXCEPT ![req[r].student] = req[r].group]
    /\ UNCHANGED <<points, grades, locked, published, filed>>

\* Mistake: READ COMMITTED, which counts and inserts.
CountAsItWas(r) == TRUE

\* Two Serializable transactions that each counted what the other inserts
\* cannot both commit; without a cap nothing is counted.
CountAsSeen(r) ==
    Cap > 0 =>
        LET scope(submissions) == CountScope(req[r].student, GroupSeen(r), req[r].problem, submissions)
        IN  scope(filed) = scope(req[r].saw.filed)

CommitSubmit(r) ==
    /\ Commits(r, {"submit"})
    /\ CountAsSeen(r)
    /\ filed' = filed \cup {[by |-> r, student |-> req[r].student, group |-> GroupSeen(r),
                             problem |-> req[r].problem]}
    /\ locked' = TRUE
    /\ UNCHANGED <<points, grades, member, published>>

CommitUnpublish(r) ==
    /\ Commits(r, {"unpublish"})
    /\ published' = FALSE
    /\ UNCHANGED <<points, grades, member, locked, filed>>

\* Everybody the grade is for: the members of the group, or the submitter.
Targets(r) == IF req[r].group # NoGroup THEN MembersSeen(r) ELSE {req[r].student}

Earned(r) == IF req[r].right THEN req[r].saw.points[req[r].problem] ELSE 0

\* Mistake: READ COMMITTED, with an upsert.
AutogradesAnyway(r, s) == TRUE

\* A row the update or the insert would touch that was written since refuses it.
MayAutograde(r, s) ==
    LET p == req[r].problem
        seen == req[r].saw.grades[s][p]
    IN  ~seen.manual => grades[s][p] = seen

\* updateMany where it was not set by hand, createMany where there is none.
Autograded(r, s) ==
    LET p == req[r].problem
    IN  IF req[r].saw.grades[s][p].manual /\ grades[s][p] # NoGrade
        THEN grades[s][p] ELSE [value |-> Earned(r), manual |-> FALSE]

CommitAutograde(r) ==
    /\ Commits(r, {"autograde"})
    /\ \A s \in Targets(r) : MayAutograde(r, s)
    /\ grades' = [s \in Students |->
                    IF s \in Targets(r)
                    THEN [grades[s] EXCEPT ![req[r].problem] = Autograded(r, s)] ELSE grades[s]]
    /\ UNCHANGED <<points, member, locked, published, filed>>

----------------------------------------------------------------------------

\* A new assignment, or one with a submission already, in a set that some
\* other assignment may have locked.
Init ==
    /\ points \in [Problems -> Points]
    /\ grades = [s \in Students |-> [p \in Problems |-> NoGrade]]
    /\ member = Placement
    /\ locked \in BOOLEAN
    /\ published = TRUE
    /\ filed \in {{}} \cup {{[by |-> Nobody, student |-> s, group |-> Placement[s], problem |-> p]} :
                            s \in Students, p \in Problems}
    /\ filed # {} => locked
    /\ setLock = Nobody
    /\ problemLock = [p \in Problems |-> Nobody]
    /\ req = [r \in Requests |-> NewRequest]

Arrives(r) ==
    \/ \E s \in Students, p \in Problems, v \in Marks : ArriveSingle(r, s, p, v)
    \/ \E s \in Students, marks \in [Problems -> Marks \cup {Keep, Clear}] : ArriveBatch(r, s, marks)
    \/ \E g \in Groups, p \in Problems, v \in Marks, overwrite \in BOOLEAN :
         ArriveGroup(r, g, p, v, overwrite)
    \/ \E p \in Problems, v \in Points : ArriveSettings(r, p, v)
    \/ \E s \in Students, g \in Groups \cup {NoGroup} : ArriveMemberships(r, s, g)
    \/ \E s \in Students, p \in Problems : ArriveSubmit(r, s, p)
    \/ ArriveUnpublish(r)
    \/ \E w \in filed, right \in BOOLEAN : ArriveAutograde(r, w, right)
    \/ \E s \in Students, p \in Problems : ClearGrade(r, s, p)

Step(r) ==
    \/ Begin(r)
    \/ LockSet(r)
    \/ \E p \in Problems : LockProblem(r, p)
    \/ Check(r)
    \/ CommitMarks(r)
    \/ CommitGroup(r)
    \/ CommitSettings(r)
    \/ CommitMemberships(r)
    \/ CommitSubmit(r)
    \/ CommitUnpublish(r)
    \/ CommitAutograde(r)

Next == \E r \in Requests : Arrives(r) \/ Step(r) \/ RollsBack(r)

Spec == Init /\ [][Next]_vars

----------------------------------------------------------------------------
(* Correctness.                                                            *)

Grade == {NoGrade} \cup [value : Points \cup Marks \cup {0}, manual : BOOLEAN]

Submission == [by : Requests \cup {Nobody}, student : Students, group : Groups \cup {NoGroup},
               problem : Problems]

Snapshot == [points : [Problems -> Points], grades : [Students -> [Problems -> Grade]],
             member : [Students -> Groups \cup {NoGroup}], locked : BOOLEAN,
             published : BOOLEAN, filed : SUBSET Submission]

RequestRecord ==
    [kind : Kinds \cup {"none"},
     pc : {"new", "begin", "set", "problem", "check", "commit", "done"},
     student : Students \cup {Nobody}, group : Groups \cup {NoGroup}, problem : Problems \cup {0},
     marks : [Problems -> {Keep, Clear} \cup Marks \cup Points], overwrite : BOOLEAN,
     worth : Points \cup {0}, right : BOOLEAN, saw : Snapshot \cup {Nobody}]

\* The type of the tables, the locks and the requests.
TypeOK ==
    /\ points \in [Problems -> Points]
    /\ grades \in [Students -> [Problems -> Grade]]
    /\ member \in [Students -> Groups \cup {NoGroup}]
    /\ locked \in BOOLEAN
    /\ published \in BOOLEAN
    /\ filed \subseteq Submission
    /\ setLock \in Requests \cup {Nobody}
    /\ problemLock \in [Problems -> Requests \cup {Nobody}]
    /\ req \in [Requests -> RequestRecord]

\* No mark is above what its problem is worth, however the graders, the worker
\* and a change of the points overlap: both sides hold the problem's row from
\* their check to their commit, and the worker's snapshot is refused when the
\* points moved (grade-writes.ts).  Two overlapping changes of the points break
\* it, see the run on them.
GradesWithinPoints ==
    \A s \in Students, p \in Problems : grades[s][p].value <= points[p]

Used == filed # {} \/ \E s \in Students, p \in Problems : grades[s][p].manual

\* Once work was handed in or a mark was entered by hand, nobody changes group:
\* lockGroupSetIfUsed commits with the work, and withUnlockedGroupSet holds the
\* row from its look at lockedAt to its write (group-set-service.ts).
GroupsFreezeOnceUsed == [][Used => member' = member]_vars

\* A group grade that was not told to overwrite changes no mark that differs,
\* also not one that was entered or graded while it waited for the problem's
\* row (the group-grade route).
NoUnseenMarkIsFlattened ==
    [][\A r \in Requests :
        req[r].kind = "group" /\ ~req[r].overwrite /\ req[r].pc = "commit" =>
            \A s \in Students, p \in Problems :
                grades[s][p] # NoGrade /\ req'[r].pc = "done" =>
                    grades'[s][p].value = grades[s][p].value]_vars

\* A mark entered by hand while the worker is at its transaction is still there
\* after it (persistEvaluation).
HandMarksSurviveTheWorker ==
    [][\A r \in Requests :
        req[r].kind = "autograde" /\ req[r].pc = "commit" /\ req'[r].pc = "done" =>
            \A s \in Students, p \in Problems :
                grades[s][p].manual => grades'[s][p] = grades[s][p]]_vars

\* Members who hand in at the same moment do not get past the cap of their
\* group, nor does a student with no group past their own (createSubmission).
CapHolds ==
    Cap > 0 =>
        \A p \in Problems :
            /\ \A g \in Groups : Cardinality({w \in filed : w.problem = p /\ w.group = g}) <= Cap
            /\ \A s \in Students :
                 Cardinality({w \in filed : w.problem = p /\ w.group = NoGroup /\ w.student = s}) <= Cap

\* An assignment is unpublished only while nobody has handed in work or been
\* graded: what the guard counted is still so when the update commits.
OnlyIdleWorkIsUnpublished ==
    [][published /\ ~published' =>
        filed = {} /\ \A s \in Students, p \in Problems : grades[s][p] = NoGrade]_vars

\* Every path takes GroupSet before AssignmentProblem, "so two of them cannot
\* meet in the middle" (grade-writes.ts).  They do: grading one student stamps
\* the set after it locked the problem.
WaitsFor(r, q) ==
    \/ req[r].pc = "set" /\ setLock = q
    \/ req[r].pc = "problem" /\ \E p \in AsksFor(r) : problemLock[p] = q
    \/ req[r].pc = "commit" /\ StampWaits(r) /\ setLock = q

NobodyMeetsInTheMiddle ==
    ~ \E S \in SUBSET Requests : S # {} /\ \A r \in S : \E q \in S : WaitsFor(r, q)

\* What is left of that promise: a circle of requests that wait for each other
\* has a grader in it who stamps the set late, or an unpublish, which takes the
\* problems in the order of the scan.
OnlyAStampOrAScanMeets ==
    \A S \in SUBSET Requests :
        S # {} /\ (\A r \in S : \E q \in S : WaitsFor(r, q)) =>
            \E r \in S : req[r].kind = "unpublish" \/ (req[r].pc = "commit" /\ StampWaits(r))

\* "The locks come first and the reads follow them, so nothing read here can
\* move before the insert" (create-submission.ts): the assignment is published
\* and the student in the group when the work is filed.  The snapshot is older
\* than the locks, so this fails.
NothingReadMovesBeforeTheInsert ==
    [][\A r \in Requests :
        req[r].kind = "submit" /\ req[r].pc = "commit" /\ filed' # filed /\ req'[r].pc = "done" =>
            published /\ member[req[r].student] = GroupSeen(r)]_vars


----------------------------------------------------------------------------
(* What the transactions promise: GradeSheet, seen through the tables.     *)

Sheet == INSTANCE GradeSheet

\* Whatever locks, snapshots and refusals there are between the requests, each
\* of them takes effect at once and on what is there at that moment: the marks
\* in the range, the group without a conflict, the attempt under the cap, the
\* worker's grade for the members there are.
ImplementsSheet == Sheet!Spec

=============================================================================
