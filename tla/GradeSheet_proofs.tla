-------------------------- MODULE GradeSheet_proofs --------------------------
(***************************************************************************)
(* Gradebook implements GradeSheet, for every number of students, groups,  *)
(* problems and requests: what a request decided is still so when it       *)
(* writes, by the rows it holds or by the snapshot the database refuses.   *)
(***************************************************************************)
EXTENDS GradePoints_proofs

----------------------------------------------------------------------------
(* What else a request knows.                                              *)

\* It brought marks, a group or handed-in work, as its kind needs.
BroughtMarks(q) == q.kind \in {"single", "batch"} => q.marks \in [Problems -> Marks \cup {Keep, Clear}]
BroughtAGroup(q) == q.kind = "group" => q.group \in Groups
BroughtWork(q, work) ==
    q.kind = "autograde" =>
        \E w \in work : w.student = q.student /\ w.group = q.group /\ w.problem = q.problem

Brought(r) ==
    Running(r) => BroughtMarks(req[r]) /\ BroughtAGroup(req[r]) /\ BroughtWork(req[r], filed)

HasSeen(r) == Running(r) /\ req[r].kind \in Serializable /\ req[r].pc # "begin"

\* Groups that were locked in its snapshot are as it saw them.
SeesTheGroups(r) == HasSeen(r) /\ req[r].saw.locked => locked /\ req[r].saw.member = member

\* Holding the set it knows whether the groups are locked.
SeesTheLock(r) ==
    req[r].kind \in {"group", "submit"} /\ req[r].pc \in {"problem", "check", "commit"} =>
        req[r].saw.locked = locked

\* There is work to grade, so the groups were locked before.
GradesLockedWork(r) == HasSeen(r) /\ req[r].kind = "autograde" => req[r].saw.locked

GradesSomebody(r) == req[r].pc = "commit" /\ req[r].kind = "group" => MembersSeen(r) # {}

Seen(r) ==
    Brought(r) /\ SeesTheGroups(r) /\ SeesTheLock(r) /\ GradesLockedWork(r) /\ GradesSomebody(r)

\* Whoever filed is done, so nobody files twice.
FiledOnce == \A w \in filed : w.by \in Requests => req[w.by].pc = "done"

SheetInv == FiledOnce /\ \A r \in Requests : Seen(r)

----------------------------------------------------------------------------
(* The set, while somebody holds it.                                       *)

LEMMA LockStaysPut ==
    ASSUME TypeInv, HeldInv, NEW q \in Requests, NEW r \in Requests, q # r, setLock = q,
           Arrives(r) \/ Step(r) \/ RollsBack(r)
    PROVE  locked' = locked
<1>1. q # Nobody /\ locked \in BOOLEAN
  BY RequestsAssumption DEF TypeInv, TablesOK
<1>2. CASE CommitMarks(r)
  BY <1>1, <1>2 DEF CommitMarks, Commits, StampWaits
<1>3. ~CommitGroup(r) /\ ~CommitSubmit(r)
  BY <1>1 DEF CommitGroup, CommitSubmit, Commits, HeldInv, HoldsTheSet, TakesTheSetFirst
<1>4. QED
  BY <1>2, <1>3, OnlyCommitsWrite
  DEF CommitsWork, CommitSettings, CommitMemberships, CommitUnpublish, CommitAutograde, ClearGrade

\* Work stays filed, the lock stays, and members move only while it is open.
LEMMA WhatStays ==
    ASSUME Inv, NEW r \in Requests, Arrives(r) \/ Step(r) \/ RollsBack(r)
    PROVE  filed \subseteq filed' /\ (locked => locked' /\ member' = member)
<1>1. locked => locked'
  BY UsedIsLockedNext DEF Inv
<1>2. ASSUME locked, CommitMemberships(r) PROVE FALSE
  BY <1>2 DEF CommitMemberships, Commits, Inv, DecidedUnderLocks
<1>3. QED
  BY <1>1, <1>2, OnlyCommitsWrite
  DEF Inv, CommitsWork, CommitMarks, CommitGroup, CommitSettings, CommitMemberships, CommitSubmit,
      CommitUnpublish, CommitAutograde, ClearGrade

----------------------------------------------------------------------------
(* Each request's own steps.                                               *)

LEMMA ArrivedWith ==
    ASSUME TypeInv, NEW r \in Requests, NEW kind, NEW request \in RequestRecord,
           Arrive(r, kind, request)
    PROVE  /\ req'[r].kind = kind /\ req'[r].student = request.student
           /\ req'[r].group = request.group /\ req'[r].problem = request.problem
           /\ req'[r].marks = request.marks
<1>1. req'[r] = [request EXCEPT !.kind = kind, !.pc = FirstStep(kind)]
  BY DEF Arrive, TypeInv, RequestsOK
<1>2. QED
  BY <1>1 DEF RequestRecord

ComesPrepared(r) ==
    BroughtMarks(req'[r]) /\ BroughtAGroup(req'[r]) /\ BroughtWork(req'[r], filed)

LEMMA ArrivesWithWhatItNeeds ==
    ASSUME TypeInv, NEW r \in Requests, Arrives(r), req'[r].pc # "done"
    PROVE  ComesPrepared(r)
<1>1. NewRequest \in RequestRecord
      /\ NewRequest.marks \in [Problems -> Marks \cup {Keep, Clear}]
  BY NewRequestIsOK DEF NewRequest
<1>2. ASSUME NEW s \in Students, NEW p \in Problems, NEW v \in Marks, ArriveSingle(r, s, p, v)
      PROVE  ComesPrepared(r)
  <2> DEFINE marks == [NewRequest.marks EXCEPT ![p] = v]
             request == [NewRequest EXCEPT !.student = s, !.problem = p, !.marks = marks]
  <2>1. marks \in [Problems -> Marks \cup {Keep, Clear}]
    BY <1>1
  <2>2. Arrive(r, "single", request)
    BY <1>2 DEF ArriveSingle
  <2> HIDE DEF marks
  <2>3. request \in RequestRecord /\ request.marks = marks
    BY <1>1, <2>1 DEF RequestRecord
  <2> HIDE DEF request
  <2>4. req'[r].kind = "single" /\ req'[r].marks = marks
    BY <2>2, <2>3, ArrivedWith
  <2>5. QED
    BY <2>1, <2>4 DEF ComesPrepared, BroughtMarks, BroughtAGroup, BroughtWork
<1>3. ASSUME NEW s \in Students, NEW marks \in [Problems -> Marks \cup {Keep, Clear}],
             ArriveBatch(r, s, marks)
      PROVE  ComesPrepared(r)
  <2> DEFINE changes == [p \in Problems |-> IF marks[p] = grades[s][p].value THEN Keep ELSE marks[p]]
             request == [NewRequest EXCEPT !.student = s, !.marks = changes]
  <2>1. changes \in [Problems -> Marks \cup {Keep, Clear}]
    OBVIOUS
  <2>2. Arrive(r, "batch", request)
    BY <1>3 DEF ArriveBatch
  <2> HIDE DEF changes
  <2>3. request \in RequestRecord /\ request.marks = changes
    BY <1>1, <2>1 DEF RequestRecord
  <2> HIDE DEF request
  <2>4. req'[r].kind = "batch" /\ req'[r].marks = changes
    BY <2>2, <2>3, ArrivedWith
  <2>5. QED
    BY <2>1, <2>4 DEF ComesPrepared, BroughtMarks, BroughtAGroup, BroughtWork
<1>4. ASSUME NEW g \in Groups, NEW p \in Problems, NEW v \in Marks, NEW overwrite \in BOOLEAN,
             ArriveGroup(r, g, p, v, overwrite)
      PROVE  ComesPrepared(r)
  <2> DEFINE marks == [NewRequest.marks EXCEPT ![p] = v]
             request == [NewRequest EXCEPT !.group = g, !.problem = p, !.overwrite = overwrite,
                                           !.marks = marks]
  <2>1. Arrive(r, "group", request)
    BY <1>4 DEF ArriveGroup
  <2>2. marks \in [Problems -> Marks \cup {Keep, Clear}]
    BY <1>1
  <2> HIDE DEF marks
  <2>3. request \in RequestRecord /\ request.group = g
    BY <1>1, <2>2 DEF RequestRecord
  <2> HIDE DEF request
  <2>4. req'[r].kind = "group" /\ req'[r].group = g
    BY <2>1, <2>3, ArrivedWith
  <2>5. QED
    BY <2>4 DEF ComesPrepared, BroughtMarks, BroughtAGroup, BroughtWork
<1>5. ASSUME NEW w \in filed, NEW right \in BOOLEAN, ArriveAutograde(r, w, right) PROVE ComesPrepared(r)
  <2> DEFINE request == [NewRequest EXCEPT !.student = w.student, !.group = w.group,
                                           !.problem = w.problem, !.right = right]
  <2>1. Arrive(r, "autograde", request)
    BY <1>5 DEF ArriveAutograde
  <2>2. w.student \in Students /\ w.group \in Groups \cup {NoGroup} /\ w.problem \in Problems
    BY DEF TypeInv, TablesOK, Submission
  <2>3. /\ request \in RequestRecord /\ request.student = w.student /\ request.group = w.group
        /\ request.problem = w.problem
    BY <1>1, <2>2 DEF RequestRecord
  <2> HIDE DEF request
  <2>4. /\ req'[r].kind = "autograde" /\ req'[r].student = w.student /\ req'[r].group = w.group
        /\ req'[r].problem = w.problem
    BY <2>1, <2>3, ArrivedWith
  <2>5. QED
    BY <2>4 DEF ComesPrepared, BroughtMarks, BroughtAGroup, BroughtWork
<1>6. ASSUME req'[r].kind \notin {"single", "batch", "group", "autograde"} PROVE ComesPrepared(r)
  BY <1>6 DEF ComesPrepared, BroughtMarks, BroughtAGroup, BroughtWork
<1>7. CASE \E s \in Students, p \in Problems : ClearGrade(r, s, p)
  BY <1>7, ClearingIsDone
<1>8. CASE \/ \E p \in Problems, v \in Points : ArriveSettings(r, p, v)
           \/ \E s \in Students, g \in Groups \cup {NoGroup} : ArriveMemberships(r, s, g)
           \/ \E s \in Students, p \in Problems : ArriveSubmit(r, s, p)
           \/ ArriveUnpublish(r)
  <2>1. ASSUME NEW kind, NEW request, Arrive(r, kind, request) PROVE req'[r].kind = kind
    <3>1. req'[r] = [request EXCEPT !.kind = kind, !.pc = FirstStep(kind)]
      BY <2>1 DEF Arrive, TypeInv, RequestsOK
    <3>2. req'[r] \in RequestRecord
      BY ArrivalsMove DEF RequestMove, RequestOK
    <3>3. QED
      BY <3>1, <3>2 DEF RequestRecord
  <2>2. req'[r].kind \in {"settings", "memberships", "submit", "unpublish"}
    BY <1>8, <2>1 DEF ArriveSettings, ArriveMemberships, ArriveSubmit, ArriveUnpublish
  <2>3. QED
    BY <1>6, <2>2
<1>9. QED
  BY <1>2, <1>3, <1>4, <1>5, <1>7, <1>8 DEF Arrives

LEMMA WhatAlsoMoves ==
    ASSUME TypeInv, NEW r \in Requests, OnlyMoves(r)
    PROVE  /\ req'[r].kind = req[r].kind /\ req'[r].student = req[r].student
           /\ req'[r].group = req[r].group /\ req'[r].problem = req[r].problem
           /\ req'[r].marks = req[r].marks /\ req'[r].saw = req[r].saw
BY DEF OnlyMoves, TypeInv, RequestsOK, RequestRecord

LEMMA OwnStepSees ==
    ASSUME Inv, SheetInv, NEW r \in Requests, Arrives(r) \/ Step(r) \/ RollsBack(r)
    PROVE  Seen(r)'
<1>1. TypeInv /\ HeldInv /\ UsedIsLocked /\ Seen(r) /\ req[r] \in RequestRecord
  BY DEF Inv, SheetInv, TypeInv, RequestsOK
<1>2. CASE Comes(r)
  <2>1. Arrives(r) /\ req'[r].kind \in Kinds /\ req'[r].pc = FirstStep(req'[r].kind)
    BY <1>1, <1>2, ComesByArriving
  <2>2. BroughtMarks(req'[r]) /\ BroughtAGroup(req'[r]) /\ BroughtWork(req'[r], filed)
    BY <1>1, <1>2, <2>1, ArrivesWithWhatItNeeds DEF Comes, ComesPrepared
  <2>3. filed' = filed /\ req'[r].pc \in {"begin", "set", "problem"}
        /\ (req'[r].pc = "problem" => req'[r].kind \notin TakesTheSetFirst)
    BY <1>2 DEF Comes
  <2>4. req'[r].kind \in Serializable => req'[r].pc = "begin"
    BY <2>1, FirstSteps
  <2>5. QED
    BY <2>2, <2>3, <2>4
    DEF Seen, Brought, SeesTheGroups, SeesTheLock, GradesLockedWork, GradesSomebody, HasSeen,
        Serializable, TakesTheSetFirst
<1>3. CASE req'[r].pc = "done"
  BY <1>3 DEF Seen, Brought, SeesTheGroups, SeesTheLock, GradesLockedWork, GradesSomebody,
              HasSeen, Running
<1>4. CASE Begins(r)
  <2>1. /\ req'[r].kind = req[r].kind /\ req'[r].student = req[r].student
        /\ req'[r].group = req[r].group /\ req'[r].problem = req[r].problem
        /\ req'[r].marks = req[r].marks /\ req'[r].saw = Now
    BY <1>1, <1>4 DEF Begins, RequestRecord
  <2>2. /\ UNCHANGED <<member, locked, filed>> /\ Running(r)
        /\ req'[r].pc = IF req[r].kind \in TakesTheSetFirst THEN "set" ELSE "problem"
    BY <1>4 DEF Begins, Begin, Running
  <2>3. Now.locked = locked /\ Now.member = member
    BY DEF Now
  <2>4. req[r].kind = "autograde" => locked
    BY <1>1, <2>2 DEF Seen, Brought, BroughtWork, UsedIsLocked, Used
  <2>5. Brought(r)'
    BY <1>1, <2>1, <2>2 DEF Seen, Brought, BroughtMarks, BroughtAGroup, BroughtWork
  <2>6. QED
    BY <2>1, <2>2, <2>3, <2>4, <2>5
    DEF Seen, SeesTheGroups, SeesTheLock, GradesLockedWork, GradesSomebody, HasSeen, TakesTheSetFirst
<1>5. ASSUME OnlyMoves(r), Running(r), req[r].pc # "begin", UNCHANGED <<member, locked, filed>>,
             req'[r].kind \in {"group", "submit"} /\ req'[r].pc \in {"problem", "check", "commit"} =>
                req[r].saw.locked = locked,
             req'[r].kind = "group" /\ req'[r].pc = "commit" => MembersSeen(r) # {}
      PROVE  Seen(r)'
  <2>1. /\ req'[r].kind = req[r].kind /\ req'[r].student = req[r].student
        /\ req'[r].group = req[r].group /\ req'[r].problem = req[r].problem
        /\ req'[r].marks = req[r].marks /\ req'[r].saw = req[r].saw
    BY <1>1, <1>5, WhatAlsoMoves
  <2>2. MembersSeen(r)' = MembersSeen(r)
    BY <2>1 DEF MembersSeen
  <2>3. Brought(r)'
    BY <1>1, <1>5, <2>1 DEF Seen, Brought, BroughtMarks, BroughtAGroup, BroughtWork
  <2>4. QED
    BY <1>1, <1>5, <2>1, <2>2, <2>3
    DEF Seen, SeesTheGroups, SeesTheLock, GradesLockedWork, GradesSomebody, HasSeen
<1>6. CASE LockSet(r) /\ OnlyMoves(r)
           /\ req'[r].pc = IF req[r].kind \in TakesNoProblem THEN "check" ELSE "problem"
  <2>1. req'[r].kind = req[r].kind
    BY <1>1, <1>6, WhatAlsoMoves
  <2>2. QED
    BY <1>5, <1>6, <2>1 DEF LockSet, SetAsSeen, Running, Serializable
<1>7. ASSUME NEW p \in Problems, LockProblem(r, p), OnlyMoves(r),
             req'[r].pc = IF Wanted(r) \subseteq Held(r) \cup {p} THEN "check" ELSE "problem"
      PROVE  Seen(r)'
  <2>1. req'[r].kind = req[r].kind
    BY <1>1, <1>7, WhatAlsoMoves
  <2>2. QED
    BY <1>1, <1>5, <1>7, <2>1 DEF LockProblem, Running, Seen, SeesTheLock
<1>8. CASE Check(r) /\ OnlyMoves(r) /\ req'[r].pc = "commit"
  <2>1. req'[r].kind = req[r].kind
    BY <1>1, <1>8, WhatAlsoMoves
  <2>2. req[r].kind = "group" => MembersSeen(r) # {}
    BY <1>8 DEF Check, Allowed
  <2>3. QED
    BY <1>1, <1>5, <1>8, <2>1, <2>2 DEF Check, Running, Seen, SeesTheLock
<1>9. RequestMove(r)
  BY <1>1, ArrivalsMove, StepsMove
<1>10. QED
  BY <1>2, <1>3, <1>4, <1>6, <1>7, <1>8, <1>9 DEF RequestMove

----------------------------------------------------------------------------
(* The steps of the others.                                                *)

LEMMA OthersLeaveItSeen ==
    ASSUME Inv, SheetInv, NEW r \in Requests, NEW q \in Requests, q # r,
           Arrives(r) \/ Step(r) \/ RollsBack(r)
    PROVE  Seen(q)'
<1>1. TypeInv /\ HeldInv /\ Seen(q) /\ req'[q] = req[q]
  BY RequestsStayOK DEF Inv, SheetInv
<1>2. filed \subseteq filed' /\ (locked => locked' /\ member' = member)
  BY WhatStays
<1>3. Brought(q)'
  BY <1>1, <1>2 DEF Seen, Brought, BroughtMarks, BroughtAGroup, BroughtWork, Running
<1>4. SeesTheGroups(q)' /\ GradesLockedWork(q)' /\ GradesSomebody(q)'
  BY <1>1, <1>2 DEF Seen, SeesTheGroups, GradesLockedWork, GradesSomebody, MembersSeen, HasSeen, Running
<1>5. SeesTheLock(q)'
  <2>1. CASE req[q].kind \in {"group", "submit"} /\ req[q].pc \in {"problem", "check", "commit"}
    <3>1. setLock = q
      BY <1>1, <2>1 DEF HeldInv, HoldsTheSet, TakesTheSetFirst
    <3>2. locked' = locked
      BY <1>1, <3>1, LockStaysPut
    <3>3. QED
      BY <1>1, <3>2 DEF Seen, SeesTheLock
  <2>2. QED
    BY <1>1, <2>1 DEF SeesTheLock
<1>6. QED
  BY <1>3, <1>4, <1>5 DEF Seen

LEMMA FiledOnceNext ==
    ASSUME TypeInv, FiledOnce, NEW r \in Requests, Arrives(r) \/ Step(r) \/ RollsBack(r)
    PROVE  FiledOnce'
<1>1. \A q \in Requests : q # r => req'[q] = req[q]
  BY RequestsStayOK
<1>2. req[r].pc # "done"
  <2>1. ASSUME NEW kind, NEW request, Arrive(r, kind, request) PROVE req[r].pc # "done"
    BY <2>1 DEF Arrive
  <2>2. QED
    BY <2>1
    DEF Arrives, ArriveSingle, ArriveBatch, ArriveGroup, ArriveSettings, ArriveMemberships,
        ArriveSubmit, ArriveUnpublish, ArriveAutograde, ClearGrade, Step, RollsBack, Running, Begin,
        LockSet, LockProblem, Check, Commits, CommitMarks, CommitGroup, CommitSettings,
        CommitMemberships, CommitSubmit, CommitUnpublish, CommitAutograde
<1>3. CASE filed' = filed
  BY <1>1, <1>2, <1>3 DEF FiledOnce
<1>4. CASE CommitSubmit(r)
  <2> DEFINE new == [by |-> r, student |-> req[r].student, group |-> GroupSeen(r),
                     problem |-> req[r].problem]
  <2>1. filed' = filed \cup {new} /\ new.by = r
    BY <1>4 DEF CommitSubmit
  <2>2. req'[r].pc = "done"
    BY <1>4, NewRequestIsOK DEF CommitSubmit, Commits, ReleaseLocks, TypeInv, RequestsOK, RequestRecord
  <2> HIDE DEF new
  <2>3. QED
    BY <1>1, <1>2, <2>1, <2>2 DEF FiledOnce
<1>5. QED
  BY <1>3, <1>4, OnlyCommitsWrite
  DEF CommitsWork, CommitMarks, CommitGroup, CommitSettings, CommitMemberships, CommitUnpublish,
      CommitAutograde, ClearGrade

LEMMA SheetInvInit == Init => SheetInv
<1> SUFFICES ASSUME Init PROVE SheetInv
  OBVIOUS
<1>1. \A r \in Requests : req[r].pc = "new"
  BY NewRequestIsOK DEF Init
<1>2. \A w \in filed : w.by = Nobody
  BY DEF Init
<1>3. FiledOnce
  BY <1>2, RequestsAssumption DEF FiledOnce
<1>4. QED
  BY <1>1, <1>3 DEF SheetInv, Seen, Brought, SeesTheGroups, SeesTheLock, GradesLockedWork,
                    GradesSomebody, HasSeen, Running

LEMMA SheetInvNext == Inv /\ SheetInv /\ [Next]_vars => SheetInv'
<1> SUFFICES ASSUME Inv, SheetInv, [Next]_vars PROVE SheetInv'
  OBVIOUS
<1>1. ASSUME NEW r \in Requests, Arrives(r) \/ Step(r) \/ RollsBack(r) PROVE SheetInv'
  <2>1. Seen(r)' /\ FiledOnce'
    BY <1>1, OwnStepSees, FiledOnceNext DEF Inv, SheetInv
  <2>2. \A q \in Requests : q # r => Seen(q)'
    BY <1>1, OthersLeaveItSeen
  <2>3. QED
    BY <2>1, <2>2 DEF SheetInv
<1>2. CASE UNCHANGED vars
  BY <1>2 DEF vars, SheetInv, FiledOnce, Seen, Brought, SeesTheGroups, SeesTheLock,
              GradesLockedWork, GradesSomebody, HasSeen, Running, MembersSeen
<1>3. QED
  BY <1>1, <1>2 DEF Next

----------------------------------------------------------------------------
(* Every commit is a step of the sheet.                                    *)

LEMMA SheetNames ==
    /\ Sheet!Problems = Problems /\ Sheet!NoGrade = NoGrade
    /\ Sheet!Keep = Keep /\ Sheet!Clear = Clear /\ Keep = -2 /\ Clear = -1
    /\ \A v : Sheet!ByHand(v) = HandGrade(v)
BY DEF Sheet!Problems, Problems, Sheet!NoGrade, NoGrade, Sheet!Keep, Keep, Sheet!Clear, Clear,
       Sheet!ByHand, HandGrade

LEMMA SameCount == \A S : Sheet!Cardinality(S) = Cardinality(S)
BY DEF Sheet!Cardinality, Cardinality

LEMMA MarksAreEntered ==
    ASSUME Inv, PointsInv, SheetInv, NEW r \in Requests, CommitMarks(r)
    PROVE  Sheet!Next
<1> DEFINE s == req[r].student
           marks == req[r].marks
<1>1. /\ TypeInv /\ Commits(r, {"single", "batch"}) /\ req[r].pc = "commit"
      /\ req[r].kind \in {"single", "batch"} /\ Running(r)
  BY DEF Inv, CommitMarks, Commits, Running
<1>2. s \in Students /\ marks \in [Problems -> Marks \cup {Keep, Clear}]
  BY <1>1, AtCommit DEF ByStudent, SheetInv, Seen, Brought, BroughtMarks
<1>3. ASSUME NEW p \in Problems PROVE marks[p] <= points[p]
  <2>1. points[p] \in Nat /\ marks[p] \in Nat \cup {Keep, Clear}
    BY <1>1, Numbers
  <2>2. CASE marks[p] \in Nat
    <3>1. Decided(r) /\ marks[p] # Keep
      BY <2>2 DEF PointsInv, Keep
    <3>2. p \in Wanted(r)
      BY <1>1, <3>1 DEF Decided, MarksItsProblem, Wanted
    <3>3. QED
      BY <1>1, <2>2, <3>1, <3>2 DEF Decided, DecidedInRange, InRange
  <2>3. CASE marks[p] \in {Keep, Clear}
    BY <2>1, <2>3 DEF Keep, Clear
  <2>4. QED
    BY <2>1, <2>2, <2>3
<1>4. \A p \in Problems : marks[p] \in Nat <=> marks[p] \notin {Keep, Clear}
  BY <1>1, Numbers DEF Keep, Clear
<1>5. SetsAMark(r) <=> \E p \in Problems : marks[p] \notin {Keep, Clear}
  BY <1>4 DEF SetsAMark
<1>6. \A grade, mark : Marked(grade, mark) = IF mark = Keep THEN grade
                                            ELSE IF mark = Clear THEN NoGrade ELSE HandGrade(mark)
  BY DEF Marked, Keep, Clear
<1>7. /\ grades' = [grades EXCEPT ![s] = [p \in Problems |-> Marked(grades[s][p], marks[p])]]
      /\ locked' = (locked \/ SetsAMark(r))
      /\ UNCHANGED <<points, member, published, filed>>
  BY DEF CommitMarks
<1>8. grades' = [grades EXCEPT ![s] =
                    [p \in Problems |-> IF marks[p] = Keep THEN grades[s][p]
                                        ELSE IF marks[p] = Clear THEN NoGrade
                                        ELSE HandGrade(marks[p])]]
  BY <1>6, <1>7
<1>9. locked' = (locked \/ \E p \in Problems : marks[p] \notin {Keep, Clear})
  BY <1>5, <1>7
<1> HIDE DEF s, marks
<1>10. Sheet!EnterMarks(s, marks)
  BY <1>3, <1>7, <1>8, <1>9, SheetNames DEF Sheet!EnterMarks
<1>11. QED
  BY <1>2, <1>10, SheetNames DEF Sheet!Next

LEMMA TheGroupIsGraded ==
    ASSUME Inv, PointsInv, SheetInv, NEW r \in Requests, CommitGroup(r)
    PROVE  Sheet!Next
<1> DEFINE S == MembersSeen(r)
           g == req[r].group
           p == req[r].problem
           v == req[r].marks[p]
           overwrite == req[r].overwrite
<1>1. /\ TypeInv /\ Commits(r, {"group"}) /\ req[r].pc = "commit" /\ req[r].kind = "group"
      /\ HasSeen(r) /\ Seen(r) /\ Decided(r)
  BY DEF Inv, CommitGroup, Commits, Running, HasSeen, Serializable, SheetInv, PointsInv
<1>2. p \in Problems /\ v \in Marks /\ g \in Groups /\ overwrite \in BOOLEAN
  BY <1>1, AtCommit DEF ByProblem, Seen, Brought, BroughtAGroup, HasSeen, RequestRecord
<1>3. S # {} /\ S \in SUBSET Students
  BY <1>1 DEF Seen, GradesSomebody, MembersSeen
<1>4. locked => S = {s \in Students : member[s] = g}
  BY <1>1 DEF Seen, SeesTheLock, SeesTheGroups, MembersSeen
<1>5. v <= points[p]
  <2>1. p \in Wanted(r) /\ v \in Nat
    BY <1>1, <1>2, CourseAssumption DEF Wanted
  <2>2. QED
    BY <1>1, <2>1 DEF Decided, DecidedInRange, InRange
<1>6. ASSUME ~overwrite, NEW s \in S PROVE grades[s][p].value \in {NoGrade.value, v}
  <2>1. grades[s][p] = req[r].saw.grades[s][p]
    BY <1>6 DEF CommitGroup, RowsAsSeen
  <2>2. NoConflict(r)
    BY <1>1 DEF Inv, DecidedAsSeen
  <2>3. QED
    BY <1>3, <1>6, <2>1, <2>2 DEF NoConflict
<1>7. /\ grades' = [s \in Students |->
                      IF s \in S THEN [grades[s] EXCEPT ![p] = HandGrade(v)] ELSE grades[s]]
      /\ locked' = TRUE /\ UNCHANGED <<points, member, published, filed>>
  BY DEF CommitGroup
<1> HIDE DEF S, g, p, v, overwrite
<1>8. Sheet!GradeGroup(S, g, p, v, overwrite)
  BY <1>3, <1>4, <1>5, <1>6, <1>7, SheetNames DEF Sheet!GradeGroup
<1>9. QED
  BY <1>2, <1>3, <1>8, SheetNames DEF Sheet!Next

LEMMA PointsChange ==
    ASSUME Inv, PointsInv, NEW r \in Requests, CommitSettings(r)
    PROVE  Sheet!Next
<1> DEFINE p == req[r].problem
           v == req[r].marks[p]
<1>1. /\ TypeInv /\ Commits(r, {"settings"}) /\ req[r].pc = "commit" /\ req[r].kind = "settings"
      /\ Decided(r)
  BY DEF Inv, CommitSettings, Commits, PointsInv
<1>2. p \in Problems /\ v \in Points
  BY <1>1, AtCommit DEF ByProblem
<1>3. \A s \in Students : grades[s][p].value <= v
  BY <1>1 DEF Decided, DecidedPointsFit
<1>4. points' = [points EXCEPT ![p] = v] /\ UNCHANGED <<grades, member, locked, published, filed>>
  BY DEF CommitSettings
<1> HIDE DEF p, v
<1>5. Sheet!ChangePoints(p, v)
  BY <1>3, <1>4 DEF Sheet!ChangePoints
<1>6. QED
  BY <1>2, <1>5, SheetNames DEF Sheet!Next

LEMMA AStudentIsMoved ==
    ASSUME Inv, NEW r \in Requests, CommitMemberships(r)
    PROVE  Sheet!Next
<1> DEFINE s == req[r].student
           g == req[r].group
<1>1. TypeInv /\ Commits(r, {"memberships"}) /\ req[r].pc = "commit" /\ req[r].kind = "memberships"
  BY DEF Inv, CommitMemberships, Commits
<1>2. s \in Students /\ g \in Groups \cup {NoGroup}
  BY <1>1, AtCommit DEF ByStudent
<1>3. ~locked
  BY <1>1 DEF Inv, DecidedUnderLocks
<1>4. member' = [member EXCEPT ![s] = g] /\ UNCHANGED <<points, grades, locked, published, filed>>
  BY DEF CommitMemberships
<1> HIDE DEF s, g
<1>5. Sheet!MoveStudent(s, g)
  BY <1>3, <1>4 DEF Sheet!MoveStudent
<1>6. QED
  BY <1>2, <1>5 DEF Sheet!Next

LEMMA WorkIsFiled ==
    ASSUME Inv, SheetInv, NEW r \in Requests, CommitSubmit(r)
    PROVE  Sheet!Next
<1> DEFINE s == req[r].student
           g == GroupSeen(r)
           p == req[r].problem
<1>1. /\ TypeInv /\ Commits(r, {"submit"}) /\ req[r].pc = "commit" /\ req[r].kind = "submit"
      /\ HasSeen(r) /\ Seen(r)
  BY DEF Inv, CommitSubmit, Commits, Running, HasSeen, Serializable, SheetInv
<1>2. s \in Students /\ p \in Problems /\ req[r].saw \in Snapshot
  BY <1>1, AtCommit DEF ByStudent, ByProblem, Serializable
<1>3. g \in Groups \cup {NoGroup}
  BY <1>2 DEF GroupSeen, Snapshot
<1>4. \A w \in filed : w.by # r
  BY <1>1 DEF SheetInv, FiledOnce
<1>5. locked => g = member[s]
  BY <1>1 DEF Seen, SeesTheLock, SeesTheGroups, GroupSeen
<1>6. Cap > 0 => Cardinality(CountScope(s, g, p, filed)) < Cap
  <2>1. BelowTheCap(r)
    BY <1>1 DEF Inv, DecidedAsSeen
  <2>2. CountAsSeen(r)
    BY DEF CommitSubmit
  <2>3. QED
    BY <2>1, <2>2 DEF BelowTheCap, CountAsSeen
<1>7. /\ filed' = filed \cup {[by |-> r, student |-> s, group |-> g, problem |-> p]}
      /\ locked' = TRUE /\ UNCHANGED <<points, grades, member, published>>
  BY DEF CommitSubmit
<1>8. CountScope(s, g, p, filed) = Sheet!Attempts(s, g, p)
  BY DEF CountScope, Sheet!Attempts
<1>9. Cap > 0 => Cardinality(Sheet!Attempts(s, g, p)) < Cap
  BY <1>6, <1>8
<1> HIDE DEF s, g, p
<1>10. Sheet!FileWork(r, s, g, p)
  BY <1>4, <1>5, <1>7, <1>9, SameCount, Zenon DEF Sheet!FileWork
<1>11. QED
  BY <1>2, <1>3, <1>10, SheetNames DEF Sheet!Next

LEMMA IdleWorkGoes ==
    ASSUME Inv, NEW r \in Requests, CommitUnpublish(r)
    PROVE  Sheet!Next
<1>1. NoWork
  BY DEF Inv, CommitUnpublish, Commits, DecidedUnderLocks
<1>2. Sheet!Unpublish
  BY <1>1, SheetNames DEF CommitUnpublish, NoWork, Sheet!Unpublish
<1>3. QED
  BY <1>2 DEF Sheet!Next

LEMMA TheWorkerGrades ==
    ASSUME Inv, PointsInv, SheetInv, NEW r \in Requests, CommitAutograde(r)
    PROVE  Sheet!Next
<1> DEFINE p == req[r].problem
           v == Earned(r)
           S == {s \in Targets(r) : ~(req[r].saw.grades[s][p].manual /\ grades[s][p] # NoGrade)}
<1>1. /\ TypeInv /\ Commits(r, {"autograde"}) /\ req[r].pc = "commit" /\ req[r].kind = "autograde"
      /\ HasSeen(r) /\ Seen(r) /\ Decided(r)
  BY DEF Inv, CommitAutograde, Commits, Running, HasSeen, Serializable, SheetInv, PointsInv
<1>2. PICK w \in filed : w.student = req[r].student /\ w.group = req[r].group /\ w.problem = p
  BY <1>1 DEF Seen, Brought, BroughtWork, HasSeen
<1>3. p \in Problems /\ w \in Submission /\ grades \in [Students -> [Problems -> Grade]]
  BY <1>1, AtCommit DEF ByProblem, TypeInv, TablesOK
<1>4. locked /\ req[r].saw.member = member
  BY <1>1 DEF Seen, SeesTheGroups, GradesLockedWork
<1>5. Targets(r) = Sheet!Owners(w) /\ Targets(r) \subseteq Students
  BY <1>2, <1>3, <1>4 DEF Targets, MembersSeen, Sheet!Owners, Submission
<1>6. S \in SUBSET Students /\ S \subseteq Sheet!Owners(w)
  BY <1>5
<1>7. \A s \in Sheet!Owners(w) \ S : grades[s][p] # NoGrade
  BY <1>5
<1>8. ASSUME NEW s \in S PROVE ~grades[s][p].manual
  <2>1. MayAutograde(r, s)
    BY DEF CommitAutograde
  <2>2. CASE grades[s][p] = NoGrade
    BY <2>2 DEF NoGrade
  <2>3. CASE grades[s][p] # NoGrade
    BY <2>1, <2>3 DEF MayAutograde
  <2>4. QED
    BY <2>2, <2>3
<1>9. v \in {0, points[p]} /\ v \in Points \cup {0}
  <2>1. req[r].saw.points[p] = points[p]
    BY <1>1 DEF Decided, SawItsPoints
  <2>2. points[p] \in Points
    BY <1>1, <1>3 DEF TypeInv, TablesOK
  <2>3. QED
    BY <2>1, <2>2 DEF Earned
<1>10. /\ grades' = [s \in Students |-> IF s \in Targets(r)
                       THEN [grades[s] EXCEPT ![p] = Autograded(r, s)] ELSE grades[s]]
       /\ UNCHANGED <<points, member, locked, published, filed>>
  BY DEF CommitAutograde
<1>11. ASSUME NEW s \in Students
       PROVE  (IF s \in Targets(r) THEN [grades[s] EXCEPT ![p] = Autograded(r, s)] ELSE grades[s])
              = (IF s \in S THEN [grades[s] EXCEPT ![p] = [value |-> v, manual |-> FALSE]]
                 ELSE grades[s])
  <2>1. CASE s \in S
    <3>1. Autograded(r, s) = [value |-> v, manual |-> FALSE]
      BY <2>1 DEF Autograded
    <3>2. QED
      BY <2>1, <3>1
  <2>2. CASE s \in Targets(r) /\ s \notin S
    <3>1. Autograded(r, s) = grades[s][p]
      BY <2>2 DEF Autograded
    <3>2. [grades[s] EXCEPT ![p] = grades[s][p]] = grades[s]
      BY <1>3
    <3>3. QED
      BY <2>2, <3>1, <3>2
  <2>3. CASE s \notin Targets(r)
    BY <2>3
  <2>4. QED
    BY <2>1, <2>2, <2>3
<1> HIDE DEF S, v
<1>12. grades' = [s \in Students |->
                    IF s \in S THEN [grades[s] EXCEPT ![p] = [value |-> v, manual |-> FALSE]]
                    ELSE grades[s]]
  BY <1>10, <1>11
<1>13. Sheet!Autograde(w, S, v)
  BY <1>2, <1>6, <1>7, <1>8, <1>9, <1>10, <1>12, SheetNames DEF Sheet!Autograde
<1>14. QED
  BY <1>6, <1>9, <1>13 DEF Sheet!Next

\* A step writes nothing, or does at once what the sheet allows now.
LEMMA StepsOfTheSheet ==
    ASSUME Inv, PointsInv, SheetInv, [Next]_vars
    PROVE  [Sheet!Next]_(Sheet!sheet)
<1>1. ASSUME NEW r \in Requests, Arrives(r) \/ Step(r) \/ RollsBack(r)
      PROVE  Sheet!Next \/ UNCHANGED Sheet!sheet
  <2>1. CASE CommitsWork(r)
    BY <2>1, MarksAreEntered, TheGroupIsGraded, PointsChange, AStudentIsMoved, WorkIsFiled,
       IdleWorkGoes, TheWorkerGrades DEF CommitsWork
  <2>2. ASSUME NEW s \in Students, NEW p \in Problems, ClearGrade(r, s, p) PROVE Sheet!Next
    <3>1. Sheet!ClearGrade(s, p)
      BY <2>2, SheetNames DEF ClearGrade, Sheet!ClearGrade
    <3>2. QED
      BY <3>1, SheetNames DEF Sheet!Next
  <2>3. CASE UNCHANGED <<points, grades, member, locked, published, filed>>
    BY <2>3 DEF Sheet!sheet
  <2>4. QED
    BY <1>1, <2>1, <2>2, <2>3, OnlyCommitsWrite DEF Inv
<1>2. CASE UNCHANGED vars
  BY <1>2 DEF vars, Sheet!sheet
<1>3. QED
  BY <1>1, <1>2 DEF Next

LEMMA SheetInit == Init => Sheet!Init
BY SheetNames DEF Init, Sheet!Init

\* Each request takes effect at once, on what is there when it does: as long
\* as no change of the points misses a raise, Gradebook implements GradeSheet.
THEOREM SheetImplemented == Spec /\ []NoRaiseIsMissed => ImplementsSheet
<1>1. Inv /\ PointsInv /\ SheetInv /\ [Next]_vars => [Sheet!Next]_(Sheet!sheet)
  BY StepsOfTheSheet
<1>2. QED
  BY <1>1, SheetInit, PointsInvInit, PointsInvNext, SheetInvInit, SheetInvNext, InvHolds, PTL
  DEF Spec, ImplementsSheet, Sheet!Spec

\* With one change of the points at a time it always does.
THEOREM SheetImplementedOneAtATime == Spec /\ []OneChangeAtATime => ImplementsSheet
BY OneChangeMissesNoRaise, SheetImplemented, PTL
=============================================================================
