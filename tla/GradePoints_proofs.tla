------------------------- MODULE GradePoints_proofs --------------------------
(***************************************************************************)
(* No mark above what its problem is worth: how far that holds.  A change  *)
(* of the points asks whether it lowers them by comparing with the points  *)
(* that the route read before its transaction, and that stale value is the *)
(* one thing that can put a mark out of range.                             *)
(***************************************************************************)
EXTENDS Gradebook_proofs

----------------------------------------------------------------------------
(* The conditions.                                                         *)

\* When a change of the points decides, the problem is worth no more than it
\* read: it missed no raise.
NoRaiseIsMissed ==
    \A r \in Requests :
        req[r].kind = "settings" /\ req[r].pc = "check" => points[req[r].problem] <= req[r].worth

\* Staff change the points one at a time.
OneChangeAtATime ==
    \A r, q \in Requests :
        /\ Running(r) /\ req[r].kind = "settings"
        /\ Running(q) /\ req[q].kind = "settings"
        => r = q

----------------------------------------------------------------------------
(* What a request decided under the problem's row still holds when it      *)
(* writes, and what it saw before it locked the row still does.            *)

DecidedInRange(r) ==
    req[r].pc = "commit" /\ req[r].kind \in {"single", "batch", "group"} =>
        \A p \in Wanted(r) : InRange(req[r].marks[p], points[p])

DecidedPointsFit(r) ==
    req[r].pc = "commit" /\ req[r].kind = "settings" =>
        \A s \in Students : grades[s][req[r].problem].value <= req[r].marks[req[r].problem]

SawItsPoints(r) ==
    req[r].pc \in {"check", "commit"} /\ req[r].kind = "autograde" =>
        req[r].saw.points[req[r].problem] = points[req[r].problem]

\* A request for one problem has a mark for no other.
MarksItsProblem(r) ==
    Running(r) /\ req[r].kind = "single" =>
        \A p \in Problems : p # req[r].problem => req[r].marks[p] = Keep

Decided(r) == DecidedInRange(r) /\ DecidedPointsFit(r) /\ SawItsPoints(r) /\ MarksItsProblem(r)

PointsInv == GradesWithinPoints /\ \A r \in Requests : Decided(r)

----------------------------------------------------------------------------
(* A request's own steps.                                                  *)

LEMMA ArrivesWithItsMark ==
    ASSUME TypeInv, NEW r \in Requests, Comes(r), Arrives(r)
    PROVE  MarksItsProblem(r)'
<1>1. ASSUME NEW kind, NEW request, Arrive(r, kind, request),
             kind = "single" => \A p \in Problems : p # request.problem => request.marks[p] = Keep,
             request \in RequestRecord
      PROVE  MarksItsProblem(r)'
  <2>1. req'[r] = [request EXCEPT !.kind = kind, !.pc = FirstStep(kind)]
    BY <1>1 DEF Arrive, TypeInv, RequestsOK
  <2>2. req'[r].kind = kind /\ req'[r].problem = request.problem /\ req'[r].marks = request.marks
    BY <1>1, <2>1 DEF RequestRecord
  <2>3. QED
    BY <1>1, <2>2 DEF MarksItsProblem
<1>2. NewRequest \in RequestRecord
      /\ NewRequest.marks \in [Problems -> {Keep, Clear} \cup Marks \cup Points]
      /\ \A p \in Problems : NewRequest.marks[p] = Keep
  BY NewRequestIsOK DEF NewRequest, RequestRecord
<1>3. ASSUME NEW s \in Students, NEW p \in Problems, NEW v \in Marks, ArriveSingle(r, s, p, v)
      PROVE  MarksItsProblem(r)'
  <2> DEFINE marks == [NewRequest.marks EXCEPT ![p] = v]
             request == [NewRequest EXCEPT !.student = s, !.problem = p, !.marks = marks]
  <2>1. marks \in [Problems -> {Keep, Clear} \cup Marks \cup Points]
        /\ \A k \in Problems : k # p => marks[k] = Keep
    BY <1>2
  <2>2. Arrive(r, "single", request)
    BY <1>3 DEF ArriveSingle
  <2> HIDE DEF marks
  <2>3. request \in RequestRecord /\ request.problem = p /\ request.marks = marks
    BY <1>2, <2>1 DEF RequestRecord
  <2> HIDE DEF request
  <2>4. QED
    BY <1>1, <2>1, <2>2, <2>3
<1>4. ASSUME NEW kind, NEW request, Arrive(r, kind, request), kind # "single"
      PROVE  MarksItsProblem(r)'
  <2>1. req'[r] = [request EXCEPT !.kind = kind, !.pc = FirstStep(kind)]
    BY <1>4 DEF Arrive, TypeInv, RequestsOK
  <2>2. CASE req'[r].kind = kind
    BY <1>4, <2>2 DEF MarksItsProblem
  <2>3. RequestOK(req'[r])
    BY ArrivalsMove DEF RequestMove
  <2>4. QED
    BY <1>4, <2>1, <2>2, <2>3 DEF RequestOK, RequestRecord
<1>5. CASE \E s \in Students, p \in Problems : ClearGrade(r, s, p)
  BY <1>5, <1>2 DEF ClearGrade, TypeInv, RequestsOK, MarksItsProblem, Running, NewRequest
<1>6. QED
  BY <1>3, <1>4, <1>5
  DEF Arrives, ArriveBatch, ArriveGroup, ArriveSettings, ArriveMemberships, ArriveSubmit,
      ArriveUnpublish, ArriveAutograde

\* A step that only moves a request leaves it what it decides on.
LEMMA WhatMoves ==
    ASSUME TypeInv, NEW r \in Requests, OnlyMoves(r)
    PROVE  /\ req'[r].kind = req[r].kind /\ req'[r].problem = req[r].problem
           /\ req'[r].marks = req[r].marks /\ req'[r].saw = req[r].saw
           /\ req'[r].worth = req[r].worth
BY DEF OnlyMoves, TypeInv, RequestsOK, RequestRecord

LEMMA Numbers ==
    ASSUME TypeInv
    PROVE  /\ \A p \in Problems : points[p] \in Nat
           /\ \A s \in Students, p \in Problems :
                grades[s][p].value \in Nat \cup {-1} /\ NoGrade.value = -1
           /\ \A r \in Requests, p \in Problems : req[r].marks[p] \in Nat \cup {Keep, Clear}
<1>1. \A v \in Points \cup Marks \cup {0} : v \in Nat
  BY CourseAssumption
<1>2. \A grade \in Grade : grade.value \in Nat \cup {-1}
  BY <1>1 DEF Grade, NoGrade
<1>3. \A r \in Requests : req[r].marks \in [Problems -> {Keep, Clear} \cup Marks \cup Points]
  BY DEF TypeInv, RequestsOK, RequestRecord
<1>4. /\ points \in [Problems -> Points] /\ grades \in [Students -> [Problems -> Grade]]
      /\ NoGrade.value = -1
  BY DEF TypeInv, TablesOK, NoGrade
<1>5. \A p \in Problems : points[p] \in Nat
  BY <1>1, <1>4
<1>6. \A s \in Students, p \in Problems : grades[s][p].value \in Nat \cup {-1}
  BY <1>2, <1>4
<1>7. \A r \in Requests, p \in Problems : req[r].marks[p] \in Nat \cup {Keep, Clear}
  BY <1>1, <1>3
<1>8. QED
  BY <1>4, <1>5, <1>6, <1>7

\* The two checks, with the rows held.
LEMMA ChecksDecide ==
    ASSUME TypeInv, HeldInv, PointsInv, NoRaiseIsMissed, NEW r \in Requests,
           Check(r), OnlyMoves(r), req'[r].pc = "commit"
    PROVE  Decided(r)'
<1>1. /\ UNCHANGED <<points, grades>> /\ req[r].pc = "check" /\ Allowed(r)
      /\ req'[r].kind = req[r].kind /\ req'[r].problem = req[r].problem
      /\ req'[r].marks = req[r].marks /\ req'[r].saw = req[r].saw
  BY WhatMoves DEF Check
<1>2. Wanted(r)' = Wanted(r) /\ Wanted(r) \subseteq Problems \cup {req[r].problem}
  BY <1>1 DEF Wanted
<1>3. DecidedInRange(r)'
  <2>1. CASE req[r].kind \in {"single", "batch", "group"}
    <3>1. MarksInRange(r)
      BY <1>1, <2>1 DEF Allowed
    <3>2. Wanted(r) \subseteq Problems
      BY <1>1, <2>1 DEF HeldInv, HoldsItsProblems, TakesNoProblem, Held
    <3>3. QED
      BY <1>1, <1>2, <3>1, <3>2 DEF MarksInRange, DecidedInRange, InRange
  <2>2. QED
    BY <1>1, <2>1 DEF DecidedInRange
<1>4. DecidedPointsFit(r)'
  <2>1. CASE req[r].kind = "settings"
    <3> DEFINE p == req[r].problem
               v == req[r].marks[p]
               w == req[r].worth
    <3>1. PointsFitTheGrades(r) /\ p \in Problems
      <4>1. RequestOK(req[r])
        BY DEF TypeInv, RequestsOK
      <4>2. QED
        BY <1>1, <2>1, <4>1 DEF Allowed, RequestOK, ByProblem
    <3>2. v \in Nat /\ w \in Nat /\ points[p] \in Nat
      <4>1. RequestOK(req[r]) /\ req[r] \in RequestRecord
        BY DEF TypeInv, RequestsOK
      <4>2. v \in Points
        BY <1>1, <2>1, <4>1 DEF RequestOK
      <4>3. w \in Points \cup {0}
        BY <4>1 DEF RequestRecord
      <4>4. points[p] \in Nat
        BY <3>1, Numbers
      <4> HIDE DEF v, w
      <4>5. v \in Nat /\ w \in Nat
        BY <4>2, <4>3, CourseAssumption
      <4>6. QED
        BY <4>4, <4>5
    <3>3. points[p] <= w
      BY <1>1, <2>1 DEF NoRaiseIsMissed
    <3>4. ASSUME NEW s \in Students PROVE grades[s][p].value <= v
      <4>1. grades[s][p].value <= points[p]
        BY <3>1 DEF PointsInv, GradesWithinPoints
      <4>2. v < w => grades[s][p].value <= v
        BY <3>1 DEF PointsFitTheGrades
      <4>3. grades[s][p].value \in Nat \cup {-1}
        BY <3>1, Numbers
      <4> HIDE DEF v, w, p
      <4>4. QED
        BY <3>2, <3>3, <4>1, <4>2, <4>3
    <3>5. QED
      BY <1>1, <3>4 DEF DecidedPointsFit
  <2>2. QED
    BY <1>1, <2>1 DEF DecidedPointsFit
<1>5. SawItsPoints(r)' /\ MarksItsProblem(r)'
  <2>1. SawItsPoints(r) /\ MarksItsProblem(r)
    BY DEF PointsInv, Decided
  <2>2. QED
    BY <1>1, <2>1 DEF SawItsPoints, MarksItsProblem, Running
<1>6. QED
  BY <1>3, <1>4, <1>5 DEF Decided

LEMMA OwnStepDecides ==
    ASSUME TypeInv, HeldInv, PointsInv, NoRaiseIsMissed, NEW r \in Requests,
           Arrives(r) \/ Step(r) \/ RollsBack(r)
    PROVE  Decided(r)'
<1>1. MarksItsProblem(r) /\ SawItsPoints(r)
  BY DEF PointsInv, Decided
<1>2. CASE Comes(r)
  <2>1. Arrives(r)
    BY <1>2, ComesByArriving
  <2>2. MarksItsProblem(r)'
    BY <1>2, <2>1, ArrivesWithItsMark
  <2>3. QED
    BY <1>2, <2>2 DEF Comes, Decided, DecidedInRange, DecidedPointsFit, SawItsPoints
<1>3. CASE req'[r].pc = "done"
  BY <1>3 DEF Decided, DecidedInRange, DecidedPointsFit, SawItsPoints, MarksItsProblem, Running
<1>4. CASE Begins(r)
  <2>1. /\ req'[r].kind = req[r].kind /\ req'[r].problem = req[r].problem
        /\ req'[r].marks = req[r].marks /\ req'[r].pc \in {"set", "problem"}
    <3>1. req[r] \in RequestRecord
      BY DEF TypeInv, RequestsOK
    <3>2. /\ req'[r].kind = req[r].kind /\ req'[r].problem = req[r].problem
          /\ req'[r].marks = req[r].marks
      BY <1>4, <3>1 DEF Begins, RequestRecord
    <3>3. req'[r].pc \in {"set", "problem"}
      BY <1>4 DEF Begins
    <3>4. QED
      BY <3>2, <3>3
  <2>2. req[r].pc = "begin"
    BY <1>4 DEF Begins, Begin
  <2>3. QED
    BY <1>1, <2>1, <2>2
    DEF Decided, DecidedInRange, DecidedPointsFit, SawItsPoints, MarksItsProblem, Running
<1>5. CASE /\ LockSet(r) /\ OnlyMoves(r)
           /\ req'[r].pc = IF req[r].kind \in TakesNoProblem THEN "check" ELSE "problem"
  <2>1. req'[r].kind = req[r].kind /\ req'[r].problem = req[r].problem /\ req'[r].marks = req[r].marks
    BY <1>5, WhatMoves
  <2>2. req[r].pc = "set"
    BY <1>5 DEF LockSet
  <2>3. QED
    BY <1>1, <1>5, <2>1, <2>2
    DEF Decided, DecidedInRange, DecidedPointsFit, SawItsPoints, MarksItsProblem, Running,
        TakesNoProblem
<1>6. ASSUME NEW p \in Problems, LockProblem(r, p), OnlyMoves(r),
             req'[r].pc = IF Wanted(r) \subseteq Held(r) \cup {p} THEN "check" ELSE "problem"
      PROVE  Decided(r)'
  <2>1. /\ req'[r].kind = req[r].kind /\ req'[r].problem = req[r].problem
        /\ req'[r].marks = req[r].marks /\ req'[r].saw = req[r].saw
    BY <1>6, WhatMoves
  <2>2. req[r].pc = "problem" /\ UNCHANGED points
    BY <1>6 DEF LockProblem
  <2>3. req[r].kind = "autograde" => req[r].saw.points[req[r].problem] = points[req[r].problem]
    BY <1>6 DEF LockProblem, AsksFor, Wanted, Serializable
  <2>4. SawItsPoints(r)'
    BY <2>1, <2>2, <2>3 DEF SawItsPoints
  <2>5. QED
    BY <1>1, <1>6, <2>1, <2>2, <2>4
    DEF Decided, DecidedInRange, DecidedPointsFit, MarksItsProblem, Running
<1>7. CASE Check(r) /\ OnlyMoves(r) /\ req'[r].pc = "commit"
  BY <1>7, ChecksDecide
<1>8. RequestMove(r)
  BY ArrivalsMove, StepsMove
<1>9. QED
  BY <1>2, <1>3, <1>4, <1>5, <1>6, <1>7, <1>8 DEF RequestMove

----------------------------------------------------------------------------
(* The steps of the others.                                                *)

\* What a commit writes lies on problems whose rows it holds.
LEMMA WritesWhereItHolds ==
    ASSUME TypeInv, HeldInv, NEW r \in Requests, MarksItsProblem(r),
           Arrives(r) \/ Step(r) \/ RollsBack(r), NEW p \in Problems, p \notin Held(r)
    PROVE  /\ points'[p] = points[p]
           /\ \A s \in Students : grades'[s][p] \in {grades[s][p], NoGrade}
<1>1. points \in [Problems -> Points] /\ grades \in [Students -> [Problems -> Grade]]
  BY DEF TypeInv, TablesOK
<1>2. CASE UNCHANGED <<points, grades>>
  BY <1>2
<1>3. ASSUME NEW s \in Students, NEW k \in Problems, ClearGrade(r, s, k)
      PROVE  /\ points'[p] = points[p]
             /\ \A j \in Students : grades'[j][p] \in {grades[j][p], NoGrade}
  BY <1>1, <1>3 DEF ClearGrade
<1>4. ASSUME NEW kinds, Commits(r, kinds), kinds \cap TakesNoProblem = {}
      PROVE  p \notin Wanted(r)
  BY <1>4 DEF Commits, HeldInv, HoldsItsProblems
<1>5. CASE CommitMarks(r)
  <2>1. Commits(r, {"single", "batch"}) /\ req[r].kind \in {"single", "batch"}
    BY <1>5 DEF CommitMarks, Commits
  <2>2. p \notin Wanted(r)
    BY <1>4, <2>1 DEF TakesNoProblem
  <2>3. req[r].kind = "single" /\ p # req[r].problem
    BY <2>1, <2>2 DEF Wanted
  <2>4. req[r].marks[p] = Keep
    BY <2>1, <2>3 DEF Commits, MarksItsProblem, Running
  <2>5. Marked(grades[req[r].student][p], req[r].marks[p]) = grades[req[r].student][p]
    BY <2>4 DEF Marked, Keep, Clear
  <2>6. UNCHANGED points /\ grades' = [grades EXCEPT ![req[r].student] =
                    [k \in Problems |-> Marked(grades[req[r].student][k], req[r].marks[k])]]
    BY <1>5 DEF CommitMarks
  <2>7. QED
    BY <1>1, <2>5, <2>6
<1>6. CASE CommitGroup(r) \/ CommitAutograde(r)
  <2>1. Commits(r, {"group", "autograde"}) /\ UNCHANGED points
    BY <1>6 DEF CommitGroup, CommitAutograde, Commits
  <2>2. p # req[r].problem
    <3>1. {"group", "autograde"} \cap TakesNoProblem = {}
      BY DEF TakesNoProblem
    <3>2. p \notin Wanted(r)
      BY <1>4, <2>1, <3>1
    <3>3. Wanted(r) = {req[r].problem}
      BY <2>1 DEF Wanted, Commits
    <3>4. QED
      BY <3>2, <3>3
  <2>3. QED
    BY <1>1, <1>6, <2>1, <2>2 DEF CommitGroup, CommitAutograde
<1>7. CASE CommitSettings(r)
  <2>1. Commits(r, {"settings"}) /\ UNCHANGED grades
    BY <1>7 DEF CommitSettings
  <2>2. p # req[r].problem
    BY <1>4, <2>1 DEF TakesNoProblem, Wanted, Commits
  <2>3. QED
    BY <1>1, <1>7, <2>1, <2>2 DEF CommitSettings
<1>8. QED
  BY <1>2, <1>3, <1>5, <1>6, <1>7, OnlyCommitsWrite
  DEF CommitsWork, CommitMemberships, CommitSubmit, CommitUnpublish

LEMMA OthersLeaveItDecided ==
    ASSUME TypeInv, HeldInv, PointsInv, NEW r \in Requests, NEW q \in Requests, q # r,
           Arrives(r) \/ Step(r) \/ RollsBack(r)
    PROVE  Decided(q)'
<1>1. req'[q] = req[q] /\ Decided(q) /\ MarksItsProblem(r)
  BY RequestsStayOK DEF PointsInv, Decided
<1>2. ASSUME NEW p \in Wanted(q), req[q].pc \in {"check", "commit"},
             req[q].kind \notin TakesNoProblem
      PROVE  /\ p \in Problems /\ points'[p] = points[p]
             /\ \A s \in Students : grades'[s][p] \in {grades[s][p], NoGrade}
  <2>1. p \in Held(q)
    BY <1>2 DEF HeldInv, HoldsItsProblems
  <2>2. p \in Problems /\ p \notin Held(r)
    BY <2>1 DEF Held
  <2>3. QED
    BY <1>1, <2>2, WritesWhereItHolds
<1>3. DecidedInRange(q)'
  <2>1. Wanted(q)' = Wanted(q)
    BY <1>1 DEF Wanted
  <2>2. QED
    BY <1>1, <1>2, <2>1 DEF Decided, DecidedInRange, InRange, TakesNoProblem
<1>4. DecidedPointsFit(q)'
  <2>1. CASE req[q].pc = "commit" /\ req[q].kind = "settings"
    <3>1. req[q].problem \in Wanted(q)
      BY <2>1 DEF Wanted
    <3>2. /\ req[q].problem \in Problems
          /\ \A s \in Students : grades'[s][req[q].problem] \in {grades[s][req[q].problem], NoGrade}
      BY <1>2, <2>1, <3>1 DEF TakesNoProblem
    <3>3. req[q].marks[req[q].problem] \in Nat
      BY <2>1, CourseAssumption DEF TypeInv, RequestsOK, RequestOK
    <3>4. NoGrade.value = -1
      BY DEF NoGrade
    <3>5. \A s \in Students : grades[s][req[q].problem].value <= req[q].marks[req[q].problem]
      BY <1>1, <2>1 DEF Decided, DecidedPointsFit
    <3>6. \A s \in Students : grades'[s][req[q].problem].value <= req[q].marks[req[q].problem]
      <4> DEFINE own == req[q].problem
                 v == req[q].marks[own]
      <4> HIDE DEF own, v
      <4>1. \A s \in Students : grades'[s][own] \in {grades[s][own], NoGrade}
        BY <3>2 DEF own
      <4>2. v \in Nat /\ \A s \in Students : grades[s][own].value <= v
        BY <3>3, <3>5 DEF own, v
      <4>3. ASSUME NEW s \in Students PROVE grades'[s][own].value <= v
        <5>1. CASE grades'[s][own] = grades[s][own]
          BY <4>2, <5>1
        <5>2. CASE grades'[s][own] = NoGrade
          BY <3>4, <4>2, <5>2
        <5>3. QED
          BY <4>1, <5>1, <5>2
      <4>4. QED
        BY <4>3 DEF own, v
    <3>7. QED
      BY <1>1, <3>6 DEF DecidedPointsFit
  <2>2. QED
    BY <1>1, <2>1 DEF DecidedPointsFit
<1>5. SawItsPoints(q)'
  BY <1>1, <1>2 DEF Decided, SawItsPoints, Wanted, TakesNoProblem
<1>6. MarksItsProblem(q)'
  BY <1>1 DEF Decided, MarksItsProblem, Running
<1>7. QED
  BY <1>3, <1>4, <1>5, <1>6 DEF Decided

----------------------------------------------------------------------------
(* No commit writes a grade above the points, nor points below a grade.    *)

LEMMA StaysWithinPoints ==
    ASSUME TypeInv, HeldInv, PointsInv, NEW r \in Requests, Arrives(r) \/ Step(r) \/ RollsBack(r)
    PROVE  GradesWithinPoints'
<1>1. /\ points \in [Problems -> Points] /\ grades \in [Students -> [Problems -> Grade]]
      /\ GradesWithinPoints /\ Decided(r) /\ NoGrade.value = -1
      /\ \A p \in Problems : points[p] \in Nat
  BY Numbers DEF TypeInv, TablesOK, PointsInv, NoGrade
<1>2. CASE UNCHANGED <<points, grades>>
  BY <1>1, <1>2 DEF GradesWithinPoints
<1>3. ASSUME NEW s \in Students, NEW p \in Problems, ClearGrade(r, s, p) PROVE GradesWithinPoints'
  <2>1. UNCHANGED points /\ \A j \in Students, k \in Problems : grades'[j][k] \in {grades[j][k], NoGrade}
    BY <1>1, <1>3 DEF ClearGrade
  <2>2. \A k \in Problems : NoGrade.value <= points[k]
    BY <1>1
  <2>3. QED
    BY <1>1, <2>1, <2>2 DEF GradesWithinPoints
<1>4. CASE CommitMarks(r)
  <2> DEFINE s == req[r].student
             new == [p \in Problems |-> Marked(grades[s][p], req[r].marks[p])]
  <2>1. Commits(r, {"single", "batch"}) /\ req[r].kind \in {"single", "batch"} /\ req[r].pc = "commit"
    BY <1>4 DEF CommitMarks, Commits
  <2>2. s \in Students
    BY <2>1, AtCommit DEF ByStudent
  <2>3. ASSUME NEW p \in Problems PROVE new[p].value <= points[p]
    <3>1. grades[s][p].value <= points[p] /\ points[p] \in Nat
      BY <1>1, <2>2 DEF GradesWithinPoints
    <3>2. CASE req[r].marks[p] = Keep
      BY <3>1, <3>2 DEF Marked, Clear, Keep
    <3>3. CASE req[r].marks[p] = Clear
      BY <1>1, <3>1, <3>3 DEF Marked, Clear, Keep
    <3>4. CASE req[r].marks[p] \in Nat
      <4>1. p \in Wanted(r)
        <5>1. MarksItsProblem(r) /\ req[r].marks[p] # Keep
          BY <1>1, <3>4 DEF Decided, Keep
        <5>2. QED
          BY <2>1, <5>1 DEF MarksItsProblem, Running, Wanted
      <4>2. req[r].marks[p] <= points[p]
        BY <1>1, <2>1, <3>4, <4>1 DEF Decided, DecidedInRange, InRange
      <4>3. new[p].value = req[r].marks[p]
        BY <3>4 DEF Marked, HandGrade, Keep, Clear
      <4>4. QED
        BY <4>2, <4>3
    <3>5. req[r].marks[p] \in Nat \cup {Keep, Clear}
      BY Numbers
    <3>6. QED
      BY <3>2, <3>3, <3>4, <3>5
  <2>4. grades' = [grades EXCEPT ![s] = new] /\ UNCHANGED points
    BY <1>4 DEF CommitMarks
  <2> HIDE DEF new, s
  <2>5. QED
    BY <1>1, <2>2, <2>3, <2>4 DEF GradesWithinPoints
<1>5. CASE CommitGroup(r)
  <2> DEFINE own == req[r].problem
             v == req[r].marks[own]
             grade == HandGrade(v)
  <2>1. Commits(r, {"group"}) /\ req[r].kind = "group" /\ req[r].pc = "commit"
    BY <1>5 DEF CommitGroup, Commits
  <2>2. own \in Problems /\ v \in Nat
    BY <2>1, AtCommit, CourseAssumption DEF ByProblem
  <2>3. grade.value <= points[own]
    BY <1>1, <2>1, <2>2 DEF Decided, DecidedInRange, InRange, Wanted, HandGrade
  <2>4. /\ grades' = [s \in Students |-> IF s \in MembersSeen(r)
                        THEN [grades[s] EXCEPT ![own] = grade] ELSE grades[s]]
        /\ UNCHANGED points
    BY <1>5 DEF CommitGroup
  <2> HIDE DEF grade, own, v
  <2>5. QED
    BY <1>1, <2>2, <2>3, <2>4 DEF GradesWithinPoints
<1>6. CASE CommitAutograde(r)
  <2> DEFINE own == req[r].problem
  <2>1. Commits(r, {"autograde"}) /\ req[r].kind = "autograde" /\ req[r].pc = "commit"
    BY <1>6 DEF CommitAutograde, Commits
  <2>2. own \in Problems
    BY <2>1, AtCommit DEF ByProblem
  <2>3. Earned(r) <= points[own]
    BY <1>1, <2>1, <2>2 DEF Decided, SawItsPoints, Earned
  <2>4. \A s \in Students : Autograded(r, s).value <= points[own]
    BY <1>1, <2>2, <2>3 DEF Autograded, GradesWithinPoints
  <2>5. /\ grades' = [s \in Students |-> IF s \in Targets(r)
                        THEN [grades[s] EXCEPT ![own] = Autograded(r, s)] ELSE grades[s]]
        /\ UNCHANGED points
    BY <1>6 DEF CommitAutograde
  <2> HIDE DEF own
  <2>6. QED
    BY <1>1, <2>2, <2>4, <2>5 DEF GradesWithinPoints
<1>7. CASE CommitSettings(r)
  <2> DEFINE own == req[r].problem
             v == req[r].marks[own]
  <2>1. Commits(r, {"settings"}) /\ req[r].kind = "settings" /\ req[r].pc = "commit"
    BY <1>7 DEF CommitSettings, Commits
  <2>2. own \in Problems
    BY <2>1, AtCommit DEF ByProblem
  <2>3. \A s \in Students : grades[s][own].value <= v
    BY <1>1, <2>1 DEF Decided, DecidedPointsFit
  <2>4. points' = [points EXCEPT ![own] = v] /\ UNCHANGED grades
    BY <1>7 DEF CommitSettings
  <2> HIDE DEF own, v
  <2>5. QED
    BY <1>1, <2>2, <2>3, <2>4 DEF GradesWithinPoints
<1>8. QED
  BY <1>2, <1>3, <1>4, <1>5, <1>6, <1>7, OnlyCommitsWrite
  DEF CommitsWork, CommitMemberships, CommitSubmit, CommitUnpublish

LEMMA PointsInvInit == Init => PointsInv
<1> SUFFICES ASSUME Init PROVE PointsInv
  OBVIOUS
<1>1. \A r \in Requests : req[r].pc = "new"
  BY NewRequestIsOK DEF Init
<1>2. \A r \in Requests : Decided(r)
  BY <1>1 DEF Decided, DecidedInRange, DecidedPointsFit, SawItsPoints, MarksItsProblem, Running
<1>3. TypeInv
  BY TypeInvInit
<1>4. GradesWithinPoints
  <2>1. \A p \in Problems : points[p] \in Nat
    BY <1>3, Numbers
  <2>2. \A s \in Students, p \in Problems : grades[s][p].value = -1
    BY DEF Init, NoGrade
  <2>3. QED
    BY <2>1, <2>2 DEF GradesWithinPoints
<1>5. QED
  BY <1>2, <1>4 DEF PointsInv

LEMMA PointsInvNext ==
    Inv /\ PointsInv /\ NoRaiseIsMissed /\ [Next]_vars => PointsInv'
<1> SUFFICES ASSUME Inv, PointsInv, NoRaiseIsMissed, [Next]_vars PROVE PointsInv'
  OBVIOUS
<1>1. ASSUME NEW r \in Requests, Arrives(r) \/ Step(r) \/ RollsBack(r) PROVE PointsInv'
  <2>1. GradesWithinPoints' /\ Decided(r)'
    BY <1>1, StaysWithinPoints, OwnStepDecides DEF Inv
  <2>2. \A q \in Requests : q # r => Decided(q)'
    BY <1>1, OthersLeaveItDecided DEF Inv
  <2>3. QED
    BY <2>1, <2>2 DEF PointsInv
<1>2. CASE UNCHANGED vars
  BY <1>2 DEF vars, PointsInv, GradesWithinPoints, Decided, DecidedInRange, DecidedPointsFit,
              SawItsPoints, MarksItsProblem, Running, Wanted
<1>3. QED
  BY <1>1, <1>2 DEF Next

\* Whoever grades, however they overlap, no mark gets above the points of its
\* problem unless a change of the points missed a raise: the value the route
\* read before its transaction is the one thing that can be stale.
THEOREM OnlyAMissedRaiseBreaksTheRange == Spec /\ []NoRaiseIsMissed => []GradesWithinPoints
<1>1. PointsInv => GradesWithinPoints
  BY DEF PointsInv
<1>2. QED
  BY <1>1, PointsInvInit, PointsInvNext, InvHolds, PTL DEF Spec

----------------------------------------------------------------------------
(* A change of the points that is alone misses no raise.                   *)

WorthIsRead ==
    \A r \in Requests :
        Running(r) /\ req[r].kind = "settings" => req[r].worth = points[req[r].problem]

LEMMA PointsMoveByTheirChange ==
    ASSUME TypeInv, NEW r \in Requests, Arrives(r) \/ Step(r) \/ RollsBack(r), points' # points
    PROVE  CommitSettings(r)
BY OnlyCommitsWrite
DEF CommitsWork, CommitMarks, CommitGroup, CommitMemberships, CommitSubmit, CommitUnpublish,
    CommitAutograde, ClearGrade


LEMMA ArrivesWithItsWorth ==
    ASSUME TypeInv, NEW r \in Requests, Comes(r), Arrives(r), req'[r].kind = "settings"
    PROVE  req'[r].worth = points[req'[r].problem]
<1>1. NewRequest \in RequestRecord
  BY NewRequestIsOK
<1>2. ASSUME NEW p \in Problems, NEW v \in Points, ArriveSettings(r, p, v)
      PROVE  req'[r].worth = points[req'[r].problem]
  <2> DEFINE marks == [NewRequest.marks EXCEPT ![p] = v]
             request == [NewRequest EXCEPT !.problem = p, !.worth = points[p], !.marks = marks]
  <2>1. Arrive(r, "settings", request)
    BY <1>2 DEF ArriveSettings
  <2>2. req'[r] = [request EXCEPT !.kind = "settings", !.pc = FirstStep("settings")]
    BY <2>1 DEF Arrive, TypeInv, RequestsOK
  <2> HIDE DEF marks
  <2>3. req'[r].worth = points[p] /\ req'[r].problem = p
    BY <1>1, <2>2 DEF RequestRecord
  <2>4. QED
    BY <2>3
<1>3. ASSUME NEW kind, NEW request, Arrive(r, kind, request), kind # "settings"
      PROVE  FALSE
  <2>1. req'[r] = [request EXCEPT !.kind = kind, !.pc = FirstStep(kind)]
    BY <1>3 DEF Arrive, TypeInv, RequestsOK
  <2>2. req'[r] \in RequestRecord
    BY ArrivalsMove DEF RequestMove, RequestOK
  <2>3. req'[r].kind = kind
    BY <2>1, <2>2 DEF RequestRecord
  <2>4. QED
    BY <1>3, <2>3
<1>4. ~ \E s \in Students, p \in Problems : ClearGrade(r, s, p)
  BY <1>1 DEF ClearGrade, Comes, TypeInv, RequestsOK, RequestRecord
<1>5. QED
  BY <1>2, <1>3, <1>4
  DEF Arrives, ArriveSingle, ArriveBatch, ArriveGroup, ArriveMemberships, ArriveSubmit,
      ArriveUnpublish, ArriveAutograde

LEMMA WorthIsReadNext ==
    ASSUME TypeInv, WorthIsRead, OneChangeAtATime, NEW r \in Requests,
           Arrives(r) \/ Step(r) \/ RollsBack(r), NEW q \in Requests,
           Running(q)', req'[q].kind = "settings"
    PROVE  req'[q].worth = points'[req'[q].problem]
<1>1. CASE q # r
  <2>1. req'[q] = req[q] /\ Running(q) /\ req[q].kind = "settings"
    BY <1>1, RequestsStayOK DEF Running
  <2>2. points' = points
    <3>1. CASE CommitSettings(r)
      BY <1>1, <2>1, <3>1 DEF CommitSettings, Commits, Running, OneChangeAtATime
    <3>2. QED
      BY <3>1, PointsMoveByTheirChange
  <2>3. QED
    BY <2>1, <2>2 DEF WorthIsRead
<1>2. CASE q = r
  <2>1. req'[r].pc # "done"
    BY <1>2 DEF Running
  <2>2. CASE Comes(r)
    <3>1. Arrives(r)
      BY <2>2, ComesByArriving
    <3>2. QED
      BY <1>2, <2>2, <3>1, ArrivesWithItsWorth DEF Comes
  <2>3. CASE Begins(r)
    <3>1. req[r] \in RequestRecord
      BY DEF TypeInv, RequestsOK
    <3>2. /\ req'[r].kind = req[r].kind /\ req'[r].problem = req[r].problem
          /\ req'[r].worth = req[r].worth
      BY <2>3, <3>1 DEF Begins, RequestRecord
    <3>3. Running(r) /\ UNCHANGED points
      BY <2>3 DEF Begins, Begin, Running
    <3>4. QED
      BY <1>2, <3>2, <3>3 DEF WorthIsRead
  <2>4. ASSUME OnlyMoves(r), UNCHANGED points, Running(r)
        PROVE  req'[q].worth = points'[req'[q].problem]
    BY <1>2, <2>4, WhatMoves DEF WorthIsRead
  <2>5. RequestMove(r)
    BY ArrivalsMove, StepsMove
  <2>6. QED
    BY <2>1, <2>2, <2>3, <2>4, <2>5 DEF RequestMove, LockSet, LockProblem, Check, Running
<1>3. QED
  BY <1>1, <1>2

LEMMA OneChangeMissesNoRaise == Spec /\ []OneChangeAtATime => []NoRaiseIsMissed
<1>1. Init => WorthIsRead
  BY NewRequestIsOK DEF Init, WorthIsRead, Running
<1>2. TypeInv /\ WorthIsRead /\ OneChangeAtATime /\ [Next]_vars => WorthIsRead'
  <2> SUFFICES ASSUME TypeInv, WorthIsRead, OneChangeAtATime, [Next]_vars PROVE WorthIsRead'
    OBVIOUS
  <2>1. CASE Next
    BY <2>1, WorthIsReadNext DEF Next, WorthIsRead
  <2>2. CASE UNCHANGED vars
    BY <2>2 DEF vars, WorthIsRead, Running
  <2>3. QED
    BY <2>1, <2>2
<1>3. TypeInv /\ WorthIsRead => NoRaiseIsMissed
  <2> SUFFICES ASSUME TypeInv, WorthIsRead, NEW r \in Requests,
                      req[r].kind = "settings", req[r].pc = "check"
               PROVE  points[req[r].problem] <= req[r].worth
    BY DEF NoRaiseIsMissed
  <2>1. req[r].worth = points[req[r].problem]
    BY DEF WorthIsRead, Running
  <2>2. req[r].problem \in Problems
    BY DEF TypeInv, RequestsOK, RequestOK, ByProblem
  <2>3. points[req[r].problem] \in Nat
    BY <2>2, Numbers
  <2>4. QED
    BY <2>1, <2>3
<1>4. QED
  BY <1>1, <1>2, <1>3, TypeInvHolds, PTL DEF Spec

\* Staff who change the points one at a time miss no raise, and no mark gets
\* above the points of its problem, whatever else runs meanwhile.
THEOREM OneChangeAtATimeKeepsTheRange == Spec /\ []OneChangeAtATime => []GradesWithinPoints
BY OneChangeMissesNoRaise, OnlyAMissedRaiseBreaksTheRange, PTL

\* The menu lets one request change the points, as in the safety run.
THEOREM OneWhoChangesThePoints ==
    ASSUME NEW one \in Requests, \A r \in Requests : r # one => "settings" \notin Menu[r]
    PROVE  Spec => []GradesWithinPoints
<1> DEFINE Ordered == \A r \in Requests : Running(r) => req[r].kind \in Menu[r]
<1>1. Init => Ordered
  BY NewRequestIsOK DEF Init, Running
<1>2. TypeInv /\ Ordered /\ [Next]_vars => Ordered'
  <2> SUFFICES ASSUME TypeInv, Ordered, [Next]_vars PROVE Ordered'
    OBVIOUS
  <2>1. ASSUME NEW r \in Requests, Arrives(r) \/ Step(r) \/ RollsBack(r) PROVE Ordered'
    <3>1. \A q \in Requests : q # r => req'[q] = req[q]
      BY <2>1, RequestsStayOK
    <3>2. Running(r)' => req'[r].kind \in Menu[r]
      <4>1. req[r] \in RequestRecord /\ RequestMove(r)
        BY <2>1, ArrivalsMove, StepsMove DEF TypeInv, RequestsOK
      <4>2. CASE Comes(r)
        BY <2>1, <4>2, ComesByArriving
      <4>3. CASE req'[r].pc = "done"
        BY <4>3 DEF Running
      <4>4. CASE (Begins(r) \/ OnlyMoves(r)) /\ Running(r)
        <5>1. req'[r].kind = req[r].kind
          BY <4>1, <4>4 DEF Begins, OnlyMoves, RequestRecord
        <5>2. QED
          BY <4>4, <5>1
      <4>5. QED
        BY <4>1, <4>2, <4>3, <4>4
        DEF RequestMove, Begins, Begin, LockSet, LockProblem, Check, Running
    <3>3. QED
      BY <3>1, <3>2 DEF Running
  <2>2. CASE UNCHANGED vars
    BY <2>2 DEF vars, Running
  <2>3. QED
    BY <2>1, <2>2 DEF Next
<1>3. Ordered => OneChangeAtATime
  BY DEF OneChangeAtATime
<1> HIDE DEF Ordered
<1>4. QED
  BY <1>1, <1>2, <1>3, TypeInvHolds, OneChangeAtATimeKeepsTheRange, PTL DEF Spec
=============================================================================
