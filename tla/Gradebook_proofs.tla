--------------------------- MODULE Gradebook_proofs --------------------------
(***************************************************************************)
(* Theorems about Gradebook for every number of students, groups, problems *)
(* and requests, whatever each of them asks for.                           *)
(***************************************************************************)
EXTENDS Gradebook, FiniteSetTheorems, TLAPS

----------------------------------------------------------------------------
(* What a request is while it runs.                                        *)

ByStudent == {"single", "batch", "memberships", "submit", "autograde"}
ByProblem == {"single", "group", "settings", "submit", "autograde"}

\* A running request has what its kind needs, and a snapshot once it began.
RequestOK(q) ==
    /\ q \in RequestRecord
    /\ q.pc \notin {"new", "done"} =>
         /\ q.kind \in Kinds
         /\ q.kind \in ByStudent => q.student \in Students
         /\ q.kind \in ByProblem => q.problem \in Problems
         /\ q.kind = "settings" => q.marks[q.problem] \in Points
         /\ q.kind = "group" => q.marks[q.problem] \in Marks
         /\ q.kind \in Serializable /\ q.pc # "begin" => q.saw \in Snapshot

RequestsOK == req \in [Requests -> RequestRecord] /\ \A r \in Requests : RequestOK(req[r])

TablesOK ==
    /\ points \in [Problems -> Points]
    /\ grades \in [Students -> [Problems -> Grade]]
    /\ member \in [Students -> Groups \cup {NoGroup}]
    /\ locked \in BOOLEAN
    /\ published \in BOOLEAN
    /\ filed \subseteq Submission

LocksOK ==
    /\ setLock \in Requests \cup {Nobody}
    /\ problemLock \in [Problems -> Requests \cup {Nobody}]

TypeInv == RequestsOK /\ TablesOK /\ LocksOK

LEMMA TypeInvIsTyped == TypeInv => TypeOK
BY DEF TypeInv, RequestsOK, TablesOK, LocksOK, TypeOK

LEMMA NewRequestIsOK ==
    NewRequest \in RequestRecord /\ NewRequest.pc = "new" /\ RequestOK(NewRequest)
<1>1. NewRequest.marks \in [Problems -> {Keep, Clear} \cup Marks \cup Points]
  BY DEF NewRequest
<1>2. NewRequest \in RequestRecord /\ NewRequest.pc = "new"
  BY <1>1 DEF NewRequest, RequestRecord
<1>3. QED
  BY <1>2 DEF RequestOK

LEMMA FirstSteps ==
    ASSUME NEW kind \in Kinds
    PROVE  /\ FirstStep(kind) \in {"begin", "set", "problem"}
           /\ kind \in Serializable => FirstStep(kind) = "begin"
           /\ FirstStep(kind) = "problem" => kind \notin TakesTheSetFirst
BY DEF FirstStep, Serializable, TakesTheSetFirst, Kinds

\* The first step a request takes puts it in order.
LEMMA ArrivedIsOK ==
    ASSUME TypeInv, NEW r \in Requests, NEW kind, NEW request \in RequestRecord,
           Arrive(r, kind, request),
           kind \in ByStudent => request.student \in Students,
           kind \in ByProblem => request.problem \in Problems,
           kind = "settings" => request.marks[request.problem] \in Points,
           kind = "group" => request.marks[request.problem] \in Marks
    PROVE  /\ req' = [req EXCEPT ![r] = req'[r]]
           /\ RequestOK(req'[r])
           /\ req[r].pc = "new"
           /\ req'[r].pc \in {"begin", "set", "problem"}
           /\ req'[r].pc = "problem" => req'[r].kind \notin TakesTheSetFirst
           /\ UNCHANGED <<points, grades, member, locked, published, filed, setLock, problemLock>>
<1> DEFINE new == [request EXCEPT !.kind = kind, !.pc = FirstStep(kind)]
<1>1. kind \in Kinds
  BY RequestsAssumption DEF Arrive
<1>2. /\ new \in RequestRecord /\ new.kind = kind /\ new.pc = FirstStep(kind)
      /\ new.student = request.student /\ new.problem = request.problem /\ new.marks = request.marks
  BY <1>1, FirstSteps DEF RequestRecord
<1>3. req' = [req EXCEPT ![r] = new] /\ req'[r] = new
  BY DEF Arrive, TypeInv, RequestsOK
<1> HIDE DEF new
<1>4. RequestOK(new)
  BY <1>1, <1>2, FirstSteps DEF RequestOK
<1>5. QED
  BY <1>1, <1>2, <1>3, <1>4, FirstSteps DEF Arrive

----------------------------------------------------------------------------
(* What a step does to the request that takes it.                          *)

\* Its place changes and nothing else of it.
OnlyMoves(r) == req'[r] = [req[r] EXCEPT !.pc = req'[r].pc]

Comes(r) ==
    /\ req[r].pc = "new"
    /\ req'[r].pc \in {"begin", "set", "problem"}
    /\ req'[r].pc = "problem" => req'[r].kind \notin TakesTheSetFirst
    /\ UNCHANGED <<points, grades, member, locked, published, filed, setLock, problemLock>>

Begins(r) ==
    /\ Begin(r)
    /\ req'[r] = [req[r] EXCEPT !.saw = Now, !.pc = req'[r].pc]
    /\ req'[r].pc = IF req[r].kind \in TakesTheSetFirst THEN "set" ELSE "problem"

RequestMove(r) ==
    /\ req' = [req EXCEPT ![r] = req'[r]]
    /\ RequestOK(req'[r])
    /\ \/ Comes(r)
       \/ (\E s \in Students, p \in Problems : ClearGrade(r, s, p)) /\ req'[r].pc = "done"
       \/ Begins(r)
       \/ /\ LockSet(r) /\ OnlyMoves(r)
          /\ req'[r].pc = IF req[r].kind \in TakesNoProblem THEN "check" ELSE "problem"
       \/ \E p \in Problems :
             /\ LockProblem(r, p) /\ OnlyMoves(r)
             /\ req'[r].pc = IF Wanted(r) \subseteq Held(r) \cup {p} THEN "check" ELSE "problem"
       \/ Check(r) /\ OnlyMoves(r) /\ req'[r].pc = "commit"
       \/ ReleaseLocks(r) /\ req'[r].pc = "done"

LEMMA ArrivalsMove ==
    ASSUME TypeInv, NEW r \in Requests, Arrives(r)
    PROVE  RequestMove(r)
<1>1. NewRequest \in RequestRecord /\ NewRequest.marks \in [Problems -> {Keep, Clear} \cup Marks \cup Points]
  BY NewRequestIsOK DEF RequestRecord
<1>2. ASSUME NEW s \in Students, NEW p \in Problems, NEW v \in Marks, ArriveSingle(r, s, p, v)
      PROVE  RequestMove(r)
  <2> DEFINE marks == [NewRequest.marks EXCEPT ![p] = v]
             request == [NewRequest EXCEPT !.student = s, !.problem = p, !.marks = marks]
  <2>1. marks \in [Problems -> {Keep, Clear} \cup Marks \cup Points]
    BY <1>1
  <2>2. Arrive(r, "single", request)
    BY <1>2 DEF ArriveSingle
  <2> HIDE DEF marks
  <2>3. request \in RequestRecord /\ request.student \in Students /\ request.problem \in Problems
    BY <1>1, <2>1 DEF RequestRecord
  <2> HIDE DEF request
  <2>4. QED
    BY <2>2, <2>3, ArrivedIsOK DEF RequestMove, Comes
<1>3. ASSUME NEW s \in Students, NEW marks \in [Problems -> Marks \cup {Keep, Clear}],
             ArriveBatch(r, s, marks)
      PROVE  RequestMove(r)
  <2> DEFINE changes == [p \in Problems |-> IF marks[p] = grades[s][p].value THEN Keep ELSE marks[p]]
             request == [NewRequest EXCEPT !.student = s, !.marks = changes]
  <2>1. changes \in [Problems -> {Keep, Clear} \cup Marks \cup Points]
    OBVIOUS
  <2>2. Arrive(r, "batch", request)
    BY <1>3 DEF ArriveBatch
  <2> HIDE DEF changes
  <2>3. request \in RequestRecord /\ request.student \in Students
    BY <1>1, <2>1 DEF RequestRecord
  <2> HIDE DEF request
  <2>4. QED
    BY <2>2, <2>3, ArrivedIsOK DEF RequestMove, Comes, ByProblem
<1>4. ASSUME NEW g \in Groups, NEW p \in Problems, NEW v \in Marks, NEW overwrite \in BOOLEAN,
             ArriveGroup(r, g, p, v, overwrite)
      PROVE  RequestMove(r)
  <2> DEFINE marks == [NewRequest.marks EXCEPT ![p] = v]
             request == [NewRequest EXCEPT !.group = g, !.problem = p, !.overwrite = overwrite,
                                           !.marks = marks]
  <2>1. marks \in [Problems -> {Keep, Clear} \cup Marks \cup Points] /\ marks[p] \in Marks
    BY <1>1
  <2>2. Arrive(r, "group", request)
    BY <1>4 DEF ArriveGroup
  <2> HIDE DEF marks
  <2>3. /\ request \in RequestRecord /\ request.problem \in Problems
        /\ request.marks[request.problem] \in Marks
    BY <1>1, <2>1 DEF RequestRecord
  <2> HIDE DEF request
  <2>4. QED
    BY <2>2, <2>3, ArrivedIsOK DEF RequestMove, Comes, ByStudent
<1>5. ASSUME NEW p \in Problems, NEW v \in Points, ArriveSettings(r, p, v)
      PROVE  RequestMove(r)
  <2> DEFINE marks == [NewRequest.marks EXCEPT ![p] = v]
             request == [NewRequest EXCEPT !.problem = p, !.worth = points[p], !.marks = marks]
  <2>1. marks \in [Problems -> {Keep, Clear} \cup Marks \cup Points] /\ marks[p] \in Points
    BY <1>1
  <2>2. Arrive(r, "settings", request)
    BY <1>5 DEF ArriveSettings
  <2>3. points[p] \in Points
    BY DEF TypeInv, TablesOK
  <2> HIDE DEF marks
  <2>4. /\ request \in RequestRecord /\ request.problem \in Problems
        /\ request.marks[request.problem] \in Points
    BY <1>1, <2>1, <2>3 DEF RequestRecord
  <2> HIDE DEF request
  <2>5. QED
    BY <2>2, <2>4, ArrivedIsOK DEF RequestMove, Comes, ByStudent
<1>6. ASSUME NEW s \in Students, NEW g \in Groups \cup {NoGroup}, ArriveMemberships(r, s, g)
      PROVE  RequestMove(r)
  <2> DEFINE request == [NewRequest EXCEPT !.student = s, !.group = g]
  <2>1. Arrive(r, "memberships", request)
    BY <1>6 DEF ArriveMemberships
  <2>2. request \in RequestRecord /\ request.student \in Students
    BY <1>1 DEF RequestRecord
  <2> HIDE DEF request
  <2>3. QED
    BY <2>1, <2>2, ArrivedIsOK DEF RequestMove, Comes, ByProblem
<1>7. ASSUME NEW s \in Students, NEW p \in Problems, ArriveSubmit(r, s, p)
      PROVE  RequestMove(r)
  <2> DEFINE request == [NewRequest EXCEPT !.student = s, !.problem = p]
  <2>1. Arrive(r, "submit", request)
    BY <1>7 DEF ArriveSubmit
  <2>2. request \in RequestRecord /\ request.student \in Students /\ request.problem \in Problems
    BY <1>1 DEF RequestRecord
  <2> HIDE DEF request
  <2>3. QED
    BY <2>1, <2>2, ArrivedIsOK DEF RequestMove, Comes
<1>8. CASE ArriveUnpublish(r)
  BY <1>1, <1>8, ArrivedIsOK DEF ArriveUnpublish, RequestMove, Comes, ByStudent, ByProblem
<1>9. ASSUME NEW w \in filed, NEW right \in BOOLEAN, ArriveAutograde(r, w, right)
      PROVE  RequestMove(r)
  <2> DEFINE request == [NewRequest EXCEPT !.student = w.student, !.group = w.group,
                                           !.problem = w.problem, !.right = right]
  <2>1. Arrive(r, "autograde", request)
    BY <1>9 DEF ArriveAutograde
  <2>2. w \in Submission
    BY DEF TypeInv, TablesOK
  <2>3. w.student \in Students /\ w.group \in Groups \cup {NoGroup} /\ w.problem \in Problems
    BY <2>2 DEF Submission
  <2>4. request \in RequestRecord /\ request.student \in Students /\ request.problem \in Problems
    BY <1>1, <2>3 DEF RequestRecord
  <2> HIDE DEF request
  <2>5. QED
    BY <2>1, <2>4, ArrivedIsOK DEF RequestMove, Comes
<1>10. ASSUME NEW s \in Students, NEW p \in Problems, ClearGrade(r, s, p)
       PROVE  RequestMove(r)
  <2> DEFINE new == [NewRequest EXCEPT !.kind = "clear", !.pc = "done"]
  <2>1. new \in RequestRecord /\ new.pc = "done"
    BY <1>1 DEF RequestRecord, Kinds
  <2>2. req' = [req EXCEPT ![r] = new] /\ req'[r] = new
    BY <1>10 DEF ClearGrade, TypeInv, RequestsOK
  <2> HIDE DEF new
  <2>3. QED
    BY <1>10, <2>1, <2>2 DEF RequestMove, RequestOK
<1>11. QED
  BY <1>2, <1>3, <1>4, <1>5, <1>6, <1>7, <1>8, <1>9, <1>10 DEF Arrives

LEMMA MovedIsOK ==
    ASSUME NEW q, RequestOK(q), q.pc \in {"set", "problem", "check"},
           NEW pc \in {"set", "problem", "check", "commit"}
    PROVE  RequestOK([q EXCEPT !.pc = pc]) /\ [q EXCEPT !.pc = pc].pc = pc
<1> DEFINE new == [q EXCEPT !.pc = pc]
<1>1. /\ new \in RequestRecord /\ new.pc = pc /\ new.kind = q.kind /\ new.student = q.student
      /\ new.problem = q.problem /\ new.marks = q.marks /\ new.saw = q.saw
  BY DEF RequestOK, RequestRecord
<1> HIDE DEF new
<1>2. RequestOK(new)
  BY <1>1 DEF RequestOK
<1>3. QED
  BY <1>1, <1>2 DEF new

LEMMA BegunIsOK ==
    ASSUME NEW q, RequestOK(q), q.pc = "begin", NEW snapshot \in Snapshot,
           NEW pc \in {"set", "problem"}, NEW new, new = [q EXCEPT !.saw = snapshot, !.pc = pc]
    PROVE  RequestOK(new) /\ new.pc = pc
<1>1. /\ new \in RequestRecord /\ new.pc = pc /\ new.kind = q.kind /\ new.student = q.student
      /\ new.problem = q.problem /\ new.marks = q.marks /\ new.saw = snapshot
  BY DEF RequestOK, RequestRecord
<1>2. QED
  BY <1>1 DEF RequestOK

\* A step of r that only moves it.
LEMMA OneRequestMoves ==
    ASSUME TypeInv, NEW r \in Requests, req[r].pc \in {"set", "problem", "check"},
           NEW pc \in {"set", "problem", "check", "commit"},
           req' = [req EXCEPT ![r].pc = pc]
    PROVE  /\ req' = [req EXCEPT ![r] = req'[r]]
           /\ RequestOK(req'[r]) /\ OnlyMoves(r) /\ req'[r].pc = pc
<1>1. RequestOK(req[r]) /\ req \in [Requests -> RequestRecord]
  BY DEF TypeInv, RequestsOK
<1>2. req'[r] = [req[r] EXCEPT !.pc = pc] /\ req' = [req EXCEPT ![r] = req'[r]]
  BY <1>1
<1>3. RequestOK([req[r] EXCEPT !.pc = pc]) /\ [req[r] EXCEPT !.pc = pc].pc = pc
  BY <1>1, MovedIsOK
<1>4. RequestOK(req'[r]) /\ req'[r].pc = pc
  BY <1>2, <1>3
<1>5. OnlyMoves(r)
  BY <1>2, <1>4 DEF OnlyMoves
<1>6. QED
  BY <1>2, <1>4, <1>5

LEMMA ReleasingMoves ==
    ASSUME TypeInv, NEW r \in Requests, ReleaseLocks(r)
    PROVE  RequestMove(r)
<1> DEFINE new == [NewRequest EXCEPT !.kind = req[r].kind, !.pc = "done"]
<1>1. req \in [Requests -> RequestRecord]
  BY DEF TypeInv, RequestsOK
<1>2. new \in RequestRecord /\ new.pc = "done"
  BY <1>1, NewRequestIsOK DEF RequestRecord
<1>3. req' = [req EXCEPT ![r] = new] /\ req'[r] = new
  BY <1>1 DEF ReleaseLocks
<1> HIDE DEF new
<1>4. QED
  BY <1>2, <1>3 DEF RequestMove, RequestOK

LEMMA StepsMove ==
    ASSUME TypeInv, NEW r \in Requests, Step(r) \/ RollsBack(r)
    PROVE  RequestMove(r)
<1>1. CASE Begin(r)
  <2> DEFINE pc == IF req[r].kind \in TakesTheSetFirst THEN "set" ELSE "problem"
  <2>1. RequestOK(req[r]) /\ req \in [Requests -> RequestRecord] /\ req[r].pc = "begin"
    BY <1>1 DEF Begin, TypeInv, RequestsOK
  <2>2. PICK snapshot \in Snapshot : snapshot = Now
    BY DEF Now, Snapshot, TypeInv, TablesOK
  <2>3. /\ req'[r] = [req[r] EXCEPT !.saw = snapshot, !.pc = pc]
        /\ req' = [req EXCEPT ![r] = req'[r]]
    BY <1>1, <2>1, <2>2 DEF Begin
  <2>4. pc \in {"set", "problem"}
    OBVIOUS
  <2> HIDE DEF pc
  <2>5. RequestOK(req'[r]) /\ req'[r].pc = pc
    <3> DEFINE old == req[r]
               new == req'[r]
    <3>1. RequestOK(old) /\ old.pc = "begin" /\ new = [old EXCEPT !.saw = snapshot, !.pc = pc]
      BY <2>1, <2>3
    <3> HIDE DEF old, new
    <3>2. RequestOK(new) /\ new.pc = pc
      BY <2>4, <3>1, BegunIsOK
    <3>3. QED
      BY <3>2 DEF new
  <2>6. Begins(r)
    BY <1>1, <2>2, <2>3, <2>5 DEF Begins, pc
  <2>7. QED
    BY <2>3, <2>5, <2>6 DEF RequestMove
<1>2. CASE LockSet(r)
  <2> DEFINE pc == IF req[r].kind \in TakesNoProblem THEN "check" ELSE "problem"
  <2>1. req[r].pc = "set" /\ pc \in {"problem", "check"} /\ req' = [req EXCEPT ![r].pc = pc]
    BY <1>2 DEF LockSet
  <2> HIDE DEF pc
  <2>2. /\ req' = [req EXCEPT ![r] = req'[r]]
        /\ RequestOK(req'[r]) /\ OnlyMoves(r) /\ req'[r].pc = pc
    BY <2>1, OneRequestMoves
  <2>3. QED
    BY <1>2, <2>2 DEF RequestMove, pc
<1>3. ASSUME NEW p \in Problems, LockProblem(r, p) PROVE RequestMove(r)
  <2> DEFINE pc == IF Wanted(r) \subseteq Held(r) \cup {p} THEN "check" ELSE "problem"
  <2>1. req[r].pc = "problem" /\ pc \in {"problem", "check"} /\ req' = [req EXCEPT ![r].pc = pc]
    BY <1>3 DEF LockProblem
  <2> HIDE DEF pc
  <2>2. /\ req' = [req EXCEPT ![r] = req'[r]]
        /\ RequestOK(req'[r]) /\ OnlyMoves(r) /\ req'[r].pc = pc
    BY <2>1, OneRequestMoves
  <2>3. QED
    BY <1>3, <2>2 DEF RequestMove, pc
<1>4. CASE Check(r)
  <2>1. /\ req' = [req EXCEPT ![r] = req'[r]]
        /\ RequestOK(req'[r]) /\ OnlyMoves(r) /\ req'[r].pc = "commit"
    BY <1>4, OneRequestMoves DEF Check
  <2>2. QED
    BY <1>4, <2>1 DEF RequestMove
<1>5. CASE ReleaseLocks(r)
  BY <1>5, ReleasingMoves
<1>6. QED
  BY <1>1, <1>2, <1>3, <1>4, <1>5
  DEF Step, RollsBack, Commits, CommitMarks, CommitGroup, CommitSettings, CommitMemberships,
      CommitSubmit, CommitUnpublish, CommitAutograde

LEMMA ClearingIsDone ==
    ASSUME TypeInv, NEW r \in Requests, \E s \in Students, p \in Problems : ClearGrade(r, s, p)
    PROVE  req'[r].pc = "done"
<1>1. req'[r] = [NewRequest EXCEPT !.kind = "clear", !.pc = "done"]
  BY DEF ClearGrade, TypeInv, RequestsOK
<1>2. QED
  BY <1>1 DEF NewRequest

\* A request that comes arrives, at the first step of its kind.
LEMMA ComesByArriving ==
    ASSUME TypeInv, NEW r \in Requests, Comes(r), Arrives(r) \/ Step(r) \/ RollsBack(r)
    PROVE  /\ Arrives(r)
           /\ req'[r].kind \in Menu[r] \cap Kinds /\ req'[r].kind # "clear"
           /\ req'[r].pc = FirstStep(req'[r].kind)
<1>1. Arrives(r)
  BY DEF Comes, Step, RollsBack, Running, Begin, LockSet, LockProblem, Check, Commits,
         CommitMarks, CommitGroup, CommitSettings, CommitMemberships, CommitSubmit,
         CommitUnpublish, CommitAutograde
<1>2. ASSUME NEW kind, NEW request, kind # "clear", Arrive(r, kind, request)
      PROVE  req'[r].kind \in Menu[r] \cap Kinds /\ req'[r].kind # "clear" /\ req'[r].pc = FirstStep(req'[r].kind)
  <2>1. req'[r] = [request EXCEPT !.kind = kind, !.pc = FirstStep(kind)]
    BY <1>2 DEF Arrive, TypeInv, RequestsOK
  <2>2. req'[r] \in RequestRecord
    BY <1>1, ArrivalsMove DEF RequestMove, RequestOK
  <2>3. req'[r].kind = kind /\ req'[r].pc = FirstStep(kind)
    BY <2>1, <2>2 DEF RequestRecord
  <2>4. kind \in Menu[r] \cap Kinds
    BY <1>2, RequestsAssumption DEF Arrive
  <2>5. QED
    BY <1>2, <2>3, <2>4
<1>3. ~ \E s \in Students, p \in Problems : ClearGrade(r, s, p)
  BY ClearingIsDone DEF Comes
<1>4. QED
  BY <1>1, <1>2, <1>3
  DEF Arrives, ArriveSingle, ArriveBatch, ArriveGroup, ArriveSettings, ArriveMemberships,
      ArriveSubmit, ArriveUnpublish, ArriveAutograde

----------------------------------------------------------------------------
(* Type correctness.                                                       *)

LEMMA RequestsStayOK ==
    ASSUME TypeInv, NEW r \in Requests, Arrives(r) \/ Step(r) \/ RollsBack(r)
    PROVE  RequestsOK' /\ \A q \in Requests : q # r => req'[q] = req[q]
<1>1. req' = [req EXCEPT ![r] = req'[r]] /\ RequestOK(req'[r])
  BY ArrivalsMove, StepsMove DEF RequestMove
<1>2. req'[r] \in RequestRecord
  BY <1>1 DEF RequestOK
<1>3. \A q \in Requests : q # r => req'[q] = req[q]
  BY <1>1 DEF TypeInv, RequestsOK
<1>4. \A q \in Requests : RequestOK(req'[q])
  BY <1>1, <1>3 DEF TypeInv, RequestsOK
<1>5. req' \in [Requests -> RequestRecord]
  BY <1>1, <1>2 DEF TypeInv, RequestsOK
<1>6. QED
  BY <1>3, <1>4, <1>5 DEF RequestsOK

\* What the requests that write know of what they write.
LEMMA AtCommit ==
    ASSUME TypeInv, NEW r \in Requests, NEW kinds, Commits(r, kinds)
    PROVE  /\ req[r] \in RequestRecord /\ req[r].kind \in kinds /\ req[r].pc = "commit"
           /\ req[r].kind \in ByStudent => req[r].student \in Students
           /\ req[r].kind \in ByProblem => req[r].problem \in Problems
           /\ req[r].kind = "settings" => req[r].marks[req[r].problem] \in Points
           /\ req[r].kind = "group" => req[r].marks[req[r].problem] \in Marks
           /\ req[r].kind \in Serializable => req[r].saw \in Snapshot
           /\ req[r].marks \in [Problems -> {Keep, Clear} \cup Marks \cup Points]
           /\ req[r].group \in Groups \cup {NoGroup}
<1>1. RequestOK(req[r]) /\ req[r].pc = "commit" /\ req[r].kind \in kinds
  BY DEF TypeInv, RequestsOK, Commits
<1>2. req[r] \in RequestRecord
  BY <1>1 DEF RequestOK
<1>3. /\ req[r].marks \in [Problems -> {Keep, Clear} \cup Marks \cup Points]
      /\ req[r].group \in Groups \cup {NoGroup}
  BY <1>2 DEF RequestRecord
<1>4. QED
  BY <1>1, <1>2, <1>3 DEF RequestOK

LEMMA GradesAreTyped ==
    /\ NoGrade \in Grade
    /\ \A v \in Points \cup Marks \cup {0}, manual \in BOOLEAN :
         [value |-> v, manual |-> manual] \in Grade
BY DEF Grade

LEMMA TablesStayOK ==
    ASSUME TypeInv, NEW r \in Requests, Arrives(r) \/ Step(r) \/ RollsBack(r)
    PROVE  TablesOK'
<1>1. /\ points \in [Problems -> Points]
      /\ grades \in [Students -> [Problems -> Grade]]
      /\ member \in [Students -> Groups \cup {NoGroup}]
      /\ locked \in BOOLEAN /\ published \in BOOLEAN /\ filed \subseteq Submission
  BY DEF TypeInv, TablesOK
<1>2. CASE UNCHANGED <<points, grades, member, locked, published, filed>>
  BY <1>1, <1>2 DEF TablesOK
<1>3. ASSUME NEW s \in Students, NEW p \in Problems, ClearGrade(r, s, p) PROVE TablesOK'
  BY <1>1, <1>3, GradesAreTyped DEF ClearGrade, TablesOK
<1>4. CASE CommitMarks(r)
  <2> DEFINE s == req[r].student
             new == [p \in Problems |-> Marked(grades[s][p], req[r].marks[p])]
  <2>1. Commits(r, {"single", "batch"})
    BY <1>4 DEF CommitMarks
  <2>2. s \in Students /\ req[r].marks \in [Problems -> {Keep, Clear} \cup Marks \cup Points]
    BY <2>1, AtCommit DEF ByStudent
  <2>3. ASSUME NEW grade \in Grade, NEW mark \in {Keep, Clear} \cup Marks \cup Points
        PROVE  Marked(grade, mark) \in Grade
    BY GradesAreTyped DEF Marked, HandGrade
  <2>4. grades[s] \in [Problems -> Grade]
    BY <1>1, <2>2
  <2>5. new \in [Problems -> Grade]
    BY <2>2, <2>3, <2>4
  <2>6. grades' = [grades EXCEPT ![s] = new]
    BY <1>4 DEF CommitMarks
  <2>7. locked' \in BOOLEAN /\ UNCHANGED <<points, member, published, filed>>
    BY <1>1, <1>4 DEF CommitMarks
  <2> HIDE DEF new, s
  <2>8. grades' \in [Students -> [Problems -> Grade]]
    BY <1>1, <2>5, <2>6
  <2>9. QED
    BY <1>1, <2>7, <2>8 DEF TablesOK
<1>5. CASE CommitGroup(r)
  <2> DEFINE p == req[r].problem
             grade == HandGrade(req[r].marks[p])
  <2>1. Commits(r, {"group"})
    BY <1>5 DEF CommitGroup
  <2>2. p \in Problems /\ req[r].marks[p] \in Marks
    BY <2>1, AtCommit DEF ByProblem
  <2>3. grade \in Grade
    BY <2>2, GradesAreTyped DEF HandGrade
  <2>4. grades' = [s \in Students |-> IF s \in MembersSeen(r) THEN [grades[s] EXCEPT ![p] = grade]
                                     ELSE grades[s]]
    BY <1>5 DEF CommitGroup
  <2>5. locked' = TRUE /\ UNCHANGED <<points, member, published, filed>>
    BY <1>5 DEF CommitGroup
  <2> HIDE DEF grade, p
  <2>6. grades' \in [Students -> [Problems -> Grade]]
    BY <1>1, <2>2, <2>3, <2>4
  <2>7. QED
    BY <1>1, <2>5, <2>6 DEF TablesOK
<1>6. CASE CommitSettings(r)
  <2>1. Commits(r, {"settings"})
    BY <1>6 DEF CommitSettings
  <2>2. req[r].marks[req[r].problem] \in Points
    BY <2>1, AtCommit
  <2>3. QED
    BY <1>1, <1>6, <2>2 DEF CommitSettings, TablesOK
<1>7. CASE CommitMemberships(r)
  <2>1. Commits(r, {"memberships"})
    BY <1>7 DEF CommitMemberships
  <2>2. req[r].group \in Groups \cup {NoGroup}
    BY <2>1, AtCommit
  <2>3. QED
    BY <1>1, <1>7, <2>2 DEF CommitMemberships, TablesOK
<1>8. CASE CommitSubmit(r)
  <2> DEFINE new == [by |-> r, student |-> req[r].student, group |-> GroupSeen(r),
                     problem |-> req[r].problem]
  <2>1. Commits(r, {"submit"})
    BY <1>8 DEF CommitSubmit
  <2>2. req[r].student \in Students /\ req[r].problem \in Problems /\ req[r].saw \in Snapshot
    BY <2>1, AtCommit DEF ByStudent, ByProblem, Serializable
  <2>3. GroupSeen(r) \in Groups \cup {NoGroup}
    BY <2>2 DEF GroupSeen, Snapshot
  <2>4. new \in Submission
    BY <2>2, <2>3 DEF Submission
  <2>5. filed' = filed \cup {new} /\ locked' = TRUE /\ UNCHANGED <<points, grades, member, published>>
    BY <1>8 DEF CommitSubmit
  <2> HIDE DEF new
  <2>6. QED
    BY <1>1, <2>4, <2>5 DEF TablesOK
<1>9. CASE CommitUnpublish(r)
  BY <1>1, <1>9 DEF CommitUnpublish, TablesOK
<1>10. CASE CommitAutograde(r)
  <2> DEFINE p == req[r].problem
  <2>1. Commits(r, {"autograde"})
    BY <1>10 DEF CommitAutograde
  <2>2. p \in Problems /\ req[r].saw \in Snapshot
    BY <2>1, AtCommit DEF ByProblem, Serializable
  <2>3. Earned(r) \in Points \cup Marks \cup {0}
    BY <2>2 DEF Earned, Snapshot
  <2>4. \A s \in Students : Autograded(r, s) \in Grade
    BY <1>1, <2>2, <2>3, GradesAreTyped DEF Autograded
  <2>5. grades' = [s \in Students |-> IF s \in Targets(r)
                                     THEN [grades[s] EXCEPT ![p] = Autograded(r, s)] ELSE grades[s]]
    BY <1>10 DEF CommitAutograde
  <2>6. UNCHANGED <<points, member, locked, published, filed>>
    BY <1>10 DEF CommitAutograde
  <2> HIDE DEF p
  <2>7. grades' \in [Students -> [Problems -> Grade]]
    BY <1>1, <2>2, <2>4, <2>5
  <2>8. QED
    BY <1>1, <2>6, <2>7 DEF TablesOK
<1>11. CASE Arrives(r)
  <2>1. CASE \E s \in Students, p \in Problems : ClearGrade(r, s, p)
    BY <2>1, <1>3
  <2>2. ASSUME NEW kind, NEW request, Arrive(r, kind, request) PROVE TablesOK'
    BY <1>2, <2>2 DEF Arrive
  <2>3. QED
    BY <1>11, <2>1, <2>2
    DEF Arrives, ArriveSingle, ArriveBatch, ArriveGroup, ArriveSettings, ArriveMemberships,
        ArriveSubmit, ArriveUnpublish, ArriveAutograde
<1>12. QED
  BY <1>2, <1>4, <1>5, <1>6, <1>7, <1>8, <1>9, <1>10, <1>11
  DEF Step, RollsBack, Begin, LockSet, LockProblem, Check

\* No step takes a row from the request that holds it but its own.
LEMMA LocksStayOK ==
    ASSUME TypeInv, NEW r \in Requests, Arrives(r) \/ Step(r) \/ RollsBack(r)
    PROVE  /\ LocksOK'
           /\ \A q \in Requests : q # r => /\ setLock = q => setLock' = q
                                          /\ Held(q) \subseteq Held(q)'
<1>1. setLock \in Requests \cup {Nobody} /\ problemLock \in [Problems -> Requests \cup {Nobody}]
  BY DEF TypeInv, LocksOK
<1>2. CASE UNCHANGED <<setLock, problemLock>>
  BY <1>1, <1>2 DEF LocksOK, Held
<1>3. CASE LockSet(r)
  BY <1>1, <1>3, RequestsAssumption DEF LockSet, LocksOK, Held
<1>4. ASSUME NEW p \in Problems, LockProblem(r, p)
      PROVE  /\ LocksOK'
             /\ \A q \in Requests : q # r => /\ setLock = q => setLock' = q
                                            /\ Held(q) \subseteq Held(q)'
  BY <1>1, <1>4, RequestsAssumption DEF LockProblem, LocksOK, Held
<1>5. CASE ReleaseLocks(r)
  BY <1>1, <1>5, RequestsAssumption DEF ReleaseLocks, LocksOK, Held
<1>6. RequestMove(r)
  BY ArrivalsMove, StepsMove
<1>7. QED
  BY <1>2, <1>3, <1>4, <1>5, <1>6 DEF RequestMove, Comes, ClearGrade, Begins, Begin, Check

LEMMA TypeInvInit == Init => TypeInv
<1> SUFFICES ASSUME Init PROVE TypeInv
  OBVIOUS
<1>1. RequestsOK
  BY NewRequestIsOK DEF Init, RequestsOK
<1>2. LocksOK
  BY DEF Init, LocksOK
<1>3. Placement \in [Students -> Groups \cup {NoGroup}]
  BY CourseAssumption
<1>4. filed \subseteq Submission
  BY <1>3 DEF Init, Submission
<1>5. grades \in [Students -> [Problems -> Grade]]
  BY GradesAreTyped DEF Init
<1>6. TablesOK
  BY <1>3, <1>4, <1>5 DEF Init, TablesOK
<1>7. QED
  BY <1>1, <1>2, <1>6 DEF TypeInv

LEMMA TypeInvNext == TypeInv /\ [Next]_vars => TypeInv'
<1> SUFFICES ASSUME TypeInv, [Next]_vars PROVE TypeInv'
  OBVIOUS
<1>1. CASE Next
  BY <1>1, RequestsStayOK, TablesStayOK, LocksStayOK DEF Next, TypeInv
<1>2. CASE UNCHANGED vars
  BY <1>2 DEF vars, TypeInv, RequestsOK, TablesOK, LocksOK
<1>3. QED
  BY <1>1, <1>2

LEMMA TypeInvHolds == Spec => []TypeInv
BY TypeInvInit, TypeInvNext, PTL DEF Spec

\* The tables, the locks and the requests stay of their types.
THEOREM TypeCorrect == Spec => []TypeOK
BY TypeInvHolds, TypeInvIsTyped, PTL

----------------------------------------------------------------------------
(* What a step writes.                                                     *)

CommitsWork(r) ==
    \/ CommitMarks(r) \/ CommitGroup(r) \/ CommitSettings(r) \/ CommitMemberships(r)
    \/ CommitSubmit(r) \/ CommitUnpublish(r) \/ CommitAutograde(r)

\* The tables change by a commit, or where one grade is cleared.
LEMMA OnlyCommitsWrite ==
    ASSUME TypeInv, NEW r \in Requests, Arrives(r) \/ Step(r) \/ RollsBack(r)
    PROVE  \/ CommitsWork(r)
           \/ \E s \in Students, p \in Problems : ClearGrade(r, s, p)
           \/ UNCHANGED <<points, grades, member, locked, published, filed>>
<1>1. CASE Step(r) \/ RollsBack(r)
  BY <1>1 DEF Step, RollsBack, CommitsWork, Begin, LockSet, LockProblem, Check
<1>2. CASE Arrives(r)
  <2>1. ASSUME NEW kind, NEW request, Arrive(r, kind, request)
        PROVE  UNCHANGED <<points, grades, member, locked, published, filed>>
    BY <2>1 DEF Arrive
  <2>2. QED
    BY <1>2, <2>1
    DEF Arrives, ArriveSingle, ArriveBatch, ArriveGroup, ArriveSettings, ArriveMemberships,
        ArriveSubmit, ArriveUnpublish, ArriveAutograde
<1>3. QED
  BY <1>1, <1>2

\* A request that was about to commit is done by its own commit or not at all.
LEMMA WhoFinishes ==
    ASSUME TypeInv, [Next]_vars, NEW r \in Requests, req[r].pc = "commit", req'[r].pc = "done"
    PROVE  RollsBack(r) \/ CommitsWork(r)
<1>1. PICK q \in Requests : Arrives(q) \/ Step(q) \/ RollsBack(q)
  BY DEF Next, vars
<1>2. q = r
  BY <1>1, RequestsStayOK
<1>3. ~Arrives(r)
  <2>1. ASSUME NEW kind, NEW request, Arrive(r, kind, request) PROVE FALSE
    BY <2>1 DEF Arrive
  <2>2. QED
    BY <2>1
    DEF Arrives, ArriveSingle, ArriveBatch, ArriveGroup, ArriveSettings, ArriveMemberships,
        ArriveSubmit, ArriveUnpublish, ArriveAutograde, ClearGrade
<1>4. QED
  BY <1>1, <1>2, <1>3 DEF Step, Begin, LockSet, LockProblem, Check, CommitsWork

\* A mark entered by hand survives the worker: what the worker saw without it
\* was written since, and that refuses its transaction.
THEOREM HandMarksSurvive == Spec => HandMarksSurviveTheWorker
<1>1. ASSUME TypeInv, [Next]_vars, NEW r \in Requests, req[r].kind = "autograde",
             req[r].pc = "commit", req'[r].pc = "done",
             NEW s \in Students, NEW p \in Problems, grades[s][p].manual
      PROVE  grades'[s][p] = grades[s][p]
  <2>1. CASE RollsBack(r)
    BY <2>1 DEF RollsBack
  <2>2. CASE CommitAutograde(r)
    <3> DEFINE own == req[r].problem
    <3>1. grades \in [Students -> [Problems -> Grade]] /\ own \in Problems
      BY <1>1, <2>2, AtCommit DEF CommitAutograde, ByProblem, TypeInv, TablesOK
    <3>2. grades' = [j \in Students |-> IF j \in Targets(r)
                       THEN [grades[j] EXCEPT ![own] = Autograded(r, j)] ELSE grades[j]]
      BY <2>2 DEF CommitAutograde
    <3>3. ASSUME s \in Targets(r), p = own PROVE Autograded(r, s) = grades[s][p]
      <4>1. MayAutograde(r, s)
        BY <2>2, <3>3 DEF CommitAutograde
      <4>2. req[r].saw.grades[s][p].manual
        BY <1>1, <3>3, <4>1 DEF MayAutograde
      <4>3. grades[s][p] # NoGrade
        BY <1>1 DEF NoGrade
      <4>4. QED
        BY <3>3, <4>2, <4>3 DEF Autograded
    <3> HIDE DEF own
    <3>4. QED
      BY <3>1, <3>2, <3>3
  <2>3. RollsBack(r) \/ CommitsWork(r)
    BY <1>1, WhoFinishes
  <2>4. QED
    BY <1>1, <2>1, <2>2, <2>3
    DEF CommitsWork, CommitMarks, CommitGroup, CommitSettings, CommitMemberships,
        CommitSubmit, CommitUnpublish, Commits
<1>2. TypeInv /\ [Next]_vars =>
        [\A r \in Requests :
            req[r].kind = "autograde" /\ req[r].pc = "commit" /\ req'[r].pc = "done" =>
                \A s \in Students, p \in Problems :
                    grades[s][p].manual => grades'[s][p] = grades[s][p]]_vars
  BY <1>1
<1>3. QED
  BY <1>2, TypeInvHolds, PTL DEF Spec, HandMarksSurviveTheWorker

----------------------------------------------------------------------------
(* What a request holds when it decides and writes.                        *)

HoldsTheSet(r) ==
    req[r].kind \in TakesTheSetFirst /\ req[r].pc \in {"problem", "check", "commit"} => setLock = r

HoldsItsProblems(r) ==
    req[r].kind \notin TakesNoProblem /\ req[r].pc \in {"check", "commit"} => Wanted(r) \subseteq Held(r)

HeldInv == \A r \in Requests : HoldsTheSet(r) /\ HoldsItsProblems(r)

LEMMA HeldInvNext ==
    ASSUME TypeInv, HeldInv, NEW r \in Requests, Arrives(r) \/ Step(r) \/ RollsBack(r)
    PROVE  HeldInv'
<1>1. ASSUME NEW q \in Requests, q # r PROVE HoldsTheSet(q)' /\ HoldsItsProblems(q)'
  <2>1. req'[q] = req[q] /\ (setLock = q => setLock' = q) /\ Held(q) \subseteq Held(q)'
    BY <1>1, RequestsStayOK, LocksStayOK
  <2>2. Wanted(q)' = Wanted(q)
    BY <2>1 DEF Wanted
  <2>3. HoldsTheSet(q) /\ HoldsItsProblems(q)
    BY DEF HeldInv
  <2>4. HoldsTheSet(q)'
    BY <2>1, <2>3 DEF HoldsTheSet
  <2>5. HoldsItsProblems(q)'
    BY <2>1, <2>2, <2>3 DEF HoldsItsProblems
  <2>6. QED
    BY <2>4, <2>5
<1>2. HoldsTheSet(r)' /\ HoldsItsProblems(r)'
  <2>1. req[r] \in RequestRecord /\ HoldsTheSet(r) /\ HoldsItsProblems(r)
    BY DEF TypeInv, RequestsOK, HeldInv
  <2>2. ASSUME OnlyMoves(r)
        PROVE  req'[r].kind = req[r].kind /\ req'[r].problem = req[r].problem /\ Wanted(r)' = Wanted(r)
    BY <2>1, <2>2 DEF OnlyMoves, RequestRecord, Wanted
  <2>3. CASE Comes(r)
    BY <2>3 DEF Comes, HoldsTheSet, HoldsItsProblems
  <2>4. CASE req'[r].pc = "done"
    BY <2>4 DEF HoldsTheSet, HoldsItsProblems
  <2>5. CASE Begins(r)
    <3>1. req'[r].kind = req[r].kind
      BY <2>1, <2>5 DEF Begins, RequestRecord
    <3>2. QED
      BY <2>5, <3>1 DEF Begins, HoldsTheSet, HoldsItsProblems
  <2>6. CASE /\ LockSet(r) /\ OnlyMoves(r)
             /\ req'[r].pc = IF req[r].kind \in TakesNoProblem THEN "check" ELSE "problem"
    <3>1. setLock' = r /\ req'[r].kind = req[r].kind
      BY <2>2, <2>6 DEF LockSet
    <3>2. QED
      BY <2>6, <3>1 DEF HoldsTheSet, HoldsItsProblems
  <2>7. ASSUME NEW p \in Problems, LockProblem(r, p), OnlyMoves(r),
               req'[r].pc = IF Wanted(r) \subseteq Held(r) \cup {p} THEN "check" ELSE "problem"
        PROVE  HoldsTheSet(r)' /\ HoldsItsProblems(r)'
    <3>1. req[r].pc = "problem" /\ UNCHANGED setLock /\ problemLock' = [problemLock EXCEPT ![p] = r]
      BY <2>7 DEF LockProblem
    <3>2. Held(r) \cup {p} \subseteq Held(r)'
      BY <3>1 DEF Held, TypeInv, LocksOK
    <3>3. req'[r].kind = req[r].kind /\ Wanted(r)' = Wanted(r)
      BY <2>2, <2>7
    <3>4. HoldsTheSet(r)'
      BY <2>1, <3>1, <3>3 DEF HoldsTheSet
    <3>5. HoldsItsProblems(r)'
      BY <2>7, <3>2, <3>3 DEF HoldsItsProblems
    <3>6. QED
      BY <3>4, <3>5
  <2>8. CASE Check(r) /\ OnlyMoves(r) /\ req'[r].pc = "commit"
    <3>1. req[r].pc = "check" /\ UNCHANGED <<setLock, problemLock>>
      BY <2>8 DEF Check
    <3>2. req'[r].kind = req[r].kind /\ Wanted(r)' = Wanted(r)
      BY <2>2, <2>8
    <3>3. HoldsTheSet(r)'
      BY <2>1, <3>1, <3>2 DEF HoldsTheSet
    <3>4. HoldsItsProblems(r)'
      BY <2>1, <3>1, <3>2 DEF HoldsItsProblems, Held
    <3>5. QED
      BY <3>3, <3>4
  <2>9. RequestMove(r)
    BY ArrivalsMove, StepsMove
  <2>10. QED
    BY <2>3, <2>4, <2>5, <2>6, <2>7, <2>8, <2>9 DEF RequestMove
<1>3. QED
  BY <1>1, <1>2 DEF HeldInv

----------------------------------------------------------------------------
(* What it decided still holds when it writes.                             *)

\* On its snapshot, which does not move.
DecidedAsSeen(r) ==
    req[r].pc = "commit" =>
        /\ req[r].kind = "group" => NoConflict(r)
        /\ req[r].kind = "submit" => BelowTheCap(r)

\* Under the rows it holds.
DecidedUnderLocks(r) ==
    req[r].pc = "commit" =>
        /\ req[r].kind = "memberships" => ~locked
        /\ req[r].kind = "unpublish" => NoWork

UsedIsLocked == Used => locked

Inv ==
    /\ TypeInv /\ HeldInv /\ UsedIsLocked
    /\ \A r \in Requests : DecidedAsSeen(r) /\ DecidedUnderLocks(r)

LEMMA DecidedAsSeenNext ==
    ASSUME TypeInv, \A q \in Requests : DecidedAsSeen(q),
           NEW r \in Requests, Arrives(r) \/ Step(r) \/ RollsBack(r), NEW q \in Requests
    PROVE  DecidedAsSeen(q)'
<1>1. CASE req'[q] = req[q]
  BY <1>1 DEF DecidedAsSeen, NoConflict, MembersSeen, BelowTheCap, CountScope, GroupSeen
<1>2. CASE Check(r) /\ OnlyMoves(r) /\ q = r
  <2>1. /\ req'[r].kind = req[r].kind /\ req'[r].problem = req[r].problem
        /\ req'[r].student = req[r].student /\ req'[r].group = req[r].group
        /\ req'[r].marks = req[r].marks /\ req'[r].overwrite = req[r].overwrite
        /\ req'[r].saw = req[r].saw
    BY <1>2 DEF OnlyMoves, TypeInv, RequestsOK, RequestRecord
  <2>2. req[r].kind = "group" => NoConflict(r)
    BY <1>2 DEF Check, Allowed
  <2>3. req[r].kind = "submit" => BelowTheCap(r)
    BY <1>2 DEF Check, Allowed
  <2>4. NoConflict(r)' = NoConflict(r)
    BY <2>1 DEF NoConflict, MembersSeen
  <2>5. BelowTheCap(r)' = BelowTheCap(r)
    BY <2>1 DEF BelowTheCap, CountScope, GroupSeen
  <2>6. QED
    BY <1>2, <2>1, <2>2, <2>3, <2>4, <2>5 DEF DecidedAsSeen
<1>3. CASE q = r /\ req'[r].pc # "commit"
  BY <1>3 DEF DecidedAsSeen
<1>4. RequestMove(r) /\ (q # r => req'[q] = req[q])
  BY ArrivalsMove, StepsMove, RequestsStayOK
<1>5. QED
  BY <1>1, <1>2, <1>3, <1>4 DEF RequestMove, Comes, Begins

\* An unpublish about to commit shares no problem with another writer.
LEMMA UnpublishIsAlone ==
    ASSUME TypeInv, HeldInv, NEW q \in Requests, NEW r \in Requests, q # r,
           req[q].kind = "unpublish", req[q].pc = "commit",
           NEW kinds, Commits(r, kinds), req[r].kind # "memberships"
    PROVE  Wanted(r) \cap Problems = {}
<1>1. Wanted(q) \subseteq Held(q) /\ Wanted(q) = Problems
  BY DEF HeldInv, HoldsItsProblems, TakesNoProblem, Wanted
<1>2. Wanted(r) \subseteq Held(r)
  BY DEF HeldInv, HoldsItsProblems, TakesNoProblem, Commits
<1>3. QED
  BY <1>1, <1>2 DEF Held

\* A commit that marks or files by hand leaves the group set locked.
LEMMA UsedIsLockedNext ==
    ASSUME TypeInv, UsedIsLocked, NEW r \in Requests, Arrives(r) \/ Step(r) \/ RollsBack(r)
    PROVE  UsedIsLocked' /\ (locked => locked')
<1>1. grades \in [Students -> [Problems -> Grade]] /\ locked \in BOOLEAN
  BY DEF TypeInv, TablesOK
<1>2. CASE UNCHANGED <<grades, locked, filed>>
  BY <1>2 DEF UsedIsLocked, Used
<1>3. ~NoGrade.manual
  BY DEF NoGrade
<1>4. ASSUME NEW s \in Students, NEW p \in Problems, ClearGrade(r, s, p)
      PROVE  UsedIsLocked' /\ (locked => locked')
  <2>1. UNCHANGED <<locked, filed>> /\ grades' = [grades EXCEPT ![s][p] = NoGrade]
    BY <1>4 DEF ClearGrade
  <2>2. \A j \in Students, k \in Problems : grades'[j][k] \in {grades[j][k], NoGrade}
    BY <1>1, <2>1
  <2>3. QED
    BY <1>3, <2>1, <2>2 DEF UsedIsLocked, Used
<1>5. CASE CommitMarks(r)
  <2> DEFINE s == req[r].student
             new == [p \in Problems |-> Marked(grades[s][p], req[r].marks[p])]
  <2>1. Commits(r, {"single", "batch"})
    BY <1>5 DEF CommitMarks
  <2>2. s \in Students /\ req[r].marks \in [Problems -> {Keep, Clear} \cup Marks \cup Points]
    BY <2>1, AtCommit DEF ByStudent
  <2>3. ASSUME NEW p \in Problems, new[p].manual PROVE grades[s][p].manual \/ SetsAMark(r)
    <3>1. Clear # Keep
      BY DEF Clear, Keep
    <3>2. CASE req[r].marks[p] = Keep
      BY <2>3, <3>1, <3>2 DEF Marked
    <3>3. CASE req[r].marks[p] = Clear
      BY <1>3, <2>3, <3>1, <3>3 DEF Marked
    <3>4. CASE req[r].marks[p] \in Marks \cup Points
      BY <3>4, CourseAssumption DEF SetsAMark
    <3>5. QED
      BY <2>2, <3>2, <3>3, <3>4
  <2>4. /\ grades' = [grades EXCEPT ![s] = new] /\ locked' = (locked \/ SetsAMark(r))
        /\ UNCHANGED filed
    BY <1>5 DEF CommitMarks
  <2> HIDE DEF new, s
  <2>5. \A j \in Students, p \in Problems :
           grades'[j][p].manual => grades[j][p].manual \/ SetsAMark(r)
    BY <1>1, <2>2, <2>3, <2>4
  <2>6. QED
    BY <2>4, <2>5 DEF UsedIsLocked, Used
<1>6. CASE CommitGroup(r) \/ CommitSubmit(r)
  BY <1>6 DEF CommitGroup, CommitSubmit, UsedIsLocked
<1>7. CASE CommitAutograde(r)
  <2> DEFINE own == req[r].problem
  <2>1. /\ UNCHANGED <<locked, filed>>
        /\ grades' = [s \in Students |-> IF s \in Targets(r)
                        THEN [grades[s] EXCEPT ![own] = Autograded(r, s)] ELSE grades[s]]
    BY <1>7 DEF CommitAutograde
  <2>2. \A s \in Students : Autograded(r, s).manual => grades[s][own].manual
    BY DEF Autograded
  <2> HIDE DEF own
  <2>3. \A s \in Students, p \in Problems : grades'[s][p].manual => grades[s][p].manual
    BY <1>1, <2>1, <2>2
  <2>4. QED
    BY <2>1, <2>3 DEF UsedIsLocked, Used
<1>8. QED
  BY <1>2, <1>4, <1>5, <1>6, <1>7, OnlyCommitsWrite
  DEF CommitsWork, CommitSettings, CommitMemberships, CommitUnpublish

\* While somebody else is to commit a change of the groups nobody locks the set.
LEMMA SetStaysUnlocked ==
    ASSUME TypeInv, HeldInv, NEW q \in Requests, NEW r \in Requests, q # r,
           req[q].kind = "memberships", req[q].pc = "commit", ~locked,
           Arrives(r) \/ Step(r) \/ RollsBack(r)
    PROVE  ~locked'
<1>1. setLock = q /\ q # Nobody
  BY RequestsAssumption DEF HeldInv, HoldsTheSet, TakesTheSetFirst
<1>2. CASE CommitMarks(r)
  BY <1>1, <1>2 DEF CommitMarks, Commits, StampWaits
<1>3. ~CommitGroup(r) /\ ~CommitSubmit(r)
  BY <1>1 DEF CommitGroup, CommitSubmit, Commits, HeldInv, HoldsTheSet, TakesTheSetFirst
<1>4. QED
  BY <1>2, <1>3, OnlyCommitsWrite
  DEF CommitsWork, CommitSettings, CommitMemberships, CommitUnpublish, CommitAutograde, ClearGrade

\* While somebody else is to commit an unpublish nobody grades or hands in.
LEMMA WorkStaysAway ==
    ASSUME TypeInv, HeldInv, NEW q \in Requests, NEW r \in Requests, q # r,
           req[q].kind = "unpublish", req[q].pc = "commit", NoWork,
           Arrives(r) \/ Step(r) \/ RollsBack(r)
    PROVE  NoWork'
<1>1. grades \in [Students -> [Problems -> Grade]]
  BY DEF TypeInv, TablesOK
<1>2. CASE UNCHANGED <<grades, filed>>
  BY <1>2 DEF NoWork
<1>3. ASSUME NEW s \in Students, NEW p \in Problems, ClearGrade(r, s, p) PROVE NoWork'
  <2>1. UNCHANGED filed /\ grades' = [grades EXCEPT ![s][p] = NoGrade]
    BY <1>3 DEF ClearGrade
  <2>2. QED
    BY <1>1, <2>1 DEF NoWork
<1>4. ASSUME NEW kinds, Commits(r, kinds), req[r].kind \in ByProblem PROVE FALSE
  <2>1. Wanted(r) = {req[r].problem} /\ req[r].problem \in Problems
    BY <1>4, AtCommit DEF Wanted, ByProblem
  <2>2. QED
    BY <1>4, <2>1, UnpublishIsAlone DEF ByProblem
<1>5. CASE CommitMarks(r)
  <2>1. Commits(r, {"single", "batch"})
    BY <1>5 DEF CommitMarks
  <2>2. req[r].kind = "batch"
    BY <1>4, <2>1 DEF Commits, ByProblem
  <2>3. Wanted(r) \cap Problems = {}
    BY <2>1, <2>2, UnpublishIsAlone
  <2>4. Problems = {}
    BY <2>2, <2>3 DEF Wanted
  <2>5. UNCHANGED filed
    BY <1>5 DEF CommitMarks
  <2>6. QED
    BY <2>4, <2>5 DEF NoWork
<1>6. ~CommitGroup(r) /\ ~CommitSubmit(r) /\ ~CommitAutograde(r)
  BY <1>4 DEF CommitGroup, CommitSubmit, CommitAutograde, Commits, ByProblem
<1>7. QED
  BY <1>2, <1>3, <1>5, <1>6, OnlyCommitsWrite
  DEF CommitsWork, CommitSettings, CommitMemberships, CommitUnpublish

LEMMA DecidedUnderLocksNext ==
    ASSUME TypeInv, HeldInv, \A q \in Requests : DecidedUnderLocks(q),
           NEW r \in Requests, Arrives(r) \/ Step(r) \/ RollsBack(r), NEW q \in Requests
    PROVE  DecidedUnderLocks(q)'
<1>1. CASE q # r
  <2>1. req'[q] = req[q]
    BY <1>1, RequestsStayOK
  <2>2. QED
    BY <1>1, <2>1, SetStaysUnlocked, WorkStaysAway DEF DecidedUnderLocks
<1>2. CASE Check(r) /\ OnlyMoves(r) /\ q = r
  <2>1. req'[r].kind = req[r].kind
    BY <1>2 DEF OnlyMoves, TypeInv, RequestsOK, RequestRecord
  <2>2. req[r].kind = "memberships" => ~locked
    BY <1>2 DEF Check, Allowed
  <2>3. req[r].kind = "unpublish" => NoWork
    BY <1>2 DEF Check, Allowed
  <2>4. UNCHANGED <<grades, locked, filed>>
    BY <1>2 DEF Check
  <2>5. QED
    BY <1>2, <2>1, <2>2, <2>3, <2>4 DEF DecidedUnderLocks, NoWork
<1>3. CASE q = r /\ req'[r].pc # "commit"
  BY <1>3 DEF DecidedUnderLocks
<1>4. RequestMove(r)
  BY ArrivalsMove, StepsMove
<1>5. QED
  BY <1>1, <1>2, <1>3, <1>4 DEF RequestMove, Comes, Begins

LEMMA InvInit == Init => Inv
<1> SUFFICES ASSUME Init PROVE Inv
  OBVIOUS
<1>1. TypeInv
  BY TypeInvInit
<1>2. \A r \in Requests : req[r].pc = "new"
  BY NewRequestIsOK DEF Init
<1>3. UsedIsLocked
  BY DEF Init, UsedIsLocked, Used, NoGrade
<1>4. QED
  BY <1>1, <1>2, <1>3
  DEF Inv, HeldInv, HoldsTheSet, HoldsItsProblems, DecidedAsSeen, DecidedUnderLocks

LEMMA InvNext == Inv /\ [Next]_vars => Inv'
<1> SUFFICES ASSUME Inv, [Next]_vars PROVE Inv'
  OBVIOUS
<1>1. TypeInv'
  BY TypeInvNext DEF Inv
<1>2. ASSUME NEW r \in Requests, Arrives(r) \/ Step(r) \/ RollsBack(r) PROVE Inv'
  BY <1>1, <1>2, HeldInvNext, UsedIsLockedNext, DecidedAsSeenNext, DecidedUnderLocksNext DEF Inv
<1>3. CASE UNCHANGED vars
  <2>1. UNCHANGED <<grades, locked, filed, setLock, problemLock, req>>
    BY <1>3 DEF vars
  <2>2. HeldInv' /\ UsedIsLocked'
    BY <2>1 DEF Inv, HeldInv, HoldsTheSet, HoldsItsProblems, Held, Wanted, UsedIsLocked, Used
  <2>3. \A r \in Requests : DecidedAsSeen(r)' /\ DecidedUnderLocks(r)'
    BY <2>1 DEF Inv, DecidedAsSeen, DecidedUnderLocks, NoWork, NoConflict, MembersSeen,
                BelowTheCap, CountScope, GroupSeen
  <2>4. QED
    BY <1>1, <2>2, <2>3 DEF Inv
<1>4. QED
  BY <1>2, <1>3 DEF Next

LEMMA InvHolds == Spec => []Inv
BY InvInit, InvNext, PTL DEF Spec

\* Nobody changes group once there is work: whoever writes a membership found
\* the set unlocked and has held it since.
THEOREM GroupsStayFrozen == Spec => GroupsFreezeOnceUsed
<1>1. ASSUME Inv, [Next]_vars, Used PROVE member' = member
  <2>1. CASE UNCHANGED vars
    BY <2>1 DEF vars
  <2>2. ASSUME NEW r \in Requests, Arrives(r) \/ Step(r) \/ RollsBack(r) PROVE member' = member
    <3>1. ~CommitMemberships(r)
      BY <1>1 DEF CommitMemberships, Commits, Inv, DecidedUnderLocks, UsedIsLocked
    <3>2. QED
      BY <1>1, <2>2, <3>1, OnlyCommitsWrite
      DEF Inv, CommitsWork, CommitMarks, CommitGroup, CommitSettings, CommitSubmit,
          CommitUnpublish, CommitAutograde, ClearGrade
  <2>3. QED
    BY <1>1, <2>1, <2>2 DEF Next
<1>2. Inv /\ [Next]_vars => [Used => member' = member]_vars
  BY <1>1
<1>3. QED
  BY <1>2, InvHolds, PTL DEF Spec, GroupsFreezeOnceUsed

\* An unpublish that commits found no work, and nobody brought any since.
THEOREM IdleWorkIsUnpublished == Spec => OnlyIdleWorkIsUnpublished
<1>1. ASSUME Inv, [Next]_vars, published, ~published' PROVE NoWork
  <2>1. PICK r \in Requests : Arrives(r) \/ Step(r) \/ RollsBack(r)
    BY <1>1 DEF Next, vars
  <2>2. CommitUnpublish(r)
    BY <1>1, <2>1, OnlyCommitsWrite
    DEF Inv, CommitsWork, CommitMarks, CommitGroup, CommitSettings, CommitMemberships, CommitSubmit,
        CommitAutograde, ClearGrade
  <2>3. QED
    BY <1>1, <2>2 DEF CommitUnpublish, Commits, Inv, DecidedUnderLocks
<1>2. Inv /\ [Next]_vars =>
        [published /\ ~published' =>
            filed = {} /\ \A s \in Students, p \in Problems : grades[s][p] = NoGrade]_vars
  BY <1>1 DEF NoWork
<1>3. QED
  BY <1>2, InvHolds, PTL DEF Spec, OnlyIdleWorkIsUnpublished

\* Without "overwrite" a group grade leaves every mark there is as it was: the
\* conflicts are looked for in the snapshot the rows still have to agree with.
THEOREM UnseenMarksStay == Spec => NoUnseenMarkIsFlattened
<1>1. ASSUME Inv, [Next]_vars, NEW r \in Requests, req[r].kind = "group", ~req[r].overwrite,
             req[r].pc = "commit", req'[r].pc = "done",
             NEW s \in Students, NEW p \in Problems, grades[s][p] # NoGrade
      PROVE  grades'[s][p].value = grades[s][p].value
  <2>1. CASE RollsBack(r)
    BY <2>1 DEF RollsBack
  <2>2. CASE CommitGroup(r)
    <3> DEFINE own == req[r].problem
               v == req[r].marks[own]
    <3>1. /\ grades \in [Students -> [Problems -> Grade]] /\ own \in Problems /\ v \in Marks
      BY <1>1, <2>2, AtCommit DEF CommitGroup, ByProblem, Inv, TypeInv, TablesOK
    <3>2. grades' = [j \in Students |-> IF j \in MembersSeen(r)
                       THEN [grades[j] EXCEPT ![own] = HandGrade(v)] ELSE grades[j]]
      BY <2>2 DEF CommitGroup
    <3>3. ASSUME s \in MembersSeen(r), p = own PROVE grades[s][p].value = v
      <4>1. grades[s][p] = req[r].saw.grades[s][p]
        BY <2>2, <3>3 DEF CommitGroup, RowsAsSeen
      <4>2. NoConflict(r)
        BY <1>1 DEF Inv, DecidedAsSeen
      <4>3. grades[s][p].value \in {NoGrade.value, v}
        BY <1>1, <3>3, <4>1, <4>2 DEF NoConflict
      <4>4. grades[s][p] \in Grade
        BY <3>1
      <4>5. grades[s][p].value # NoGrade.value
        <5>1. grades[s][p].value \in Points \cup Marks \cup {0}
          BY <1>1, <4>4 DEF Grade
        <5>2. grades[s][p].value \in Nat
          <6>1. \A n \in Points \cup Marks \cup {0} : n \in Nat
            BY CourseAssumption
          <6>2. QED
            BY <5>1, <6>1, Zenon
        <5>3. NoGrade.value = -1
          BY DEF NoGrade
        <5>4. QED
          BY <5>2, <5>3
      <4>6. QED
        BY <4>3, <4>5
    <3>4. HandGrade(v).value = v
      BY DEF HandGrade
    <3> HIDE DEF own, v
    <3>5. QED
      BY <3>1, <3>2, <3>3, <3>4
  <2>3. RollsBack(r) \/ CommitsWork(r)
    BY <1>1, WhoFinishes DEF Inv
  <2>4. QED
    BY <1>1, <2>1, <2>2, <2>3
    DEF CommitsWork, CommitMarks, CommitAutograde, CommitSettings, CommitMemberships,
        CommitSubmit, CommitUnpublish, Commits
<1>2. Inv /\ [Next]_vars =>
        [\A r \in Requests :
            req[r].kind = "group" /\ ~req[r].overwrite /\ req[r].pc = "commit" =>
                \A s \in Students, p \in Problems :
                    grades[s][p] # NoGrade /\ req'[r].pc = "done" =>
                        grades'[s][p].value = grades[s][p].value]_vars
  BY <1>1
<1>3. QED
  BY <1>2, InvHolds, PTL DEF Spec, NoUnseenMarkIsFlattened

----------------------------------------------------------------------------
(* The cap on submissions.                                                 *)

CapInv == IsFiniteSet(filed) /\ CapHolds

OfGroup(submissions, p, g) == {w \in submissions : w.problem = p /\ w.group = g}
OfStudent(submissions, p, s) ==
    {w \in submissions : w.problem = p /\ w.group = NoGroup /\ w.student = s}

LEMMA OneMore ==
    ASSUME NEW S, IsFiniteSet(S), NEW x, NEW T, T \subseteq S \cup {x}
    PROVE  Cardinality(T) <= Cardinality(S) + 1
<1>1. /\ IsFiniteSet(S \cup {x}) /\ Cardinality(S) \in Nat
      /\ Cardinality(S \cup {x}) <= Cardinality(S) + 1
  <2>1. Cardinality(S) \in Nat
    BY FS_CardinalityType
  <2>2. IsFiniteSet(S \cup {x}) /\ Cardinality(S \cup {x}) \in {Cardinality(S), Cardinality(S) + 1}
    BY FS_AddElement
  <2>3. QED
    BY <2>1, <2>2
<1>2. Cardinality(T) <= Cardinality(S \cup {x}) /\ Cardinality(T) \in Nat
      /\ Cardinality(S \cup {x}) \in Nat
  BY <1>1, FS_Subset, FS_CardinalityType
<1>3. QED
  BY <1>1, <1>2

LEMMA CapInvNext ==
    ASSUME Inv, CapInv, NEW r \in Requests, Arrives(r) \/ Step(r) \/ RollsBack(r)
    PROVE  CapInv'
<1>1. CASE UNCHANGED filed
  BY <1>1 DEF CapInv, CapHolds
<1>2. CASE CommitSubmit(r)
  <2> DEFINE s == req[r].student
             p == req[r].problem
             g == GroupSeen(r)
             new == [by |-> r, student |-> s, group |-> g, problem |-> p]
             scope == CountScope(s, g, p, filed)
  <2>1. filed' = filed \cup {new} /\ IsFiniteSet(filed)
    BY <1>2 DEF CommitSubmit, CapInv
  <2>2. IsFiniteSet(filed')
    BY <2>1, FS_AddElement
  <2>3. CASE Cap > 0
    <3>1. scope = CountScope(s, g, p, req[r].saw.filed)
      BY <1>2, <2>3 DEF CommitSubmit, CountAsSeen
    <3>2. Cardinality(scope) < Cap
      BY <1>2, <2>3, <3>1 DEF CommitSubmit, Commits, Inv, DecidedAsSeen, BelowTheCap
    <3>3. IsFiniteSet(scope) /\ Cardinality(scope) \in Nat
      BY <2>1, FS_Subset, FS_CardinalityType DEF CountScope
    <3>4. ASSUME NEW T, T \subseteq scope \cup {new} PROVE Cardinality(T) <= Cap
      <4> HIDE DEF scope, new
      <4>1. IsFiniteSet(T) /\ Cardinality(T) \in Nat
        <5>1. IsFiniteSet(scope \cup {new})
          BY <3>3, FS_AddElement
        <5>2. QED
          BY <3>4, <5>1, FS_Subset, FS_CardinalityType
      <4>2. Cardinality(T) <= Cardinality(scope) + 1
        BY <3>3, <3>4, OneMore
      <4>3. QED
        BY <3>2, <3>3, <4>1, <4>2, CourseAssumption
    <3>5. ASSUME NEW q \in Problems, NEW h \in Groups
          PROVE  Cardinality(OfGroup(filed', q, h)) <= Cap
      <4>1. CASE q = p /\ h = g
        <5>1. h # NoGroup
          BY CourseAssumption
        <5>2. OfGroup(filed', q, h) \subseteq scope \cup {new}
          BY <2>1, <4>1, <5>1 DEF OfGroup, CountScope
        <5>3. QED
          BY <3>4, <5>2
      <4>2. CASE ~(q = p /\ h = g)
        <5>1. OfGroup(filed', q, h) = OfGroup(filed, q, h)
          BY <2>1, <4>2 DEF OfGroup
        <5>2. QED
          BY <2>3, <5>1 DEF CapInv, CapHolds, OfGroup
      <4>3. QED
        BY <4>1, <4>2
    <3>6. ASSUME NEW q \in Problems, NEW t \in Students
          PROVE  Cardinality(OfStudent(filed', q, t)) <= Cap
      <4>1. CASE q = p /\ NoGroup = g /\ t = s
        <5>1. OfStudent(filed', q, t) \subseteq scope \cup {new}
          BY <2>1, <4>1 DEF OfStudent, CountScope
        <5>2. QED
          BY <3>4, <5>1
      <4>2. CASE ~(q = p /\ NoGroup = g /\ t = s)
        <5>1. OfStudent(filed', q, t) = OfStudent(filed, q, t)
          BY <2>1, <4>2 DEF OfStudent
        <5>2. QED
          BY <2>3, <5>1 DEF CapInv, CapHolds, OfStudent
      <4>3. QED
        BY <4>1, <4>2
    <3>7. QED
      BY <2>2, <3>5, <3>6 DEF CapInv, CapHolds, OfGroup, OfStudent
  <2>4. QED
    BY <2>2, <2>3 DEF CapInv, CapHolds
<1>3. QED
  BY <1>1, <1>2, OnlyCommitsWrite
  DEF Inv, CommitsWork, CommitMarks, CommitGroup, CommitSettings, CommitMemberships,
      CommitUnpublish, CommitAutograde, ClearGrade

LEMMA CapInvInit == Init => CapInv
<1> SUFFICES ASSUME Init PROVE CapInv
  OBVIOUS
<1>1. PICK w : filed \subseteq {w}
  BY DEF Init
<1>2. IsFiniteSet({w}) /\ Cardinality({w}) = 1
  BY FS_Singleton
<1>3. ASSUME NEW T, T \subseteq filed PROVE IsFiniteSet(T) /\ Cardinality(T) <= 1
  BY <1>1, <1>2, <1>3, FS_Subset
<1>4. Cap > 0 => 1 <= Cap
  BY CourseAssumption
<1>5. ASSUME NEW T, T \subseteq filed, Cap > 0 PROVE Cardinality(T) <= Cap
  <2>1. IsFiniteSet(T) /\ Cardinality(T) <= 1 /\ Cardinality(T) \in Nat
    BY <1>3, <1>5, FS_CardinalityType
  <2>2. QED
    BY <1>4, <1>5, <2>1, CourseAssumption
<1>6. CapHolds
  <2>1. \A p, g, s : OfGroup(filed, p, g) \subseteq filed /\ OfStudent(filed, p, s) \subseteq filed
    BY DEF OfGroup, OfStudent
  <2>2. QED
    BY <1>5, <2>1 DEF CapHolds, OfGroup, OfStudent
<1>7. QED
  BY <1>3, <1>6 DEF CapInv

\* No group files more than its cap on a problem, nor a student with no group
\* past their own, however many hand in at once: a commit that counted what
\* has changed since is refused.
THEOREM CapIsKept == Spec => []CapHolds
<1>1. Inv /\ CapInv /\ [Next]_vars => CapInv'
  <2> SUFFICES ASSUME Inv, CapInv, [Next]_vars PROVE CapInv'
    OBVIOUS
  <2>1. CASE Next
    BY <2>1, CapInvNext DEF Next
  <2>2. CASE UNCHANGED vars
    BY <2>2 DEF vars, CapInv, CapHolds
  <2>3. QED
    BY <2>1, <2>2
<1>2. CapInv => CapHolds
  BY DEF CapInv
<1>3. QED
  BY <1>1, <1>2, CapInvInit, InvHolds, PTL DEF Spec

=============================================================================
