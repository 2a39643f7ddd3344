----------------------- MODULE SubmissionQueue_proofs -----------------------
(***************************************************************************)
(* Theorems about SubmissionQueue for every number of submissions, loops   *)
(* and staff, every bound, and any number of faults, crashes and reruns.   *)
(***************************************************************************)
EXTENDS SubmissionQueue, FiniteSetTheorems, TLAPS

----------------------------------------------------------------------------
(* Facts about the rows the handlers write.                                *)

LEMMA RowsWritten ==
    ASSUME NEW r \in Row
    PROVE  /\ SubmittedRow \in Row
           /\ RerunRow(r) \in Row
           /\ RequeuedRow(r) \in Row
           /\ GivenUpRow(r) \in Row
           /\ [r EXCEPT !.status = "FAILED"] \in Row
<1> USE DEF Row, OnQueue, Settled, Verdicts, NoToken, NoKey
<1>1. SubmittedRow \in Row
  BY DEF SubmittedRow, AbsentRow
<1>2. RerunRow(r) \in Row
  BY DEF RerunRow
<1>3. RequeuedRow(r) \in Row
  BY DEF RequeuedRow
<1>4. GivenUpRow(r) \in Row
  BY DEF GivenUpRow
<1>5. [r EXCEPT !.status = "FAILED"] \in Row
  OBVIOUS
<1>6. QED
  BY <1>1, <1>2, <1>3, <1>4, <1>5

LEMMA ClaimedRowWritten ==
    ASSUME NEW r \in Row, NEW t \in Nat
    PROVE  ClaimedRow(r, t) \in Row
<1>1. r.attempts + 1 \in Nat
  BY DEF Row
<1>2. QED
  BY <1>1 DEF Row, ClaimedRow, OnQueue

LEMMA EvaluatedRowWritten ==
    ASSUME NEW r \in Row, NEW l \in Loop
    PROVE  EvaluatedRow(r, l) \in Row
BY DEF Row, Loop, EvaluatedRow, NoToken

LEMMA LoopsWritten ==
    IdleLoop \in Loop /\ DeadLoop \in Loop
BY DEF IdleLoop, DeadLoop, Loop, Pcs, Settled, Verdicts, NoRow, NoToken, NoKey, Unknown

LEMMA GradesWritten ==
    /\ NoGrade \in Grade
    /\ \A c \in Verdicts : EarnedGrade(c) \in Grade
BY BoundsAssumption DEF NoGrade, EarnedGrade, Grade

----------------------------------------------------------------------------
(* Type correctness.                                                       *)

\* What a step of loop w leaves of TypeOK to check: w itself.
AtRow == {"picked", "claimed", "evaluated", "catch"}

LEMMA EndsPassKeepsLoops ==
    ASSUME TypeOK, NEW w \in Loops, EndsPass(w)
    PROVE  /\ loops' \in [Loops -> Loop]
           /\ \A v \in Loops : loops'[v].pc \in AtRow => loops'[v].id \in Submissions
BY LoopsWritten DEF TypeOK, EndsPass, AtRow, IdleLoop

LEMMA TypeInit == Init => TypeOK
<1> SUFFICES ASSUME Init PROVE TypeOK
  OBVIOUS
<1>1. rows \in [Submissions -> Row]
  BY DEF Init, AbsentRow, Row, Verdicts, NoToken, NoKey
<1>2. grades \in [Students -> Grade]
  BY GradesWritten DEF Init
<1>3. /\ loops \in [Loops -> Loop]
      /\ \A w \in Loops : loops[w].pc \in AtRow => loops[w].id \in Submissions
  <2>1. DeadLoop.pc = "off"
    BY DEF DeadLoop, IdleLoop
  <2>2. QED
    BY <2>1, LoopsWritten DEF Init, AtRow
<1>4. QED
  BY <1>1, <1>2, <1>3, BoundsAssumption DEF Init, TypeOK, AtRow, NoRow, NoKey

\* One step of a loop, with or without a fault, keeps the type.
LEMMA TypeLoopStep ==
    ASSUME TypeOK, NEW w \in Loops, LoopStep(w) \/ LoopFault(w)
    PROVE  TypeOK'
<1> USE DEF TypeOK, AtRow
<1>1. CASE Retire(w)
  BY <1>1, LoopsWritten DEF Retire, DeadLoop
<1>2. CASE ReadBusy(w)
  <2>1. BusyStudents \in SUBSET Students
    BY RosterAssumption DEF BusyStudents
  <2>2. [loops[w] EXCEPT !.pc = "scan", !.busy = BusyStudents] \in Loop
    BY <2>1 DEF Loop, Pcs
  <2>3. QED
    BY <1>2, <2>2 DEF ReadBusy, Loop
<1>3. CASE PickNext(w)
  <2>1. CASE EndsPass(w)
    BY <1>3, <2>1, EndsPassKeepsLoops DEF PickNext
  <2>2. ASSUME NEW i \in Submissions,
               loops' = [loops EXCEPT ![w].pc = "picked", ![w].id = i, ![w].busy = {},
                                      ![w].attempts = rows[i].attempts]
        PROVE  TypeOK'
    <3>1. rows[i].attempts \in Nat
      BY DEF Row
    <3>2. [loops[w] EXCEPT !.pc = "picked", !.id = i, !.busy = {},
                           !.attempts = rows[i].attempts] \in Loop
      BY <3>1 DEF Loop, Pcs
    <3>3. QED
      BY <1>3, <2>2, <3>2 DEF PickNext, Loop
  <2>3. QED
    BY <1>3, <2>1, <2>2 DEF PickNext
<1>4. CASE FailPoisonPill(w)
  <2>1. rows' \in [Submissions -> Row]
    BY <1>4, RowsWritten DEF FailPoisonPill
  <2>2. QED
    BY <1>4, <2>1, EndsPassKeepsLoops DEF FailPoisonPill
<1>5. CASE Claim(w)
  <2>0. loops[w].id \in Submissions
    BY <1>5 DEF Claim, MayClaim
  <2>1. CASE EndsPass(w) /\ UNCHANGED <<rows, minted>>
    BY <1>5, <2>1, EndsPassKeepsLoops DEF Claim
  <2>2. ASSUME NEW i \in Submissions, i = loops[w].id,
               rows' = [rows EXCEPT ![i] = ClaimedRow(@, FreshToken(i))],
               minted' = [minted EXCEPT ![i] = FreshToken(i)],
               loops' = [loops EXCEPT ![w].pc = "claimed", ![w].attempts = Unknown,
                                      ![w].token = FreshToken(i)]
        PROVE  TypeOK'
    <3>1. FreshToken(i) \in Nat
      BY DEF FreshToken
    <3>2. rows' \in [Submissions -> Row]
      BY <2>2, <3>1, ClaimedRowWritten
    <3>3. [loops[w] EXCEPT !.pc = "claimed", !.attempts = Unknown,
                           !.token = FreshToken(i)] \in Loop
      BY <3>1 DEF Loop, Pcs
    <3>4. QED
      BY <1>5, <2>0, <2>2, <3>1, <3>2, <3>3 DEF Claim, Loop
  <2>3. QED
    BY <1>5, <2>0, <2>1, <2>2 DEF Claim
<1>6. CASE ClaimAnswerLost(w)
  <2>1. loops[w].id \in Submissions /\ FreshToken(loops[w].id) \in Nat
    BY <1>6 DEF ClaimAnswerLost, MayClaim, FreshToken
  <2>2. rows' \in [Submissions -> Row]
    BY <1>6, <2>1, ClaimedRowWritten DEF ClaimAnswerLost
  <2>3. QED
    BY <1>6, <2>1, <2>2, EndsPassKeepsLoops, BoundsAssumption DEF ClaimAnswerLost, Trouble
<1>7. CASE Evaluate(w)
  <2>1. loops[w].id \in Submissions /\ rows[loops[w].id].attempts \in Nat
    BY <1>7 DEF Evaluate, Row
  <2>2. PICK e \in Evaluations :
          loops' = [loops EXCEPT ![w].pc = "evaluated",
                                 ![w].attempts = rows[loops[w].id].attempts,
                                 ![w].key = KeyNamed(e),
                                 ![w].status = e.status, ![w].correct = e.correct]
    BY <1>7 DEF Evaluate
  <2>3. loops' = [loops EXCEPT ![w] =
          [loops[w] EXCEPT !.pc = "evaluated",
                           !.attempts = rows[loops[w].id].attempts,
                           !.key = KeyNamed(e),
                           !.status = e.status, !.correct = e.correct]]
    BY <2>2
  <2>4. e \in AllEvaluations
    BY SettingsAssumption
  <2>5. KeyNamed(e) \in Nat
    BY DEF KeyNamed, NoKey
  <2>6. loops'[w] = [loops[w] EXCEPT !.pc = "evaluated",
                                     !.attempts = rows[loops[w].id].attempts,
                                     !.key = KeyNamed(e),
                                     !.status = e.status, !.correct = e.correct]
    BY <2>3
  <2>7. loops[w] \in Loop
    OBVIOUS
  <2>8. loops'[w] \in Loop /\ loops'[w].id = loops[w].id
    <3> DEFINE n == rows[loops[w].id].attempts
               k == KeyNamed(e)
               l == loops[w]
               m == loops'[w]
    <3>1. /\ l \in Loop /\ n \in Nat /\ k \in Nat
          /\ m = [l EXCEPT !.pc = "evaluated", !.attempts = n, !.key = k,
                           !.status = e.status, !.correct = e.correct]
      BY <2>1, <2>5, <2>6, <2>7
    <3> HIDE DEF n, k, l, m
    <3>2. m \in Loop /\ m.id = l.id
      BY ONLY <2>4, <3>1 DEF Loop, Pcs, AllEvaluations
    <3>3. QED
      BY ONLY <3>2 DEF l, m
  <2>9. QED
    BY <1>7, <2>1, <2>3, <2>8 DEF Evaluate
<1>8. CASE LoadFails(w) \/ PersistRollsBack(w)
  <2>1. [loops[w] EXCEPT !.pc = "catch"] \in Loop
    BY DEF Loop, Pcs
  <2>2. QED
    BY <1>8, <2>1, BoundsAssumption DEF LoadFails, PersistRollsBack, Trouble, Loop
<1>9. CASE Persist(w) \/ PersistAnswerLost(w)
  <2>1. loops[w] \in Loop /\ loops[w].id \in Submissions /\ PersistTransaction(w)
    BY <1>9 DEF Persist, PersistAnswerLost
  <2>2. rows' \in [Submissions -> Row]
    BY <2>1, EvaluatedRowWritten DEF PersistTransaction, WriteIfStillOwned
  <2>3. grades' \in [Students -> Grade]
    <3>1. EarnedGrade(loops[w].correct) \in Grade
      BY <2>1, GradesWritten DEF Loop
    <3>2. QED
      BY <2>1, <3>1 DEF PersistTransaction, Graded
  <2>4. CASE Persist(w)
    BY <2>2, <2>3, <2>4, EndsPassKeepsLoops DEF Persist
  <2>5. CASE PersistAnswerLost(w)
    <3>1. [loops[w] EXCEPT !.pc = "catch"] \in Loop
      BY DEF Loop, Pcs
    <3>2. QED
      BY <2>1, <2>2, <2>3, <2>5, <3>1, BoundsAssumption
         DEF PersistAnswerLost, Trouble, Loop
  <2>6. QED
    BY <1>9, <2>4, <2>5
<1>10. CASE Recover(w)
  <2>1. loops[w].id \in Submissions
    BY <1>10 DEF Recover
  <2>2. rows' \in [Submissions -> Row]
    BY <1>10, <2>1, RowsWritten DEF Recover, WriteIfStillOwned
  <2>3. QED
    BY <1>10, <2>2, EndsPassKeepsLoops DEF Recover
<1>11. CASE PassFails(w)
  BY <1>11, EndsPassKeepsLoops, BoundsAssumption DEF PassFails, Trouble
<1>12. QED
  BY <1>1, <1>2, <1>3, <1>4, <1>5, <1>6, <1>7, <1>8, <1>9, <1>10, <1>11
     DEF LoopStep, LoopFault

\* What the process does as a whole: spawn loops, start, die.
LEMMA EnsureWorkersKeepsLoops ==
    ASSUME TypeOK, NEW n \in Nat, EnsureWorkers(n)
    PROVE  /\ loops' \in [Loops -> Loop]
           /\ \A v \in Loops : loops'[v].pc \in AtRow => loops'[v].id \in Submissions
           /\ \A v \in Loops : loops'[v] \in {loops[v], IdleLoop}
<1>1. PICK spawned \in SUBSET (Loops \ Live) :
        loops' = [w \in Loops |-> IF w \in spawned THEN IdleLoop ELSE loops[w]]
  BY DEF EnsureWorkers
<1>2. IdleLoop.pc = "start"
  BY DEF IdleLoop
<1>3. QED
  BY <1>1, <1>2, LoopsWritten DEF TypeOK, AtRow

LEMMA TypeNext == TypeOK /\ [Next]_vars => TypeOK'
<1> SUFFICES ASSUME TypeOK, [Next]_vars PROVE TypeOK'
  OBVIOUS
<1>1. ASSUME NEW i \in Submissions, Submit(i) PROVE TypeOK'
  BY <1>1, RowsWritten DEF TypeOK, Submit, Loop
<1>2. ASSUME NEW w \in Loops, LoopStep(w) \/ LoopFault(w) PROVE TypeOK'
  BY <1>2, TypeLoopStep
<1>3. ASSUME NEW a \in Staff, RerunWrites(a) PROVE TypeOK'
  <2>1. rerun[a] \in Submissions
    BY <1>3 DEF TypeOK, RerunWrites
  <2>2. rows' \in [Submissions -> Row]
    BY <1>3, <2>1, RowsWritten DEF TypeOK, RerunWrites
  <2>3. QED
    BY <1>3, <2>1, <2>2 DEF TypeOK, RerunWrites
<1>4. ASSUME NEW a \in Staff, NEW i \in Submissions, RerunReads(a, i) PROVE TypeOK'
  BY <1>4, BoundsAssumption DEF TypeOK, RerunReads, Trouble
<1>5. CASE CourseRerun
  <2>1. rows' \in [Submissions -> Row]
    BY <1>5, RowsWritten DEF TypeOK, CourseRerun
  <2>2. QED
    BY <1>5, <2>1, BoundsAssumption DEF TypeOK, CourseRerun, Trouble
<1>6. CASE ReplaceAnswerKey
  BY <1>6, BoundsAssumption DEF TypeOK, ReplaceAnswerKey, Trouble
<1>7. ASSUME NEW s \in Students, EnterGrade(s) \/ ClearGrade(s) \/ ToggleHold(s)
      PROVE  TypeOK'
  <2>1. \E g \in Grade : StaffGrade(s, g)
    <3>1. CASE EnterGrade(s)
      <4>1. PICK v \in 0 .. MaxPoints : StaffGrade(s, [value |-> v, manual |-> TRUE])
        BY <3>1 DEF EnterGrade
      <4>2. [value |-> v, manual |-> TRUE] \in Grade
        BY BoundsAssumption DEF Grade
      <4>3. QED
        BY <4>1, <4>2
    <3>2. CASE ClearGrade(s)
      BY <3>2, GradesWritten DEF ClearGrade
    <3>3. CASE ToggleHold(s)
      <4>1. [grades[s] EXCEPT !.manual = ~ @] \in Grade
        BY DEF TypeOK, Grade
      <4>2. QED
        BY <3>3, <4>1 DEF ToggleHold
    <3>4. QED
      BY <1>7, <3>1, <3>2, <3>3
  <2>2. QED
    BY <2>1, BoundsAssumption DEF TypeOK, StaffGrade, Trouble
<1>8. CASE RefreshQueueSettings
  <2>1. PICK s \in Settings : queue' = s /\ EnsureWorkers(s.maxConcurrent)
    BY <1>8 DEF RefreshQueueSettings
  <2>2. s.maxConcurrent \in Nat
    BY SettingsAssumption
  <2>3. QED
    BY <1>8, <2>1, <2>2, EnsureWorkersKeepsLoops, BoundsAssumption
       DEF TypeOK, RefreshQueueSettings, Trouble, AtRow
<1>9. ASSUME NEW stuck \in SUBSET Submissions, Reap(stuck) PROVE TypeOK'
  <2>1. rows' \in [Submissions -> Row]
    BY <1>9, RowsWritten DEF TypeOK, Reap
  <2>2. trouble' \in 0 .. MaxTrouble
    BY <1>9, BoundsAssumption DEF TypeOK, Reap, Trouble
  <2>3. QED
    BY <1>9, <2>1, <2>2 DEF TypeOK, Reap
<1>10. CASE Crash
  <2>1. DeadLoop.pc = "off"
    BY DEF DeadLoop, IdleLoop
  <2>2. QED
    BY <1>10, <2>1, LoopsWritten, BoundsAssumption DEF TypeOK, Crash, Trouble
<1>11. CASE StartSubmissionWorker
  <2>1. DefaultSettings.maxConcurrent \in Nat
    BY SettingsAssumption
  <2>2. QED
    BY <1>11, <2>1, EnsureWorkersKeepsLoops DEF TypeOK, StartSubmissionWorker, AtRow
<1>12. CASE UNCHANGED vars
  BY <1>12 DEF TypeOK, vars
<1>13. QED
  BY <1>1, <1>2, <1>3, <1>4, <1>5, <1>6, <1>7, <1>8, <1>9, <1>10, <1>11, <1>12 DEF Next

\* Every reachable state has the type, whatever the workload, the settings, the
\* number of loops and the bound on trouble.
THEOREM TypeCorrect == Spec => []TypeOK
<1>1. Init => TypeOK
  BY TypeInit
<1>2. TypeOK /\ [Next]_vars => TypeOK'
  BY TypeNext
<1>3. QED
  BY <1>1, <1>2, PTL DEF Spec

----------------------------------------------------------------------------
(* The claim is exclusive.                                                 *)

Working == {"claimed", "evaluated", "catch"}

\* A row keeps what it was or loses its claim; a loop keeps its claim or drops it.
RowKeptOrReleased(i) ==
    rows'[i] = rows[i] \/ (rows'[i].token = NoToken /\ rows'[i].status # "PROCESSING")

LoopKeptOrReleased(v) ==
    \/ loops'[v].token = NoToken
    \/ /\ loops'[v].token = loops[v].token /\ loops'[v].id = loops[v].id
       /\ loops'[v].pc \in Working

\* Whatever only releases claims keeps them exclusive.
LEMMA ReleasingKeepsClaims ==
    ASSUME TypeOK, ClaimInv, minted' = minted,
           \A i \in Submissions : RowKeptOrReleased(i),
           \A v \in Loops : LoopKeptOrReleased(v)
    PROVE  ClaimInv'
<1>1. \A i \in Submissions : minted[i] \in Nat
  BY DEF TypeOK
<1>2. \A i \in Submissions :
        /\ rows'[i].status = "PROCESSING" <=> rows'[i].token # NoToken
        /\ rows'[i].token <= minted'[i]
  BY <1>1 DEF ClaimInv, RowKeptOrReleased, NoToken
<1>3. \A v \in Loops : loops'[v].token # NoToken =>
        /\ loops'[v].pc \in Working
        /\ loops'[v].id \in Submissions
        /\ loops'[v].token <= minted'[loops'[v].id]
  BY DEF ClaimInv, LoopKeptOrReleased
<1>4. \A v, w \in Loops :
        v # w /\ loops'[v].token # NoToken /\ loops'[v].id = loops'[w].id
          => loops'[v].token # loops'[w].token
  BY DEF ClaimInv, LoopKeptOrReleased
<1>5. QED
  BY <1>2, <1>3, <1>4 DEF ClaimInv, Working

\* A claim puts a token on the row that no loop ever held.
LEMMA ClaimingKeepsClaims ==
    ASSUME TypeOK, ClaimInv, NEW i \in Submissions, NEW w \in Loops,
           rows' = [rows EXCEPT ![i] = ClaimedRow(@, FreshToken(i))],
           minted' = [minted EXCEPT ![i] = FreshToken(i)],
           \A v \in Loops \ {w} : loops'[v] = loops[v],
           \/ loops'[w].token = NoToken
           \/ loops'[w].token = FreshToken(i) /\ loops'[w].id = i /\ loops'[w].pc \in Working
    PROVE  ClaimInv'
<1>1. \A j \in Submissions : minted[j] \in Nat
  BY DEF TypeOK
<1>2. /\ rows'[i].status = "PROCESSING" /\ rows'[i].token = FreshToken(i)
      /\ \A j \in Submissions \ {i} : rows'[j] = rows[j]
  BY DEF TypeOK, Row, ClaimedRow
<1>3. /\ FreshToken(i) \in Nat \ {0} /\ FreshToken(i) > minted[i]
      /\ minted'[i] = FreshToken(i) /\ \A j \in Submissions \ {i} : minted'[j] = minted[j]
  BY <1>1 DEF TypeOK, FreshToken
<1>4. \A j \in Submissions :
        /\ rows'[j].status = "PROCESSING" <=> rows'[j].token # NoToken
        /\ rows'[j].token <= minted'[j]
  BY <1>1, <1>2, <1>3 DEF ClaimInv, NoToken
<1>5. \A v \in Loops : loops'[v].token # NoToken =>
        /\ loops'[v].pc \in Working
        /\ loops'[v].id \in Submissions
        /\ loops'[v].token <= minted'[loops'[v].id]
  <2>1. \A v \in Loops : loops[v].token \in Nat
    BY DEF TypeOK, Loop
  <2>2. QED
    BY <1>1, <1>3, <2>1 DEF ClaimInv, Working
<1>6. \A v \in Loops \ {w} : loops'[v].token # NoToken /\ loops'[v].id = i
                             => loops'[v].token # FreshToken(i)
  <2>1. \A v \in Loops : loops[v].token \in Nat
    BY DEF TypeOK, Loop
  <2>2. QED
    BY <1>1, <1>3, <2>1 DEF ClaimInv
<1>7. \A u, v \in Loops :
        u # v /\ loops'[u].token # NoToken /\ loops'[u].id = loops'[v].id
          => loops'[u].token # loops'[v].token
  BY <1>3, <1>6 DEF ClaimInv, NoToken
<1>8. QED
  BY <1>4, <1>5, <1>7 DEF ClaimInv, Working

LEMMA ClaimInit == Init => ClaimInv
<1>1. DeadLoop.token = NoToken /\ AbsentRow.token = NoToken /\ AbsentRow.status = "ABSENT"
  BY DEF DeadLoop, IdleLoop, AbsentRow
<1>2. QED
  BY <1>1 DEF Init, ClaimInv, NoToken

\* A loop that goes on working keeps its claim, one that ends its pass drops it.
LEMMA EndsPassReleases ==
    ASSUME TypeOK, ClaimInv, NEW w \in Loops, EndsPass(w)
    PROVE  /\ \A v \in Loops : LoopKeptOrReleased(v)
           /\ \A v \in Loops \ {w} : loops'[v] = loops[v]
           /\ loops'[w].token = NoToken
<1>1. IdleLoop.token = NoToken
  BY DEF IdleLoop
<1>2. QED
  BY <1>1 DEF TypeOK, ClaimInv, EndsPass, LoopKeptOrReleased, Working

LEMMA FencedWriteReleases ==
    ASSUME TypeOK, ClaimInv, NEW w \in Loops, loops[w].pc \in AtRow, NEW r \in Row,
           WriteIfStillOwned(w, r),
           r.token = NoToken /\ r.status # "PROCESSING"
    PROVE  \A i \in Submissions : RowKeptOrReleased(i)
BY DEF TypeOK, AtRow, WriteIfStillOwned, RowKeptOrReleased

\* What an evaluation leaves in the loop, beside its claim.
LEMMA Evaluated ==
    ASSUME TypeOK, NEW w \in Loops, Evaluate(w)
    PROVE  /\ \A v \in Loops \ {w} : loops'[v] = loops[v]
           /\ loops'[w].pc = "evaluated"
           /\ loops'[w].token = loops[w].token
           /\ loops'[w].id = loops[w].id
           /\ loops'[w].attempts = rows[loops[w].id].attempts
           /\ \E e \in Evaluations : loops'[w].status = e.status /\ loops'[w].key = KeyNamed(e)
<1>1. PICK e \in Evaluations :
        loops' = [loops EXCEPT ![w].pc = "evaluated",
                               ![w].attempts = rows[loops[w].id].attempts,
                               ![w].key = KeyNamed(e),
                               ![w].status = e.status, ![w].correct = e.correct]
  BY DEF Evaluate
<1>2. loops[w] \in Loop
  BY DEF TypeOK
<1>3. loops' = [loops EXCEPT ![w] =
        [loops[w] EXCEPT !.pc = "evaluated",
                         !.attempts = rows[loops[w].id].attempts,
                         !.key = KeyNamed(e),
                         !.status = e.status, !.correct = e.correct]]
  BY <1>1
<1>4. \A v \in Loops \ {w} : loops'[v] = loops[v]
  BY <1>3 DEF TypeOK
<1>5. loops'[w] = [loops[w] EXCEPT !.pc = "evaluated",
                                   !.attempts = rows[loops[w].id].attempts,
                                   !.key = KeyNamed(e),
                                   !.status = e.status, !.correct = e.correct]
  BY <1>3 DEF TypeOK
<1>6. /\ loops'[w].pc = "evaluated"
      /\ loops'[w].token = loops[w].token /\ loops'[w].id = loops[w].id
      /\ loops'[w].attempts = rows[loops[w].id].attempts
      /\ loops'[w].status = e.status /\ loops'[w].key = KeyNamed(e)
  <2> DEFINE n == rows[loops[w].id].attempts
             k == KeyNamed(e)
             l == loops[w]
             m == loops'[w]
  <2>1. /\ l \in Loop
        /\ m = [l EXCEPT !.pc = "evaluated", !.attempts = n, !.key = k,
                         !.status = e.status, !.correct = e.correct]
    BY <1>2, <1>5
  <2> HIDE DEF n, k, l, m
  <2>2. /\ m.pc = "evaluated" /\ m.token = l.token /\ m.id = l.id
        /\ m.attempts = n /\ m.status = e.status /\ m.key = k
    BY ONLY <2>1 DEF Loop
  <2>3. QED
    BY ONLY <2>2 DEF n, k, l, m
<1>7. QED
  BY <1>4, <1>6

LEMMA ClaimLoopStep ==
    ASSUME TypeOK, ClaimInv, NEW w \in Loops, LoopStep(w) \/ LoopFault(w)
    PROVE  ClaimInv'
<1>0. \A i \in Submissions : rows' = rows => RowKeptOrReleased(i)
  BY DEF RowKeptOrReleased
<1>1. CASE Retire(w)
  <2>1. DeadLoop.token = NoToken
    BY DEF DeadLoop, IdleLoop
  <2>2. \A v \in Loops : LoopKeptOrReleased(v)
    BY <1>1, <2>1 DEF Retire, TypeOK, ClaimInv, LoopKeptOrReleased, Working
  <2>3. QED
    BY <1>0, <1>1, <2>2, ReleasingKeepsClaims DEF Retire
<1>2. CASE ReadBusy(w)
  <2>1. loops'[w].token = NoToken /\ \A v \in Loops \ {w} : loops'[v] = loops[v]
    BY <1>2 DEF ReadBusy, TypeOK, ClaimInv, Loop
  <2>2. \A v \in Loops : LoopKeptOrReleased(v)
    BY <2>1 DEF TypeOK, ClaimInv, LoopKeptOrReleased, Working
  <2>3. QED
    BY <1>0, <1>2, <2>2, ReleasingKeepsClaims DEF ReadBusy
<1>3. CASE PickNext(w)
  <2>1. loops'[w].token = NoToken /\ \A v \in Loops \ {w} : loops'[v] = loops[v]
    <3>1. CASE EndsPass(w)
      BY <3>1, EndsPassReleases
    <3>2. ASSUME NEW i \in Submissions,
                 loops' = [loops EXCEPT ![w].pc = "picked", ![w].id = i, ![w].busy = {},
                                        ![w].attempts = rows[i].attempts]
          PROVE  loops'[w].token = NoToken /\ \A v \in Loops \ {w} : loops'[v] = loops[v]
      <4>1. loops[w].token = NoToken
        BY <1>3 DEF PickNext, ClaimInv
      <4>2. QED
        BY <3>2, <4>1 DEF TypeOK, Loop
    <3>3. QED
      BY <1>3, <3>1, <3>2 DEF PickNext
  <2>2. \A v \in Loops : LoopKeptOrReleased(v)
    BY <2>1 DEF TypeOK, ClaimInv, LoopKeptOrReleased, Working
  <2>3. QED
    BY <1>0, <1>3, <2>2, ReleasingKeepsClaims DEF PickNext
<1>4. CASE FailPoisonPill(w)
  <2>1. \A i \in Submissions : RowKeptOrReleased(i)
    BY <1>4 DEF FailPoisonPill, TypeOK, ClaimInv, Row, RowKeptOrReleased
  <2>2. QED
    BY <1>4, <2>1, EndsPassReleases, ReleasingKeepsClaims DEF FailPoisonPill
<1>5. CASE Claim(w)
  <2>0. loops[w].id \in Submissions
    BY <1>5 DEF Claim, MayClaim, TypeOK
  <2>1. CASE EndsPass(w) /\ UNCHANGED <<rows, minted>>
    BY <1>0, <2>1, EndsPassReleases, ReleasingKeepsClaims
  <2>2. ASSUME NEW i \in Submissions, i = loops[w].id,
               rows' = [rows EXCEPT ![i] = ClaimedRow(@, FreshToken(i))],
               minted' = [minted EXCEPT ![i] = FreshToken(i)],
               loops' = [loops EXCEPT ![w].pc = "claimed", ![w].attempts = Unknown,
                                      ![w].token = FreshToken(i)]
        PROVE  ClaimInv'
    <3>1. /\ loops'[w].token = FreshToken(i) /\ loops'[w].id = i
          /\ loops'[w].pc \in Working
          /\ \A v \in Loops \ {w} : loops'[v] = loops[v]
      BY <2>2 DEF TypeOK, Loop, Working
    <3>2. QED
      BY <2>2, <3>1, ClaimingKeepsClaims
  <2>3. QED
    BY <1>5, <2>0, <2>1, <2>2 DEF Claim
<1>6. CASE ClaimAnswerLost(w)
  <2>1. loops[w].id \in Submissions
    BY <1>6 DEF ClaimAnswerLost, MayClaim, TypeOK
  <2>2. QED
    BY <1>6, <2>1, EndsPassReleases, ClaimingKeepsClaims DEF ClaimAnswerLost
<1>7. CASE Evaluate(w) \/ LoadFails(w) \/ PersistRollsBack(w)
  <2>1. /\ loops'[w].token = loops[w].token /\ loops'[w].id = loops[w].id
        /\ loops'[w].pc \in Working
        /\ \A v \in Loops \ {w} : loops'[v] = loops[v]
    <3>1. CASE Evaluate(w)
      BY <3>1, Evaluated DEF Working
    <3>2. CASE LoadFails(w) \/ PersistRollsBack(w)
      BY <3>2 DEF LoadFails, PersistRollsBack, TypeOK, Loop, Working
    <3>3. QED
      BY <1>7, <3>1, <3>2
  <2>2. \A v \in Loops : LoopKeptOrReleased(v)
    BY <2>1 DEF TypeOK, ClaimInv, LoopKeptOrReleased, Working
  <2>3. QED
    BY <1>0, <1>7, <2>2, ReleasingKeepsClaims DEF Evaluate, LoadFails, PersistRollsBack
<1>8. CASE Persist(w) \/ PersistAnswerLost(w)
  <2>1. loops[w].pc = "evaluated" /\ loops[w] \in Loop /\ loops[w].id \in Submissions
    BY <1>8 DEF Persist, PersistAnswerLost, TypeOK
  <2>2. PICK r \in Row : /\ WriteIfStillOwned(w, r)
                         /\ r.token = NoToken /\ r.status # "PROCESSING"
    <3>1. PICK s \in Row : s = rows[loops[w].id]
      BY <2>1 DEF TypeOK
    <3>2. EvaluatedRow(s, loops[w]) \in Row
      BY <2>1, EvaluatedRowWritten
    <3>3. /\ EvaluatedRow(s, loops[w]).token = NoToken
          /\ EvaluatedRow(s, loops[w]).status # "PROCESSING"
      BY <2>1 DEF EvaluatedRow, Row, Loop, Settled
    <3>4. WriteIfStillOwned(w, EvaluatedRow(s, loops[w]))
      BY <1>8, <3>1 DEF Persist, PersistAnswerLost, PersistTransaction
    <3>5. QED
      BY <3>2, <3>3, <3>4
  <2>3. \A i \in Submissions : RowKeptOrReleased(i)
    BY <2>1, <2>2, FencedWriteReleases DEF AtRow
  <2>4. \A v \in Loops : LoopKeptOrReleased(v)
    <3>1. CASE Persist(w)
      BY <3>1, EndsPassReleases DEF Persist
    <3>2. CASE PersistAnswerLost(w)
      BY <3>2 DEF PersistAnswerLost, TypeOK, Loop, ClaimInv, LoopKeptOrReleased, Working
    <3>3. QED
      BY <1>8, <3>1, <3>2
  <2>5. QED
    BY <1>8, <2>3, <2>4, ReleasingKeepsClaims DEF Persist, PersistAnswerLost
<1>9. CASE Recover(w)
  <2>1. loops[w].pc = "catch" /\ loops[w].id \in Submissions
    BY <1>9 DEF Recover, TypeOK
  <2>2. PICK s \in Row : s = rows[loops[w].id]
    BY <2>1 DEF TypeOK
  <2>3. PICK r \in {GivenUpRow(s), RequeuedRow(s)} : WriteIfStillOwned(w, r)
    BY <1>9, <2>2 DEF Recover
  <2>4. r \in Row /\ r.token = NoToken /\ r.status # "PROCESSING"
    BY <2>3, RowsWritten DEF GivenUpRow, RequeuedRow, Row
  <2>5. \A i \in Submissions : RowKeptOrReleased(i)
    BY <2>1, <2>3, <2>4, FencedWriteReleases DEF AtRow
  <2>6. QED
    BY <1>9, <2>5, EndsPassReleases, ReleasingKeepsClaims DEF Recover
<1>10. CASE PassFails(w)
  BY <1>0, <1>10, EndsPassReleases, ReleasingKeepsClaims DEF PassFails
<1>11. QED
  BY <1>1, <1>2, <1>3, <1>4, <1>5, <1>6, <1>7, <1>8, <1>9, <1>10 DEF LoopStep, LoopFault

LEMMA ClaimNext == TypeOK /\ ClaimInv /\ [Next]_vars => ClaimInv'
<1> SUFFICES ASSUME TypeOK, ClaimInv, [Next]_vars PROVE ClaimInv'
  OBVIOUS
<1>0. loops' = loops => \A v \in Loops : LoopKeptOrReleased(v)
  BY DEF ClaimInv, LoopKeptOrReleased, Working
<1>1. ASSUME NEW i \in Submissions, Submit(i) PROVE ClaimInv'
  <2>1. \A j \in Submissions : RowKeptOrReleased(j)
    BY <1>1 DEF Submit, TypeOK, SubmittedRow, AbsentRow, RowKeptOrReleased
  <2>2. QED
    BY <1>0, <1>1, <2>1, ReleasingKeepsClaims DEF Submit
<1>2. ASSUME NEW w \in Loops, LoopStep(w) \/ LoopFault(w) PROVE ClaimInv'
  BY <1>2, ClaimLoopStep
<1>3. ASSUME NEW a \in Staff, RerunWrites(a) PROVE ClaimInv'
  <2>1. \A j \in Submissions : RowKeptOrReleased(j)
    BY <1>3 DEF RerunWrites, TypeOK, Row, RerunRow, RowKeptOrReleased
  <2>2. QED
    BY <1>0, <1>3, <2>1, ReleasingKeepsClaims DEF RerunWrites
<1>4. CASE CourseRerun
  <2>1. \A j \in Submissions : RowKeptOrReleased(j)
    BY <1>4 DEF CourseRerun, TypeOK, Row, RerunRow, RowKeptOrReleased
  <2>2. QED
    BY <1>0, <1>4, <2>1, ReleasingKeepsClaims DEF CourseRerun
<1>5. ASSUME NEW stuck \in SUBSET Submissions, Reap(stuck) PROVE ClaimInv'
  <2>1. \A j \in Submissions : RowKeptOrReleased(j)
    BY <1>5 DEF Reap, TypeOK, Row, RequeuedRow, RowKeptOrReleased
  <2>2. QED
    BY <1>0, <1>5, <2>1, ReleasingKeepsClaims DEF Reap
<1>6. ASSUME NEW n \in Nat, EnsureWorkers(n), rows' = rows, minted' = minted
      PROVE  ClaimInv'
  <2>1. \A v \in Loops : loops'[v] \in {loops[v], IdleLoop}
    BY <1>6, EnsureWorkersKeepsLoops
  <2>2. IdleLoop.token = NoToken
    BY DEF IdleLoop
  <2>3. \A v \in Loops : LoopKeptOrReleased(v)
    BY <2>1, <2>2 DEF ClaimInv, LoopKeptOrReleased, Working
  <2>4. \A j \in Submissions : RowKeptOrReleased(j)
    BY <1>6 DEF RowKeptOrReleased
  <2>5. QED
    BY <1>6, <2>3, <2>4, ReleasingKeepsClaims
<1>7. CASE RefreshQueueSettings
  BY <1>6, <1>7, SettingsAssumption DEF RefreshQueueSettings
<1>8. CASE StartSubmissionWorker
  BY <1>6, <1>8, SettingsAssumption DEF StartSubmissionWorker
<1>9. CASE Crash
  <2>1. DeadLoop.token = NoToken
    BY DEF DeadLoop, IdleLoop
  <2>2. \A v \in Loops : LoopKeptOrReleased(v)
    BY <1>9, <2>1 DEF Crash, LoopKeptOrReleased
  <2>3. \A j \in Submissions : RowKeptOrReleased(j)
    BY <1>9 DEF Crash, RowKeptOrReleased
  <2>4. QED
    BY <1>9, <2>2, <2>3, ReleasingKeepsClaims DEF Crash
<1>10. CASE rows' = rows /\ minted' = minted /\ loops' = loops
  BY <1>0, <1>10, ReleasingKeepsClaims DEF RowKeptOrReleased
<1>11. CASE ReplaceAnswerKey
  BY <1>10, <1>11 DEF ReplaceAnswerKey
<1>12. ASSUME NEW a \in Staff, NEW i \in Submissions, RerunReads(a, i) PROVE ClaimInv'
  BY <1>10, <1>12 DEF RerunReads
<1>13. ASSUME NEW s \in Students, EnterGrade(s) \/ ClearGrade(s) \/ ToggleHold(s)
       PROVE  ClaimInv'
  BY <1>10, <1>13 DEF EnterGrade, ClearGrade, ToggleHold, StaffGrade
<1>14. CASE UNCHANGED vars
  BY <1>10, <1>14 DEF vars
<1>15. QED
  BY <1>1, <1>2, <1>3, <1>4, <1>5, <1>7, <1>8, <1>9, <1>11, <1>12, <1>13, <1>14 DEF Next

\* Of all the loops that ever claimed a row, at most one holds the claim it
\* carries: for any number of loops, reaps, reruns, crashes and lost answers.
THEOREM ClaimExclusive == Spec => []ClaimIsExclusive
<1>1. Init => ClaimInv
  BY ClaimInit
<1>2. TypeOK /\ ClaimInv /\ [Next]_vars => ClaimInv'
  BY ClaimNext
<1>3. ClaimInv => ClaimIsExclusive
  BY DEF ClaimInv, ClaimIsExclusive, Owns
<1>4. QED
  BY <1>1, <1>2, <1>3, TypeCorrect, PTL DEF Spec

----------------------------------------------------------------------------
(* The result is as new as its request.                                    *)

\* A row and its request stay, or the claim on the row is gone with the change.
KeyKept(i) ==
    \/ rows'[i] = rows[i] /\ queuedKey'[i] = queuedKey[i]
    \/ /\ queuedKey'[i] \in {queuedKey[i], answerKey}
       /\ rows'[i].status = "COMPLETED" => rows'[i].key >= queuedKey'[i]
       /\ \A v \in Loops : loops'[v].pc = "evaluated" /\ loops'[v].id = i
            => loops'[v].token # rows'[i].token \/ loops'[v].token = NoToken

\* An evaluation in hand stays, ends, or is made with the key in force.
LoopKeyKept(v) ==
    \/ loops'[v] = loops[v]
    \/ loops'[v].pc # "evaluated"
    \/ loops'[v].status # "COMPLETED"
    \/ loops'[v].key = answerKey

LEMMA KeysKept ==
    ASSUME TypeOK, TypeOK', KeyInv, answerKey' \in {answerKey, answerKey + 1},
           \A i \in Submissions : KeyKept(i),
           \A v \in Loops : LoopKeyKept(v)
    PROVE  KeyInv'
<1>1. /\ answerKey \in Nat
      /\ \A i \in Submissions : queuedKey[i] \in Nat /\ queuedKey[i] <= answerKey
  BY DEF TypeOK, KeyInv
<1>2. \A i \in Submissions : /\ queuedKey'[i] \in {queuedKey[i], answerKey}
                             /\ queuedKey'[i] <= answerKey /\ queuedKey'[i] <= answerKey'
  BY <1>1 DEF KeyKept
<1>3. ResultIsAsNewAsItsRequest'
  BY DEF KeyInv, ResultIsAsNewAsItsRequest, KeyKept
<1>4. ASSUME NEW v \in Loops,
             loops'[v].pc = "evaluated", loops'[v].status = "COMPLETED",
             loops'[v].token # NoToken, loops'[v].id \in Submissions,
             rows'[loops'[v].id].token = loops'[v].token
      PROVE  loops'[v].key >= queuedKey'[loops'[v].id]
  <2>1. CASE loops'[v].key = answerKey
    BY <1>1, <1>2, <1>4, <2>1
  <2>2. CASE loops'[v] = loops[v]
    <3>1. rows'[loops[v].id] = rows[loops[v].id] /\ queuedKey'[loops[v].id] = queuedKey[loops[v].id]
      BY <1>4, <2>2 DEF KeyKept
    <3>2. QED
      BY <1>4, <2>2, <3>1 DEF KeyInv, Owns
  <2>3. QED
    BY <1>4, <2>1, <2>2 DEF LoopKeyKept
<1>5. \A v \in Loops : loops'[v].pc = "evaluated" => loops'[v].id \in Submissions
  BY DEF TypeOK
<1>6. QED
  BY <1>2, <1>3, <1>4, <1>5 DEF KeyInv, Owns

LEMMA KeyInit == Init => KeyInv
<1>1. DeadLoop.pc = "off" /\ AbsentRow.status = "ABSENT"
  BY DEF DeadLoop, IdleLoop, AbsentRow
<1>2. QED
  BY <1>1 DEF Init, KeyInv, ResultIsAsNewAsItsRequest, NoKey

\* A claim is news to every evaluation in hand.
LEMMA ClaimKeepsKeys ==
    ASSUME TypeOK, ClaimInv, NEW i \in Submissions, NEW w \in Loops,
           rows' = [rows EXCEPT ![i] = ClaimedRow(@, FreshToken(i))],
           queuedKey' = queuedKey,
           \A v \in Loops \ {w} : loops'[v] = loops[v],
           loops'[w].pc # "evaluated"
    PROVE  \A j \in Submissions : KeyKept(j)
<1>1. rows'[i].status = "PROCESSING" /\ rows'[i].token = FreshToken(i)
  BY DEF TypeOK, Row, ClaimedRow
<1>2. minted[i] \in Nat /\ FreshToken(i) = minted[i] + 1
  BY DEF TypeOK, FreshToken
<1>3. \A v \in Loops \ {w} : loops'[v].token # NoToken /\ loops'[v].id = i
                             => loops'[v].token # FreshToken(i)
  <2>1. \A v \in Loops : loops[v].token \in Nat
    BY DEF TypeOK, Loop
  <2>2. QED
    BY <1>2, <2>1 DEF ClaimInv
<1>4. KeyKept(i)
  BY <1>1, <1>3 DEF KeyKept
<1>5. \A j \in Submissions \ {i} : KeyKept(j)
  BY DEF TypeOK, KeyKept
<1>6. QED
  BY <1>4, <1>5

\* Only w changes, and it has no evaluation in hand afterwards.
LEMMA NoEvaluationLeft ==
    ASSUME NEW w \in Loops, loops'[w].pc # "evaluated",
           \A v \in Loops \ {w} : loops'[v] = loops[v]
    PROVE  \A v \in Loops : LoopKeyKept(v)
BY DEF LoopKeyKept

LEMMA EndsPassLeavesNoEvaluation ==
    ASSUME TypeOK, NEW w \in Loops, EndsPass(w)
    PROVE  /\ loops'[w].pc # "evaluated" /\ loops'[w].token = NoToken
           /\ \A v \in Loops \ {w} : loops'[v] = loops[v]
BY DEF TypeOK, EndsPass, IdleLoop

LEMMA KeyLoopStep ==
    ASSUME TypeOK, TypeOK', ClaimInv, KeyInv, NEW w \in Loops, LoopStep(w) \/ LoopFault(w)
    PROVE  KeyInv'
<1>0. ASSUME rows' = rows, queuedKey' = queuedKey, answerKey' = answerKey,
             loops'[w].pc # "evaluated", \A v \in Loops \ {w} : loops'[v] = loops[v]
      PROVE  KeyInv'
  <2>1. \A i \in Submissions : KeyKept(i)
    BY <1>0 DEF KeyKept
  <2>2. \A v \in Loops : LoopKeyKept(v)
    BY <1>0, NoEvaluationLeft
  <2>3. QED
    BY <1>0, <2>1, <2>2, KeysKept
<1>1. CASE Retire(w)
  <2>1. DeadLoop.pc = "off"
    BY DEF DeadLoop, IdleLoop
  <2>2. QED
    BY <1>0, <1>1, <2>1 DEF Retire, TypeOK
<1>2. CASE ReadBusy(w) \/ LoadFails(w) \/ PersistRollsBack(w)
  BY <1>0, <1>2 DEF ReadBusy, LoadFails, PersistRollsBack, TypeOK, Loop
<1>3. CASE PickNext(w)
  <2>1. CASE EndsPass(w)
    BY <1>0, <1>3, <2>1, EndsPassLeavesNoEvaluation DEF PickNext
  <2>2. ASSUME NEW i \in Submissions,
               loops' = [loops EXCEPT ![w].pc = "picked", ![w].id = i, ![w].busy = {},
                                      ![w].attempts = rows[i].attempts]
        PROVE  loops'[w].pc # "evaluated" /\ \A v \in Loops \ {w} : loops'[v] = loops[v]
    BY <2>2 DEF TypeOK, Loop
  <2>3. QED
    BY <1>0, <1>3, <2>1, <2>2 DEF PickNext
<1>4. CASE PassFails(w)
  BY <1>0, <1>4, EndsPassLeavesNoEvaluation DEF PassFails
<1>5. CASE FailPoisonPill(w)
  <2>1. \A i \in Submissions : KeyKept(i)
    <3>1. \A i \in Submissions : rows[i].status = "PENDING" => rows[i].token = NoToken
      BY DEF ClaimInv
    <3>2. QED
      BY <1>5, <3>1 DEF FailPoisonPill, TypeOK, Row, KeyKept
  <2>2. \A v \in Loops : LoopKeyKept(v)
    BY <1>5, EndsPassLeavesNoEvaluation, NoEvaluationLeft DEF FailPoisonPill
  <2>3. QED
    BY <1>5, <2>1, <2>2, KeysKept DEF FailPoisonPill
<1>6. CASE Claim(w)
  <2>0. loops[w].id \in Submissions
    BY <1>6 DEF Claim, MayClaim, TypeOK
  <2>1. CASE EndsPass(w) /\ UNCHANGED <<rows, minted>>
    BY <1>0, <1>6, <2>1, EndsPassLeavesNoEvaluation DEF Claim
  <2>2. ASSUME NEW i \in Submissions, i = loops[w].id,
               rows' = [rows EXCEPT ![i] = ClaimedRow(@, FreshToken(i))],
               loops' = [loops EXCEPT ![w].pc = "claimed", ![w].attempts = Unknown,
                                      ![w].token = FreshToken(i)]
        PROVE  KeyInv'
    <3>1. loops'[w].pc # "evaluated" /\ \A v \in Loops \ {w} : loops'[v] = loops[v]
      BY <2>2 DEF TypeOK, Loop
    <3>2. queuedKey' = queuedKey /\ answerKey' = answerKey
      BY <1>6 DEF Claim
    <3>3. \A j \in Submissions : KeyKept(j)
      BY <2>2, <3>1, <3>2, ClaimKeepsKeys
    <3>4. QED
      BY <3>1, <3>2, <3>3, NoEvaluationLeft, KeysKept
  <2>3. QED
    BY <1>6, <2>0, <2>1, <2>2 DEF Claim
<1>7. CASE ClaimAnswerLost(w)
  <2>1. PICK i \in Submissions : rows' = [rows EXCEPT ![i] = ClaimedRow(@, FreshToken(i))]
    BY <1>7 DEF ClaimAnswerLost, MayClaim, TypeOK
  <2>2. /\ queuedKey' = queuedKey /\ answerKey' = answerKey
        /\ loops'[w].pc # "evaluated" /\ \A v \in Loops \ {w} : loops'[v] = loops[v]
    BY <1>7, EndsPassLeavesNoEvaluation DEF ClaimAnswerLost
  <2>3. \A j \in Submissions : KeyKept(j)
    BY <2>1, <2>2, ClaimKeepsKeys
  <2>4. QED
    BY <2>2, <2>3, NoEvaluationLeft, KeysKept
<1>8. CASE Evaluate(w)
  <2>1. \A v \in Loops : LoopKeyKept(v)
    BY <1>8, Evaluated DEF KeyNamed, LoopKeyKept
  <2>2. \A i \in Submissions : KeyKept(i)
    BY <1>8 DEF Evaluate, KeyKept
  <2>3. QED
    BY <1>8, <2>1, <2>2, KeysKept DEF Evaluate
<1>9. CASE Persist(w) \/ PersistAnswerLost(w)
  <2> DEFINE i == loops[w].id
  <2>1. /\ loops[w].pc = "evaluated" /\ loops[w] \in Loop /\ i \in Submissions
        /\ rows[i] \in Row
        /\ WriteIfStillOwned(w, EvaluatedRow(rows[i], loops[w]))
        /\ queuedKey' = queuedKey /\ answerKey' = answerKey
    BY <1>9 DEF Persist, PersistAnswerLost, PersistTransaction, TypeOK
  <2>2. loops'[w].pc # "evaluated" /\ \A v \in Loops \ {w} : loops'[v] = loops[v]
    <3>1. CASE Persist(w)
      BY <3>1, EndsPassLeavesNoEvaluation DEF Persist
    <3>2. CASE PersistAnswerLost(w)
      BY <3>2 DEF PersistAnswerLost, TypeOK, Loop
    <3>3. QED
      BY <1>9, <3>1, <3>2
  <2>3. \A j \in Submissions : KeyKept(j)
    <3>1. CASE ~ Owns(w)
      BY <2>1, <3>1 DEF WriteIfStillOwned, KeyKept
    <3>2. CASE Owns(w)
      <4>1. /\ rows'[i] = EvaluatedRow(rows[i], loops[w])
            /\ \A j \in Submissions \ {i} : rows'[j] = rows[j]
        BY <2>1, <3>2 DEF WriteIfStillOwned, TypeOK
      <4>2. /\ rows'[i].status = loops[w].status /\ rows'[i].key = loops[w].key
            /\ rows'[i].token = NoToken
        BY <2>1, <4>1 DEF EvaluatedRow, Row
      <4>3. loops[w].status = "COMPLETED" => loops[w].key >= queuedKey[i]
        BY <2>1, <3>2 DEF KeyInv
      <4>4. KeyKept(i)
        BY <2>1, <4>2, <4>3 DEF KeyKept
      <4>5. QED
        BY <2>1, <4>1, <4>4 DEF KeyKept
    <3>3. QED
      BY <3>1, <3>2
  <2>4. QED
    BY <2>1, <2>2, <2>3, NoEvaluationLeft, KeysKept
<1>10. CASE Recover(w)
  <2> DEFINE i == loops[w].id
  <2>1. /\ i \in Submissions /\ rows[i] \in Row
        /\ queuedKey' = queuedKey /\ answerKey' = answerKey
    BY <1>10 DEF Recover, TypeOK
  <2>2. PICK r \in {GivenUpRow(rows[i]), RequeuedRow(rows[i])} : WriteIfStillOwned(w, r)
    BY <1>10 DEF Recover
  <2>3. r.token = NoToken /\ r.status # "COMPLETED"
    BY <2>1, <2>2 DEF GivenUpRow, RequeuedRow, Row
  <2>4. \A j \in Submissions : KeyKept(j)
    BY <2>1, <2>2, <2>3 DEF WriteIfStillOwned, TypeOK, KeyKept
  <2>5. \A v \in Loops : LoopKeyKept(v)
    BY <1>10, EndsPassLeavesNoEvaluation, NoEvaluationLeft DEF Recover
  <2>6. QED
    BY <2>1, <2>4, <2>5, KeysKept
<1>11. QED
  BY <1>1, <1>2, <1>3, <1>4, <1>5, <1>6, <1>7, <1>8, <1>9, <1>10 DEF LoopStep, LoopFault

LEMMA KeyNext == TypeOK /\ TypeOK' /\ ClaimInv /\ KeyInv /\ [Next]_vars => KeyInv'
<1> SUFFICES ASSUME TypeOK, TypeOK', ClaimInv, KeyInv, [Next]_vars PROVE KeyInv'
  OBVIOUS
<1>0. loops' = loops => \A v \in Loops : LoopKeyKept(v)
  BY DEF LoopKeyKept
<1>1. ASSUME NEW i \in Submissions, Submit(i) PROVE KeyInv'
  <2>1. \A j \in Submissions : KeyKept(j)
    <3>1. SubmittedRow.status = "PENDING" /\ SubmittedRow.token = NoToken
      BY DEF SubmittedRow, AbsentRow
    <3>2. /\ rows'[i] = SubmittedRow /\ queuedKey'[i] = answerKey
          /\ \A j \in Submissions \ {i} : rows'[j] = rows[j] /\ queuedKey'[j] = queuedKey[j]
      BY <1>1 DEF Submit, TypeOK
    <3>3. QED
      BY <3>1, <3>2 DEF KeyKept
  <2>2. QED
    BY <1>0, <1>1, <2>1, KeysKept DEF Submit
<1>2. ASSUME NEW w \in Loops, LoopStep(w) \/ LoopFault(w) PROVE KeyInv'
  BY <1>2, KeyLoopStep
<1>3. ASSUME NEW a \in Staff, RerunWrites(a) PROVE KeyInv'
  <2>1. \A j \in Submissions : KeyKept(j)
    BY <1>3 DEF RerunWrites, TypeOK, Row, RerunRow, KeyKept
  <2>2. QED
    BY <1>0, <1>3, <2>1, KeysKept DEF RerunWrites
<1>4. CASE CourseRerun
  <2>1. \A j \in Submissions : KeyKept(j)
    BY <1>4 DEF CourseRerun, TypeOK, Row, RerunRow, KeyKept
  <2>2. QED
    BY <1>0, <1>4, <2>1, KeysKept DEF CourseRerun
<1>5. ASSUME NEW stuck \in SUBSET Submissions, Reap(stuck) PROVE KeyInv'
  <2>1. \A j \in Submissions : KeyKept(j)
    <3>1. ASSUME NEW r \in Row
          PROVE  RequeuedRow(r).status = "PENDING" /\ RequeuedRow(r).token = NoToken
      BY DEF Row, RequeuedRow
    <3>2. \A j \in Submissions :
            /\ rows'[j] = rows[j] \/ (rows'[j].status = "PENDING" /\ rows'[j].token = NoToken)
            /\ queuedKey'[j] = queuedKey[j]
      BY <1>5, <3>1 DEF Reap, TypeOK
    <3>3. QED
      BY <3>2 DEF KeyKept
  <2>2. QED
    BY <1>0, <1>5, <2>1, KeysKept DEF Reap
<1>6. ASSUME \A v \in Loops : loops'[v] = loops[v] \/ loops'[v].pc # "evaluated",
             rows' = rows, queuedKey' = queuedKey, answerKey' = answerKey
      PROVE  KeyInv'
  <2>1. \A v \in Loops : LoopKeyKept(v)
    BY <1>6 DEF LoopKeyKept
  <2>2. \A j \in Submissions : KeyKept(j)
    BY <1>6 DEF KeyKept
  <2>3. QED
    BY <1>6, <2>1, <2>2, KeysKept
<1>7. ASSUME NEW n \in Nat, EnsureWorkers(n)
      PROVE  \A v \in Loops : loops'[v] = loops[v] \/ loops'[v].pc # "evaluated"
  <2>1. IdleLoop.pc = "start"
    BY DEF IdleLoop
  <2>2. QED
    BY <1>7, <2>1, EnsureWorkersKeepsLoops
<1>8. CASE RefreshQueueSettings
  BY <1>6, <1>7, <1>8, SettingsAssumption DEF RefreshQueueSettings
<1>9. CASE StartSubmissionWorker
  BY <1>6, <1>7, <1>9, SettingsAssumption DEF StartSubmissionWorker
<1>10. CASE Crash
  <2>1. DeadLoop.pc = "off"
    BY DEF DeadLoop, IdleLoop
  <2>2. QED
    BY <1>6, <1>10, <2>1 DEF Crash
<1>11. CASE ReplaceAnswerKey
  <2>1. \A j \in Submissions : KeyKept(j)
    BY <1>11 DEF ReplaceAnswerKey, KeyKept
  <2>2. QED
    BY <1>0, <1>11, <2>1, KeysKept DEF ReplaceAnswerKey
<1>12. ASSUME NEW a \in Staff, NEW i \in Submissions, RerunReads(a, i) PROVE KeyInv'
  BY <1>6, <1>12 DEF RerunReads
<1>13. ASSUME NEW s \in Students, EnterGrade(s) \/ ClearGrade(s) \/ ToggleHold(s)
       PROVE  KeyInv'
  BY <1>6, <1>13 DEF EnterGrade, ClearGrade, ToggleHold, StaffGrade
<1>14. CASE UNCHANGED vars
  BY <1>6, <1>14 DEF vars
<1>15. QED
  BY <1>1, <1>2, <1>3, <1>4, <1>5, <1>8, <1>9, <1>10, <1>11, <1>12, <1>13, <1>14 DEF Next

\* No result lands that was measured against a key older than the one in force
\* when the work was last asked for, however many loops, keys and reruns.
THEOREM ResultFresh == Spec => []ResultIsAsNewAsItsRequest
<1>1. Init => ClaimInv /\ KeyInv
  BY ClaimInit, KeyInit
<1>2. TypeOK /\ ClaimInv /\ [Next]_vars => ClaimInv'
  BY ClaimNext
<1>3. TypeOK /\ TypeOK' /\ ClaimInv /\ KeyInv /\ [Next]_vars => KeyInv'
  BY KeyNext
<1>4. KeyInv => ResultIsAsNewAsItsRequest
  BY DEF KeyInv
<1>5. QED
  BY <1>1, <1>2, <1>3, <1>4, TypeCorrect, PTL DEF Spec

----------------------------------------------------------------------------
(* What a step may never do.                                               *)

\* A loop writes, after its claim, only the row whose token it holds.
LEMMA FencedWrite ==
    ASSUME TypeOK, NEW w \in Loops, NEW r, WriteIfStillOwned(w, r),
           loops[w].pc \in AtRow, NEW i \in Submissions, rows'[i] # rows[i]
    PROVE  Owns(w) /\ i = loops[w].id /\ rows'[i] = r
BY DEF TypeOK, WriteIfStillOwned, AtRow

\* The rows a loop changes were on the queue.
LEMMA LoopsChangeTheQueue ==
    ASSUME TypeOK, ClaimInv, NEW w \in Loops, LoopStep(w) \/ LoopFault(w),
           NEW i \in Submissions, rows'[i] # rows[i]
    PROVE  rows[i].status \in OnQueue
<1>1. CASE FailPoisonPill(w)
  BY <1>1 DEF FailPoisonPill, TypeOK, OnQueue
<1>2. CASE Claim(w) \/ ClaimAnswerLost(w)
  BY <1>2 DEF Claim, ClaimAnswerLost, MayClaim, TypeOK, OnQueue
<1>3. ASSUME NEW r, WriteIfStillOwned(w, r), loops[w].pc \in AtRow
      PROVE  rows[i].status \in OnQueue
  <2>1. Owns(w) /\ i = loops[w].id
    BY <1>3, FencedWrite
  <2>2. QED
    BY <2>1 DEF ClaimInv, Owns, OnQueue
<1>4. CASE Persist(w) \/ PersistAnswerLost(w)
  BY <1>3, <1>4 DEF Persist, PersistAnswerLost, PersistTransaction, AtRow
<1>5. CASE Recover(w)
  BY <1>3, <1>5 DEF Recover, AtRow
<1>6. QED
  BY <1>1, <1>2, <1>4, <1>5
     DEF LoopStep, LoopFault, Retire, ReadBusy, PickNext, Evaluate, LoadFails,
         PersistRollsBack, PassFails

LEMMA SettledStep ==
    ASSUME TypeOK, ClaimInv, [Next]_vars,
           NEW i \in Submissions, rows[i].status \in Settled, rows'[i] # rows[i]
    PROVE  rows'[i].status = "PENDING" /\ rows'[i].attempts = 0
<1>0. \A r \in Row : RerunRow(r).status = "PENDING" /\ RerunRow(r).attempts = 0
  BY DEF Row, RerunRow
<1>1. ASSUME NEW j \in Submissions, Submit(j) PROVE FALSE
  BY <1>1 DEF Submit, Present, TypeOK, Settled
<1>2. ASSUME NEW w \in Loops, LoopStep(w) \/ LoopFault(w) PROVE FALSE
  BY <1>2, LoopsChangeTheQueue DEF Settled, OnQueue
<1>3. ASSUME NEW a \in Staff, RerunWrites(a)
      PROVE  rows'[i].status = "PENDING" /\ rows'[i].attempts = 0
  BY <1>0, <1>3 DEF RerunWrites, TypeOK
<1>4. CASE CourseRerun
  BY <1>0, <1>4 DEF CourseRerun, TypeOK
<1>5. ASSUME NEW stuck \in SUBSET Submissions, Reap(stuck) PROVE FALSE
  BY <1>5 DEF Reap, TypeOK, Settled
<1>6. CASE rows' = rows
  BY <1>6
<1>7. QED
  BY <1>1, <1>2, <1>3, <1>4, <1>5, <1>6
     DEF Next, vars, RerunReads, ReplaceAnswerKey, EnterGrade, ClearGrade, ToggleHold,
         StaffGrade, RefreshQueueSettings, Crash, StartSubmissionWorker

\* A settled row changes by a rerun alone: no late answer, retry, reaper or
\* second evaluation of any loop touches it.
THEOREM RerunsAloneUnsettle == Spec => OnlyARerunUnsettles
<1>1. TypeOK /\ ClaimInv /\ [Next]_vars =>
        [\A i \in Submissions :
           rows[i].status \in Settled /\ rows'[i] # rows[i]
             => rows'[i].status = "PENDING" /\ rows'[i].attempts = 0]_vars
  BY SettledStep
<1>2. QED
  BY <1>1, ClaimInit, ClaimNext, TypeCorrect, PTL DEF Spec, OnlyARerunUnsettles

\* The one step that changes a submission and a grade together.
LEMMA GradeStep ==
    ASSUME TypeOK, [Next]_vars, rows' # rows, grades' # grades
    PROVE  \E w \in Loops :
             /\ loops[w].pc = "evaluated" /\ loops[w].status = "COMPLETED"
             /\ WriteIfStillOwned(w, EvaluatedRow(rows[loops[w].id], loops[w]))
             /\ grades' = Graded(loops[w].id, loops[w].correct)
<1>1. PICK w \in Loops : Persist(w) \/ PersistAnswerLost(w)
  BY DEF Next, vars, Submit, RerunReads, RerunWrites, CourseRerun, ReplaceAnswerKey,
         EnterGrade, ClearGrade, ToggleHold, StaffGrade, RefreshQueueSettings, Reap, Crash,
         StartSubmissionWorker, LoopStep, LoopFault, Retire, ReadBusy, PickNext,
         FailPoisonPill, Claim, ClaimAnswerLost, Evaluate, LoadFails, PersistRollsBack,
         Recover, PassFails
<1>2. loops[w].pc = "evaluated" /\ PersistTransaction(w)
  BY <1>1 DEF Persist, PersistAnswerLost
<1>3. YieldsAGrade(loops[w].status, loops[w].correct)
  BY <1>2 DEF PersistTransaction
<1>4. QED
  BY <1>2, <1>3 DEF PersistTransaction, YieldsAGrade

\* A held grade is never changed by a step that writes a submission.
THEOREM HeldGradesSurvive == Spec => HeldGradeSurvivesTheWorker
<1>1. ASSUME TypeOK, [Next]_vars, rows' # rows, NEW s \in Students, grades[s].manual
      PROVE  grades'[s] = grades[s]
  BY <1>1, GradeStep DEF Graded
<1>2. TypeOK /\ [Next]_vars =>
        [rows' # rows => \A s \in Students : grades[s].manual => grades'[s] = grades[s]]_vars
  BY <1>1
<1>3. QED
  BY <1>2, TypeCorrect, PTL DEF Spec, HeldGradeSurvivesTheWorker

\* A submission that ends FAILED, by the evaluator's word, by a burned budget or
\* by the poison-pill guard, moves nobody's grade.
THEOREM FailuresMoveNoGrade == Spec => FailureMovesNoGrade
<1>1. ASSUME TypeOK, [Next]_vars, NEW i \in Submissions,
             rows[i].status # "FAILED", rows'[i].status = "FAILED"
      PROVE  grades' = grades
  <2>1. SUFFICES ASSUME grades' # grades PROVE FALSE
    OBVIOUS
  <2>2. PICK w \in Loops :
          /\ loops[w].pc = "evaluated" /\ loops[w].status = "COMPLETED"
          /\ WriteIfStillOwned(w, EvaluatedRow(rows[loops[w].id], loops[w]))
    BY <1>1, <2>1, GradeStep
  <2>3. i = loops[w].id /\ rows'[i] = EvaluatedRow(rows[loops[w].id], loops[w])
    BY <1>1, <2>2, FencedWrite DEF AtRow
  <2>4. rows'[i].status = loops[w].status
    BY <1>1, <2>3 DEF EvaluatedRow, TypeOK, Row
  <2>5. QED
    BY <1>1, <2>2, <2>4
<1>2. TypeOK /\ [Next]_vars =>
        [(\E i \in Submissions : rows[i].status # "FAILED" /\ rows'[i].status = "FAILED")
           => grades' = grades]_vars
  BY <1>1
<1>3. QED
  BY <1>2, TypeCorrect, PTL DEF Spec, FailureMovesNoGrade

----------------------------------------------------------------------------
(* The attempts a row can be given.                                        *)

LEMMA PickersAreFew ==
    \A i \in Submissions : /\ IsFiniteSet(Pickers(i))
                           /\ Cardinality(Pickers(i)) \in 0 .. Cardinality(Loops)
<1> SUFFICES ASSUME NEW i \in Submissions
             PROVE  /\ IsFiniteSet(Pickers(i))
                    /\ Cardinality(Pickers(i)) \in 0 .. Cardinality(Loops)
  OBVIOUS
<1>1. Pickers(i) \in SUBSET Loops /\ IsFiniteSet(Loops)
  BY SettingsAssumption DEF Pickers
<1>2. IsFiniteSet(Pickers(i)) /\ Cardinality(Pickers(i)) <= Cardinality(Loops)
  BY <1>1, FS_Subset
<1>3. Cardinality(Pickers(i)) \in Nat /\ Cardinality(Loops) \in Nat
  BY <1>1, <1>2, FS_CardinalityType
<1>4. QED
  BY <1>2, <1>3

\* A step that neither claims row i nor adds a picker to it, one that starts its
\* budget afresh, and one that adds a picker below the budget.
BudgetKept(i) ==
    \/ rows'[i].attempts = rows[i].attempts /\ Pickers(i)' \subseteq Pickers(i)
    \/ rows'[i].attempts = 0
    \/ rows'[i].attempts < MaxAttemptsEver
    \/ /\ rows'[i].attempts = rows[i].attempts + 1
       /\ \E w \in Pickers(i) : Pickers(i)' \subseteq Pickers(i) \ {w}

LEMMA BudgetsKept ==
    ASSUME TypeOK, TypeOK', AttemptsInv, \A i \in Submissions : BudgetKept(i)
    PROVE  AttemptsInv'
<1> SUFFICES ASSUME NEW i \in Submissions
             PROVE  rows'[i].attempts + Cardinality(Pickers(i)')
                      < MaxAttemptsEver + Cardinality(Loops)
  BY DEF AttemptsInv
<1> DEFINE P == Pickers(i)
           Q == Pickers(i)'
           n == Cardinality(Loops)
<1>1. /\ IsFiniteSet(P) /\ Cardinality(P) \in 0 .. n
  BY PickersAreFew
<1>2. Q \in SUBSET Loops /\ IsFiniteSet(Loops)
  BY SettingsAssumption DEF Pickers
<1>3. /\ IsFiniteSet(Q) /\ Cardinality(Q) \in Nat /\ Cardinality(Q) <= n /\ n \in Nat
  BY <1>2, FS_Subset, FS_CardinalityType
<1>4. rows[i].attempts \in Nat /\ rows'[i].attempts \in Nat
  BY DEF TypeOK, Row
<1>5. rows[i].attempts + Cardinality(P) < MaxAttemptsEver + n
  BY DEF AttemptsInv
<1>6. CASE rows'[i].attempts = rows[i].attempts /\ Q \subseteq P
  <2>1. Cardinality(Q) <= Cardinality(P)
    BY <1>1, <1>6, FS_Subset
  <2> HIDE DEF P, Q, n
  <2>2. QED
    BY <1>1, <1>3, <1>4, <1>5, <1>6, <2>1, BoundsAssumption DEF P, Q, n
<1>7. CASE rows'[i].attempts = 0 \/ rows'[i].attempts < MaxAttemptsEver
  <2> HIDE DEF P, Q, n
  <2>1. rows'[i].attempts + Cardinality(Q) < MaxAttemptsEver + n
    BY <1>3, <1>4, <1>7, BoundsAssumption
  <2>2. QED
    BY <2>1 DEF Q, n
<1>8. ASSUME NEW w \in P, rows'[i].attempts = rows[i].attempts + 1, Q \subseteq P \ {w}
      PROVE  rows'[i].attempts + Cardinality(Q) < MaxAttemptsEver + n
  <2>1. IsFiniteSet(P \ {w}) /\ Cardinality(P \ {w}) = Cardinality(P) - 1
    BY <1>1, <1>8, FS_RemoveElement
  <2>2. Cardinality(Q) <= Cardinality(P \ {w})
    BY <1>8, <2>1, FS_Subset
  <2> HIDE DEF P, Q, n
  <2>3. QED
    BY <1>1, <1>3, <1>4, <1>5, <1>8, <2>1, <2>2, BoundsAssumption
<1>9. QED
  BY <1>6, <1>7, <1>8 DEF BudgetKept

LEMMA BudgetInit == Init => AttemptsInv
<1> SUFFICES ASSUME Init, NEW i \in Submissions
             PROVE  rows[i].attempts + Cardinality(Pickers(i))
                      < MaxAttemptsEver + Cardinality(Loops)
  BY DEF AttemptsInv
<1>1. rows[i].attempts = 0
  BY DEF Init, AbsentRow
<1>2. Cardinality(Pickers(i)) \in 0 .. Cardinality(Loops) /\ Cardinality(Loops) \in Nat
  BY PickersAreFew, SettingsAssumption, FS_CardinalityType
<1>3. QED
  BY <1>1, <1>2, BoundsAssumption

\* Loops that only drop what they picked add no picker.
LEMMA NoNewPicker ==
    ASSUME \A v \in Loops : loops'[v] = loops[v] \/ loops'[v].pc # "picked",
           NEW i \in Submissions
    PROVE  Pickers(i)' \subseteq Pickers(i)
BY DEF Pickers

LEMMA EndsPassDropsPicker ==
    ASSUME TypeOK, NEW w \in Loops, EndsPass(w)
    PROVE  /\ \A v \in Loops : loops'[v] = loops[v] \/ loops'[v].pc # "picked"
           /\ loops'[w].pc # "picked"
BY DEF TypeOK, EndsPass, IdleLoop

\* What a claim, answered or not, does to the budget: it spends one attempt, and
\* the loop stops being a picker.
LEMMA ClaimSpendsAPicker ==
    ASSUME TypeOK, NEW w \in Loops, MayClaim(w), NEW i \in Submissions, i = loops[w].id,
           rows' = [rows EXCEPT ![i] = ClaimedRow(@, FreshToken(i))],
           loops'[w].pc # "picked", \A v \in Loops \ {w} : loops'[v] = loops[v]
    PROVE  \A j \in Submissions : BudgetKept(j)
<1>1. \A j \in Submissions : Pickers(j)' \subseteq Pickers(j) \ {w}
  BY DEF Pickers
<1>2. loops[w].attempts < MaxAttemptsEver
  <2>1. queue.maxAttempts \in Nat /\ queue.maxAttempts <= MaxAttemptsEver
    BY SettingsAssumption DEF TypeOK
  <2>2. loops[w].attempts \in Int
    BY DEF TypeOK, Loop, Unknown
  <2>3. QED
    BY <2>1, <2>2, BoundsAssumption DEF MayClaim
<1>3. w \in Pickers(i)
  BY <1>2 DEF Pickers, MayClaim
<1>4. rows'[i].attempts = rows[i].attempts + 1
  BY DEF TypeOK, Row, ClaimedRow
<1>5. \A j \in Submissions \ {i} : rows'[j] = rows[j]
  BY DEF TypeOK
<1>6. QED
  BY <1>1, <1>3, <1>4, <1>5 DEF BudgetKept

\* Every other write of a row leaves its attempts, or sets them to 0.
LEMMA AttemptsWritten ==
    ASSUME NEW r \in Row
    PROVE  /\ RerunRow(r).attempts = 0 /\ SubmittedRow.attempts = 0
           /\ RequeuedRow(r).attempts = r.attempts
           /\ GivenUpRow(r).attempts = r.attempts
           /\ \A l : EvaluatedRow(r, l).attempts = r.attempts
BY DEF Row, RerunRow, SubmittedRow, AbsentRow, RequeuedRow, GivenUpRow, EvaluatedRow

LEMMA BudgetLoopStep ==
    ASSUME TypeOK, TypeOK', AttemptsInv, NEW w \in Loops, LoopStep(w) \/ LoopFault(w)
    PROVE  AttemptsInv'
<1>0. ASSUME \A i \in Submissions : rows'[i].attempts = rows[i].attempts,
             \A v \in Loops : loops'[v] = loops[v] \/ loops'[v].pc # "picked"
      PROVE  AttemptsInv'
  <2>1. \A i \in Submissions : BudgetKept(i)
    BY <1>0, NoNewPicker DEF BudgetKept
  <2>2. QED
    BY <2>1, BudgetsKept
<1>1. CASE Retire(w)
  <2>1. DeadLoop.pc = "off"
    BY DEF DeadLoop, IdleLoop
  <2>2. QED
    BY <1>0, <1>1, <2>1 DEF Retire, TypeOK
<1>2. CASE ReadBusy(w) \/ Evaluate(w) \/ LoadFails(w) \/ PersistRollsBack(w)
  <2>1. rows' = rows
    BY <1>2 DEF ReadBusy, Evaluate, LoadFails, PersistRollsBack
  <2>2. loops'[w].pc # "picked"
    <3>1. CASE Evaluate(w)
      BY <3>1, Evaluated
    <3>2. CASE ReadBusy(w) \/ LoadFails(w) \/ PersistRollsBack(w)
      BY <3>2 DEF ReadBusy, LoadFails, PersistRollsBack, TypeOK, Loop
    <3>3. QED
      BY <1>2, <3>1, <3>2
  <2>3. \A v \in Loops \ {w} : loops'[v] = loops[v]
    BY <1>2 DEF ReadBusy, Evaluate, LoadFails, PersistRollsBack, TypeOK
  <2>4. QED
    BY <1>0, <2>1, <2>2, <2>3
<1>3. CASE PickNext(w)
  <2>1. CASE EndsPass(w)
    BY <1>0, <1>3, <2>1, EndsPassDropsPicker DEF PickNext
  <2>2. ASSUME NEW i \in Submissions,
               loops' = [loops EXCEPT ![w].pc = "picked", ![w].id = i, ![w].busy = {},
                                      ![w].attempts = rows[i].attempts]
        PROVE  AttemptsInv'
    <3>1. /\ loops'[w].pc = "picked" /\ loops'[w].id = i
          /\ loops'[w].attempts = rows[i].attempts
          /\ \A v \in Loops \ {w} : loops'[v] = loops[v]
      BY <2>2 DEF TypeOK, Loop
    <3>2. rows' = rows
      BY <1>3 DEF PickNext
    <3>3. \A j \in Submissions \ {i} : BudgetKept(j)
      <4>1. \A j \in Submissions \ {i} : Pickers(j)' \subseteq Pickers(j)
        BY <3>1 DEF Pickers
      <4>2. QED
        BY <3>2, <4>1 DEF BudgetKept
    <3>4. BudgetKept(i)
      <4>1. rows[i].attempts \in Nat
        BY DEF TypeOK, Row
      <4>2. CASE rows[i].attempts < MaxAttemptsEver
        BY <3>2, <4>2 DEF BudgetKept
      <4>3. CASE ~ rows[i].attempts < MaxAttemptsEver
        <5>1. Pickers(i)' \subseteq Pickers(i)
          BY <3>1, <4>3 DEF Pickers
        <5>2. QED
          BY <3>2, <5>1 DEF BudgetKept
      <4>4. QED
        BY <4>2, <4>3
    <3>5. QED
      BY <3>3, <3>4, BudgetsKept
  <2>3. QED
    BY <1>3, <2>1, <2>2 DEF PickNext
<1>4. CASE PassFails(w)
  BY <1>0, <1>4, EndsPassDropsPicker DEF PassFails
<1>5. CASE FailPoisonPill(w)
  <2>1. \A i \in Submissions : rows'[i].attempts = rows[i].attempts
    BY <1>5 DEF FailPoisonPill, TypeOK, Row
  <2>2. QED
    BY <1>0, <1>5, <2>1, EndsPassDropsPicker DEF FailPoisonPill
<1>6. CASE Claim(w)
  <2>0. loops[w].id \in Submissions
    BY <1>6 DEF Claim, MayClaim, TypeOK
  <2>1. CASE EndsPass(w) /\ UNCHANGED <<rows, minted>>
    BY <1>0, <2>1, EndsPassDropsPicker
  <2>2. ASSUME NEW i \in Submissions, i = loops[w].id,
               rows' = [rows EXCEPT ![i] = ClaimedRow(@, FreshToken(i))],
               loops' = [loops EXCEPT ![w].pc = "claimed", ![w].attempts = Unknown,
                                      ![w].token = FreshToken(i)]
        PROVE  AttemptsInv'
    <3>1. loops'[w].pc # "picked" /\ \A v \in Loops \ {w} : loops'[v] = loops[v]
      BY <2>2 DEF TypeOK, Loop
    <3>2. MayClaim(w)
      BY <1>6 DEF Claim
    <3>3. QED
      BY <2>2, <3>1, <3>2, ClaimSpendsAPicker, BudgetsKept
  <2>3. QED
    BY <1>6, <2>0, <2>1, <2>2 DEF Claim
<1>7. CASE ClaimAnswerLost(w)
  <2>1. /\ loops[w].id \in Submissions /\ MayClaim(w)
        /\ rows' = [rows EXCEPT ![loops[w].id] = ClaimedRow(@, FreshToken(loops[w].id))]
    BY <1>7 DEF ClaimAnswerLost, MayClaim, TypeOK
  <2>2. loops'[w].pc # "picked" /\ \A v \in Loops \ {w} : loops'[v] = loops[v]
    BY <1>7, EndsPassDropsPicker, EndsPassLeavesNoEvaluation DEF ClaimAnswerLost
  <2>3. QED
    BY <2>1, <2>2, ClaimSpendsAPicker, BudgetsKept
<1>8. ASSUME NEW r, WriteIfStillOwned(w, r), loops[w].pc \in AtRow,
             r.attempts = rows[loops[w].id].attempts
      PROVE  \A i \in Submissions : rows'[i].attempts = rows[i].attempts
  BY <1>8, FencedWrite
<1>9. CASE Persist(w) \/ PersistAnswerLost(w)
  <2>1. /\ loops[w].pc \in AtRow /\ rows[loops[w].id] \in Row
        /\ WriteIfStillOwned(w, EvaluatedRow(rows[loops[w].id], loops[w]))
    BY <1>9 DEF Persist, PersistAnswerLost, PersistTransaction, TypeOK, AtRow
  <2>2. \A i \in Submissions : rows'[i].attempts = rows[i].attempts
    BY <1>8, <2>1, AttemptsWritten
  <2>3. \A v \in Loops : loops'[v] = loops[v] \/ loops'[v].pc # "picked"
    <3>1. CASE Persist(w)
      BY <3>1, EndsPassDropsPicker DEF Persist
    <3>2. CASE PersistAnswerLost(w)
      BY <3>2 DEF PersistAnswerLost, TypeOK, Loop
    <3>3. QED
      BY <1>9, <3>1, <3>2
  <2>4. QED
    BY <1>0, <2>2, <2>3
<1>10. CASE Recover(w)
  <2>1. loops[w].pc \in AtRow /\ rows[loops[w].id] \in Row
    BY <1>10 DEF Recover, TypeOK, AtRow
  <2>2. PICK r \in {GivenUpRow(rows[loops[w].id]), RequeuedRow(rows[loops[w].id])} :
          WriteIfStillOwned(w, r)
    BY <1>10 DEF Recover
  <2>3. \A i \in Submissions : rows'[i].attempts = rows[i].attempts
    BY <1>8, <2>1, <2>2, AttemptsWritten
  <2>4. QED
    BY <1>0, <1>10, <2>3, EndsPassDropsPicker DEF Recover
<1>11. QED
  BY <1>1, <1>2, <1>3, <1>4, <1>5, <1>6, <1>7, <1>9, <1>10 DEF LoopStep, LoopFault

LEMMA BudgetNext == TypeOK /\ TypeOK' /\ AttemptsInv /\ [Next]_vars => AttemptsInv'
<1> SUFFICES ASSUME TypeOK, TypeOK', AttemptsInv, [Next]_vars PROVE AttemptsInv'
  OBVIOUS
<1>0. ASSUME \A i \in Submissions :
               rows'[i].attempts = rows[i].attempts \/ rows'[i].attempts = 0,
             \A v \in Loops : loops'[v] = loops[v] \/ loops'[v].pc # "picked"
      PROVE  AttemptsInv'
  <2>1. \A i \in Submissions : BudgetKept(i)
    BY <1>0, NoNewPicker DEF BudgetKept
  <2>2. QED
    BY <2>1, BudgetsKept
<1>1. ASSUME NEW i \in Submissions, Submit(i) PROVE AttemptsInv'
  <2>1. \A j \in Submissions :
          rows'[j].attempts = rows[j].attempts \/ rows'[j].attempts = 0
    BY <1>1, AttemptsWritten DEF Submit, TypeOK
  <2>2. QED
    BY <1>0, <1>1, <2>1 DEF Submit
<1>2. ASSUME NEW w \in Loops, LoopStep(w) \/ LoopFault(w) PROVE AttemptsInv'
  BY <1>2, BudgetLoopStep
<1>3. ASSUME NEW a \in Staff, RerunWrites(a) PROVE AttemptsInv'
  <2>1. \A j \in Submissions :
          rows'[j].attempts = rows[j].attempts \/ rows'[j].attempts = 0
    BY <1>3, AttemptsWritten DEF RerunWrites, TypeOK
  <2>2. QED
    BY <1>0, <1>3, <2>1 DEF RerunWrites
<1>4. CASE CourseRerun
  <2>1. \A j \in Submissions :
          rows'[j].attempts = rows[j].attempts \/ rows'[j].attempts = 0
    BY <1>4, AttemptsWritten DEF CourseRerun, TypeOK
  <2>2. QED
    BY <1>0, <1>4, <2>1 DEF CourseRerun
<1>5. ASSUME NEW stuck \in SUBSET Submissions, Reap(stuck) PROVE AttemptsInv'
  <2>1. \A j \in Submissions : rows'[j].attempts = rows[j].attempts
    BY <1>5, AttemptsWritten DEF Reap, TypeOK
  <2>2. QED
    BY <1>0, <1>5, <2>1 DEF Reap
<1>6. ASSUME NEW n \in Nat, EnsureWorkers(n), rows' = rows PROVE AttemptsInv'
  <2>1. IdleLoop.pc = "start"
    BY DEF IdleLoop
  <2>2. QED
    BY <1>0, <1>6, <2>1, EnsureWorkersKeepsLoops
<1>7. CASE RefreshQueueSettings
  BY <1>6, <1>7, SettingsAssumption DEF RefreshQueueSettings
<1>8. CASE StartSubmissionWorker
  BY <1>6, <1>8, SettingsAssumption DEF StartSubmissionWorker
<1>9. CASE Crash
  <2>1. DeadLoop.pc = "off"
    BY DEF DeadLoop, IdleLoop
  <2>2. QED
    BY <1>0, <1>9, <2>1 DEF Crash
<1>10. CASE rows' = rows /\ loops' = loops
  BY <1>0, <1>10
<1>11. QED
  BY <1>1, <1>2, <1>3, <1>4, <1>5, <1>7, <1>8, <1>9, <1>10
     DEF Next, vars, RerunReads, ReplaceAnswerKey, EnterGrade, ClearGrade, ToggleHold,
         StaffGrade

\* Stale readings, lost claims, reaps and crashes included, no row is ever
\* claimed more than the budget and one attempt for each loop but one.
THEOREM BudgetHolds == Spec => []AttemptsBounded
<1>1. ASSUME TypeOK, AttemptsInv PROVE AttemptsBounded
  <2>1. ASSUME NEW i \in Submissions
        PROVE  rows[i].attempts < MaxAttemptsEver + Cardinality(Loops)
    <3>1. rows[i].attempts \in Nat
      BY <1>1 DEF TypeOK, Row
    <3>2. Cardinality(Pickers(i)) \in Nat /\ Cardinality(Loops) \in Nat
      BY PickersAreFew, SettingsAssumption, FS_CardinalityType
    <3>3. rows[i].attempts + Cardinality(Pickers(i)) < MaxAttemptsEver + Cardinality(Loops)
      BY <1>1 DEF AttemptsInv
    <3>4. QED
      BY <3>1, <3>2, <3>3, BoundsAssumption
  <2>2. QED
    BY <2>1 DEF AttemptsBounded
<1>2. Init => AttemptsInv
  BY BudgetInit
<1>3. TypeOK /\ TypeOK' /\ AttemptsInv /\ [Next]_vars => AttemptsInv'
  BY BudgetNext
<1>4. QED
  BY <1>1, <1>2, <1>3, TypeCorrect, PTL DEF Spec

----------------------------------------------------------------------------
(* What a loop decides on is what its row still says.                      *)

AtHand == {"evaluated", "catch"}

\* Between its claim and its read a loop knows no attempts, and those it has
\* read are the row's for as long as the claim stands.
ReadInv ==
    \A w \in Loops :
        /\ loops[w].pc = "claimed" => loops[w].attempts = Unknown
        /\ loops[w].pc \in AtHand /\ Owns(w) /\ loops[w].attempts # Unknown
             => rows[loops[w].id].attempts = loops[w].attempts

\* A row changes by losing its claim or by a claim nobody ever held.
LEMMA RowIsReleasedOrClaimed ==
    ASSUME TypeOK, ClaimInv, [Next]_vars, NEW i \in Submissions, rows'[i] # rows[i]
    PROVE  rows'[i].token = NoToken \/ rows'[i].token = FreshToken(i)
<1>0. \A r \in Row : /\ RerunRow(r).token = NoToken /\ RequeuedRow(r).token = NoToken
                     /\ GivenUpRow(r).token = NoToken
                     /\ \A t \in Nat : ClaimedRow(r, t).token = t
                     /\ \A l \in Loop : EvaluatedRow(r, l).token = NoToken
  BY DEF Row, RerunRow, RequeuedRow, GivenUpRow, ClaimedRow, EvaluatedRow, Loop
<1>1. ASSUME NEW j \in Submissions, Submit(j) PROVE rows'[i].token = NoToken
  BY <1>1 DEF Submit, TypeOK, SubmittedRow, AbsentRow
<1>2. ASSUME NEW w \in Loops, LoopStep(w) \/ LoopFault(w)
      PROVE  rows'[i].token = NoToken \/ rows'[i].token = FreshToken(i)
  <2>1. CASE FailPoisonPill(w)
    BY <2>1 DEF FailPoisonPill, TypeOK, Row, ClaimInv
  <2>2. CASE Claim(w) \/ ClaimAnswerLost(w)
    <3>1. PICK j \in Submissions : rows' = [rows EXCEPT ![j] = ClaimedRow(@, FreshToken(j))]
      BY <2>2 DEF Claim, ClaimAnswerLost, MayClaim, TypeOK
    <3>2. FreshToken(j) \in Nat
      BY DEF FreshToken, TypeOK
    <3>3. QED
      BY <1>0, <3>1, <3>2 DEF TypeOK
  <2>3. CASE Persist(w) \/ PersistAnswerLost(w)
    <3>1. loops[w].pc \in AtRow /\ WriteIfStillOwned(w, EvaluatedRow(rows[loops[w].id], loops[w]))
      BY <2>3 DEF Persist, PersistAnswerLost, PersistTransaction, AtRow
    <3>2. i = loops[w].id /\ rows'[i] = EvaluatedRow(rows[i], loops[w])
      BY <3>1, FencedWrite
    <3>3. QED
      BY <1>0, <3>2 DEF TypeOK
  <2>4. CASE Recover(w)
    <3>1. PICK r \in {GivenUpRow(rows[loops[w].id]), RequeuedRow(rows[loops[w].id])} :
            loops[w].pc \in AtRow /\ WriteIfStillOwned(w, r)
      BY <2>4 DEF Recover, AtRow
    <3>2. i = loops[w].id /\ rows'[i] = r
      BY <3>1, FencedWrite
    <3>3. QED
      BY <1>0, <3>1, <3>2 DEF TypeOK
  <2>5. QED
    BY <1>2, <2>1, <2>2, <2>3, <2>4
       DEF LoopStep, LoopFault, Retire, ReadBusy, PickNext, Evaluate, LoadFails,
           PersistRollsBack, PassFails
<1>3. ASSUME NEW a \in Staff, RerunWrites(a) PROVE rows'[i].token = NoToken
  BY <1>0, <1>3 DEF RerunWrites, TypeOK
<1>4. CASE CourseRerun
  BY <1>0, <1>4 DEF CourseRerun, TypeOK
<1>5. ASSUME NEW stuck \in SUBSET Submissions, Reap(stuck) PROVE rows'[i].token = NoToken
  BY <1>0, <1>5 DEF Reap, TypeOK
<1>6. CASE rows' = rows
  BY <1>6
<1>7. QED
  BY <1>1, <1>2, <1>3, <1>4, <1>5, <1>6
     DEF Next, vars, RerunReads, ReplaceAnswerKey, EnterGrade, ClearGrade, ToggleHold,
         StaffGrade, RefreshQueueSettings, Crash, StartSubmissionWorker

\* A loop that has its row at hand had it before, or has just read it, or has
\* failed to; one that holds a claim and no more has just made it, or stays.
LEMMA WhatIsAtHand ==
    ASSUME TypeOK, [Next]_vars, NEW v \in Loops
    PROVE  /\ loops'[v].pc \in AtHand =>
                \/ Evaluate(v) \/ LoadFails(v)
                \/ /\ loops[v].pc \in AtHand /\ loops'[v].attempts = loops[v].attempts
                   /\ loops'[v].token = loops[v].token /\ loops'[v].id = loops[v].id
           /\ loops'[v].pc = "claimed" => loops'[v] = loops[v] \/ loops'[v].attempts = Unknown
<1>0. IdleLoop.pc = "start" /\ DeadLoop.pc = "off"
  BY DEF IdleLoop, DeadLoop
<1> USE DEF AtHand
<1>1. CASE loops'[v] = loops[v]
  BY <1>1
<1>2. CASE loops'[v].pc \notin AtHand \cup {"claimed"}
  BY <1>2
<1>3. ASSUME NEW w \in Loops, EndsPass(w)
      PROVE  loops'[v] = loops[v] \/ loops'[v].pc \notin AtHand \cup {"claimed"}
  BY <1>0, <1>3 DEF EndsPass, TypeOK
<1>4. ASSUME NEW w \in Loops, LoopStep(w) \/ LoopFault(w)
      PROVE  /\ loops'[v].pc \in AtHand =>
                  \/ Evaluate(v) \/ LoadFails(v)
                  \/ /\ loops[v].pc \in AtHand /\ loops'[v].attempts = loops[v].attempts
                     /\ loops'[v].token = loops[v].token /\ loops'[v].id = loops[v].id
             /\ loops'[v].pc = "claimed" => loops'[v] = loops[v] \/ loops'[v].attempts = Unknown
  <2>1. CASE Retire(w) \/ ReadBusy(w)
    BY <1>0, <1>1, <1>2, <2>1 DEF Retire, ReadBusy, TypeOK, Loop
  <2>2. CASE PickNext(w)
    <3>1. ASSUME NEW i \in Submissions,
                 loops' = [loops EXCEPT ![w].pc = "picked", ![w].id = i, ![w].busy = {},
                                        ![w].attempts = rows[i].attempts]
          PROVE  loops'[v] = loops[v] \/ loops'[v].pc = "picked"
      BY <3>1 DEF TypeOK, Loop
    <3>2. QED
      BY <1>1, <1>2, <1>3, <2>2, <3>1 DEF PickNext
  <2>3. CASE Claim(w)
    <3>1. ASSUME NEW t,
                 loops' = [loops EXCEPT ![w].pc = "claimed", ![w].attempts = Unknown,
                                        ![w].token = t]
          PROVE  \/ loops'[v] = loops[v]
                 \/ loops'[v].pc = "claimed" /\ loops'[v].attempts = Unknown
      BY <3>1 DEF TypeOK, Loop
    <3>2. QED
      BY <1>1, <1>2, <1>3, <2>3, <3>1 DEF Claim
  <2>4. CASE Evaluate(w) \/ LoadFails(w)
    <3>1. CASE v = w
      <4>1. loops'[v].pc \in AtHand
        BY <2>4, <3>1, Evaluated DEF LoadFails, TypeOK, Loop
      <4>2. QED
        BY <2>4, <3>1, <4>1
    <3>2. CASE v # w
      BY <1>1, <2>4, <3>2, Evaluated DEF LoadFails, TypeOK
    <3>3. QED
      BY <3>1, <3>2
  <2>5. CASE PersistRollsBack(w) \/ PersistAnswerLost(w)
    <3>1. loops' = [loops EXCEPT ![w].pc = "catch"] /\ loops[w].pc = "evaluated"
      BY <2>5 DEF PersistRollsBack, PersistAnswerLost
    <3>2. loops[w] \in Loop
      BY DEF TypeOK
    <3>3. \/ loops'[v] = loops[v]
          \/ /\ v = w /\ loops'[v].attempts = loops[v].attempts
             /\ loops'[v].token = loops[v].token /\ loops'[v].id = loops[v].id
             /\ loops'[v].pc = "catch"
      BY <3>1, <3>2 DEF TypeOK, Loop
    <3>4. QED
      BY <1>1, <3>1, <3>3
  <2>6. QED
    BY <1>1, <1>2, <1>3, <1>4, <2>1, <2>2, <2>3, <2>4, <2>5
       DEF LoopStep, LoopFault, FailPoisonPill, ClaimAnswerLost, Persist, Recover, PassFails
<1>5. ASSUME NEW n \in Nat, EnsureWorkers(n)
      PROVE  loops'[v] = loops[v] \/ loops'[v].pc \notin AtHand \cup {"claimed"}
  BY <1>0, <1>5, EnsureWorkersKeepsLoops
<1>6. CASE RefreshQueueSettings \/ StartSubmissionWorker
  BY <1>1, <1>2, <1>5, <1>6, SettingsAssumption DEF RefreshQueueSettings, StartSubmissionWorker
<1>7. CASE Crash
  BY <1>0, <1>2, <1>7 DEF Crash
<1>8. CASE loops' = loops
  BY <1>1, <1>8
<1>9. QED
  BY <1>4, <1>6, <1>7, <1>8
     DEF Next, vars, Submit, RerunReads, RerunWrites, CourseRerun, ReplaceAnswerKey,
         EnterGrade, ClearGrade, ToggleHold, StaffGrade, Reap

LEMMA ReadInit == Init => ReadInv
<1>1. DeadLoop.pc = "off"
  BY DEF DeadLoop, IdleLoop
<1>2. QED
  BY <1>1 DEF Init, ReadInv, AtHand

LEMMA ReadNext == TypeOK /\ ClaimInv /\ ReadInv /\ [Next]_vars => ReadInv'
<1> SUFFICES ASSUME TypeOK, ClaimInv, ReadInv, [Next]_vars, NEW v \in Loops
             PROVE  /\ loops'[v].pc = "claimed" => loops'[v].attempts = Unknown
                    /\ loops'[v].pc \in AtHand /\ Owns(v)' /\ loops'[v].attempts # Unknown
                         => rows'[loops'[v].id].attempts = loops'[v].attempts
  BY DEF ReadInv
<1>1. loops'[v].pc = "claimed" => loops'[v].attempts = Unknown
  BY WhatIsAtHand DEF ReadInv
<1>2. ASSUME loops'[v].pc \in AtHand, Owns(v)', loops'[v].attempts # Unknown
      PROVE  rows'[loops'[v].id].attempts = loops'[v].attempts
  <2>1. CASE Evaluate(v)
    <3>1. rows' = rows /\ loops'[v].attempts = rows[loops[v].id].attempts
      BY <2>1, Evaluated DEF Evaluate
    <3>2. loops'[v].id = loops[v].id
      BY <2>1, Evaluated
    <3>3. QED
      BY <3>1, <3>2
  <2>2. CASE LoadFails(v)
    BY <1>2, <2>2 DEF LoadFails, ReadInv, TypeOK, Loop
  <2>3. ASSUME loops[v].pc \in AtHand, loops'[v].attempts = loops[v].attempts,
               loops'[v].token = loops[v].token, loops'[v].id = loops[v].id
        PROVE  rows'[loops'[v].id].attempts = loops'[v].attempts
    <3> DEFINE i == loops[v].id
    <3>1. /\ i \in Submissions /\ loops[v].token \in Nat /\ minted[i] \in Nat
          /\ loops[v].token # NoToken /\ loops[v].token <= minted[i]
          /\ rows'[i].token = loops[v].token
      BY <1>2, <2>3 DEF TypeOK, Loop, ClaimInv, Owns, AtHand
    <3>2. CASE rows'[i] = rows[i]
      BY <1>2, <2>3, <3>1, <3>2 DEF ReadInv, Owns
    <3>3. CASE rows'[i] # rows[i]
      BY <3>1, <3>3, RowIsReleasedOrClaimed DEF FreshToken
    <3>4. QED
      BY <3>2, <3>3
  <2>4. QED
    BY <1>2, <2>1, <2>2, <2>3, WhatIsAtHand
<1>3. QED
  BY <1>1, <1>2

\* Who leaves the catch of a loop and fails its row on the way is the catch.
LEMMA CatchFails ==
    ASSUME TypeOK, ReadInv, [Next]_vars, NEW w \in Loops, NEW i \in Submissions,
           loops[w].pc = "catch", loops'[w].pc # "catch", loops[w].id = i,
           rows[i].status # "FAILED", rows'[i].status = "FAILED"
    PROVE  loops[w].attempts = Unknown \/ rows[i].attempts >= queue.maxAttempts
<1>1. ASSUME NEW v \in Loops, LoopStep(v) \/ LoopFault(v) PROVE Recover(w)
  <2>1. CASE v = w
    BY <1>1, <2>1
       DEF LoopStep, LoopFault, Retire, ReadBusy, PickNext, FailPoisonPill, Claim, MayClaim,
           ClaimAnswerLost, Evaluate, LoadFails, Persist, PersistRollsBack, PersistAnswerLost,
           PassFails
  <2>2. CASE v # w
    <3>1. loops'[w] = loops[w]
      <4>1. CASE Evaluate(v)
        BY <2>2, <4>1, Evaluated
      <4>2. CASE ~Evaluate(v)
        BY <1>1, <2>2, <4>2
           DEF TypeOK, LoopStep, LoopFault, Retire, ReadBusy, PickNext, FailPoisonPill, Claim,
               ClaimAnswerLost, LoadFails, Persist, PersistRollsBack, PersistAnswerLost,
               Recover, PassFails, EndsPass
      <4>3. QED
        BY <4>1, <4>2
    <3>2. QED
      BY <3>1
  <2>3. QED
    BY <2>1, <2>2
<1>2. Recover(w)
  BY <1>1
     DEF Next, vars, Submit, RerunReads, RerunWrites, CourseRerun, ReplaceAnswerKey,
         EnterGrade, ClearGrade, ToggleHold, StaffGrade, RefreshQueueSettings, Reap, Crash,
         StartSubmissionWorker
<1>3. PICK r \in Row : r = rows[i]
  BY DEF TypeOK
<1>4. WriteIfStillOwned(w, IF GivesUp(w) THEN GivenUpRow(r) ELSE RequeuedRow(r))
  BY <1>2, <1>3 DEF Recover
<1>5. Owns(w) /\ rows'[i] = IF GivesUp(w) THEN GivenUpRow(r) ELSE RequeuedRow(r)
  BY <1>4, FencedWrite DEF AtRow
<1>6. GivesUp(w)
  BY <1>3, <1>5 DEF RequeuedRow, Row
<1>7. QED
  BY <1>5, <1>6 DEF GivesUp, ReadInv, AtHand

\* Whatever reaps, reruns, crashes and lost answers go before: a catch fails
\* only a row that has burned its budget, or that the loop never read.
THEOREM EarlyFailuresAreUnread == Spec => OnlyAnUnreadRowFailsEarly
<1>1. TypeOK /\ ReadInv /\ [Next]_vars =>
        [\A w \in Loops, i \in Submissions :
           /\ loops[w].pc = "catch" /\ loops'[w].pc # "catch" /\ loops[w].id = i
           /\ rows[i].status # "FAILED" /\ rows'[i].status = "FAILED"
           => loops[w].attempts = Unknown \/ rows[i].attempts >= queue.maxAttempts]_vars
  BY CatchFails
<1>2. QED
  BY <1>1, ReadInit, ReadNext, ClaimInit, ClaimNext, TypeCorrect, PTL
  DEF Spec, OnlyAnUnreadRowFailsEarly

----------------------------------------------------------------------------
(* One slot for a student, unless two loops look at the queue together.    *)

\* No two loops are between the list of busy students and the claim.
OneLooksAtATime ==
    \A v, w \in Loops :
        v # w /\ loops[v].pc \in {"scan", "picked"} => loops[w].pc \notin {"scan", "picked"}

\* The students a loop skips are all that are busy, and the one it picked is not.
LookInv ==
    /\ OneSlotPerStudent
    /\ \A w \in Loops :
         /\ loops[w].pc = "scan" => BusyStudents \subseteq loops[w].busy
         /\ loops[w].pc = "picked" => Author[loops[w].id] \notin BusyStudents

\* A step that puts no row to work keeps what a loop has seen.
LEMMA NoNewWork ==
    ASSUME LookInv,
           \A i \in Submissions : rows'[i].status = "PROCESSING" => rows[i].status = "PROCESSING",
           \A w \in Loops : loops'[w] = loops[w] \/ loops'[w].pc \notin {"scan", "picked"}
    PROVE  LookInv'
<1>1. BusyStudents' \subseteq BusyStudents
  BY DEF BusyStudents
<1>2. QED
  BY <1>1 DEF LookInv, OneSlotPerStudent

LEMMA EndsPassLooksNoMore ==
    ASSUME TypeOK, NEW w \in Loops, EndsPass(w)
    PROVE  \A v \in Loops : /\ v # w => loops'[v] = loops[v]
                            /\ loops'[w].pc = "start"
BY DEF TypeOK, EndsPass, IdleLoop

\* A claim of one more row, of a student who is not busy.
LEMMA ClaimTakesAFreeStudent ==
    ASSUME TypeOK, LookInv, OneLooksAtATime, NEW w \in Loops, loops[w].pc = "picked",
           loops'[w].pc \notin {"scan", "picked"}, \A v \in Loops \ {w} : loops'[v] = loops[v],
           rows' = [rows EXCEPT ![loops[w].id] = ClaimedRow(@, FreshToken(loops[w].id))]
    PROVE  LookInv'
<1> DEFINE i == loops[w].id
<1>1. i \in Submissions /\ Author[i] \notin BusyStudents
  BY DEF TypeOK, LookInv
<1>2. \A j \in Submissions \ {i} : rows'[j] = rows[j]
  BY DEF TypeOK
<1>3. OneSlotPerStudent'
  BY <1>1, <1>2 DEF LookInv, OneSlotPerStudent, BusyStudents
<1>4. \A v \in Loops : loops'[v].pc \notin {"scan", "picked"}
  BY DEF OneLooksAtATime
<1>5. QED
  BY <1>3, <1>4 DEF LookInv

LEMMA LookLoopStep ==
    ASSUME TypeOK, ClaimInv, LookInv, OneLooksAtATime, NEW w \in Loops, LoopStep(w) \/ LoopFault(w)
    PROVE  LookInv'
<1>1. ASSUME \A v \in Loops \ {w} : loops'[v] = loops[v],
             loops'[w].pc \notin {"scan", "picked"},
             \A i \in Submissions : rows'[i].status = "PROCESSING" => rows[i].status = "PROCESSING"
      PROVE  LookInv'
  BY <1>1, NoNewWork
<1>2. CASE Retire(w) \/ LoadFails(w) \/ PersistRollsBack(w)
  BY <1>1, <1>2 DEF Retire, LoadFails, PersistRollsBack, DeadLoop, IdleLoop, TypeOK, Loop
<1>3. CASE ReadBusy(w)
  <2>1. /\ rows' = rows /\ loops'[w].pc = "scan" /\ loops'[w].busy = BusyStudents
        /\ \A v \in Loops \ {w} : loops'[v] = loops[v]
    BY <1>3 DEF ReadBusy, TypeOK, Loop
  <2>2. BusyStudents' = BusyStudents
    BY <2>1 DEF BusyStudents
  <2>3. QED
    BY <2>1, <2>2 DEF LookInv, OneSlotPerStudent
<1>4. CASE PickNext(w)
  <2>1. rows' = rows
    BY <1>4 DEF PickNext
  <2>2. CASE EndsPass(w)
    BY <1>1, <2>1, <2>2, EndsPassLooksNoMore
  <2>3. ASSUME NEW i \in Submissions, IsNext(i, loops[w].busy),
               loops' = [loops EXCEPT ![w].pc = "picked", ![w].id = i, ![w].busy = {},
                                      ![w].attempts = rows[i].attempts]
        PROVE  LookInv'
    <3>1. /\ loops'[w].pc = "picked" /\ loops'[w].id = i
          /\ \A v \in Loops \ {w} : loops'[v] = loops[v]
      BY <2>3 DEF TypeOK, Loop
    <3>2. Author[i] \notin BusyStudents
      BY <1>4, <2>3 DEF IsNext, PickNext, LookInv
    <3>3. BusyStudents' = BusyStudents
      BY <2>1 DEF BusyStudents
    <3>4. QED
      BY <2>1, <3>1, <3>2, <3>3 DEF LookInv, OneSlotPerStudent
  <2>4. QED
    BY <1>4, <2>2, <2>3 DEF PickNext
<1>5. CASE FailPoisonPill(w)
  <2>1. \A i \in Submissions : rows'[i].status = "PROCESSING" => rows[i].status = "PROCESSING"
    BY <1>5 DEF FailPoisonPill, TypeOK, Row
  <2>2. QED
    BY <1>1, <1>5, <2>1, EndsPassLooksNoMore DEF FailPoisonPill
<1>6. CASE Claim(w)
  <2>1. CASE EndsPass(w) /\ rows' = rows
    BY <1>1, <2>1, EndsPassLooksNoMore
  <2>2. ASSUME NEW t, loops' = [loops EXCEPT ![w].pc = "claimed", ![w].attempts = Unknown,
                                             ![w].token = t],
               rows' = [rows EXCEPT ![loops[w].id] = ClaimedRow(@, FreshToken(loops[w].id))]
        PROVE  LookInv'
    <3>1. loops'[w].pc = "claimed" /\ \A v \in Loops \ {w} : loops'[v] = loops[v]
      BY <2>2 DEF TypeOK, Loop
    <3>2. QED
      BY <1>6, <2>2, <3>1, ClaimTakesAFreeStudent DEF Claim, MayClaim
  <2>3. QED
    BY <1>6, <2>1, <2>2 DEF Claim
<1>7. CASE ClaimAnswerLost(w)
  BY <1>7, EndsPassLooksNoMore, ClaimTakesAFreeStudent DEF ClaimAnswerLost, MayClaim
<1>8. CASE Evaluate(w)
  BY <1>1, <1>8, Evaluated DEF Evaluate
<1>9. ASSUME NEW r, WriteIfStillOwned(w, r), loops[w].pc \in AtRow, r.status # "PROCESSING"
      PROVE  \A i \in Submissions : rows'[i].status = "PROCESSING" => rows[i].status = "PROCESSING"
  BY <1>9, FencedWrite
<1>10. CASE Persist(w) \/ PersistAnswerLost(w)
  <2>1. loops[w] \in Loop /\ loops[w].id \in Submissions /\ loops[w].pc = "evaluated"
    BY <1>10 DEF Persist, PersistAnswerLost, TypeOK
  <2>2. rows[loops[w].id] \in Row
    BY <2>1 DEF TypeOK
  <2>3. EvaluatedRow(rows[loops[w].id], loops[w]).status # "PROCESSING"
    BY <2>1, <2>2 DEF EvaluatedRow, Row, Loop, Settled
  <2>4. WriteIfStillOwned(w, EvaluatedRow(rows[loops[w].id], loops[w]))
    BY <1>10 DEF Persist, PersistAnswerLost, PersistTransaction
  <2>5. \A i \in Submissions : rows'[i].status = "PROCESSING" => rows[i].status = "PROCESSING"
    BY <1>9, <2>1, <2>3, <2>4 DEF AtRow
  <2>6. CASE Persist(w)
    BY <1>1, <2>5, <2>6, EndsPassLooksNoMore DEF Persist
  <2>7. CASE PersistAnswerLost(w)
    BY <1>1, <2>5, <2>7 DEF PersistAnswerLost, TypeOK, Loop
  <2>8. QED
    BY <1>10, <2>6, <2>7
<1>11. CASE Recover(w)
  <2>1. PICK s \in Row : s = rows[loops[w].id]
    BY <1>11 DEF Recover, TypeOK
  <2>2. PICK r \in {GivenUpRow(s), RequeuedRow(s)} : WriteIfStillOwned(w, r)
    BY <1>11, <2>1 DEF Recover
  <2>3. r.status # "PROCESSING"
    BY <2>2 DEF GivenUpRow, RequeuedRow, Row
  <2>4. QED
    BY <1>1, <1>9, <1>11, <2>2, <2>3, EndsPassLooksNoMore DEF Recover, AtRow
<1>12. CASE PassFails(w)
  BY <1>1, <1>12, EndsPassLooksNoMore DEF PassFails
<1>13. QED
  BY <1>2, <1>3, <1>4, <1>5, <1>6, <1>7, <1>8, <1>10, <1>11, <1>12 DEF LoopStep, LoopFault

LEMMA LookNext ==
    TypeOK /\ ClaimInv /\ LookInv /\ OneLooksAtATime /\ [Next]_vars => LookInv'
<1> SUFFICES ASSUME TypeOK, ClaimInv, LookInv, OneLooksAtATime, [Next]_vars PROVE LookInv'
  OBVIOUS
<1>0. \A r \in Row : /\ RerunRow(r).status = "PENDING" /\ RequeuedRow(r).status = "PENDING"
  BY DEF Row, RerunRow, RequeuedRow
<1>1. ASSUME NEW i \in Submissions, Submit(i) PROVE LookInv'
  <2>1. SubmittedRow.status = "PENDING"
    BY DEF SubmittedRow, AbsentRow
  <2>2. QED
    BY <1>1, <2>1, NoNewWork DEF Submit, TypeOK
<1>2. ASSUME NEW w \in Loops, LoopStep(w) \/ LoopFault(w) PROVE LookInv'
  BY <1>2, LookLoopStep
<1>3. ASSUME NEW a \in Staff, RerunWrites(a) PROVE LookInv'
  <2>1. \A i \in Submissions : rows'[i].status = "PROCESSING" => rows[i].status = "PROCESSING"
    BY <1>0, <1>3 DEF RerunWrites, TypeOK
  <2>2. QED
    BY <1>3, <2>1, NoNewWork DEF RerunWrites
<1>4. CASE CourseRerun
  <2>1. \A i \in Submissions : rows'[i].status = "PROCESSING" => rows[i].status = "PROCESSING"
    BY <1>0, <1>4 DEF CourseRerun, TypeOK
  <2>2. QED
    BY <1>4, <2>1, NoNewWork DEF CourseRerun
<1>5. ASSUME NEW stuck \in SUBSET Submissions, Reap(stuck) PROVE LookInv'
  <2>1. \A i \in Submissions : rows'[i].status = "PROCESSING" => rows[i].status = "PROCESSING"
    BY <1>0, <1>5 DEF Reap, TypeOK
  <2>2. QED
    BY <1>5, <2>1, NoNewWork DEF Reap
<1>6. ASSUME NEW n \in Nat, EnsureWorkers(n), rows' = rows PROVE LookInv'
  <2>1. \A w \in Loops : loops'[w] = loops[w] \/ loops'[w].pc = "start"
    BY <1>6, EnsureWorkersKeepsLoops DEF IdleLoop
  <2>2. QED
    BY <1>6, <2>1, NoNewWork
<1>7. CASE RefreshQueueSettings \/ StartSubmissionWorker
  BY <1>6, <1>7, SettingsAssumption DEF RefreshQueueSettings, StartSubmissionWorker
<1>8. CASE Crash
  <2>1. \A w \in Loops : loops'[w].pc = "off"
    BY <1>8 DEF Crash, DeadLoop, IdleLoop
  <2>2. QED
    BY <1>8, <2>1, NoNewWork DEF Crash
<1>9. CASE rows' = rows /\ loops' = loops
  BY <1>9, NoNewWork
<1>10. QED
  BY <1>1, <1>2, <1>3, <1>4, <1>5, <1>7, <1>8, <1>9
     DEF Next, vars, RerunReads, ReplaceAnswerKey, EnterGrade, ClearGrade, ToggleHold,
         StaffGrade

\* Two slots for one student take two loops that look at the queue together: as
\* long as no two do, whatever else happens, a student has one slot
\* (submission-worker.ts:336).
THEOREM OneSlotUnlessTwoLook == Spec /\ []OneLooksAtATime => []OneSlotPerStudent
<1>1. Init => LookInv
  <2>1. DeadLoop.pc = "off" /\ AbsentRow.status = "ABSENT"
    BY DEF DeadLoop, IdleLoop, AbsentRow
  <2>2. QED
    BY <2>1 DEF Init, LookInv, OneSlotPerStudent
<1>2. LookInv => OneSlotPerStudent
  BY DEF LookInv
<1>3. QED
  BY <1>1, <1>2, LookNext, ClaimInit, ClaimNext, TypeCorrect, PTL DEF Spec

\* Where one loop alone ever runs, nothing puts a student in two slots: no reap,
\* rerun, crash or lost answer (submission-worker.ts:336).
THEOREM OneLoopOneSlot ==
    ASSUME \A v, w \in Loops : v = w
    PROVE  Spec => []OneSlotPerStudent
<1>1. OneLooksAtATime
  BY DEF OneLooksAtATime
<1>2. QED
  BY <1>1, OneSlotUnlessTwoLook, PTL

=============================================================================
