----------------------- MODULE SubmissionBoard_proofs -----------------------
(***************************************************************************)
(* SubmissionQueue implements GradingBoard, and what follows from the       *)
(* board's steps alone: the standing grade is that of the latest work.     *)
(***************************************************************************)
EXTENDS SubmissionQueue_proofs

----------------------------------------------------------------------------
(* What the mapping rests on.                                              *)

\* A row that was not submitted yet is blank: nothing wrote it.
AbsentIsBlank == \A i \in Submissions : ~Present(i) => rows[i] = AbsentRow

RerunsWhatIsThere == \A a \in Staff : rerun[a] # NoRow => Present(rerun[a])

\* An evaluation in hand is one the evaluator gave, with a key that was in
\* force; one that failed names none.
IsInHand(l) ==
    \E e \in Evaluations :
        /\ l.status = e.status /\ l.correct = e.correct
        /\ IF e.status = "COMPLETED" THEN l.key <= answerKey ELSE l.key = NoKey

InHand(w) == loops[w].pc = "evaluated" => IsInHand(loops[w])

BoardInv == AbsentIsBlank /\ RerunsWhatIsThere /\ \A w \in Loops : InHand(w)

LEMMA BoardInit == Init => BoardInv
<1>1. DeadLoop.pc # "evaluated" /\ AbsentRow.status = "ABSENT"
  BY DEF DeadLoop, IdleLoop, AbsentRow
<1>2. QED
  BY <1>1 DEF Init, BoardInv, AbsentIsBlank, RerunsWhatIsThere, InHand, Present

\* A row that a step changes is there afterwards.
LEMMA ChangedIsPresent ==
    ASSUME TypeOK, ClaimInv, [Next]_vars, NEW i \in Submissions, rows'[i] # rows[i]
    PROVE  Present(i)'
<1>0. \A r \in Row : /\ RerunRow(r).status = "PENDING" /\ RequeuedRow(r).status = "PENDING"
                     /\ GivenUpRow(r).status = "FAILED"
                     /\ \A t \in Nat : ClaimedRow(r, t).status = "PROCESSING"
                     /\ \A l \in Loop : EvaluatedRow(r, l).status \in Settled
  BY DEF Row, RerunRow, RequeuedRow, GivenUpRow, ClaimedRow, EvaluatedRow, Loop
<1> USE DEF Present
<1>1. ASSUME NEW j \in Submissions, Submit(j) PROVE Present(i)'
  BY <1>1 DEF Submit, TypeOK, SubmittedRow, AbsentRow
<1>2. ASSUME NEW w \in Loops, LoopStep(w) \/ LoopFault(w) PROVE Present(i)'
  <2>1. CASE FailPoisonPill(w)
    BY <2>1 DEF FailPoisonPill, TypeOK, Row
  <2>2. CASE Claim(w) \/ ClaimAnswerLost(w)
    <3>1. PICK j \in Submissions : rows' = [rows EXCEPT ![j] = ClaimedRow(@, FreshToken(j))]
      BY <2>2 DEF Claim, ClaimAnswerLost, MayClaim, TypeOK
    <3>2. FreshToken(j) \in Nat
      BY DEF FreshToken, TypeOK
    <3>3. QED
      BY <1>0, <3>1, <3>2 DEF TypeOK
  <2>3. CASE Persist(w) \/ PersistAnswerLost(w)
    <3>1. loops[w].pc \in AtRow /\ WriteIfStillOwned(w, EvaluatedRow(rows[loops[w].id], loops[w]))
      BY <2>3 DEF Persist, PersistAnswerLost, PersistTransaction, AtRow
    <3>2. i = loops[w].id /\ rows'[i] = EvaluatedRow(rows[i], loops[w])
      BY <3>1, FencedWrite
    <3>3. QED
      BY <1>0, <3>2 DEF TypeOK, Settled
  <2>4. CASE Recover(w)
    <3>1. PICK r \in {GivenUpRow(rows[loops[w].id]), RequeuedRow(rows[loops[w].id])} :
            loops[w].pc \in AtRow /\ WriteIfStillOwned(w, r)
      BY <2>4 DEF Recover, AtRow
    <3>2. i = loops[w].id /\ rows'[i] = r
      BY <3>1, FencedWrite
    <3>3. QED
      BY <1>0, <3>1, <3>2 DEF TypeOK
  <2>5. QED
    BY <1>2, <2>1, <2>2, <2>3, <2>4
       DEF LoopStep, LoopFault, Retire, ReadBusy, PickNext, Evaluate, LoadFails,
           PersistRollsBack, PassFails
<1>3. ASSUME NEW a \in Staff, RerunWrites(a) PROVE Present(i)'
  BY <1>0, <1>3 DEF RerunWrites, TypeOK
<1>4. CASE CourseRerun
  BY <1>0, <1>4 DEF CourseRerun, TypeOK
<1>5. ASSUME NEW stuck \in SUBSET Submissions, Reap(stuck) PROVE Present(i)'
  BY <1>0, <1>5 DEF Reap, TypeOK
<1>6. CASE rows' = rows
  BY <1>6
<1>7. QED
  BY <1>1, <1>2, <1>3, <1>4, <1>5, <1>6
     DEF Next, vars, RerunReads, ReplaceAnswerKey, EnterGrade, ClearGrade, ToggleHold,
         StaffGrade, RefreshQueueSettings, Crash, StartSubmissionWorker

\* An evaluation in hand was there before or has just been made.
LEMMA WhatIsInHand ==
    ASSUME TypeOK, [Next]_vars, NEW v \in Loops, loops'[v].pc = "evaluated"
    PROVE  loops'[v] = loops[v] \/ Evaluate(v)
<1>0. IdleLoop.pc # "evaluated" /\ DeadLoop.pc # "evaluated"
  BY DEF IdleLoop, DeadLoop
<1>1. ASSUME NEW w \in Loops, LoopStep(w) \/ LoopFault(w) PROVE loops'[v] = loops[v] \/ Evaluate(v)
  <2>1. CASE EndsPass(w)
    BY <1>0, <2>1 DEF EndsPass, TypeOK
  <2>2. CASE Retire(w)
    BY <1>0, <2>2 DEF Retire, TypeOK
  <2>3. CASE ReadBusy(w) \/ LoadFails(w) \/ PersistRollsBack(w) \/ PersistAnswerLost(w)
    BY <2>3 DEF ReadBusy, LoadFails, PersistRollsBack, PersistAnswerLost, TypeOK, Loop
  <2>4. CASE PickNext(w)
    <3>1. ASSUME NEW i \in Submissions,
                 loops' = [loops EXCEPT ![w].pc = "picked", ![w].id = i, ![w].busy = {},
                                        ![w].attempts = rows[i].attempts]
          PROVE  loops'[v] = loops[v]
      BY <3>1 DEF TypeOK, Loop
    <3>2. QED
      BY <2>1, <2>4, <3>1 DEF PickNext
  <2>5. CASE Claim(w)
    BY <2>1, <2>5 DEF Claim, TypeOK, Loop
  <2>6. CASE Evaluate(w)
    BY <2>6, Evaluated
  <2>7. QED
    BY <1>1, <2>1, <2>2, <2>3, <2>4, <2>5, <2>6
       DEF LoopStep, LoopFault, FailPoisonPill, ClaimAnswerLost, Persist, Recover, PassFails
<1>2. ASSUME NEW n \in Nat, EnsureWorkers(n) PROVE loops'[v] = loops[v]
  BY <1>0, <1>2, EnsureWorkersKeepsLoops
<1>3. CASE RefreshQueueSettings \/ StartSubmissionWorker
  BY <1>2, <1>3, SettingsAssumption DEF RefreshQueueSettings, StartSubmissionWorker
<1>4. CASE Crash
  BY <1>0, <1>4 DEF Crash
<1>5. CASE loops' = loops
  BY <1>5
<1>6. QED
  BY <1>1, <1>3, <1>4, <1>5
     DEF Next, vars, Submit, RerunReads, RerunWrites, CourseRerun, ReplaceAnswerKey,
         EnterGrade, ClearGrade, ToggleHold, StaffGrade, Reap

LEMMA EvaluatedIsInHand ==
    ASSUME TypeOK, NEW w \in Loops, Evaluate(w)
    PROVE  IsInHand(loops[w])'
<1>1. PICK e \in Evaluations :
        loops' = [loops EXCEPT ![w].pc = "evaluated",
                               ![w].attempts = rows[loops[w].id].attempts,
                               ![w].key = KeyNamed(e),
                               ![w].status = e.status, ![w].correct = e.correct]
  BY DEF Evaluate
<1>2. loops[w] \in Loop /\ answerKey' = answerKey /\ answerKey \in Nat
  BY DEF TypeOK, Evaluate
<1>3. loops'[w] = [loops[w] EXCEPT !.pc = "evaluated",
                                   !.attempts = rows[loops[w].id].attempts,
                                   !.key = KeyNamed(e),
                                   !.status = e.status, !.correct = e.correct]
  BY <1>1 DEF TypeOK
<1>4. loops'[w].status = e.status /\ loops'[w].correct = e.correct /\ loops'[w].key = KeyNamed(e)
  <2> DEFINE n == rows[loops[w].id].attempts
             k == KeyNamed(e)
             l == loops[w]
             m == loops'[w]
  <2>1. /\ l \in Loop
        /\ m = [l EXCEPT !.pc = "evaluated", !.attempts = n, !.key = k,
                         !.status = e.status, !.correct = e.correct]
    BY <1>2, <1>3
  <2> HIDE DEF n, k, l, m
  <2>2. m.status = e.status /\ m.correct = e.correct /\ m.key = k
    BY ONLY <2>1 DEF Loop
  <2>3. QED
    BY ONLY <2>2 DEF k, m
<1>5. QED
  BY <1>2, <1>4 DEF IsInHand, KeyNamed

LEMMA BoardInvNext ==
    ASSUME TypeOK, ClaimInv, BoardInv, [Next]_vars
    PROVE  BoardInv'
<1>1. AbsentIsBlank'
  BY ChangedIsPresent DEF BoardInv, AbsentIsBlank, Present
<1>2. \A i \in Submissions : Present(i) => Present(i)'
  BY ChangedIsPresent DEF Present
<1>3. RerunsWhatIsThere'
  <2>1. rerun \in [Staff -> Submissions \cup {NoRow}]
    BY DEF TypeOK
  <2>2. ASSUME NEW a \in Staff, NEW i \in Submissions, RerunReads(a, i)
        PROVE  RerunsWhatIsThere'
    BY <1>2, <2>1, <2>2 DEF RerunReads, BoardInv, RerunsWhatIsThere, Present, Settled
  <2>3. ASSUME NEW a \in Staff, RerunWrites(a) PROVE RerunsWhatIsThere'
    BY <1>2, <2>1, <2>3 DEF RerunWrites, BoardInv, RerunsWhatIsThere, NoRow
  <2>4. CASE rerun' = rerun
    BY <1>2, <2>1, <2>4 DEF BoardInv, RerunsWhatIsThere
  <2>5. QED
    BY <2>2, <2>3, <2>4
       DEF Next, vars, Submit, CourseRerun, ReplaceAnswerKey, EnterGrade, ClearGrade, ToggleHold,
           StaffGrade, RefreshQueueSettings, Reap, Crash, StartSubmissionWorker, LoopStep,
           LoopFault, Retire, ReadBusy, PickNext, FailPoisonPill, Claim, ClaimAnswerLost,
           Evaluate, LoadFails, Persist, PersistRollsBack, PersistAnswerLost, Recover, PassFails
<1>4. answerKey \in Nat /\ answerKey' \in {answerKey, answerKey + 1}
  BY DEF TypeOK, Next, vars, Submit, CourseRerun, ReplaceAnswerKey, EnterGrade, ClearGrade,
         ToggleHold, StaffGrade, RefreshQueueSettings, Reap, Crash, StartSubmissionWorker,
         LoopStep, LoopFault, Retire, ReadBusy, PickNext, FailPoisonPill, Claim,
         ClaimAnswerLost, Evaluate, LoadFails, Persist, PersistRollsBack, PersistAnswerLost,
         Recover, PassFails, RerunReads, RerunWrites
<1>5. ASSUME NEW v \in Loops, loops'[v].pc = "evaluated" PROVE IsInHand(loops[v])'
  <2>1. CASE Evaluate(v)
    BY <2>1, EvaluatedIsInHand
  <2>2. CASE loops'[v] = loops[v]
    <3>1. IsInHand(loops[v]) /\ loops[v].key \in Nat
      BY <1>5, <2>2 DEF BoardInv, InHand, TypeOK, Loop
    <3>2. QED
      BY <1>4, <2>2, <3>1 DEF IsInHand
  <2>3. QED
    BY <1>5, <2>1, <2>2, WhatIsInHand
<1>6. QED
  BY <1>1, <1>3, <1>5 DEF BoardInv, InHand

----------------------------------------------------------------------------
(* The steps of the board.                                                 *)

\* One row changes: what the board sees of it.
LEMMA OneRowChanges ==
    ASSUME TypeOK, NEW i \in Submissions, NEW r \in Row, rows' = [rows EXCEPT ![i] = r]
    PROVE  /\ [j \in Submissions |-> rows'[j].status]
                = [[j \in Submissions |-> rows[j].status] EXCEPT ![i] = r.status]
           /\ [j \in Submissions |-> rows'[j].correct]
                = [[j \in Submissions |-> rows[j].correct] EXCEPT ![i] = r.correct]
           /\ [j \in Submissions |-> rows'[j].key]
                = [[j \in Submissions |-> rows[j].key] EXCEPT ![i] = r.key]
           /\ r.correct = rows[i].correct =>
                [j \in Submissions |-> rows'[j].correct] = [j \in Submissions |-> rows[j].correct]
           /\ r.key = rows[i].key =>
                [j \in Submissions |-> rows'[j].key] = [j \in Submissions |-> rows[j].key]
BY DEF TypeOK

\* A set of rows goes back to the queue.
LEMMA SomeRowsChange ==
    ASSUME TypeOK, NEW S \in SUBSET Submissions, NEW f,
           rows' = [i \in Submissions |-> IF i \in S THEN f[i] ELSE rows[i]],
           \A i \in S : f[i].status = "PENDING" /\ f[i].key = rows[i].key
    PROVE  /\ [i \in Submissions |-> rows'[i].status]
                = [i \in Submissions |-> IF i \in S THEN "PENDING" ELSE rows[i].status]
           /\ [i \in Submissions |-> rows'[i].key] = [i \in Submissions |-> rows[i].key]
           /\ (\A i \in S : f[i].correct = "none") =>
                [i \in Submissions |-> rows'[i].correct]
                  = [i \in Submissions |-> IF i \in S THEN "none" ELSE rows[i].correct]
           /\ (\A i \in S : f[i].correct = rows[i].correct) =>
                [i \in Submissions |-> rows'[i].correct] = [i \in Submissions |-> rows[i].correct]
OBVIOUS

LEMMA SameOwnersAreOneStream ==
    ASSUME NEW i \in Submissions, NEW j \in Submissions
    PROVE  SameStream(i, j) <=> Owners(j) = Owners(i)
<1>1. Author[i] \in Students /\ Author[j] \in Students
  BY RosterAssumption
<1>2. CASE GroupOf[Author[i]] = NoGroup
  BY <1>1, <1>2 DEF SameStream, Owners
<1>3. CASE GroupOf[Author[i]] # NoGroup
  BY <1>1, <1>3 DEF SameStream, Owners
<1>4. QED
  BY <1>2, <1>3

LEMMA LatestOnTheBoard ==
    ASSUME NEW i \in Submissions
    PROVE  Board!IsLatest(i) <=> HoldsTheStandingGrade(i)
<1>1. \A j \in Submissions : Board!Owners(j) = Owners(j)
  BY DEF Board!Owners, Owners
<1>2. \A j \in Submissions : SameStream(i, j) <=> Owners(j) = Owners(i)
  BY SameOwnersAreOneStream
<1>3. \A j \in Submissions : ~(j > i) <=> j <= i
  BY BoundsAssumption DEF Submissions
<1>4. QED
  BY <1>1, <1>2, <1>3 DEF Board!IsLatest, Board!Submissions, Submissions, HoldsTheStandingGrade, Present

LEMMA BoardStarts == Init => Board!Init
BY DEF Init, Board!Init, Board!Submissions, Submissions, Board!NoGrade, NoGrade, AbsentRow, NoKey

UnseenByTheBoard == UNCHANGED <<rows, queuedKey, answerKey, grades, touched>>

OnlyRows == UNCHANGED <<queuedKey, answerKey, grades, touched>>

\* The next-state relation of the board, disjunct by disjunct.
LEMMA BoardSteps ==
    /\ \A i \in Submissions :
         Board!Submit(i) \/ Board!Start(i) \/ Board!GiveUp(i) \/ Board!Settle(i) => Board!Next
    /\ \A S \in SUBSET Submissions : Board!PutBack(S) \/ Board!Rerun(S) => Board!Next
    /\ Board!ReplaceAnswerKey => Board!Next
    /\ \A s \in Students : Board!StaffGrade(s) => Board!Next
BY DEF Board!Next, Board!Submissions, Submissions

\* A row moves with its verdict and key: started, put back or given up.
LEMMA RowMoves ==
    ASSUME TypeOK, OnlyRows, NEW i \in Submissions, NEW r \in Row, rows' = [rows EXCEPT ![i] = r],
           r.correct = rows[i].correct, r.key = rows[i].key,
           \/ rows[i].status = "PENDING" /\ r.status = "PROCESSING"
           \/ rows[i].status = "PROCESSING" /\ r.status = "PENDING"
           \/ rows[i].status \in OnQueue /\ r.status = "FAILED"
    PROVE  Board!Next
<1>1. /\ [j \in Submissions |-> rows'[j].status]
            = [[j \in Submissions |-> rows[j].status] EXCEPT ![i] = r.status]
      /\ [j \in Submissions |-> rows'[j].correct] = [j \in Submissions |-> rows[j].correct]
      /\ [j \in Submissions |-> rows'[j].key] = [j \in Submissions |-> rows[j].key]
  BY OneRowChanges
<1>2. UNCHANGED <<queuedKey, answerKey, grades, touched>>
  BY DEF OnlyRows
<1>3. CASE rows[i].status = "PENDING" /\ r.status = "PROCESSING"
  <2>1. Board!Start(i)
    BY <1>1, <1>2, <1>3 DEF Board!Start
  <2>2. QED
    BY <2>1, BoardSteps
<1>4. CASE rows[i].status = "PROCESSING" /\ r.status = "PENDING"
  <2>1. [j \in Submissions |-> rows'[j].status]
          = [j \in Submissions |-> IF j \in {i} THEN "PENDING" ELSE rows[j].status]
    BY <1>1, <1>4
  <2>2. Board!PutBack({i})
    BY <1>1, <1>2, <1>4, <2>1 DEF Board!PutBack, Board!Submissions, Submissions
  <2>3. QED
    BY <2>2, BoardSteps
<1>5. CASE rows[i].status \in OnQueue /\ r.status = "FAILED"
  <2>1. Board!GiveUp(i)
    BY <1>1, <1>2, <1>5 DEF Board!GiveUp, OnQueue
  <2>2. QED
    BY <2>1, BoardSteps
<1>6. QED
  BY <1>3, <1>4, <1>5

LEMMA RerunOnTheBoard ==
    ASSUME TypeOK, NEW S \in SUBSET Submissions, \A i \in S : Present(i),
           rows' = [i \in Submissions |-> IF i \in S THEN RerunRow(rows[i]) ELSE rows[i]],
           queuedKey' = [i \in Submissions |-> IF i \in S THEN answerKey ELSE queuedKey[i]],
           UNCHANGED <<answerKey, grades, touched>>
    PROVE  Board!Next
<1> DEFINE f == [i \in Submissions |-> RerunRow(rows[i])]
<1>1. \A i \in Submissions : /\ f[i].status = "PENDING" /\ f[i].correct = "none"
                              /\ f[i].key = rows[i].key
  BY DEF RerunRow, TypeOK, Row
<1>2. rows' = [i \in Submissions |-> IF i \in S THEN f[i] ELSE rows[i]]
  OBVIOUS
<1> HIDE DEF f
<1>3. /\ [i \in Submissions |-> rows'[i].status]
            = [i \in Submissions |-> IF i \in S THEN "PENDING" ELSE rows[i].status]
      /\ [i \in Submissions |-> rows'[i].key] = [i \in Submissions |-> rows[i].key]
      /\ [i \in Submissions |-> rows'[i].correct]
            = [i \in Submissions |-> IF i \in S THEN "none" ELSE rows[i].correct]
  <2>1. /\ \A i \in S : f[i].status = "PENDING" /\ f[i].key = rows[i].key
        /\ \A i \in S : f[i].correct = "none"
    BY <1>1
  <2>2. QED
    BY ONLY TypeOK, S \in SUBSET Submissions, <1>2, <2>1, SomeRowsChange
<1>4. Board!Rerun(S)
  BY <1>3 DEF Board!Rerun, Board!Submissions, Submissions, Present
<1>5. QED
  BY <1>4, BoardSteps

LEMMA ReapOnTheBoard ==
    ASSUME TypeOK, NEW S \in SUBSET Submissions, Reap(S)
    PROVE  Board!Next
<1> DEFINE f == [i \in Submissions |-> RequeuedRow(rows[i])]
<1>1. \A i \in Submissions : /\ f[i].status = "PENDING" /\ f[i].correct = rows[i].correct
                              /\ f[i].key = rows[i].key
  BY DEF RequeuedRow, TypeOK, Row
<1>2. rows' = [i \in Submissions |-> IF i \in S THEN f[i] ELSE rows[i]]
  BY DEF Reap
<1> HIDE DEF f
<1>3. /\ [i \in Submissions |-> rows'[i].status]
            = [i \in Submissions |-> IF i \in S THEN "PENDING" ELSE rows[i].status]
      /\ [i \in Submissions |-> rows'[i].key] = [i \in Submissions |-> rows[i].key]
      /\ [i \in Submissions |-> rows'[i].correct] = [i \in Submissions |-> rows[i].correct]
  BY <1>1, <1>2, SomeRowsChange
<1>4. \A i \in S : rows[i].status = "PROCESSING"
  BY DEF Reap
<1>5. UNCHANGED <<queuedKey, answerKey, grades, touched>>
  BY DEF Reap
<1>6. Board!PutBack(S)
  BY <1>3, <1>4, <1>5 DEF Board!PutBack, Board!Submissions, Submissions
<1>7. QED
  BY <1>6, BoardSteps

\* A commit under a claim that stands settles the row on the board: the verdict
\* is the evaluator's, the key was in force since the work was asked for.
LEMMA SettleOnTheBoard ==
    ASSUME TypeOK, ClaimInv, KeyInv, BoardInv, NEW w \in Loops, Owns(w),
           NEW i \in Submissions, loops[w].id = i,
           loops[w].pc = "evaluated", PersistTransaction(w),
           UNCHANGED <<queuedKey, answerKey, touched>>
    PROVE  Board!Next
<1> DEFINE l == loops[w]
           r == EvaluatedRow(rows[i], l)
<1>1. l \in Loop /\ i \in Submissions /\ rows[i] \in Row /\ r \in Row
  BY EvaluatedRowWritten DEF TypeOK
<1>2. r.status = l.status /\ r.correct = l.correct /\ r.key = l.key
  BY <1>1 DEF EvaluatedRow, Row
<1>3. rows[i].status = "PROCESSING"
  BY <1>1 DEF ClaimInv, Owns
<1>4. PICK e \in Evaluations : /\ l.status = e.status /\ l.correct = e.correct
                               /\ IF e.status = "COMPLETED" THEN l.key <= answerKey ELSE l.key = NoKey
  BY DEF BoardInv, InHand, IsInHand
<1>5. queuedKey[i] \in Nat /\ answerKey \in Nat /\ l.key \in Nat /\ queuedKey[i] <= answerKey
  BY <1>1 DEF TypeOK, KeyInv, Loop
<1>6. PICK k \in queuedKey[i] .. answerKey : l.key = IF e.status = "COMPLETED" THEN k ELSE 0
  <2>1. CASE e.status = "COMPLETED"
    <3>1. l.key >= queuedKey[i] /\ l.key <= answerKey
      BY <1>4, <2>1 DEF KeyInv
    <3>2. l.key \in queuedKey[i] .. answerKey
      BY <1>5, <3>1
    <3>3. QED
      BY <2>1, <3>2
  <2>2. CASE e.status # "COMPLETED"
    <3>1. answerKey \in queuedKey[i] .. answerKey
      BY <1>5
    <3>2. QED
      BY <1>4, <2>2, <3>1 DEF NoKey
  <2>3. QED
    BY <2>1, <2>2
<1>7. rows' = [rows EXCEPT ![i] = r]
  BY DEF PersistTransaction, WriteIfStillOwned
<1>8. grades' = IF e.status = "COMPLETED" /\ e.correct # "none" /\ Board!IsLatest(i)
                THEN [s \in Students |->
                        IF s \in Board!Owners(i) /\ ~ grades[s].manual
                        THEN Board!Worth(e.correct) ELSE grades[s]]
                ELSE grades
  <2>1. grades' = IF YieldsAGrade(l.status, l.correct) /\ HoldsTheStandingGrade(i)
                  THEN Graded(i, l.correct) ELSE grades
    BY DEF PersistTransaction
  <2>2. YieldsAGrade(l.status, l.correct) <=> e.status = "COMPLETED" /\ e.correct # "none"
    BY <1>4 DEF YieldsAGrade
  <2>3. Board!IsLatest(i) <=> HoldsTheStandingGrade(i)
    BY <1>1, LatestOnTheBoard
  <2>4. Graded(i, l.correct) = [s \in Students |->
                                  IF s \in Board!Owners(i) /\ ~ grades[s].manual
                                  THEN Board!Worth(e.correct) ELSE grades[s]]
    BY <1>4 DEF Graded, EarnedGrade, Owners, Board!Owners, Board!Worth
  <2>5. QED
    BY <2>1, <2>2, <2>3, <2>4
<1> HIDE DEF r, l
<1>9. /\ [j \in Submissions |-> rows'[j].status]
            = [[j \in Submissions |-> rows[j].status] EXCEPT ![i] = e.status]
      /\ [j \in Submissions |-> rows'[j].correct]
            = [[j \in Submissions |-> rows[j].correct] EXCEPT ![i] = e.correct]
      /\ [j \in Submissions |-> rows'[j].key]
            = [[j \in Submissions |-> rows[j].key]
                 EXCEPT ![i] = IF e.status = "COMPLETED" THEN k ELSE 0]
  <2>1. r.status = e.status /\ r.correct = e.correct
        /\ r.key = IF e.status = "COMPLETED" THEN k ELSE 0
    BY <1>2, <1>4, <1>6
  <2>2. /\ [j \in Submissions |-> rows'[j].status]
              = [[j \in Submissions |-> rows[j].status] EXCEPT ![i] = r.status]
        /\ [j \in Submissions |-> rows'[j].correct]
              = [[j \in Submissions |-> rows[j].correct] EXCEPT ![i] = r.correct]
        /\ [j \in Submissions |-> rows'[j].key]
              = [[j \in Submissions |-> rows[j].key] EXCEPT ![i] = r.key]
    BY <1>1, <1>7, OneRowChanges
  <2>3. QED
    BY <2>1, <2>2
<1>10. Board!Settle(i)
  BY <1>1, <1>3, <1>6, <1>8, <1>9 DEF Board!Settle
<1>11. QED
  BY <1>10, BoardSteps

\* A write under the loop's claim moves the row the loop has in hand.
LEMMA RecoverOnTheBoard ==
    ASSUME TypeOK, ClaimInv, NEW w \in Loops, Recover(w)
    PROVE  Board!Next \/ UnseenByTheBoard
<1> DEFINE i == loops[w].id
<1>0. i \in Submissions /\ rows[i] \in Row
  BY DEF Recover, TypeOK
<1>1. OnlyRows
  BY DEF Recover, OnlyRows
<1>2. CASE ~Owns(w)
  BY <1>1, <1>2 DEF Recover, WriteIfStillOwned, OnlyRows, UnseenByTheBoard
<1>3. CASE Owns(w)
  <2>1. rows[i].status = "PROCESSING"
    BY <1>0, <1>3 DEF ClaimInv, Owns
  <2>2. PICK r \in {GivenUpRow(rows[i]), RequeuedRow(rows[i])} : rows' = [rows EXCEPT ![i] = r]
    BY <1>3 DEF Recover, WriteIfStillOwned
  <2>3. r \in Row
    BY <1>0, <2>2, RowsWritten
  <2>4. /\ r.correct = rows[i].correct /\ r.key = rows[i].key
        /\ r.status \in {"PENDING", "FAILED"}
    BY <1>0, <2>2 DEF Row, GivenUpRow, RequeuedRow
  <2> HIDE DEF i
  <2>5. QED
    BY <1>0, <1>1, <2>1, <2>2, <2>3, <2>4, RowMoves DEF OnQueue
<1>4. QED
  BY <1>2, <1>3

\* What a step of a worker loop is on the board.
LEMMA LoopsOnTheBoard ==
    ASSUME TypeOK, ClaimInv, KeyInv, BoardInv, NEW w \in Loops, LoopStep(w) \/ LoopFault(w)
    PROVE  Board!Next \/ UnseenByTheBoard
<1>1. CASE FailPoisonPill(w)
  <2> DEFINE i == loops[w].id
             r == [rows[i] EXCEPT !.status = "FAILED"]
  <2>1. i \in Submissions /\ rows[i] \in Row /\ r \in Row
    BY <1>1, RowsWritten DEF FailPoisonPill, TypeOK
  <2>2. r.status = "FAILED" /\ r.correct = rows[i].correct /\ r.key = rows[i].key
    BY <2>1 DEF Row
  <2>3. OnlyRows
    BY <1>1 DEF FailPoisonPill, OnlyRows
  <2>4. CASE rows[i].status # "PENDING"
    BY <1>1, <2>3, <2>4 DEF FailPoisonPill, OnlyRows, UnseenByTheBoard
  <2>5. CASE rows[i].status = "PENDING"
    <3>1. rows' = [rows EXCEPT ![i] = r]
      BY <1>1, <2>5 DEF FailPoisonPill
    <3> HIDE DEF i, r
    <3>2. QED
      BY <2>1, <2>2, <2>3, <2>5, <3>1, RowMoves DEF OnQueue
  <2>6. QED
    BY <2>4, <2>5
<1>2. CASE Claim(w) \/ ClaimAnswerLost(w)
  <2>1. CASE rows' = rows
    BY <1>2, <2>1 DEF Claim, ClaimAnswerLost, UnseenByTheBoard
  <2>2. CASE rows' # rows
    <3>1. PICK i \in Submissions : /\ rows[i].status = "PENDING"
                                   /\ rows' = [rows EXCEPT ![i] = ClaimedRow(@, FreshToken(i))]
      BY <1>2, <2>2 DEF Claim, ClaimAnswerLost, MayClaim, TypeOK
    <3>2. rows[i] \in Row /\ FreshToken(i) \in Nat
      BY DEF TypeOK, FreshToken
    <3> DEFINE r == ClaimedRow(rows[i], FreshToken(i))
    <3>3. r \in Row
      BY <3>2, ClaimedRowWritten
    <3>4. r.status = "PROCESSING" /\ r.correct = rows[i].correct /\ r.key = rows[i].key
      BY <3>2 DEF ClaimedRow, Row
    <3>5. OnlyRows
      BY <1>2 DEF Claim, ClaimAnswerLost, OnlyRows
    <3>6. rows' = [rows EXCEPT ![i] = r]
      BY <3>1
    <3> HIDE DEF r
    <3>7. QED
      BY <3>1, <3>3, <3>4, <3>5, <3>6, RowMoves
  <2>3. QED
    BY <2>1, <2>2
<1>3. CASE Persist(w) \/ PersistAnswerLost(w)
  <2>1. /\ loops[w].pc = "evaluated" /\ PersistTransaction(w)
        /\ UNCHANGED <<queuedKey, answerKey, touched>>
    BY <1>3 DEF Persist, PersistAnswerLost
  <2>2. CASE Owns(w)
    <3>1. PICK i \in Submissions : loops[w].id = i
      BY <2>1 DEF TypeOK
    <3>2. QED
      BY <2>1, <2>2, <3>1, SettleOnTheBoard
  <2>3. CASE ~Owns(w)
    BY <2>1, <2>3 DEF PersistTransaction, WriteIfStillOwned, UnseenByTheBoard
  <2>4. QED
    BY <2>2, <2>3
<1>4. CASE Recover(w)
  BY <1>4, RecoverOnTheBoard
<1>5. QED
  BY <1>1, <1>2, <1>3, <1>4
     DEF LoopStep, LoopFault, UnseenByTheBoard, Retire, ReadBusy, PickNext, Evaluate,
         LoadFails, PersistRollsBack, PassFails

\* Every step of the system is one of the board, or one it does not see.
LEMMA StepsOfTheBoard ==
    ASSUME TypeOK, TypeOK', ClaimInv, KeyInv, BoardInv, [Next]_vars
    PROVE  Board!Next \/ UnseenByTheBoard
<1>1. ASSUME NEW i \in Submissions, Submit(i) PROVE Board!Next
  <2>1. SubmittedRow \in Row /\ rows' = [rows EXCEPT ![i] = SubmittedRow]
    BY <1>1, RowsWritten DEF Submit, TypeOK
  <2>2. rows[i] = AbsentRow /\ rows[i].status = "ABSENT"
    BY <1>1 DEF Submit, BoardInv, AbsentIsBlank, Present
  <2>3. /\ SubmittedRow.status = "PENDING"
        /\ SubmittedRow.correct = AbsentRow.correct /\ SubmittedRow.key = AbsentRow.key
    BY DEF SubmittedRow, AbsentRow
  <2>4. /\ [j \in Submissions |-> rows'[j].status]
              = [[j \in Submissions |-> rows[j].status] EXCEPT ![i] = "PENDING"]
        /\ [j \in Submissions |-> rows'[j].correct] = [j \in Submissions |-> rows[j].correct]
        /\ [j \in Submissions |-> rows'[j].key] = [j \in Submissions |-> rows[j].key]
    BY <2>1, <2>2, <2>3, OneRowChanges
  <2>5. Board!Submit(i)
    BY <1>1, <2>2, <2>4 DEF Submit, Board!Submit
  <2>6. QED
    BY <2>5, BoardSteps
<1>2. ASSUME NEW w \in Loops, LoopStep(w) \/ LoopFault(w) PROVE Board!Next \/ UnseenByTheBoard
  BY <1>2, LoopsOnTheBoard
<1>3. ASSUME NEW a \in Staff, RerunWrites(a) PROVE Board!Next
  <2> DEFINE S == {rerun[a]}
  <2>1. rerun[a] \in Submissions /\ Present(rerun[a])
    BY <1>3 DEF RerunWrites, BoardInv, RerunsWhatIsThere, TypeOK
  <2>2. /\ rows' = [i \in Submissions |-> IF i \in S THEN RerunRow(rows[i]) ELSE rows[i]]
        /\ queuedKey' = [i \in Submissions |-> IF i \in S THEN answerKey ELSE queuedKey[i]]
        /\ UNCHANGED <<answerKey, grades, touched>>
    BY <1>3, <2>1 DEF RerunWrites, TypeOK
  <2>3. S \in SUBSET Submissions /\ \A i \in S : Present(i)
    BY <2>1
  <2> HIDE DEF S
  <2>4. QED
    BY <2>2, <2>3, RerunOnTheBoard
<1>4. CASE CourseRerun
  <2> DEFINE S == {i \in Submissions : rows[i].status \in Settled}
  <2>1. /\ rows' = [i \in Submissions |-> IF i \in S THEN RerunRow(rows[i]) ELSE rows[i]]
        /\ queuedKey' = [i \in Submissions |-> IF i \in S THEN answerKey ELSE queuedKey[i]]
        /\ UNCHANGED <<answerKey, grades, touched>>
    BY <1>4 DEF CourseRerun
  <2>2. S \in SUBSET Submissions /\ \A i \in S : Present(i)
    BY DEF Settled, Present
  <2> HIDE DEF S
  <2>3. QED
    BY <2>1, <2>2, RerunOnTheBoard
<1>5. CASE ReplaceAnswerKey
  <2>1. Board!ReplaceAnswerKey
    BY <1>5 DEF ReplaceAnswerKey, Board!ReplaceAnswerKey
  <2>2. QED
    BY <2>1, BoardSteps
<1>6. ASSUME NEW s \in Students, NEW g, StaffGrade(s, g) PROVE Board!Next
  <2>1. grades' = [grades EXCEPT ![s] = g] /\ g \in Grade
    <3>1. grades' = [grades EXCEPT ![s] = g] /\ grades \in [Students -> Grade]
          /\ grades' \in [Students -> Grade]
      BY <1>6 DEF StaffGrade, TypeOK
    <3>2. QED
      BY <3>1
  <2>2. g = [value |-> g.value, manual |-> g.manual]
        /\ g.value \in -1 .. MaxPoints /\ g.manual \in BOOLEAN
    BY <2>1 DEF Grade
  <2>3. Board!StaffGrade(s)
    BY <1>6, <2>1, <2>2 DEF StaffGrade, Board!StaffGrade
  <2>4. QED
    BY <2>3, BoardSteps
<1>7. ASSUME NEW s \in Students, EnterGrade(s) \/ ClearGrade(s) \/ ToggleHold(s) PROVE Board!Next
  BY <1>6, <1>7 DEF EnterGrade, ClearGrade, ToggleHold
<1>8. ASSUME NEW stuck \in SUBSET Submissions, Reap(stuck) PROVE Board!Next
  BY <1>8, ReapOnTheBoard
<1>9. CASE UNCHANGED vars
  BY <1>9 DEF vars, UnseenByTheBoard
<1>10. QED
  BY <1>1, <1>2, <1>3, <1>4, <1>5, <1>7, <1>8, <1>9
     DEF Next, UnseenByTheBoard, RerunReads, RefreshQueueSettings, Crash, StartSubmissionWorker

LEMMA BoardSees == UnseenByTheBoard => UNCHANGED Board!board
BY DEF UnseenByTheBoard, Board!board

\* Everything the invariants of this module and of SubmissionQueue_proofs say.
QueueInv == TypeOK /\ ClaimInv /\ KeyInv /\ BoardInv

LEMMA QueueHolds == Spec => []QueueInv
<1>1. Init => QueueInv
  BY TypeInit, ClaimInit, KeyInit, BoardInit DEF QueueInv
<1>2. QueueInv /\ [Next]_vars => QueueInv'
  BY TypeNext, ClaimNext, KeyNext, BoardInvNext DEF QueueInv
<1>3. QED
  BY <1>1, <1>2, PTL DEF Spec

\* Every behaviour of the loops, the reaper, the staff and the crashes is one of
\* GradingBoard: a verdict and its grades land together, once per request, and
\* everything else a worker does is invisible or puts the work back.
THEOREM BoardImplemented == Spec => ImplementsBoard
<1>1. Init => Board!Init
  BY BoardStarts
<1>2. QueueInv /\ QueueInv' /\ [Next]_vars => [Board!Next]_(Board!board)
  BY StepsOfTheBoard, BoardSees DEF QueueInv
<1>3. QED
  BY <1>1, <1>2, QueueHolds, PTL DEF Spec, ImplementsBoard, Board!Spec

----------------------------------------------------------------------------
(* The standing grade, from the steps of the board.                        *)

\* Until staff step in, a grade is not held.
Standing ==
    \A s \in Students \ touched :
        /\ ~ grades[s].manual
        /\ \A i \in LatestOf(s) :
             YieldsAGrade(rows[i].status, rows[i].correct)
               => grades[s] = EarnedGrade(rows[i].correct)

\* Row i shows what it showed, or nothing that yields a grade.
Quiet(i) == \/ rows'[i].status = rows[i].status /\ rows'[i].correct = rows[i].correct
            \/ rows'[i].status \in {"PENDING", "PROCESSING", "FAILED"}

\* A student has one stream: two submissions that speak for the same student
\* are in it, so only one of them is its latest.
LEMMA OneLatest ==
    ASSUME NEW s \in Students, NEW i \in LatestOf(s), NEW k \in LatestOf(s)
    PROVE  i = k
<1>1. /\ Author[i] \in Students /\ Author[k] \in Students
      /\ i \in Submissions /\ k \in Submissions /\ i \in Nat /\ k \in Nat
  BY RosterAssumption, BoundsAssumption DEF LatestOf, Submissions
<1>2. s \in Owners(i) /\ s \in Owners(k)
  BY DEF LatestOf
<1>3. SameStream(i, k) /\ SameStream(k, i)
  BY <1>1, <1>2 DEF Owners, SameStream
<1>4. i <= k /\ k <= i
  BY <1>1, <1>3 DEF LatestOf, HoldsTheStandingGrade
<1>5. QED
  BY <1>1, <1>4

LEMMA QuietKeepsStanding ==
    ASSUME Standing, touched \subseteq touched', \A i \in Submissions : Quiet(i),
           \A s \in Students \ touched' : grades'[s] = grades[s]
    PROVE  Standing'
<1> SUFFICES ASSUME NEW s \in Students \ touched'
             PROVE  /\ ~ grades'[s].manual
                    /\ \A i \in LatestOf(s)' :
                         YieldsAGrade(rows'[i].status, rows'[i].correct)
                           => grades'[s] = EarnedGrade(rows'[i].correct)
  BY DEF Standing
<1>1. ~ grades[s].manual /\ grades'[s] = grades[s] /\ s \in Students \ touched
  BY DEF Standing
<1>2. ASSUME NEW i \in LatestOf(s)', YieldsAGrade(rows'[i].status, rows'[i].correct)
      PROVE  grades'[s] = EarnedGrade(rows'[i].correct)
  <2>1. i \in Submissions
    BY DEF LatestOf
  <2>2. rows'[i].status = rows[i].status /\ rows'[i].correct = rows[i].correct
    BY <1>2, <2>1 DEF Quiet, YieldsAGrade
  <2>3. \A j \in Submissions : Present(j) => Present(j)'
    BY DEF Quiet, Present
  <2>4. i \in LatestOf(s)
    BY <1>2, <2>1, <2>2, <2>3
       DEF LatestOf, HoldsTheStandingGrade, YieldsAGrade, Present
  <2>5. QED
    BY <1>1, <1>2, <2>2, <2>4 DEF Standing
<1>3. QED
  BY <1>1, <1>2

\* The verdict of the latest submission and its grade land together; that of any
\* other submission moves no grade whose latest has one.
LEMMA SettleKeepsStanding ==
    ASSUME TypeOK, Standing, NEW i \in Submissions, Board!Settle(i)
    PROVE  Standing'
<1>1. PICK e \in Evaluations :
        /\ [j \in Submissions |-> rows'[j].status]
             = [[j \in Submissions |-> rows[j].status] EXCEPT ![i] = e.status]
        /\ [j \in Submissions |-> rows'[j].correct]
             = [[j \in Submissions |-> rows[j].correct] EXCEPT ![i] = e.correct]
        /\ grades' = IF e.status = "COMPLETED" /\ e.correct # "none" /\ Board!IsLatest(i)
                     THEN [s \in Students |->
                             IF s \in Board!Owners(i) /\ ~ grades[s].manual
                             THEN Board!Worth(e.correct) ELSE grades[s]]
                     ELSE grades
  BY DEF Board!Settle
<1>2. rows[i].status = "PROCESSING" /\ touched' = touched
  BY DEF Board!Settle
<1>3. /\ rows'[i].status = e.status /\ rows'[i].correct = e.correct
      /\ \A j \in Submissions \ {i} :
           rows'[j].status = rows[j].status /\ rows'[j].correct = rows[j].correct
  BY <1>1
<1>4. e.status \in Settled
  BY SettingsAssumption DEF AllEvaluations
<1>5. \A j \in Submissions : Present(j)' <=> Present(j)
  BY <1>2, <1>3, <1>4 DEF Present, Settled
<1>6. \A s : LatestOf(s)' = LatestOf(s)
  BY <1>5 DEF LatestOf, HoldsTheStandingGrade
<1>7. /\ Board!Owners(i) = Owners(i) /\ Board!Worth(e.correct) = EarnedGrade(e.correct)
      /\ Board!IsLatest(i) <=> HoldsTheStandingGrade(i)
  BY LatestOnTheBoard DEF Board!Owners, Owners, Board!Worth, EarnedGrade
<1> SUFFICES ASSUME NEW s \in Students \ touched
             PROVE  /\ ~ grades'[s].manual
                    /\ \A k \in LatestOf(s) :
                         YieldsAGrade(rows'[k].status, rows'[k].correct)
                           => grades'[s] = EarnedGrade(rows'[k].correct)
  BY <1>2, <1>6 DEF Standing
<1>8. ~ grades[s].manual
  BY DEF Standing
<1>9. CASE i \in LatestOf(s) /\ YieldsAGrade(e.status, e.correct)
  <2>1. s \in Owners(i) /\ HoldsTheStandingGrade(i)
    BY <1>9 DEF LatestOf
  <2>2. grades'[s] = EarnedGrade(e.correct)
    BY <1>1, <1>7, <1>8, <1>9, <2>1 DEF YieldsAGrade
  <2>3. \A k \in LatestOf(s) : k = i
    BY <1>9, OneLatest
  <2>4. ~ grades'[s].manual
    BY <2>2 DEF EarnedGrade
  <2>5. ASSUME NEW k \in LatestOf(s) PROVE grades'[s] = EarnedGrade(rows'[k].correct)
    <3>1. k = i
      BY <2>3
    <3>2. rows'[k].correct = e.correct
      BY <1>3, <3>1
    <3>3. QED
      BY <2>2, <3>2
  <2>6. QED
    BY <2>4, <2>5
<1>10. CASE ~ (i \in LatestOf(s) /\ YieldsAGrade(e.status, e.correct))
  <2>1. grades'[s] = grades[s]
    <3>1. CASE YieldsAGrade(e.status, e.correct) /\ HoldsTheStandingGrade(i)
      <4>1. s \notin Owners(i)
        BY <1>2, <1>10, <3>1 DEF LatestOf, Present
      <4>2. QED
        BY <1>1, <1>7, <4>1, <3>1 DEF YieldsAGrade
    <3>2. CASE ~ (YieldsAGrade(e.status, e.correct) /\ HoldsTheStandingGrade(i))
      BY <1>1, <1>7, <3>2 DEF YieldsAGrade
    <3>3. QED
      BY <3>1, <3>2
  <2>2. ASSUME NEW k \in LatestOf(s), YieldsAGrade(rows'[k].status, rows'[k].correct)
        PROVE  grades'[s] = EarnedGrade(rows'[k].correct)
    <3>1. k # i /\ k \in Submissions
      BY <1>3, <1>10, <2>2 DEF LatestOf
    <3>2. rows'[k].status = rows[k].status /\ rows'[k].correct = rows[k].correct
      BY <1>3, <3>1
    <3>3. QED
      BY <2>1, <2>2, <3>2 DEF Standing
  <2>3. QED
    BY <1>8, <2>1, <2>2
<1>11. QED
  BY <1>9, <1>10

LEMMA StandingNext ==
    ASSUME TypeOK, Standing, Board!Next \/ UnseenByTheBoard
    PROVE  Standing'
<1>1. ASSUME NEW i \in Submissions,
             Board!Submit(i) \/ Board!Start(i) \/ Board!GiveUp(i)
      PROVE  Standing'
  <2>1. PICK st \in {"PENDING", "PROCESSING", "FAILED"} :
          /\ [j \in Submissions |-> rows'[j].status]
               = [[j \in Submissions |-> rows[j].status] EXCEPT ![i] = st]
          /\ [j \in Submissions |-> rows'[j].correct] = [j \in Submissions |-> rows[j].correct]
    BY <1>1 DEF Board!Submit, Board!Start, Board!GiveUp
  <2>2. \A j \in Submissions : /\ rows'[j].status = IF j = i THEN st ELSE rows[j].status
                               /\ rows'[j].correct = rows[j].correct
    BY <2>1
  <2>3. \A j \in Submissions : Quiet(j)
    BY <2>1, <2>2 DEF Quiet
  <2>4. grades' = grades /\ touched' = touched
    BY <1>1 DEF Board!Submit, Board!Start, Board!GiveUp
  <2>5. QED
    BY <2>3, <2>4, QuietKeepsStanding
<1>2. ASSUME NEW S \in SUBSET Submissions, Board!PutBack(S) \/ Board!Rerun(S)
      PROVE  Standing'
  <2>1. [j \in Submissions |-> rows'[j].status]
          = [j \in Submissions |-> IF j \in S THEN "PENDING" ELSE rows[j].status]
    BY <1>2 DEF Board!PutBack, Board!Rerun, Board!Submissions, Submissions
  <2>2. PICK T \in {{}, S} :
          [j \in Submissions |-> rows'[j].correct]
            = [j \in Submissions |-> IF j \in T THEN "none" ELSE rows[j].correct]
    <3>1. CASE Board!PutBack(S)
      <4>1. [j \in Submissions |-> rows'[j].correct] = [j \in Submissions |-> rows[j].correct]
        BY <3>1 DEF Board!PutBack
      <4>2. [j \in Submissions |-> rows'[j].correct]
              = [j \in Submissions |-> IF j \in {} THEN "none" ELSE rows[j].correct]
        BY <4>1
      <4>3. QED
        BY <4>2
    <3>2. CASE Board!Rerun(S)
      <4>1. [j \in Submissions |-> rows'[j].correct]
              = [j \in Submissions |-> IF j \in S THEN "none" ELSE rows[j].correct]
        BY <3>2 DEF Board!Rerun, Board!Submissions, Submissions
      <4>2. QED
        BY <4>1
    <3>3. QED
      BY <1>2, <3>1, <3>2
  <2>3. \A j \in Submissions :
          /\ rows'[j].status = IF j \in S THEN "PENDING" ELSE rows[j].status
          /\ j \notin S => rows'[j].correct = rows[j].correct
    BY <2>1, <2>2
  <2>4. \A j \in Submissions : Quiet(j)
    BY <2>3 DEF Quiet
  <2>5. grades' = grades /\ touched' = touched
    BY <1>2 DEF Board!PutBack, Board!Rerun
  <2>6. QED
    BY <2>4, <2>5, QuietKeepsStanding
<1>3. ASSUME NEW s \in Students, Board!StaffGrade(s) PROVE Standing'
  <2>1. \A j \in Submissions : rows'[j].status = rows[j].status /\ rows'[j].correct = rows[j].correct
    <3>1. /\ [j \in Submissions |-> rows'[j].status] = [j \in Submissions |-> rows[j].status]
          /\ [j \in Submissions |-> rows'[j].correct] = [j \in Submissions |-> rows[j].correct]
      BY <1>3 DEF Board!StaffGrade
    <3>2. QED
      BY <3>1
  <2>2. touched' = touched \cup {s} /\ \A t \in Students \ {s} : grades'[t] = grades[t]
    BY <1>3 DEF Board!StaffGrade, TypeOK
  <2>3. QED
    BY <2>1, <2>2, QuietKeepsStanding DEF Quiet
<1>4. ASSUME Board!ReplaceAnswerKey \/ UnseenByTheBoard PROVE Standing'
  <2>1. /\ [j \in Submissions |-> rows'[j].status] = [j \in Submissions |-> rows[j].status]
        /\ [j \in Submissions |-> rows'[j].correct] = [j \in Submissions |-> rows[j].correct]
        /\ grades' = grades /\ touched' = touched
    BY <1>4 DEF Board!ReplaceAnswerKey, UnseenByTheBoard
  <2>2. \A j \in Submissions : Quiet(j)
    BY <2>1 DEF Quiet
  <2>3. QED
    BY <2>1, <2>2, QuietKeepsStanding
<1>5. QED
  BY <1>1, <1>2, <1>3, <1>4, SettleKeepsStanding
     DEF Board!Next, Board!Submissions, Submissions

LEMMA StandingInit == Init => Standing
<1>1. NoGrade.manual = FALSE /\ AbsentRow.status = "ABSENT"
  BY DEF NoGrade, AbsentRow
<1>2. QED
  BY <1>1 DEF Init, Standing, LatestOf, YieldsAGrade

\* Unless staff stepped in, the latest submission of a student or group with a
\* verdict is the one whose grade every owner has: persistEvaluation's check of
\* "is this the latest" is enough, for any roster and any number of workers, in
\* whatever order the evaluations end.
THEOREM StandingGradeHolds == Spec => []StandingGradeIsLatest
<1>1. Init => Standing
  BY StandingInit
<1>2. QueueInv /\ QueueInv' /\ Standing /\ [Next]_vars => Standing'
  BY StepsOfTheBoard, StandingNext DEF QueueInv
<1>3. Standing => StandingGradeIsLatest
  BY DEF Standing, StandingGradeIsLatest
<1>4. QED
  BY <1>1, <1>2, <1>3, QueueHolds, PTL DEF Spec

=============================================================================
