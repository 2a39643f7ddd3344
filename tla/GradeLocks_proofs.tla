-------------------------- MODULE GradeLocks_proofs --------------------------
(***************************************************************************)
(* Which requests can wait for each other in a circle.  The order of the   *)
(* locks (the set, then the problems, a batch by problemId) rules out all  *)
(* circles but those that a late stamp or an unordered scan takes part in, *)
(* for every number of problems and requests.                              *)
(***************************************************************************)
EXTENDS Gradebook_proofs, WellFoundedInduction

----------------------------------------------------------------------------
(* A set of problems has a last one.                                       *)

LEMMA LastProblem ==
    ASSUME NEW T, T \subseteq Problems, T # {}
    PROVE  \E x \in T : \A y \in T : y <= x
<1> DEFINE Below == {P - x : x \in T}
<1>1. P \in Nat /\ \A x \in T : x \in 1 .. P
  BY CourseAssumption DEF Problems
<1>2. \A x \in T : P - x \in Nat
  BY <1>1
<1>3. Below \subseteq Nat /\ Below # {}
  BY <1>2
<1>4. \E d \in Below : \A e \in Below : ~(<<e, d>> \in OpToRel(<, Nat))
  BY <1>3, NatLessThanWellFounded, WFMin
<1>5. PICK d \in Below : \A e \in Below : ~(e < d)
  BY <1>3, <1>4 DEF OpToRel
<1>6. PICK x \in T : d = P - x
  OBVIOUS
<1>7. \A y \in T : ~(P - y < P - x)
  BY <1>5, <1>6
<1>8. \A y \in T : y <= x
  BY <1>1, <1>6, <1>7
<1>9. QED
  BY <1>6, <1>8

----------------------------------------------------------------------------
(* What a request holds, wherever it is.                                   *)

\* A request stands only where its kind passes.
Placed(r) ==
    /\ Running(r) => req[r].kind # "clear"
    /\ req[r].pc = "begin" => req[r].kind \in Serializable
    /\ req[r].pc = "set" => req[r].kind \in TakesTheSetFirst
    /\ req[r].pc = "problem" => req[r].kind \notin TakesNoProblem

\* Only who takes the set first holds it, and then it is past it.
HoldsTheSetInOrder(r) ==
    setLock = r => req[r].kind \in TakesTheSetFirst /\ req[r].pc \in {"problem", "check", "commit"}

\* It holds problems it wants, none before it asks, and while it asks not all.
HoldsProblemsInOrder(r) ==
    /\ Held(r) \subseteq Wanted(r)
    /\ Held(r) # {} => req[r].pc \in {"problem", "check", "commit"}
    /\ Held(r) # {} /\ req[r].pc = "problem" => ~(Wanted(r) \subseteq Held(r))

\* A batch holds the first of its problems.
BatchAscends(r) ==
    req[r].kind = "batch" => \A p \in Held(r), k \in Wanted(r) \ Held(r) : p < k

InOrder(r) == Placed(r) /\ HoldsTheSetInOrder(r) /\ HoldsProblemsInOrder(r) /\ BatchAscends(r)

OrderInv == \A r \in Requests : InOrder(r)

LEMMA OthersHoldTheSame ==
    ASSUME TypeInv, NEW r \in Requests, Arrives(r) \/ Step(r) \/ RollsBack(r),
           NEW q \in Requests, q # r
    PROVE  (setLock' = q <=> setLock = q) /\ Held(q)' = Held(q)
<1>1. /\ setLock \in Requests \cup {Nobody} /\ problemLock \in [Problems -> Requests \cup {Nobody}]
      /\ Nobody \notin Requests
  BY RequestsAssumption DEF TypeInv, LocksOK
<1>2. CASE UNCHANGED <<setLock, problemLock>>
  BY <1>2 DEF Held
<1>3. CASE LockSet(r)
  BY <1>1, <1>3 DEF LockSet, Held
<1>4. ASSUME NEW p \in Problems, LockProblem(r, p)
      PROVE  (setLock' = q <=> setLock = q) /\ Held(q)' = Held(q)
  <2>1. problemLock' = [problemLock EXCEPT ![p] = r] /\ problemLock[p] = Nobody /\ setLock' = setLock
    BY <1>4 DEF LockProblem
  <2>2. \A k \in Problems : problemLock'[k] = q <=> problemLock[k] = q
    BY <1>1, <2>1
  <2>3. QED
    BY <2>1, <2>2 DEF Held
<1>5. CASE ReleaseLocks(r)
  <2>1. \A k \in Problems : problemLock'[k] = q <=> problemLock[k] = q
    BY <1>1, <1>5 DEF ReleaseLocks
  <2>2. setLock' = q <=> setLock = q
    BY <1>1, <1>5 DEF ReleaseLocks
  <2>3. QED
    BY <2>1, <2>2 DEF Held
<1>6. RequestMove(r)
  BY ArrivalsMove, StepsMove
<1>7. QED
  BY <1>2, <1>3, <1>4, <1>5, <1>6 DEF RequestMove, Comes, ClearGrade, Begins, Begin, Check

LEMMA OwnStepInOrder ==
    ASSUME TypeInv, OrderInv, NEW r \in Requests, Arrives(r) \/ Step(r) \/ RollsBack(r)
    PROVE  InOrder(r)'
<1>1. /\ InOrder(r) /\ r # Nobody /\ req[r] \in RequestRecord
      /\ problemLock \in [Problems -> Requests \cup {Nobody}]
  BY RequestsAssumption DEF OrderInv, TypeInv, RequestsOK, LocksOK
<1>2. CASE Comes(r)
  <2>1. req'[r].kind \in Kinds /\ req'[r].kind # "clear" /\ req'[r].pc = FirstStep(req'[r].kind)
    BY <1>2, ComesByArriving
  <2>2. setLock' # r /\ Held(r)' = {}
    <3>1. UNCHANGED <<setLock, problemLock>> /\ req[r].pc = "new"
      BY <1>2 DEF Comes
    <3>2. QED
      BY <1>1, <3>1 DEF InOrder, HoldsTheSetInOrder, HoldsProblemsInOrder, Held
  <2>3. Placed(r)'
    BY <2>1 DEF Placed, Running, FirstStep, Serializable, TakesTheSetFirst, TakesNoProblem, Kinds
  <2>4. QED
    BY <2>2, <2>3 DEF InOrder, HoldsTheSetInOrder, HoldsProblemsInOrder, BatchAscends
<1>3. ASSUME req'[r].pc = "done", setLock' # r, Held(r)' = {} PROVE InOrder(r)'
  BY <1>3 DEF InOrder, Placed, Running, HoldsTheSetInOrder, HoldsProblemsInOrder, BatchAscends
<1>4. CASE (\E s \in Students, p \in Problems : ClearGrade(r, s, p)) /\ req'[r].pc = "done"
  <2>1. UNCHANGED <<setLock, problemLock>> /\ req[r].pc = "new"
    BY <1>4 DEF ClearGrade
  <2>2. setLock' # r /\ Held(r)' = {}
    BY <1>1, <2>1 DEF InOrder, HoldsTheSetInOrder, HoldsProblemsInOrder, Held
  <2>3. QED
    BY <1>3, <1>4, <2>2
<1>5. CASE ReleaseLocks(r) /\ req'[r].pc = "done"
  <2>1. setLock' # r /\ Held(r)' = {}
    BY <1>1, <1>5 DEF ReleaseLocks, Held
  <2>2. QED
    BY <1>3, <1>5, <2>1
<1>6. CASE Begins(r)
  <2>1. /\ req'[r].kind = req[r].kind /\ req'[r].problem = req[r].problem
        /\ req'[r].pc = IF req[r].kind \in TakesTheSetFirst THEN "set" ELSE "problem"
    BY <1>1, <1>6 DEF Begins, RequestRecord
  <2>2. UNCHANGED <<setLock, problemLock>> /\ req[r].pc = "begin"
    BY <1>6 DEF Begins, Begin
  <2>3. setLock' # r /\ Held(r)' = {}
    BY <1>1, <2>2 DEF InOrder, HoldsTheSetInOrder, HoldsProblemsInOrder, Held
  <2>4. Placed(r)'
    BY <1>1, <2>1, <2>2 DEF InOrder, Placed, Running, Serializable, TakesTheSetFirst, TakesNoProblem
  <2>5. QED
    BY <2>3, <2>4 DEF InOrder, HoldsTheSetInOrder, HoldsProblemsInOrder, BatchAscends
<1>7. ASSUME OnlyMoves(r)
      PROVE  req'[r].kind = req[r].kind /\ req'[r].problem = req[r].problem /\ Wanted(r)' = Wanted(r)
  BY <1>1, <1>7 DEF OnlyMoves, RequestRecord, Wanted
<1>8. CASE LockSet(r) /\ OnlyMoves(r)
           /\ req'[r].pc = IF req[r].kind \in TakesNoProblem THEN "check" ELSE "problem"
  <2>1. req'[r].kind = req[r].kind /\ UNCHANGED problemLock /\ req[r].pc = "set"
    BY <1>7, <1>8 DEF LockSet
  <2>2. Held(r)' = {}
    BY <1>1, <2>1 DEF InOrder, HoldsProblemsInOrder, Held
  <2>3. Placed(r)' /\ HoldsTheSetInOrder(r)'
    BY <1>1, <1>8, <2>1 DEF InOrder, Placed, Running, HoldsTheSetInOrder
  <2>4. QED
    BY <2>2, <2>3 DEF InOrder, HoldsProblemsInOrder, BatchAscends
<1>9. ASSUME NEW p \in Problems, LockProblem(r, p), OnlyMoves(r),
             req'[r].pc = IF Wanted(r) \subseteq Held(r) \cup {p} THEN "check" ELSE "problem"
      PROVE  InOrder(r)'
  <2>1. /\ req'[r].kind = req[r].kind /\ Wanted(r)' = Wanted(r) /\ UNCHANGED setLock
        /\ req[r].pc = "problem" /\ p \in AsksFor(r)
        /\ problemLock' = [problemLock EXCEPT ![p] = r]
    BY <1>7, <1>9 DEF LockProblem
  <2>2. Held(r)' = Held(r) \cup {p} /\ p \in Wanted(r)
    BY <1>1, <2>1 DEF Held, AsksFor
  <2>3. Placed(r)' /\ HoldsTheSetInOrder(r)'
    BY <1>1, <1>9, <2>1 DEF InOrder, Placed, Running, HoldsTheSetInOrder
  <2>4. HoldsProblemsInOrder(r)'
    BY <1>1, <1>9, <2>1, <2>2 DEF InOrder, HoldsProblemsInOrder
  <2>5. BatchAscends(r)'
    <3>1. SUFFICES ASSUME req[r].kind = "batch", NEW j \in Held(r) \cup {p},
                          NEW k \in Wanted(r) \ (Held(r) \cup {p})
                   PROVE  j < k
      BY <2>1, <2>2 DEF BatchAscends
    <3>2. CASE j \in Held(r)
      BY <1>1, <3>1, <3>2 DEF InOrder, BatchAscends
    <3>3. CASE j = p
      <4>1. p <= k /\ p # k
        BY <2>1, <3>1 DEF AsksFor
      <4>2. k \in Int /\ p \in Int
        BY <3>1 DEF Wanted, Problems
      <4>3. QED
        BY <3>3, <4>1, <4>2
    <3>4. QED
      BY <3>2, <3>3
  <2>6. QED
    BY <2>3, <2>4, <2>5 DEF InOrder
<1>10. CASE Check(r) /\ OnlyMoves(r) /\ req'[r].pc = "commit"
  <2>1. /\ req'[r].kind = req[r].kind /\ Wanted(r)' = Wanted(r)
        /\ UNCHANGED <<setLock, problemLock>> /\ req[r].pc = "check"
    BY <1>7, <1>10 DEF Check
  <2>2. Held(r)' = Held(r)
    BY <2>1 DEF Held
  <2>3. QED
    BY <1>1, <1>10, <2>1, <2>2
    DEF InOrder, Placed, Running, HoldsTheSetInOrder, HoldsProblemsInOrder, BatchAscends
<1>11. RequestMove(r)
  BY ArrivalsMove, StepsMove
<1>12. QED
  BY <1>2, <1>4, <1>5, <1>6, <1>8, <1>9, <1>10, <1>11 DEF RequestMove

LEMMA OrderInvInit == Init => OrderInv
<1> SUFFICES ASSUME Init PROVE OrderInv
  OBVIOUS
<1>1. \A r \in Requests : req[r].pc = "new" /\ setLock # r /\ Held(r) = {}
  BY NewRequestIsOK, RequestsAssumption DEF Init, Held
<1>2. QED
  BY <1>1 DEF OrderInv, InOrder, Placed, Running, HoldsTheSetInOrder, HoldsProblemsInOrder, BatchAscends

LEMMA OrderInvNext == TypeInv /\ OrderInv /\ [Next]_vars => OrderInv'
<1> SUFFICES ASSUME TypeInv, OrderInv, [Next]_vars PROVE OrderInv'
  OBVIOUS
<1>1. ASSUME NEW r \in Requests, Arrives(r) \/ Step(r) \/ RollsBack(r) PROVE OrderInv'
  <2>1. InOrder(r)'
    BY <1>1, OwnStepInOrder
  <2>2. ASSUME NEW q \in Requests, q # r PROVE InOrder(q)'
    <3>1. req'[q] = req[q] /\ (setLock' = q <=> setLock = q) /\ Held(q)' = Held(q)
      BY <1>1, <2>2, RequestsStayOK, OthersHoldTheSame
    <3>2. Wanted(q)' = Wanted(q)
      BY <3>1 DEF Wanted
    <3>3. InOrder(q)
      BY DEF OrderInv
    <3>4. QED
      BY <3>1, <3>2, <3>3
      DEF InOrder, Placed, Running, HoldsTheSetInOrder, HoldsProblemsInOrder, BatchAscends
  <2>3. QED
    BY <2>1, <2>2 DEF OrderInv
<1>2. CASE UNCHANGED vars
  BY <1>2 DEF vars, OrderInv, InOrder, Placed, Running, HoldsTheSetInOrder, HoldsProblemsInOrder,
              BatchAscends, Held, Wanted
<1>3. QED
  BY <1>1, <1>2 DEF Next

LEMMA OrderInvHolds == Spec => []OrderInv
BY OrderInvInit, OrderInvNext, TypeInvHolds, PTL DEF Spec

----------------------------------------------------------------------------
(* A circle without a stamp and without a scan cannot close.               *)

Circle(S) == S # {} /\ \A r \in S : \E q \in S : WaitsFor(r, q)

NoStampNoScan(S) ==
    \A r \in S : req[r].kind # "unpublish" /\ ~(req[r].pc = "commit" /\ StampWaits(r))

\* Whoever is waited for at a problem waits at a later one.
LEMMA WaitsFurtherOn ==
    ASSUME TypeInv, OrderInv, NEW S \in SUBSET Requests, Circle(S), NoStampNoScan(S),
           NEW q \in S, NEW p \in Held(q)
    PROVE  /\ req[q].pc = "problem"
           /\ \A k \in AsksFor(q) : k \in Problems /\ p < k
<1>1. InOrder(q) /\ q \in Requests
  BY DEF OrderInv
<1>2. PICK other \in S : WaitsFor(q, other)
  BY DEF Circle
<1>3. req[q].pc \in {"problem", "check", "commit"}
  BY <1>1 DEF InOrder, HoldsProblemsInOrder
<1>4. req[q].pc = "problem"
  BY <1>2, <1>3 DEF WaitsFor, NoStampNoScan
<1>5. req[q].kind = "batch"
  <2>1. SUFFICES ASSUME req[q].kind # "batch" PROVE FALSE
    OBVIOUS
  <2>2. Wanted(q) = {req[q].problem}
    BY <2>1 DEF NoStampNoScan, Wanted
  <2>3. Held(q) \subseteq Wanted(q) /\ ~(Wanted(q) \subseteq Held(q))
    BY <1>1, <1>4 DEF InOrder, HoldsProblemsInOrder
  <2>4. QED
    BY <2>2, <2>3
<1>6. \A k \in AsksFor(q) : k \in Wanted(q) \ Held(q)
  BY DEF AsksFor
<1>7. Wanted(q) = Problems
  BY <1>5 DEF Wanted
<1>8. QED
  BY <1>1, <1>4, <1>5, <1>6, <1>7 DEF InOrder, BatchAscends

\* Whoever holds the set waits at a problem.
LEMMA SetHolderIsPast ==
    ASSUME TypeInv, OrderInv, NEW S \in SUBSET Requests, Circle(S), NoStampNoScan(S),
           NEW q \in S, setLock = q
    PROVE  req[q].pc = "problem"
<1>1. InOrder(q)
  BY DEF OrderInv
<1>2. PICK other \in S : WaitsFor(q, other)
  BY DEF Circle
<1>3. QED
  BY <1>1, <1>2 DEF InOrder, HoldsTheSetInOrder, WaitsFor, NoStampNoScan

LEMMA NoCircleCloses ==
    ASSUME TypeInv, OrderInv, NEW S \in SUBSET Requests, Circle(S), NoStampNoScan(S)
    PROVE  FALSE
<1> DEFINE T == {p \in Problems : \E q \in S : p \in Held(q)}
<1>1. ASSUME NEW r \in S, req[r].pc = "problem"
      PROVE  \E p \in AsksFor(r) : p \in T
  <2>1. PICK q \in S : WaitsFor(r, q)
    BY DEF Circle
  <2>2. PICK p \in AsksFor(r) : problemLock[p] = q
    BY <1>1, <2>1 DEF WaitsFor
  <2>3. p \in Problems
    <3>1. p \in Wanted(r)
      BY DEF AsksFor
    <3>2. RequestOK(req[r])
      BY DEF TypeInv, RequestsOK
    <3>3. InOrder(r)
      BY DEF OrderInv
    <3>4. req[r].kind \in Kinds /\ req[r].kind \notin TakesNoProblem
          /\ (req[r].kind \in ByProblem => req[r].problem \in Problems)
      BY <1>1, <3>2, <3>3 DEF RequestOK, InOrder, Placed
    <3>5. CASE req[r].kind \in {"batch", "unpublish"}
      BY <3>1, <3>5 DEF Wanted
    <3>6. CASE req[r].kind = "clear"
      BY <1>1, <3>3, <3>6 DEF InOrder, Placed, Running
    <3>7. CASE req[r].kind \in ByProblem
      BY <3>1, <3>4, <3>7 DEF Wanted, ByProblem
    <3>8. QED
      BY <3>4, <3>5, <3>6, <3>7 DEF Kinds, TakesNoProblem, ByProblem
  <2>4. p \in Held(q)
    BY <2>2, <2>3 DEF Held
  <2>5. QED
    BY <2>2, <2>3, <2>4
<1>2. \E r \in S : req[r].pc = "problem"
  <2>1. PICK r \in S : TRUE
    BY DEF Circle
  <2>2. PICK q \in S : WaitsFor(r, q)
    BY DEF Circle
  <2>3. CASE req[r].pc = "set" /\ setLock = q
    BY <2>3, SetHolderIsPast
  <2>4. QED
    BY <2>2, <2>3 DEF WaitsFor, NoStampNoScan
<1>3. T # {} /\ T \subseteq Problems
  BY <1>1, <1>2
<1>4. PICK last \in T : \A p \in T : p <= last
  BY <1>3, LastProblem
<1>5. PICK q \in S : last \in Held(q)
  OBVIOUS
<1>6. req[q].pc = "problem" /\ \A k \in AsksFor(q) : k \in Problems /\ last < k
  BY <1>5, WaitsFurtherOn
<1>7. PICK k \in AsksFor(q) : k \in T
  BY <1>1, <1>6
<1>8. k <= last /\ last < k /\ k \in Int /\ last \in Int
  <2>1. k <= last /\ last < k
    BY <1>4, <1>6, <1>7
  <2>2. k \in 1 .. P /\ last \in 1 .. P
    BY <1>3, <1>4, <1>7 DEF Problems
  <2>3. QED
    BY <2>1, <2>2
<1>9. QED
  BY <1>8

----------------------------------------------------------------------------

\* Whatever number of problems and requests there is: a circle of requests that
\* wait for each other has a grader in it who stamps the set late, or an
\* unpublish (grade-writes.ts, where "two of them cannot meet in the middle").
THEOREM LockOrder == Spec => []OnlyAStampOrAScanMeets
<1>1. TypeInv /\ OrderInv => OnlyAStampOrAScanMeets
  BY NoCircleCloses DEF OnlyAStampOrAScanMeets, Circle, NoStampNoScan
<1>2. QED
  BY <1>1, TypeInvHolds, OrderInvHolds, PTL

\* Once the set is locked for good nobody stamps it, and the promise is kept
\* whole until somebody unpublishes.
THEOREM InAUsedSetNobodyMeets ==
    Spec => [](locked /\ (\A r \in Requests : req[r].kind # "unpublish") => NobodyMeetsInTheMiddle)
<1>1. OnlyAStampOrAScanMeets =>
        (locked /\ (\A r \in Requests : req[r].kind # "unpublish") => NobodyMeetsInTheMiddle)
  BY DEF OnlyAStampOrAScanMeets, NobodyMeetsInTheMiddle, StampWaits
<1>2. QED
  BY <1>1, LockOrder, PTL
=============================================================================
