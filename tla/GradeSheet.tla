----------------------------- MODULE GradeSheet -----------------------------
(***************************************************************************)
(* What the requests on a group assignment promise, with no locks,         *)
(* snapshots or transactions in it: whatever a request does it does at     *)
(* once, and decides on the sheet as it is at that moment.                 *)
(*                                                                         *)
(* Two things are promised less than that, because the code promises less. *)
(* While the groups are not locked yet, a submission is filed for a group  *)
(* the submitter may have just left, and a group is graded that may have   *)
(* just changed.  And work may be filed although the assignment was        *)
(* unpublished a moment ago.                                               *)
(*                                                                         *)
(* Gradebook is shown to implement it.                                     *)
(***************************************************************************)
EXTENDS Integers, FiniteSets

CONSTANTS Students, Groups, NoGroup, P, Requests, Nobody, Points, Marks, Cap, Placement

VARIABLES
    points,     \* points[p]: what problem p is worth
    grades,     \* grades[s][p]: the grade of student s on problem p
    member,     \* member[s]: the group of student s
    locked,     \* the groups are fixed
    published,  \* the assignment can be seen
    filed       \* what was handed in

sheet == <<points, grades, member, locked, published, filed>>

Problems == 1 .. P
NoGrade == [value |-> -1, manual |-> FALSE]
ByHand(v) == [value |-> v, manual |-> TRUE]
Keep == -2
Clear == -1

Init ==
    /\ points \in [Problems -> Points]
    /\ grades = [s \in Students |-> [p \in Problems |-> NoGrade]]
    /\ member = Placement
    /\ locked \in BOOLEAN
    /\ published = TRUE
    /\ filed \in {{}} \cup {{[by |-> Nobody, student |-> s, group |-> Placement[s], problem |-> p]} :
                            s \in Students, p \in Problems}
    /\ filed # {} => locked

\* One student's marks, each within what its problem is worth.
EnterMarks(s, marks) ==
    /\ \A p \in Problems : marks[p] <= points[p]
    /\ grades' = [grades EXCEPT ![s] =
                    [p \in Problems |-> IF marks[p] = Keep THEN grades[s][p]
                                        ELSE IF marks[p] = Clear THEN NoGrade
                                        ELSE ByHand(marks[p])]]
    /\ locked' = (locked \/ \E p \in Problems : marks[p] \notin {Keep, Clear})
    /\ UNCHANGED <<points, member, published, filed>>

\* The same mark for every member; one that differs is in the way unless the
\* request overwrites.
GradeGroup(S, g, p, v, overwrite) ==
    /\ S # {}
    /\ locked => S = {s \in Students : member[s] = g}
    /\ v <= points[p]
    /\ ~overwrite => \A s \in S : grades[s][p].value \in {NoGrade.value, v}
    /\ grades' = [s \in Students |->
                    IF s \in S THEN [grades[s] EXCEPT ![p] = ByHand(v)] ELSE grades[s]]
    /\ locked' = TRUE
    /\ UNCHANGED <<points, member, published, filed>>

\* Nobody stands above the new points.
ChangePoints(p, v) ==
    /\ \A s \in Students : grades[s][p].value <= v
    /\ points' = [points EXCEPT ![p] = v]
    /\ UNCHANGED <<grades, member, locked, published, filed>>

MoveStudent(s, g) ==
    /\ ~locked
    /\ member' = [member EXCEPT ![s] = g]
    /\ UNCHANGED <<points, grades, locked, published, filed>>

\* The attempts that count against the cap.
Attempts(s, g, p) ==
    {w \in filed : w.problem = p /\ IF g # NoGroup THEN w.group = g ELSE w.student = s}

FileWork(r, s, g, p) ==
    /\ \A w \in filed : w.by # r
    /\ locked => g = member[s]
    /\ Cap > 0 => Cardinality(Attempts(s, g, p)) < Cap
    /\ filed' = filed \cup {[by |-> r, student |-> s, group |-> g, problem |-> p]}
    /\ locked' = TRUE
    /\ UNCHANGED <<points, grades, member, published>>

Unpublish ==
    /\ filed = {}
    /\ \A s \in Students, p \in Problems : grades[s][p] = NoGrade
    /\ published' = FALSE
    /\ UNCHANGED <<points, grades, member, locked, filed>>

Owners(w) ==
    IF w.group # NoGroup THEN {s \in Students : member[s] = w.group} ELSE {w.student}

\* The worker grades work that was handed in, with nothing or with all the
\* problem is worth, for its owners: surely those who have no grade yet, and
\* none whose grade was entered by hand.
Autograde(w, S, v) ==
    LET p == w.problem
    IN  /\ w \in filed
        /\ S \subseteq Owners(w)
        /\ \A s \in Owners(w) \ S : grades[s][p] # NoGrade
        /\ \A s \in S : ~grades[s][p].manual
        /\ v \in {0, points[p]}
        /\ grades' = [s \in Students |->
                        IF s \in S THEN [grades[s] EXCEPT ![p] = [value |-> v, manual |-> FALSE]]
                        ELSE grades[s]]
        /\ UNCHANGED <<points, member, locked, published, filed>>

ClearGrade(s, p) ==
    /\ grades' = [grades EXCEPT ![s][p] = NoGrade]
    /\ UNCHANGED <<points, member, locked, published, filed>>

Next ==
    \/ \E s \in Students, marks \in [Problems -> Marks \cup {Keep, Clear}] : EnterMarks(s, marks)
    \/ \E S \in SUBSET Students, g \in Groups, p \in Problems, v \in Marks, overwrite \in BOOLEAN :
         GradeGroup(S, g, p, v, overwrite)
    \/ \E p \in Problems, v \in Points : ChangePoints(p, v)
    \/ \E s \in Students, g \in Groups \cup {NoGroup} : MoveStudent(s, g)
    \/ \E r \in Requests, s \in Students, g \in Groups \cup {NoGroup}, p \in Problems :
         FileWork(r, s, g, p)
    \/ Unpublish
    \/ \E w \in filed, S \in SUBSET Students, v \in Points \cup {0} : Autograde(w, S, v)
    \/ \E s \in Students, p \in Problems : ClearGrade(s, p)

Spec == Init /\ [][Next]_sheet

=============================================================================
