---------------------------- MODULE MC_Gradebook ----------------------------
(* Instances of Gradebook small enough for TLC.                            *)
EXTENDS Gradebook, TLC

CONSTANTS ann, bob, red, blue, r1, r2, r3

MCStudents == {ann, bob}
MCGroups == {red, blue}
MCRequests == {r1, r2, r3}
MCPair == {r1, r2}

MCTogether == [s \in MCStudents |-> red]

Changes == {"settings", "memberships", "unpublish", "clear"}
Writes == {"single", "batch", "group", "submit", "autograde"}

MCOneChange == [r \in MCRequests |-> IF r = r1 THEN Changes ELSE Writes]
MCGraders == [r \in MCPair |-> IF r = r1 THEN {"single", "batch"} ELSE {"group", "submit"}]
MCTwoChanges == [r \in MCRequests |-> IF r = r3 THEN {"single"} ELSE {"settings"}]
MCHandIn == [r \in MCPair |-> IF r = r1 THEN {"submit"} ELSE {"memberships", "unpublish"}]

Writers == Permutations({r2, r3})
=============================================================================
