---------------------------- MODULE GradePassback ----------------------------
(***************************************************************************)
(* What the score queue promises, with no sender in it: a score is asked   *)
(* for, the LMS is shown scores, and one is called delivered only when it  *)
(* is the one the LMS shows.  From then on the LMS shows nothing else,     *)
(* until another is asked for.  No claims, leases, retries, lost answers,  *)
(* late posts, columns or crashes.                                         *)
(*                                                                         *)
(* ScoreQueue is shown to implement it.                                    *)
(***************************************************************************)

CONSTANTS Students, Scores, Nothing

VARIABLES
    asked,  \* asked[s]: the score the LMS should show for s
    state,  \* state[s]: none, PENDING, SENT or FAILED
    shown   \* shown[s]: the score it shows

passback == <<asked, state, shown>>

Init ==
    /\ asked = [s \in Students |-> Nothing]
    /\ state = [s \in Students |-> "none"]
    /\ shown = [s \in Students |-> Nothing]

Ask(s, score) ==
    /\ asked' = [asked EXCEPT ![s] = score]
    /\ state' = [state EXCEPT ![s] = "PENDING"]
    /\ UNCHANGED shown

\* The score asked for, or one that was asked for before and arrives late.
Show(s, score) ==
    /\ state[s] \in {"PENDING", "FAILED"}
    /\ shown' = [shown EXCEPT ![s] = score]
    /\ UNCHANGED <<asked, state>>

Deliver(s) ==
    /\ state[s] = "PENDING"
    /\ shown[s] = asked[s]
    /\ state' = [state EXCEPT ![s] = "SENT"]
    /\ UNCHANGED <<asked, shown>>

GiveUp(s) ==
    /\ state[s] = "PENDING"
    /\ state' = [state EXCEPT ![s] = "FAILED"]
    /\ UNCHANGED <<asked, shown>>

Next ==
    \E s \in Students :
        \/ \E score \in Scores : Ask(s, score) \/ Show(s, score)
        \/ Deliver(s)
        \/ GiveUp(s)

Spec == Init /\ [][Next]_passback

=============================================================================
