---------------------------- MODULE MC_ScoreQueue ----------------------------
(* Instances of ScoreQueue small enough for TLC.                           *)
EXTENDS ScoreQueue

CONSTANTS ann, bob

MCOne == {ann}
MCTwo == {ann, bob}

\* Bounds: how much may happen of what nobody needs, changes and presses too,
\* while one student has a grade to send, and while all have.
MaxAlone == 3
MaxTogether == 2

HasAGrade(s) == total[s] # None \/ rows[s].state # "none"

EventsFit ==
    changes + presses + trouble + lost <=
        IF \A s \in Students : HasAGrade(s) THEN MaxTogether ELSE MaxAlone

\* Only the events are held back, none of the steps that are to be taken.
MCNext == Next /\ (bounds' # bounds => EventsFit')

\* The maxima differ in nothing, so the first of them is enough to begin with.
MCInit == Init /\ maximum = 1
MCSpec == MCInit /\ [][MCNext]_vars /\ Fairness
=============================================================================
