----------------------------- MODULE ScoreQueue -----------------------------
(***************************************************************************)
(* The grades of one linked assignment on their way to the LMS: passes     *)
(* that compare the gradebook with the queue and queue what differs, and   *)
(* one sender that claims a row, finds or makes the gradebook column,      *)
(* posts the score and records how that went.                              *)
(*                                                                         *)
(* A pass and the sender read and write in separate statements, so each    *)
(* works on what it read while the gradebook, another pass and the queue   *)
(* move on.  The LMS may refuse, answer nothing, do what was asked and     *)
(* answer nothing, or take a score in, or make a column, only when nobody  *)
(* waits for it any more.  The process may stop between any two steps;     *)
(* what it knew is lost and the tables stay.                               *)
(*                                                                         *)
(* The label that says whether marking is complete belongs to the score    *)
(* and is compared and replaced with it, so it is not kept apart.          *)
(***************************************************************************)
EXTENDS Integers, Sequences

CONSTANTS
    Students,
    Nobody,
    Totals,         \* the sums of marks a student may have
    None,           \* no marks at all; as a score, one to take away
    Maxima,         \* what the assignment may be worth
    Tokens,         \* the claim tokens
    NoToken,
    AutoSync,       \* Assignment.ltiAutoSync
    MAX_ATTEMPTS,
    MaxChanges,     \* bound: changes of the gradebook
    MaxPresses,     \* bound: presses of "send grades now"
    MaxTrouble,     \* bound: failures on the side of the LMS
    MaxLost         \* bound: sends and passes that throw or die

ASSUME RosterAssumption == Nobody \notin Students

ASSUME GradebookAssumption ==
    /\ Totals \subseteq Nat
    /\ None \notin Nat
    /\ Maxima \subseteq Nat

ASSUME TokensAssumption == NoToken \notin Tokens

ASSUME LimitsAssumption ==
    /\ AutoSync \in BOOLEAN
    /\ MAX_ATTEMPTS \in Nat \ {0}
    /\ MaxChanges \in Nat
    /\ MaxPresses \in Nat
    /\ MaxTrouble \in Nat
    /\ MaxLost \in Nat

VARIABLES
    total,          \* total[s]: the sum of the marks of s
    maximum,        \* the sum of the points of the problems
    rows,           \* rows[s]: the LtiScoreQueue row
    passes,         \* the runs of queueChangedGrades, with what each has read
    sender,         \* the loop of the sender, with what it has read
    remembered,     \* the LtiLineItem row
    columns,        \* the columns asked of the LMS for the assignment, and when each was made
    shown,          \* shown[s]: the score the LMS shows
    late,           \* late[s]: a score the LMS has yet to take in, nobody waits for it
    changes, presses, trouble, lost

gradebook == <<total, maximum>>
lms == <<columns, shown, late>>
bounds == <<changes, presses, trouble, lost>>
vars == <<total, maximum, rows, passes, sender, remembered, columns, shown, late,
          changes, presses, trouble, lost>>

Scores == [given : Totals \cup {None}, max : Maxima]
Nothing == [given |-> None, max |-> 0]

NoRow == [state |-> "none", score |-> Nothing, attempts |-> 0, token |-> NoToken, due |-> FALSE]

\* What a pass reads of a row.
Known(row) == [state |-> row.state, score |-> row.score]

NoPass == [pc |-> "none", of |-> {}, retryFailed |-> FALSE, max |-> 0,
           totals |-> [s \in Students |-> None], known |-> [s \in Students |-> Known(NoRow)]]

Asleep == [pc |-> "start", student |-> Nobody, attempts |-> 0, score |-> Nothing,
           token |-> NoToken, item |-> 0, retryable |-> FALSE]

NoLineItem == [url |-> 0, max |-> 0]

\* The columns a lookup may come upon.
Listed(cs) == {item \in 1 .. Len(cs) : cs[item].made # "yet"}

HasTrouble == trouble < MaxTrouble /\ trouble' = trouble + 1 /\ UNCHANGED <<changes, presses, lost>>
IsLost == lost < MaxLost /\ lost' = lost + 1 /\ UNCHANGED <<changes, presses, trouble>>
IsChange == changes < MaxChanges /\ changes' = changes + 1 /\ UNCHANGED <<presses, trouble, lost>>
IsPress == presses < MaxPresses /\ presses' = presses + 1 /\ UNCHANGED <<changes, trouble, lost>>

----------------------------------------------------------------------------
(* The gradebook, and the passes that compare it with the queue.           *)

\* Marks are entered, changed or cleared, by whichever route.
Regrade(s, t) ==
    /\ IsChange
    /\ t # total[s]
    /\ total' = [total EXCEPT ![s] = t]
    /\ UNCHANGED <<maximum, rows, passes, sender, remembered, lms>>

Reweigh(m) ==
    /\ IsChange
    /\ m # maximum
    /\ maximum' = m
    /\ UNCHANGED <<total, rows, passes, sender, remembered, lms>>

\* The first read; with nothing to score against the pass is over.
StartedPass(S, retry) ==
    IF maximum > 0 THEN [NoPass EXCEPT !.pc = "totals", !.of = S, !.retryFailed = retry, !.max = maximum]
    ELSE NoPass

\* "Send grades now", for everybody or for one student.
PressSend(S) ==
    /\ IsPress
    /\ passes["button"].pc = "none"
    /\ passes' = [passes EXCEPT !["button"] = StartedPass(S, TRUE)]
    /\ UNCHANGED <<gradebook, rows, sender, remembered, lms>>

\* Each round of the sender begins with a pass, if the assignment syncs itself.
SenderWakes ==
    /\ sender.pc = "start"
    /\ passes' = IF AutoSync THEN [passes EXCEPT !["auto"] = StartedPass(Students, FALSE)] ELSE passes
    /\ sender' = [sender EXCEPT !.pc = IF AutoSync /\ maximum > 0 THEN "syncing" ELSE "drain"]
    /\ UNCHANGED <<gradebook, rows, remembered, lms, bounds>>

PassReadsTotals(a) ==
    /\ passes[a].pc = "totals"
    /\ passes' = [passes EXCEPT ![a].totals = total, ![a].pc = "rows"]
    /\ UNCHANGED <<gradebook, rows, sender, remembered, lms, bounds>>

PassReadsRows(a) ==
    /\ passes[a].pc = "rows"
    /\ passes' = [passes EXCEPT ![a].known = [s \in Students |-> Known(rows[s])], ![a].pc = "write"]
    /\ UNCHANGED <<gradebook, rows, sender, remembered, lms, bounds>>

WantedScore(a, s) == [given |-> passes[a].totals[s], max |-> passes[a].max]

\* Mistake: only the number is compared, not what it is out of.
SameNumber(a, s) ==
    LET known == passes[a].known[s]
    IN  /\ known.state # "none"
        /\ known.score.given = WantedScore(a, s).given
        /\ known.state # "FAILED" \/ ~passes[a].retryFailed

\* Queued, delivered or given up with the same numbers; a failed one is tried
\* again only when somebody asks.
IsUnchanged(a, s) ==
    LET known == passes[a].known[s]
    IN  /\ known.state # "none"
        /\ known.score = WantedScore(a, s)
        /\ known.state # "FAILED" \/ ~passes[a].retryFailed

\* There is nothing to take back where nothing was ever queued.
NothingToTakeBack(a, s) ==
    passes[a].totals[s] = None /\ passes[a].known[s].state = "none"

\* queueScore replaces what waits, with a fresh budget, and takes the claim away.
QueuedRow(score) ==
    [state |-> "PENDING", score |-> score, attempts |-> 0, token |-> NoToken, due |-> TRUE]

PassQueues(a, s) ==
    /\ passes[a].pc = "write"
    /\ s \in passes[a].of
    /\ rows' = IF IsUnchanged(a, s) \/ NothingToTakeBack(a, s) THEN rows
               ELSE [rows EXCEPT ![s] = QueuedRow(WantedScore(a, s))]
    /\ passes' = [passes EXCEPT ![a].of = @ \ {s}]
    /\ UNCHANGED <<gradebook, sender, remembered, lms, bounds>>

\* After a pass of its own, whether it worked or threw, the sender drains.
EndPass(a) ==
    /\ passes' = [passes EXCEPT ![a] = NoPass]
    /\ sender' = IF a = "auto" THEN [sender EXCEPT !.pc = "drain"] ELSE sender
    /\ UNCHANGED <<gradebook, rows, remembered, lms>>

PassEnds(a) ==
    /\ passes[a].pc = "write"
    /\ passes[a].of = {}
    /\ EndPass(a)
    /\ UNCHANGED bounds

PassThrows(a) ==
    /\ passes[a].pc # "none"
    /\ EndPass(a)
    /\ IsLost

----------------------------------------------------------------------------
(* Claiming.                                                               *)

Due(s) == rows[s].state = "PENDING" /\ rows[s].due

\* The end of a lease or of a backoff.
ComesDue(s) ==
    /\ rows[s].state = "PENDING"
    /\ ~rows[s].due
    /\ rows' = [rows EXCEPT ![s].due = TRUE]
    /\ UNCHANGED <<gradebook, passes, sender, remembered, lms, bounds>>

FindNext(s) ==
    /\ sender.pc = "drain"
    /\ Due(s)
    /\ sender' = [sender EXCEPT !.pc = "found", !.student = s, !.attempts = rows[s].attempts]
    /\ UNCHANGED <<gradebook, rows, passes, remembered, lms, bounds>>

NothingDue ==
    /\ sender.pc = "drain"
    /\ \A s \in Students : ~Due(s)
    /\ sender' = Asleep
    /\ UNCHANGED <<gradebook, rows, passes, remembered, lms, bounds>>

MayClaim == Due(sender.student) /\ rows[sender.student].attempts = sender.attempts

\* A random token, so one that nobody holds.
IsFresh(t) == t # sender.token /\ \A s \in Students : t # rows[s].token

\* Mistake: the number of the attempt, which comes round again.
AttemptAsToken == rows[sender.student].attempts + 1

FreshToken == CHOOSE t \in Tokens : IsFresh(t)

Claim ==
    /\ sender.pc = "found"
    /\ MayClaim
    /\ \E t \in Tokens : IsFresh(t)
    /\ rows' = [rows EXCEPT ![sender.student].attempts = @ + 1,
                            ![sender.student].token = FreshToken,
                            ![sender.student].due = FALSE]
    /\ sender' = [sender EXCEPT !.pc = "claimed"]
    /\ UNCHANGED <<gradebook, passes, remembered, lms, bounds>>

\* The row was queued anew between the two statements.
ClaimMisses ==
    /\ sender.pc = "found"
    /\ ~MayClaim
    /\ sender' = Asleep
    /\ UNCHANGED <<gradebook, rows, passes, remembered, lms, bounds>>

\* What the claim returns is read once more, and may be another score by then.
ReadClaimed ==
    /\ sender.pc = "claimed"
    /\ LET row == rows[sender.student]
       IN  sender' = [sender EXCEPT !.pc = "column", !.attempts = row.attempts,
                                    !.score = row.score, !.token = row.token]
    /\ UNCHANGED <<gradebook, rows, passes, remembered, lms, bounds>>

----------------------------------------------------------------------------
(* The column.                                                             *)

Posts(item) == sender' = [sender EXCEPT !.pc = "post", !.item = item]
Fails(retryable) == sender' = [sender EXCEPT !.pc = "failed", !.retryable = retryable]

\* The course is gone, the LMS course ambiguous, the student unknown there, no
\* token, no answer, a list of columns that cannot be read to its end, a column
\* refused.
FailsBeforeTheColumn(retryable) ==
    /\ sender.pc \in {"column", "create"}
    /\ HasTrouble
    /\ Fails(retryable)
    /\ UNCHANGED <<gradebook, rows, passes, remembered, lms>>

ColumnIsKnown ==
    /\ sender.pc = "column"
    /\ remembered.url # 0
    /\ remembered.max = sender.score.max
    /\ Posts(remembered.url)
    /\ UNCHANGED <<gradebook, rows, passes, remembered, lms, bounds>>

NeedsCorrection == remembered.url # 0 /\ remembered.max # sender.score.max

\* updateLineItem reads the column back before it believes the change.
CorrectColumn ==
    /\ sender.pc = "column"
    /\ NeedsCorrection
    /\ columns' = [columns EXCEPT ![remembered.url].max = sender.score.max]
    /\ remembered' = [remembered EXCEPT !.max = sender.score.max]
    /\ Posts(remembered.url)
    /\ UNCHANGED <<gradebook, rows, passes, shown, late, bounds>>

\* The change was made, but nobody said so, or not in a way that can be read.
CorrectionAnswerLost(retryable) ==
    /\ sender.pc = "column"
    /\ NeedsCorrection
    /\ HasTrouble
    /\ columns' = [columns EXCEPT ![remembered.url].max = sender.score.max]
    /\ Fails(retryable)
    /\ UNCHANGED <<gradebook, rows, passes, remembered, shown, late>>

\* findLineItem, and what is found is taken to be worth what the score is out of.
FindColumn(item) ==
    /\ sender.pc = "column"
    /\ remembered.url = 0
    /\ item \in Listed(columns)
    /\ remembered' = [url |-> item, max |-> sender.score.max]
    /\ Posts(item)
    /\ UNCHANGED <<gradebook, rows, passes, lms, bounds>>

\* Mistake: a lookup that did not conclude is taken for "there is none".
AnyLookupCreates == remembered.url = 0

\* Only a search that read every page and found nothing may create.
MayCreate == remembered.url = 0 /\ Listed(columns) = {}

FindNone ==
    /\ sender.pc = "column"
    /\ MayCreate
    /\ sender' = [sender EXCEPT !.pc = "create"]
    /\ UNCHANGED <<gradebook, rows, passes, remembered, lms, bounds>>

Asked(made) == columns' = Append(columns, [max |-> sender.score.max, made |-> made])

\* An answer that does not say where the new column is has it looked for again,
\* and any column of the assignment may be found.
CreateColumn(item) ==
    /\ sender.pc = "create"
    /\ Asked("inTime")
    /\ item \in Listed(columns')
    /\ remembered' = [url |-> item, max |-> sender.score.max]
    /\ Posts(item)
    /\ UNCHANGED <<gradebook, rows, passes, shown, late, bounds>>

\* Made, with no answer, or with one after which it cannot be looked for.
CreationAnswerLost(retryable) ==
    /\ sender.pc = "create"
    /\ HasTrouble
    /\ Asked("inTime")
    /\ Fails(retryable)
    /\ UNCHANGED <<gradebook, rows, passes, remembered, shown, late>>

\* Not made, or not listed, before the timeout: later, or never.  The next send
\* may begin at once, with another student's row.
CreationIsLate(retryable) ==
    /\ sender.pc = "create"
    /\ HasTrouble
    /\ Asked("yet")
    /\ Fails(retryable)
    /\ UNCHANGED <<gradebook, rows, passes, remembered, shown, late>>

LateColumnArrives(item) ==
    /\ columns[item].made = "yet"
    /\ columns' = [columns EXCEPT ![item].made = "late"]
    /\ UNCHANGED <<gradebook, rows, passes, sender, remembered, shown, late, bounds>>

----------------------------------------------------------------------------
(* The score.                                                              *)

\* Mistake: every post carries the same timestamp.
StillToCome(s) == late

\* The LMS ignores a score with an older timestamp than the one it has.
NothingOlder(s) == [late EXCEPT ![s] = Nothing]

Accepts ==
    /\ shown' = [shown EXCEPT ![sender.student] = sender.score]
    /\ late' = NothingOlder(sender.student)

PostScore ==
    /\ sender.pc = "post"
    /\ Accepts
    /\ sender' = [sender EXCEPT !.pc = "posted"]
    /\ UNCHANGED <<gradebook, rows, passes, remembered, columns, bounds>>

\* Taken in, but the answer does not come within the timeout, or is an error.
PostAnswerLost(retryable) ==
    /\ sender.pc = "post"
    /\ HasTrouble
    /\ Accepts
    /\ Fails(retryable)
    /\ UNCHANGED <<gradebook, rows, passes, remembered, columns>>

\* Not taken in before the timeout, but later.
PostIsLate(retryable) ==
    /\ sender.pc = "post"
    /\ HasTrouble
    /\ late' = [late EXCEPT ![sender.student] = sender.score]
    /\ Fails(retryable)
    /\ UNCHANGED <<gradebook, rows, passes, remembered, columns, shown>>

PostFails(retryable) ==
    /\ sender.pc = "post"
    /\ HasTrouble
    /\ Fails(retryable)
    /\ UNCHANGED <<gradebook, rows, passes, remembered, lms>>

LateScoreArrives(s) ==
    /\ late[s] # Nothing
    /\ shown' = [shown EXCEPT ![s] = late[s]]
    /\ late' = [late EXCEPT ![s] = Nothing]
    /\ UNCHANGED <<gradebook, rows, passes, sender, remembered, columns, bounds>>

----------------------------------------------------------------------------
(* How it went.                                                            *)

\* Mistake: the outcome goes to the row, whatever is on it now.
MarksTheRow == TRUE

\* The outcome goes to the row only while the claim of this send is on it.
ClaimStands == sender.token # NoToken /\ rows[sender.student].token = sender.token

MarkSent ==
    /\ sender.pc = "posted"
    /\ rows' = IF ClaimStands
               THEN [rows EXCEPT ![sender.student].state = "SENT", ![sender.student].token = NoToken]
               ELSE rows
    /\ sender' = [Asleep EXCEPT !.pc = "drain"]
    /\ UNCHANGED <<gradebook, passes, remembered, lms, bounds>>

\* Mistake: one more.
ExhaustsLater == sender.attempts > MAX_ATTEMPTS

IsExhausted == sender.attempts >= MAX_ATTEMPTS

MarkFailed ==
    /\ sender.pc = "failed"
    /\ rows' = IF ClaimStands
               THEN [rows EXCEPT ![sender.student].state =
                                    IF IsExhausted \/ ~sender.retryable THEN "FAILED" ELSE "PENDING",
                                 ![sender.student].token = NoToken,
                                 ![sender.student].due = FALSE]
               ELSE rows
    /\ sender' = [Asleep EXCEPT !.pc = "drain"]
    /\ UNCHANGED <<gradebook, passes, remembered, lms, bounds>>

\* drain() catches what a send throws and ends; the row stays claimed.
SendThrows ==
    /\ sender.pc \notin {"start", "syncing", "drain"}
    /\ IsLost
    /\ sender' = Asleep
    /\ UNCHANGED <<gradebook, rows, passes, remembered, lms>>

\* The web process stops and is started again.
Crash ==
    /\ IsLost
    /\ sender' = Asleep
    /\ passes' = [a \in DOMAIN passes |-> NoPass]
    /\ UNCHANGED <<gradebook, rows, remembered, lms>>

----------------------------------------------------------------------------

Init ==
    /\ total \in [Students -> Totals \cup {None}]
    /\ maximum \in Maxima
    /\ rows = [s \in Students |-> NoRow]
    /\ passes = [a \in {"auto", "button"} |-> NoPass]
    /\ sender = Asleep
    /\ remembered = NoLineItem
    /\ columns = <<>>
    /\ shown = [s \in Students |-> Nothing]
    /\ late = [s \in Students |-> Nothing]
    /\ changes = 0
    /\ presses = 0
    /\ trouble = 0
    /\ lost = 0

PassStep(a) ==
    \/ PassReadsTotals(a)
    \/ PassReadsRows(a)
    \/ \E s \in Students : PassQueues(a, s)
    \/ PassEnds(a)

\* The steps the sender takes by itself; each has one that needs no trouble.
SenderStep ==
    \/ SenderWakes
    \/ \E s \in Students : FindNext(s)
    \/ NothingDue
    \/ Claim
    \/ ClaimMisses
    \/ ReadClaimed
    \/ ColumnIsKnown
    \/ CorrectColumn
    \/ \E item \in 1 .. Len(columns) : FindColumn(item)
    \/ FindNone
    \/ \E item \in 1 .. Len(columns) + 1 : CreateColumn(item)
    \/ PostScore
    \/ MarkSent
    \/ MarkFailed

LmsTrouble ==
    \E retryable \in BOOLEAN :
        \/ FailsBeforeTheColumn(retryable)
        \/ CorrectionAnswerLost(retryable)
        \/ CreationAnswerLost(retryable)
        \/ CreationIsLate(retryable)
        \/ PostAnswerLost(retryable)
        \/ PostIsLate(retryable)
        \/ PostFails(retryable)

Next ==
    \/ \E s \in Students, t \in Totals \cup {None} : Regrade(s, t)
    \/ \E m \in Maxima : Reweigh(m)
    \/ \E S \in {Students} \cup {{s} : s \in Students} : PressSend(S)
    \/ \E a \in {"auto", "button"} : PassStep(a) \/ PassThrows(a)
    \/ \E s \in Students : ComesDue(s) \/ LateScoreArrives(s)
    \/ \E item \in 1 .. Len(columns) : LateColumnArrives(item)
    \/ SenderStep
    \/ LmsTrouble
    \/ SendThrows
    \/ Crash

Spec == Init /\ [][Next]_vars

\* The sender schedules its next round whatever happens in this one, and is
\* started again with the process (restart: unless-stopped); time passes.
Fairness ==
    /\ WF_vars(SenderStep)
    /\ WF_vars(PassStep("auto"))
    /\ \A s \in Students : WF_vars(ComesDue(s))

FairSpec == Spec /\ Fairness

----------------------------------------------------------------------------
(* Correctness.                                                            *)

States == {"none", "PENDING", "SENT", "FAILED"}

Row == [state : States, score : Scores \cup {Nothing},
        attempts : Nat, token : Tokens \cup {NoToken}, due : BOOLEAN]

Pass == [pc : {"none", "totals", "rows", "write"}, of : SUBSET Students, retryFailed : BOOLEAN,
         max : Maxima \cup {0}, totals : [Students -> Totals \cup {None}], 
         known : [Students -> [state : States, score : Scores \cup {Nothing}]]]

Column == [max : Maxima, made : {"yet", "late", "inTime"}]

Sender ==
    [pc : {"start", "syncing", "drain", "found", "claimed", "column", "create", "post", "posted", "failed"},
     student : Students \cup {Nobody}, attempts : Nat, score : Scores \cup {Nothing},
     token : Tokens \cup {NoToken}, item : Nat, retryable : BOOLEAN]

\* The type of the tables, of what the actors have read, and of the LMS.
TypeOK ==
    /\ total \in [Students -> Totals \cup {None}]
    /\ maximum \in Maxima
    /\ rows \in [Students -> Row]
    /\ passes \in [{"auto", "button"} -> Pass]
    /\ sender \in Sender
    /\ remembered \in [url : Nat, max : Maxima \cup {0}]
    /\ columns \in Seq(Column)
    /\ shown \in [Students -> Scores \cup {Nothing}]
    /\ late \in [Students -> Scores \cup {Nothing}]
    /\ changes \in Nat
    /\ presses \in Nat
    /\ trouble \in Nat
    /\ lost \in Nat

\* A row that reads SENT is at the LMS, whatever was queued, lost, repeated or
\* late while it was being sent: markSent is fenced on the claim, queueScore
\* takes the claim away, and a post carries the time it was made.
SentIsAtTheLms == \A s \in Students : rows[s].state = "SENT" => shown[s] = rows[s].score

\* A second column takes a creation that the LMS carried out after its sender had
\* given it up: of those it carried out in time there is never more than one,
\* whichever students' sends asked, however often the answer was lost and
\* whatever a lookup could not establish (ensureLineItem).
OnlyALateCreationDoubles ==
    \A one, other \in 1 .. Len(columns) :
        columns[one].made = "inTime" /\ columns[other].made = "inTime" => one = other

\* A score goes past its budget only by the sends that threw or died, which
\* record nothing (markFailed is where the budget is checked).
AttemptsWithinBudget == \A s \in Students : rows[s].attempts <= MAX_ATTEMPTS + lost

\* "Nothing may be posted against a column whose maximum is still the old one"
\* (ensureLineItem).  A column found by lookup is not corrected, so this fails.
ColumnIsWorthTheScore == sender.pc = "post" => columns[sender.item].max = sender.score.max

Passback ==
    INSTANCE GradePassback WITH
        asked <- [s \in Students |-> rows[s].score],
        state <- [s \in Students |-> rows[s].state]

\* What the queue and the LMS show is what GradePassback allows.
ImplementsPassback == Passback!Spec

Settled(s) ==
    /\ rows[s].state = "none" => total[s] = None
    /\ rows[s].state # "none" =>
         /\ rows[s].score = [given |-> total[s], max |-> maximum]
         /\ rows[s].state \in {"SENT", "FAILED"}

\* With ltiAutoSync the grade as it stands in the end is the one on the row,
\* delivered or given up with the failure on it, whatever stale passes, lost
\* answers, crashes and expired leases came before (grade-sync.ts).
CurrentGradeArrives == \A s \in Students : <>[](maximum > 0 => Settled(s))

=============================================================================
