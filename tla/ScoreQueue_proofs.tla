-------------------------- MODULE ScoreQueue_proofs -------------------------
(***************************************************************************)
(* Theorems about ScoreQueue for every number of students, totals, claims  *)
(* and attempts, and every number of changes, failures and crashes.        *)
(***************************************************************************)
EXTENDS ScoreQueue, SequenceTheorems, TLAPS

----------------------------------------------------------------------------
(* Facts about the records the steps write.                                *)

LEMMA StartingRecords ==
    /\ Nothing \in Scores \cup {Nothing}
    /\ NoRow \in Row /\ NoRow.state = "none"
    /\ NoPass \in Pass /\ NoPass.pc = "none"
    /\ Asleep \in Sender /\ Asleep.pc = "start"
    /\ NoLineItem \in [url : Nat, max : Maxima \cup {0}]
<1>1. NoRow \in Row /\ NoRow.state = "none"
  BY DEF NoRow, Row, States
<1>2. NoPass \in Pass /\ NoPass.pc = "none"
  BY <1>1 DEF NoPass, Pass, Known, States, Row
<1>3. Asleep \in Sender /\ Asleep.pc = "start"
  BY DEF Asleep, Sender
<1>4. QED
  BY <1>1, <1>2, <1>3 DEF NoLineItem

LEMMA DrainingIsTyped ==
    [Asleep EXCEPT !.pc = "drain"] \in Sender /\ [Asleep EXCEPT !.pc = "drain"].pc = "drain"
BY DEF Asleep, Sender

LEMMA KnownIsTyped ==
    ASSUME NEW row \in Row
    PROVE  Known(row) \in [state : States, score : Scores \cup {Nothing}]
BY DEF Known, Row

LEMMA QueuedIsTyped ==
    ASSUME NEW score \in Scores
    PROVE  QueuedRow(score) \in Row
BY DEF QueuedRow, Row, States

\* A pass that has begun has something to score against.
PassesHaveAMaximum ==
    \A a \in {"auto", "button"} : passes[a].pc # "none" => passes[a].max \in Maxima

LEMMA WantedIsAScore ==
    ASSUME TypeOK, PassesHaveAMaximum, NEW a \in {"auto", "button"}, passes[a].pc # "none",
           NEW s \in Students
    PROVE  WantedScore(a, s) \in Scores
<1>1. passes[a] \in Pass
  BY DEF TypeOK
<1>2. passes[a].totals[s] \in Totals \cup {None}
  BY <1>1 DEF Pass
<1>3. passes[a].max \in Maxima
  BY DEF PassesHaveAMaximum
<1>4. QED
  BY <1>2, <1>3 DEF WantedScore, Scores

----------------------------------------------------------------------------
(* Type correctness: the passes.                                           *)

PassesOK == passes \in [{"auto", "button"} -> Pass] /\ PassesHaveAMaximum

LEMMA StartedIsTyped ==
    ASSUME maximum \in Maxima, NEW S \in SUBSET Students, NEW retry \in BOOLEAN
    PROVE  /\ StartedPass(S, retry) \in Pass
           /\ StartedPass(S, retry).pc # "none" => StartedPass(S, retry).max \in Maxima
<1>1. CASE maximum > 0
  <2> DEFINE new == [NoPass EXCEPT !.pc = "totals", !.of = S, !.retryFailed = retry, !.max = maximum]
  <2>1. new \in Pass /\ new.max \in Maxima
    BY StartingRecords DEF Pass
  <2>2. StartedPass(S, retry) = new
    BY <1>1 DEF StartedPass
  <2> HIDE DEF new
  <2>3. QED
    BY <2>1, <2>2
<1>2. CASE ~(maximum > 0)
  BY <1>2, StartingRecords DEF StartedPass
<1>3. QED
  BY <1>1, <1>2

LEMMA OnePassMoves ==
    ASSUME PassesOK, NEW a \in {"auto", "button"}, NEW new \in Pass,
           new.pc # "none" => new.max \in Maxima,
           passes' = [passes EXCEPT ![a] = new]
    PROVE  PassesOK'
BY DEF PassesOK, PassesHaveAMaximum

PassActions(a) ==
    \/ PassReadsTotals(a) \/ PassReadsRows(a)
    \/ \E s \in Students : PassQueues(a, s)
    \/ PassEnds(a) \/ PassThrows(a)

LEMMA PassesStayOK ==
    ASSUME TypeOK, PassesOK, [Next]_vars
    PROVE  PassesOK'
<1>1. ASSUME NEW S \in {Students} \cup {{s} : s \in Students}, PressSend(S) PROVE PassesOK'
  <2>1. S \in SUBSET Students
    OBVIOUS
  <2>2. QED
    BY <1>1, <2>1, StartedIsTyped, OnePassMoves DEF PressSend, TypeOK
<1>2. CASE SenderWakes
  <2>1. CASE AutoSync
    BY <1>2, <2>1, StartedIsTyped, OnePassMoves DEF SenderWakes, TypeOK
  <2>2. CASE ~AutoSync
    BY <1>2, <2>2 DEF SenderWakes, PassesOK, PassesHaveAMaximum
  <2>3. QED
    BY <2>1, <2>2
<1>3. ASSUME NEW a \in {"auto", "button"}, PassReadsTotals(a) PROVE PassesOK'
  <2> DEFINE new == [passes[a] EXCEPT !.totals = total, !.pc = "rows"]
  <2>1. passes[a] \in Pass /\ passes[a].max \in Maxima
    BY <1>3 DEF PassReadsTotals, PassesOK, PassesHaveAMaximum
  <2>2. total \in [Students -> Totals \cup {None}]
    BY DEF TypeOK
  <2>3. new \in Pass /\ new.max \in Maxima
    BY <2>1, <2>2 DEF Pass
  <2>4. passes' = [passes EXCEPT ![a] = new]
    BY <1>3 DEF PassReadsTotals, PassesOK
  <2> HIDE DEF new
  <2>5. QED
    BY <2>3, <2>4, OnePassMoves
<1>4. ASSUME NEW a \in {"auto", "button"}, PassReadsRows(a) PROVE PassesOK'
  <2> DEFINE known == [s \in Students |-> Known(rows[s])]
             new == [passes[a] EXCEPT !.known = known, !.pc = "write"]
  <2>1. passes[a] \in Pass /\ passes[a].max \in Maxima
    BY <1>4 DEF PassReadsRows, PassesOK, PassesHaveAMaximum
  <2>2. known \in [Students -> [state : States, score : Scores \cup {Nothing}]]
    <3>1. \A s \in Students : rows[s] \in Row
      BY DEF TypeOK
    <3>2. QED
      BY <3>1, KnownIsTyped
  <2>3. passes' = [passes EXCEPT ![a] = new]
    BY <1>4 DEF PassReadsRows, PassesOK
  <2> HIDE DEF known
  <2>4. new \in Pass /\ new.max \in Maxima
    BY <2>1, <2>2 DEF Pass
  <2> HIDE DEF new
  <2>5. QED
    BY <2>3, <2>4, OnePassMoves
<1>5. ASSUME NEW a \in {"auto", "button"}, NEW s \in Students, PassQueues(a, s) PROVE PassesOK'
  <2> DEFINE new == [passes[a] EXCEPT !.of = @ \ {s}]
  <2>1. passes[a] \in Pass /\ passes[a].max \in Maxima
    BY <1>5 DEF PassQueues, PassesOK, PassesHaveAMaximum
  <2>2. new \in Pass /\ new.max \in Maxima
    BY <2>1 DEF Pass
  <2>3. passes' = [passes EXCEPT ![a] = new]
    BY <1>5 DEF PassQueues, PassesOK
  <2> HIDE DEF new
  <2>4. QED
    BY <2>2, <2>3, OnePassMoves
<1>6. ASSUME NEW a \in {"auto", "button"}, PassEnds(a) \/ PassThrows(a) PROVE PassesOK'
  BY <1>6, StartingRecords, OnePassMoves DEF PassEnds, PassThrows, EndPass
<1>7. CASE Crash
  <2>1. passes' = [a \in {"auto", "button"} |-> NoPass]
    BY <1>7 DEF Crash, PassesOK
  <2>2. QED
    BY <2>1, StartingRecords DEF PassesOK, PassesHaveAMaximum
<1>8. CASE UNCHANGED passes
  BY <1>8 DEF PassesOK, PassesHaveAMaximum
<1>9. ASSUME ~Crash, ~SenderWakes,
             ~(\E S \in {Students} \cup {{s} : s \in Students} : PressSend(S)),
             ~(\E a \in {"auto", "button"} : PassActions(a))
      PROVE  UNCHANGED passes
  <2>1. CASE LmsTrouble
    BY <2>1 DEF LmsTrouble, FailsBeforeTheColumn, CorrectionAnswerLost, CreationAnswerLost, CreationIsLate,
                PostAnswerLost, PostIsLate, PostFails
  <2>2. CASE SenderStep
    BY <1>9, <2>2
    DEF SenderStep, FindNext, NothingDue, Claim, ClaimMisses, ReadClaimed, ColumnIsKnown,
        CorrectColumn, FindColumn, FindNone, CreateColumn, PostScore, MarkSent, MarkFailed
  <2>3. QED
    BY <1>9, <2>1, <2>2
    DEF Next, vars, PassActions, PassStep, Regrade, Reweigh, ComesDue,
        LateScoreArrives, LateColumnArrives, SendThrows
<1>10. QED
  BY <1>1, <1>2, <1>3, <1>4, <1>5, <1>6, <1>7, <1>8, <1>9 DEF PassActions

----------------------------------------------------------------------------
(* Type correctness: the rows, the sender and the LMS.                     *)

Active == {"found", "claimed", "column", "create", "post", "posted", "failed"}
AtWork == {"column", "create", "post", "posted", "failed"}

\* Whatever was queued has a score, and the sender works on what waits.
RowsOK ==
    /\ rows \in [Students -> Row]
    /\ \A s \in Students : rows[s].state # "none" => rows[s].score \in Scores

SenderOK ==
    /\ sender \in Sender
    /\ sender.pc \in Active =>
         sender.student \in Students /\ rows[sender.student].state = "PENDING"
    /\ sender.pc \in AtWork => sender.score \in Scores

LmsOK ==
    /\ remembered \in [url : Nat, max : Maxima \cup {0}]
    /\ columns \in Seq(Column)
    /\ shown \in [Students -> Scores \cup {Nothing}]
    /\ late \in [Students -> Scores \cup {Nothing}]

RestOK ==
    /\ total \in [Students -> Totals \cup {None}]
    /\ maximum \in Maxima
    /\ changes \in Nat
    /\ presses \in Nat
    /\ trouble \in Nat
    /\ lost \in Nat

TypeInv == PassesOK /\ RowsOK /\ SenderOK /\ LmsOK /\ RestOK

LEMMA TypeInvIsTyped == TypeInv => TypeOK
BY DEF TypeInv, PassesOK, RowsOK, SenderOK, LmsOK, RestOK, TypeOK

\* The steps that write a row.
RowStep ==
    \/ \E a \in {"auto", "button"}, s \in Students : PassQueues(a, s)
    \/ \E s \in Students : ComesDue(s)
    \/ Claim \/ MarkSent \/ MarkFailed

LEMMA OtherStepsWriteNoRow ==
    ASSUME [Next]_vars, ~RowStep
    PROVE  UNCHANGED rows
<1>1. CASE LmsTrouble
  BY <1>1 DEF LmsTrouble, FailsBeforeTheColumn, CorrectionAnswerLost, CreationAnswerLost, CreationIsLate,
              PostAnswerLost, PostIsLate, PostFails
<1>2. CASE SenderStep
  BY <1>2 DEF RowStep, SenderStep, SenderWakes, FindNext, NothingDue, ClaimMisses, ReadClaimed,
              ColumnIsKnown, CorrectColumn, FindColumn, FindNone, CreateColumn, PostScore
<1>3. CASE \E a \in {"auto", "button"} : PassStep(a) \/ PassThrows(a)
  BY <1>3 DEF RowStep, PassStep, PassReadsTotals, PassReadsRows, PassEnds, PassThrows, EndPass
<1>4. QED
  BY <1>1, <1>2, <1>3
  DEF Next, vars, RowStep, Regrade, Reweigh, PressSend, LateScoreArrives, LateColumnArrives, SendThrows, Crash

\* What a step does to the row of one student: nothing, or one of these.
RowMove(s) ==
    \/ rows'[s] = rows[s]
    \/ \E score \in Scores : rows'[s] = QueuedRow(score)
    \/ rows[s].state = "PENDING" /\ rows'[s] = [rows[s] EXCEPT !.due = TRUE]
    \/ /\ sender.pc = "found" /\ sender'.pc = "claimed"
       /\ sender.student = s /\ sender'.student = s /\ MayClaim
       /\ \E t \in Tokens : IsFresh(t)
       /\ rows'[s] = [rows[s] EXCEPT !.attempts = rows[s].attempts + 1, !.token = FreshToken,
                                     !.due = FALSE]
    \/ /\ sender.pc = "posted" /\ sender'.pc = "drain" /\ sender.student = s /\ ClaimStands
       /\ rows'[s] = [rows[s] EXCEPT !.state = "SENT", !.token = NoToken]
    \/ /\ sender.pc = "failed" /\ sender'.pc = "drain" /\ sender.student = s /\ ClaimStands
       /\ \E state \in {"FAILED", "PENDING"} :
            /\ state = "PENDING" => ~IsExhausted
            /\ rows'[s] = [rows[s] EXCEPT !.state = state, !.token = NoToken, !.due = FALSE]

LEMMA RowsMove ==
    ASSUME TypeInv, [Next]_vars
    PROVE  /\ DOMAIN rows' = Students
           /\ rows' = [s \in Students |-> rows'[s]]
           /\ \A s \in Students : RowMove(s)
<1> USE DEF TypeInv, RowsOK
<1>1. CASE ~RowStep
  BY <1>1, OtherStepsWriteNoRow DEF RowMove
<1>2. ASSUME NEW a \in {"auto", "button"}, NEW s \in Students, PassQueues(a, s)
      PROVE  /\ rows' = [j \in Students |-> rows'[j]]
             /\ \A j \in Students : RowMove(j)
  <2>1. CASE rows' = rows
    BY <2>1 DEF RowMove
  <2>2. CASE rows' = [rows EXCEPT ![s] = QueuedRow(WantedScore(a, s))]
    <3>1. WantedScore(a, s) \in Scores
      BY <1>2, TypeInvIsTyped, WantedIsAScore DEF PassQueues, PassesOK
    <3>2. QED
      BY <2>2, <3>1 DEF RowMove
  <2>3. QED
    BY <1>2, <2>1, <2>2 DEF PassQueues
<1>3. ASSUME NEW s \in Students, ComesDue(s)
      PROVE  /\ rows' = [j \in Students |-> rows'[j]]
             /\ \A j \in Students : RowMove(j)
  <2>1. rows[s].state = "PENDING" /\ rows' = [rows EXCEPT ![s] = [rows[s] EXCEPT !.due = TRUE]]
    BY <1>3 DEF ComesDue
  <2>2. QED
    BY <2>1 DEF RowMove
<1>4. CASE Claim
  <2>1. /\ sender.pc = "found" /\ sender'.pc = "claimed" /\ MayClaim
        /\ sender'.student = sender.student
        /\ \E t \in Tokens : IsFresh(t)
        /\ rows' = [rows EXCEPT ![sender.student] =
                        [rows[sender.student] EXCEPT !.attempts = rows[sender.student].attempts + 1,
                                                     !.token = FreshToken, !.due = FALSE]]
    BY <1>4 DEF Claim, SenderOK, Sender
  <2>2. QED
    BY <2>1 DEF RowMove
<1>5. CASE MarkSent
  <2>1. CASE ClaimStands
    <3>1. /\ sender.pc = "posted" /\ sender'.pc = "drain"
          /\ rows' = [rows EXCEPT ![sender.student] =
                        [rows[sender.student] EXCEPT !.state = "SENT", !.token = NoToken]]
      BY <1>5, <2>1, DrainingIsTyped DEF MarkSent
    <3>2. QED
      BY <2>1, <3>1 DEF RowMove
  <2>2. CASE ~ClaimStands
    BY <1>5, <2>2 DEF MarkSent, RowMove
  <2>3. QED
    BY <2>1, <2>2
<1>6. CASE MarkFailed
  <2>1. CASE ClaimStands
    <3>1. PICK state \in {"FAILED", "PENDING"} :
                 state = IF IsExhausted \/ ~sender.retryable THEN "FAILED" ELSE "PENDING"
      OBVIOUS
    <3>2. /\ sender.pc = "failed" /\ sender'.pc = "drain"
          /\ rows' = [rows EXCEPT ![sender.student] =
                        [rows[sender.student] EXCEPT !.state = state, !.token = NoToken, !.due = FALSE]]
      BY <1>6, <2>1, <3>1, DrainingIsTyped DEF MarkFailed
    <3>3. QED
      BY <2>1, <3>1, <3>2 DEF RowMove
  <2>2. CASE ~ClaimStands
    BY <1>6, <2>2 DEF MarkFailed, RowMove
  <2>3. QED
    BY <2>1, <2>2
<1>7. QED
  BY <1>1, <1>2, <1>3, <1>4, <1>5, <1>6 DEF RowStep

LEMMA FreshTokenIsFresh ==
    (\E t \in Tokens : IsFresh(t)) => FreshToken \in Tokens /\ IsFresh(FreshToken)
BY DEF FreshToken

\* Nothing makes a row disappear, and only the sender settles one.
LEMMA RowsStayOK ==
    ASSUME TypeInv, [Next]_vars
    PROVE  /\ RowsOK'
           /\ \A s \in Students : rows[s].state # "none" => rows'[s].state # "none"
           /\ \A s \in Students : rows[s].state = "PENDING" /\ sender'.pc \in Active
                                     => rows'[s].state = "PENDING"
<1>1. ASSUME NEW s \in Students
      PROVE  /\ rows'[s] \in Row
             /\ rows'[s].state # "none" => rows'[s].score \in Scores
             /\ rows[s].state # "none" => rows'[s].state # "none"
             /\ rows[s].state = "PENDING" /\ sender'.pc \in Active => rows'[s].state = "PENDING"
  <2>1. rows[s] \in Row /\ (rows[s].state # "none" => rows[s].score \in Scores)
    BY DEF TypeInv, RowsOK
  <2>2. ASSUME NEW score \in Scores, rows'[s] = QueuedRow(score)
        PROVE  /\ rows'[s] \in Row /\ rows'[s].score \in Scores
               /\ rows'[s].state = "PENDING"
    BY <2>2, QueuedIsTyped DEF QueuedRow
  <2>3. CASE rows[s].state = "PENDING" /\ rows'[s] = [rows[s] EXCEPT !.due = TRUE]
    BY <2>1, <2>3 DEF Row
  <2>4. CASE /\ sender.student = s /\ MayClaim
             /\ \E t \in Tokens : IsFresh(t)
             /\ rows'[s] = [rows[s] EXCEPT !.attempts = rows[s].attempts + 1, !.token = FreshToken,
                                           !.due = FALSE]
    <3>1. FreshToken \in Tokens /\ rows[s].state = "PENDING"
      BY <2>4, FreshTokenIsFresh DEF MayClaim, Due
    <3>2. rows'[s] \in Row
      <4>1. rows[s].attempts + 1 \in Nat
        BY <2>1 DEF Row
      <4>2. QED
        BY <2>1, <2>4, <3>1, <4>1 DEF Row
    <3>3. QED
      BY <2>1, <2>4, <3>1, <3>2 DEF Row
  <2>5. ASSUME NEW state \in {"SENT", "FAILED", "PENDING"},
               sender.pc \in {"posted", "failed"}, sender'.pc = "drain", sender.student = s,
               \/ rows'[s] = [rows[s] EXCEPT !.state = state, !.token = NoToken]
               \/ rows'[s] = [rows[s] EXCEPT !.state = state, !.token = NoToken, !.due = FALSE]
        PROVE  /\ rows'[s] \in Row /\ rows'[s].score \in Scores
               /\ rows'[s].state # "none" /\ sender'.pc \notin Active
    <3>1. rows[s].state = "PENDING"
      BY <2>5 DEF TypeInv, SenderOK, Active
    <3>2. rows'[s] \in Row
      BY <2>1, <2>5, TokensAssumption DEF Row, States
    <3>3. rows'[s].score = rows[s].score /\ rows'[s].state = state
      BY <2>1, <2>5 DEF Row
    <3>4. QED
      BY <2>1, <2>5, <3>1, <3>2, <3>3 DEF Active
  <2>6. RowMove(s)
    BY RowsMove
  <2>7. QED
    BY <2>1, <2>2, <2>3, <2>4, <2>5, <2>6 DEF RowMove
<1>2. rows' = [s \in Students |-> rows'[s]]
  BY RowsMove
<1>3. rows' \in [Students -> Row]
  BY <1>1, <1>2
<1>4. QED
  BY <1>1, <1>3 DEF RowsOK

\* What the sender is when it stops working on a row.
SenderRests == sender' \in Sender /\ sender'.pc \notin Active

LEMMA RestingIsOK == ASSUME SenderRests PROVE SenderOK'
BY DEF SenderRests, SenderOK, Active, AtWork

\* The steps with which the sender puts down what it works on.
LEMMA SenderPutsDown ==
    ASSUME TypeInv,
           \/ SenderWakes \/ NothingDue \/ ClaimMisses \/ MarkSent \/ MarkFailed
           \/ SendThrows \/ Crash
           \/ \E a \in {"auto", "button"} : EndPass(a) /\ a = "auto"
    PROVE  SenderRests
<1>1. sender \in Sender
  BY DEF TypeInv, SenderOK
<1>2. CASE SenderWakes
  <2>1. \A pc \in {"syncing", "drain"} :
           [sender EXCEPT !.pc = pc] \in Sender /\ [sender EXCEPT !.pc = pc].pc = pc
    BY <1>1 DEF Sender
  <2>2. QED
    BY <1>2, <2>1 DEF SenderWakes, SenderRests, Active
<1>3. CASE NothingDue \/ ClaimMisses \/ SendThrows \/ Crash
  BY <1>3, StartingRecords DEF NothingDue, ClaimMisses, SendThrows, Crash, SenderRests, Active
<1>4. CASE MarkSent \/ MarkFailed
  BY <1>4, DrainingIsTyped DEF MarkSent, MarkFailed, SenderRests, Active
<1>5. CASE \E a \in {"auto", "button"} : EndPass(a) /\ a = "auto"
  BY <1>1, <1>5 DEF EndPass, SenderRests, Active, Sender
<1>6. QED
  BY <1>2, <1>3, <1>4, <1>5

\* Only these leave it at work, and what it works on is what was claimed.
SenderMove ==
    \/ sender' = sender
    \/ SenderRests
    \/ \E s \in Students : FindNext(s)
    \/ /\ sender.pc = "found" /\ sender' = [sender EXCEPT !.pc = "claimed"]
    \/ ReadClaimed
    \/ /\ sender.pc = "column" /\ UNCHANGED rows
       /\ sender' = [sender EXCEPT !.pc = "create"]
    \/ /\ sender.pc \in {"column", "create"} /\ UNCHANGED rows
       /\ \E item \in Nat : sender' = [sender EXCEPT !.pc = "post", !.item = item]
    \/ /\ sender.pc = "post" /\ UNCHANGED rows
       /\ sender' = [sender EXCEPT !.pc = "posted"]
       /\ shown' = [shown EXCEPT ![sender.student] = sender.score]
       /\ late' = [late EXCEPT ![sender.student] = Nothing]
    \/ /\ sender.pc \in {"column", "create", "post"} /\ UNCHANGED rows
       /\ \E retryable \in BOOLEAN :
            sender' = [sender EXCEPT !.pc = "failed", !.retryable = retryable]

LEMMA SenderMoves ==
    ASSUME TypeInv, [Next]_vars
    PROVE  SenderMove
<1>1. CASE \/ SenderWakes \/ NothingDue \/ ClaimMisses \/ MarkSent \/ MarkFailed
           \/ SendThrows \/ Crash
  BY <1>1, SenderPutsDown DEF SenderMove
<1>2. ASSUME NEW a \in {"auto", "button"}, PassStep(a) \/ PassThrows(a)
      PROVE  SenderMove
  <2>1. CASE UNCHANGED sender
    BY <2>1 DEF SenderMove
  <2>2. CASE EndPass(a) /\ a = "auto"
    BY <2>2, SenderPutsDown DEF SenderMove
  <2>3. QED
    BY <1>2, <2>1, <2>2
    DEF PassStep, PassReadsTotals, PassReadsRows, PassQueues, PassEnds, PassThrows, EndPass
<1>3. ASSUME NEW s \in Students, FindNext(s) PROVE SenderMove
  BY <1>3 DEF SenderMove
<1>4. CASE Claim
  BY <1>4 DEF Claim, SenderMove
<1>5. CASE ReadClaimed
  BY <1>5 DEF SenderMove
<1>6. CASE ColumnIsKnown \/ CorrectColumn
  <2>1. remembered.url \in Nat
    BY DEF TypeInv, LmsOK
  <2>2. QED
    BY <1>6, <2>1 DEF ColumnIsKnown, CorrectColumn, Posts, SenderMove
<1>7. ASSUME NEW item \in 1 .. Len(columns), FindColumn(item) PROVE SenderMove
  <2>1. item \in Nat
    OBVIOUS
  <2>2. sender.pc = "column" /\ UNCHANGED rows /\ sender' = [sender EXCEPT !.pc = "post", !.item = item]
    BY <1>7 DEF FindColumn, Posts
  <2>3. QED
    BY <2>1, <2>2 DEF SenderMove
<1>8. CASE FindNone \/ \E item \in 1 .. Len(columns) + 1 : CreateColumn(item)
  <2>1. CASE FindNone
    BY <2>1 DEF FindNone, SenderMove
  <2>2. ASSUME NEW item \in 1 .. Len(columns) + 1, CreateColumn(item) PROVE SenderMove
    <3>1. item \in Nat
      OBVIOUS
    <3>2. /\ sender.pc = "create" /\ UNCHANGED rows
          /\ sender' = [sender EXCEPT !.pc = "post", !.item = item]
      BY <2>2 DEF CreateColumn, Posts
    <3>3. QED
      BY <3>1, <3>2 DEF SenderMove
  <2>3. QED
    BY <1>8, <2>1, <2>2
<1>9. CASE PostScore
  BY <1>9 DEF PostScore, Accepts, NothingOlder, SenderMove
<1>10. CASE LmsTrouble
  BY <1>10 DEF LmsTrouble, FailsBeforeTheColumn, CorrectionAnswerLost, CreationAnswerLost, CreationIsLate,
               PostAnswerLost, PostIsLate, PostFails, Fails, SenderMove
<1>11. CASE UNCHANGED sender
  BY <1>11 DEF SenderMove
<1>12. QED
  <2>1. CASE SenderStep
    BY <2>1, <1>1, <1>3, <1>4, <1>5, <1>6, <1>7, <1>8, <1>9 DEF SenderStep
  <2>2. QED
    BY <1>1, <1>2, <1>10, <1>11, <2>1
    DEF Next, vars, Regrade, Reweigh, PressSend, ComesDue, LateScoreArrives, LateColumnArrives

LEMMA SenderStaysOK ==
    ASSUME TypeInv, [Next]_vars
    PROVE  SenderOK'
<1>1. /\ sender \in Sender
      /\ sender.pc \in Active =>
           sender.student \in Students /\ rows[sender.student].state = "PENDING"
      /\ sender.pc \in AtWork => sender.score \in Scores
      /\ rows \in [Students -> Row]
      /\ \A s \in Students : rows[s].state # "none" => rows[s].score \in Scores
  BY DEF TypeInv, SenderOK, RowsOK
<1>2. \A s \in Students : rows[s].state = "PENDING" /\ sender'.pc \in Active
                            => rows'[s].state = "PENDING"
  BY RowsStayOK
<1>3. CASE UNCHANGED sender
  BY <1>1, <1>2, <1>3 DEF SenderOK
<1>4. CASE \E s \in Students : FindNext(s)
  <2>1. PICK s \in Students : FindNext(s)
    BY <1>4
  <2>2. rows[s] \in Row /\ rows[s].attempts \in Nat
    BY <1>1 DEF Row
  <2>3. /\ sender' \in Sender /\ sender'.pc = "found" /\ sender'.student = s
        /\ rows[s].state = "PENDING"
    BY <1>1, <2>1, <2>2 DEF FindNext, Due, Sender
  <2>4. QED
    BY <1>2, <2>3 DEF SenderOK, Active, AtWork
<1>5. CASE sender.pc = "found" /\ sender' = [sender EXCEPT !.pc = "claimed"]
  <2>1. /\ sender' \in Sender /\ sender'.pc = "claimed" /\ sender'.student = sender.student
    BY <1>1, <1>5 DEF Sender
  <2>2. QED
    BY <1>1, <1>2, <1>5, <2>1 DEF SenderOK, Active, AtWork
<1>6. CASE ReadClaimed
  <2> DEFINE row == rows[sender.student]
  <2>1. sender.pc = "claimed" /\ sender.student \in Students /\ row.state = "PENDING"
    BY <1>1, <1>6 DEF ReadClaimed, Active
  <2>2. row \in Row /\ row.score \in Scores
    BY <1>1, <2>1
  <2>3. row.attempts \in Nat /\ row.token \in Tokens \cup {NoToken}
    BY <2>2 DEF Row
  <2>4. sender' = [sender EXCEPT !.pc = "column", !.attempts = row.attempts,
                                 !.score = row.score, !.token = row.token]
    BY <1>6 DEF ReadClaimed
  <2> HIDE DEF row
  <2>5. /\ sender' \in Sender /\ sender'.pc = "column" /\ sender'.student = sender.student
        /\ sender'.score \in Scores
    BY <1>1, <2>2, <2>3, <2>4 DEF Sender
  <2>6. QED
    BY <1>2, <2>1, <2>5 DEF SenderOK, Active, AtWork, row
<1>7. ASSUME sender.pc \in {"column", "create", "post"},
             NEW pc \in {"create", "post", "posted", "failed"}, NEW item \in Nat, NEW retryable \in BOOLEAN,
             \/ sender' = [sender EXCEPT !.pc = pc, !.item = item]
             \/ sender' = [sender EXCEPT !.pc = pc]
             \/ sender' = [sender EXCEPT !.pc = pc, !.retryable = retryable]
      PROVE  SenderOK'
  <2>1. /\ sender' \in Sender /\ sender'.pc = pc /\ sender'.student = sender.student
        /\ sender'.score = sender.score
    BY <1>1, <1>7 DEF Sender
  <2>2. QED
    BY <1>1, <1>2, <1>7, <2>1 DEF SenderOK, Active, AtWork
<1>8. CASE SenderRests
  BY <1>8, RestingIsOK
<1>9. QED
  BY SenderMoves, <1>3, <1>4, <1>5, <1>6, <1>7, <1>8 DEF SenderMove

----------------------------------------------------------------------------
(* Type correctness: the whole.                                            *)

LEMMA ColumnIsAsked ==
    ASSUME columns \in Seq(Column), sender.score.max \in Maxima,
           NEW made \in {"yet", "late", "inTime"}, Asked(made)
    PROVE  /\ columns' \in Seq(Column)
           /\ Len(columns') = Len(columns) + 1
           /\ \A i \in 1 .. Len(columns) : columns'[i] = columns[i]
           /\ columns'[Len(columns) + 1].made = made
           /\ columns'[Len(columns) + 1].max = sender.score.max
<1> DEFINE column == [max |-> sender.score.max, made |-> made]
<1>1. column \in Column /\ column.made = made /\ column.max = sender.score.max
  BY DEF Column
<1>2. columns' = Append(columns, column)
  BY DEF Asked
<1> HIDE DEF column
<1>3. QED
  BY <1>1, <1>2

LEMMA ColumnIsChanged ==
    ASSUME columns \in Seq(Column), NEW item, NEW worth \in Maxima,
           columns' = [columns EXCEPT ![item].max = worth]
    PROVE  /\ columns' \in Seq(Column)
           /\ Len(columns') = Len(columns)
           /\ \A i \in 1 .. Len(columns) :
                /\ columns'[i].made = columns[i].made
                /\ columns'[i].max = IF i = item THEN worth ELSE columns[i].max
<1> DEFINE column == [columns[item] EXCEPT !.max = worth]
<1>1. columns' = [columns EXCEPT ![item] = column]
  OBVIOUS
<1>2. CASE item \in 1 .. Len(columns)
  <2>1. columns[item] \in Column
    BY <1>2
  <2>2. column \in Column /\ column.made = columns[item].made /\ column.max = worth
    BY <2>1 DEF Column
  <2> HIDE DEF column
  <2>3. QED
    BY <1>1, <1>2, <2>2, ExceptSeq
<1>3. CASE item \notin 1 .. Len(columns)
  <2>1. columns' = columns
    <3> HIDE DEF column
    <3> QED
      BY <1>1, <1>3
  <2>2. QED
    BY <1>3, <2>1
<1>4. QED
  BY <1>2, <1>3

LEMMA ColumnIsListed ==
    ASSUME columns \in Seq(Column), NEW item \in 1 .. Len(columns),
           columns' = [columns EXCEPT ![item].made = "late"]
    PROVE  /\ columns' \in Seq(Column)
           /\ Len(columns') = Len(columns)
           /\ \A i \in 1 .. Len(columns) :
                /\ columns'[i].max = columns[i].max
                /\ columns'[i].made = IF i = item THEN "late" ELSE columns[i].made
<1> DEFINE column == [columns[item] EXCEPT !.made = "late"]
<1>1. columns' = [columns EXCEPT ![item] = column] /\ columns[item] \in Column
  OBVIOUS
<1>2. column \in Column /\ column.max = columns[item].max /\ column.made = "late"
  BY <1>1 DEF Column
<1> HIDE DEF column
<1>3. QED
  BY <1>1, <1>2, ExceptSeq

LEMMA LmsStaysOK ==
    ASSUME TypeInv, [Next]_vars
    PROVE  LmsOK'
<1>1. /\ remembered \in [url : Nat, max : Maxima \cup {0}]
      /\ columns \in Seq(Column)
      /\ shown \in [Students -> Scores \cup {Nothing}]
      /\ late \in [Students -> Scores \cup {Nothing}]
      /\ sender.pc \in AtWork => sender.score \in Scores /\ sender.student \in Students
  BY DEF TypeInv, LmsOK, SenderOK, Active, AtWork
<1>2. sender.pc \in {"column", "create"} => sender.score.max \in Maxima
  BY <1>1 DEF AtWork, Scores
<1>3. ASSUME NEW made \in {"yet", "late", "inTime"}, Asked(made), sender.pc = "create"
      PROVE  columns' \in Seq(Column)
  BY <1>1, <1>2, <1>3, ColumnIsAsked
<1>4. CASE CorrectColumn \/ \E retryable \in BOOLEAN : CorrectionAnswerLost(retryable)
  <2>1. remembered' \in [url : Nat, max : Maxima \cup {0}]
    BY <1>1, <1>2, <1>4 DEF CorrectColumn, CorrectionAnswerLost
  <2>2. columns' = [columns EXCEPT ![remembered.url].max = sender.score.max] /\ sender.pc = "column"
    BY <1>4 DEF CorrectColumn, CorrectionAnswerLost
  <2>3. columns' \in Seq(Column)
    BY <1>1, <1>2, <2>2, ColumnIsChanged
  <2>4. QED
    BY <1>1, <1>4, <2>1, <2>3 DEF CorrectColumn, CorrectionAnswerLost, LmsOK
<1>5. CASE \/ \E item \in 1 .. Len(columns) + 1 : CreateColumn(item)
           \/ \E retryable \in BOOLEAN : CreationAnswerLost(retryable) \/ CreationIsLate(retryable)
  <2>1. columns' \in Seq(Column)
    BY <1>3, <1>5 DEF CreateColumn, CreationAnswerLost, CreationIsLate
  <2>2. QED
    BY <1>1, <1>2, <1>5, <2>1 DEF CreateColumn, CreationAnswerLost, CreationIsLate, LmsOK
<1>6. ASSUME NEW item \in 1 .. Len(columns), LateColumnArrives(item) PROVE LmsOK'
  <2>1. columns' \in Seq(Column)
    BY <1>1, <1>6, ColumnIsListed DEF LateColumnArrives
  <2>2. QED
    BY <1>1, <1>6, <2>1 DEF LateColumnArrives, LmsOK
<1>7. ASSUME NEW item \in 1 .. Len(columns), FindColumn(item) PROVE LmsOK'
  BY <1>1, <1>2, <1>7 DEF FindColumn, lms, LmsOK
<1>8. ASSUME UNCHANGED <<remembered, columns>>,
             shown' \in [Students -> Scores \cup {Nothing}],
             late' \in [Students -> Scores \cup {Nothing}]
      PROVE  LmsOK'
  BY <1>1, <1>8 DEF LmsOK
<1>9. CASE PostScore \/ \E retryable \in BOOLEAN : PostAnswerLost(retryable) \/ PostIsLate(retryable)
  BY <1>1, <1>8, <1>9
  DEF PostScore, PostAnswerLost, PostIsLate, Accepts, NothingOlder, AtWork
<1>10. ASSUME NEW s \in Students, LateScoreArrives(s) PROVE LmsOK'
  BY <1>1, <1>8, <1>10 DEF LateScoreArrives, LateColumnArrives
<1>11. CASE UNCHANGED <<remembered, lms>>
  BY <1>1, <1>8, <1>11 DEF lms
<1>12. QED
  <2>1. CASE LmsTrouble
    BY <2>1, <1>4, <1>5, <1>9, <1>11 DEF LmsTrouble, FailsBeforeTheColumn, PostFails
  <2>2. CASE SenderStep
    BY <2>2, <1>4, <1>5, <1>7, <1>9, <1>11
    DEF SenderStep, SenderWakes, FindNext, NothingDue, Claim, ClaimMisses, ReadClaimed,
        ColumnIsKnown, FindNone, MarkSent, MarkFailed
  <2>3. CASE \E a \in {"auto", "button"} : PassStep(a) \/ PassThrows(a)
    BY <2>3, <1>11
    DEF PassStep, PassReadsTotals, PassReadsRows, PassQueues, PassEnds, PassThrows, EndPass
  <2>4. QED
    BY <2>1, <2>2, <2>3, <1>6, <1>10, <1>11
    DEF Next, vars, lms, Regrade, Reweigh, PressSend, ComesDue, SendThrows, Crash

LEMMA RestStaysOK ==
    ASSUME TypeInv, [Next]_vars
    PROVE  RestOK'
<1>1. RestOK
  BY DEF TypeInv
<1>2. CASE UNCHANGED <<total, maximum>> /\ (HasTrouble \/ IsLost \/ IsPress \/ UNCHANGED bounds)
  BY <1>1, <1>2 DEF RestOK, HasTrouble, IsLost, IsPress, bounds
<1>3. CASE \E s \in Students, t \in Totals \cup {None} : Regrade(s, t)
  BY <1>1, <1>3 DEF RestOK, Regrade, IsChange
<1>4. CASE \E m \in Maxima : Reweigh(m)
  BY <1>1, <1>4 DEF RestOK, Reweigh, IsChange
<1>5. CASE LmsTrouble
  BY <1>5, <1>2
  DEF LmsTrouble, FailsBeforeTheColumn, CorrectionAnswerLost, CreationAnswerLost, CreationIsLate,
      PostAnswerLost, PostIsLate, PostFails, gradebook
<1>6. CASE SenderStep
  BY <1>6, <1>2
  DEF SenderStep, SenderWakes, FindNext, NothingDue, Claim, ClaimMisses, ReadClaimed,
      ColumnIsKnown, CorrectColumn, FindColumn, FindNone, CreateColumn, PostScore, MarkSent, MarkFailed,
      gradebook
<1>7. CASE \E a \in {"auto", "button"} : PassStep(a) \/ PassThrows(a)
  BY <1>7, <1>2
  DEF PassStep, PassReadsTotals, PassReadsRows, PassQueues, PassEnds, PassThrows, EndPass, gradebook
<1>8. QED
  BY <1>2, <1>3, <1>4, <1>5, <1>6, <1>7
  DEF Next, vars, gradebook, bounds, PressSend, ComesDue,
        LateScoreArrives, LateColumnArrives, SendThrows, Crash

LEMMA TypeInvInit == Init => TypeInv
<1> SUFFICES ASSUME Init PROVE TypeInv
  OBVIOUS
<1>1. PassesOK
  BY StartingRecords DEF Init, PassesOK, PassesHaveAMaximum
<1>2. RowsOK
  BY StartingRecords DEF Init, RowsOK
<1>3. SenderOK
  BY StartingRecords DEF Init, SenderOK, Active, AtWork
<1>4. LmsOK
  BY StartingRecords DEF Init, LmsOK
<1>5. RestOK
  BY DEF Init, RestOK
<1>6. QED
  BY <1>1, <1>2, <1>3, <1>4, <1>5 DEF TypeInv

LEMMA TypeInvNext == TypeInv /\ [Next]_vars => TypeInv'
<1> SUFFICES ASSUME TypeInv, [Next]_vars PROVE TypeInv'
  OBVIOUS
<1>1. PassesOK'
  BY TypeInvIsTyped, PassesStayOK DEF TypeInv
<1>2. QED
  BY <1>1, RowsStayOK, SenderStaysOK, LmsStaysOK, RestStaysOK DEF TypeInv

LEMMA TypeInvHolds == Spec => []TypeInv
BY TypeInvInit, TypeInvNext, PTL DEF Spec

\* The tables, the passes, the sender and the LMS stay of their types.
THEOREM TypeCorrect == Spec => []TypeOK
BY TypeInvHolds, TypeInvIsTyped, PTL

----------------------------------------------------------------------------
(* Second columns.                                                         *)

\* While a column is asked for, none was made in time: a lookup found none, and
\* what has arrived since came late.
MadeInv ==
    /\ OnlyALateCreationDoubles
    /\ sender.pc = "create" => \A i \in 1 .. Len(columns) : columns[i].made # "inTime"

\* What a step does to the columns of the assignment.
ColumnsMove ==
    \/ UNCHANGED columns
    \/ /\ Len(columns') = Len(columns)
       /\ \A i \in 1 .. Len(columns) : columns'[i].made \in {columns[i].made, "late"}
    \/ /\ sender.pc = "create" /\ sender'.pc \in {"post", "failed"}
       /\ Len(columns') = Len(columns) + 1
       /\ \A i \in 1 .. Len(columns) : columns'[i] = columns[i]

LEMMA ColumnsMoves ==
    ASSUME TypeInv, [Next]_vars
    PROVE  ColumnsMove
<1>1. /\ sender \in Sender /\ columns \in Seq(Column)
      /\ sender.pc \in {"column", "create"} => sender.score.max \in Maxima
  BY DEF TypeInv, SenderOK, LmsOK, AtWork, Scores
<1>2. CASE UNCHANGED columns
  BY <1>2 DEF ColumnsMove
<1>3. CASE CorrectColumn \/ \E retryable \in BOOLEAN : CorrectionAnswerLost(retryable)
  <2>1. columns' = [columns EXCEPT ![remembered.url].max = sender.score.max] /\ sender.pc = "column"
    BY <1>3 DEF CorrectColumn, CorrectionAnswerLost
  <2>2. QED
    BY <1>1, <2>1, ColumnIsChanged DEF ColumnsMove
<1>4. ASSUME NEW made \in {"yet", "late", "inTime"}, Asked(made), sender.pc = "create",
             sender'.pc \in {"post", "failed"}
      PROVE  ColumnsMove
  BY <1>1, <1>4, ColumnIsAsked DEF ColumnsMove
<1>5. ASSUME NEW item \in 1 .. Len(columns) + 1, CreateColumn(item) PROVE ColumnsMove
  <2>1. sender'.pc = "post"
    BY <1>1, <1>5 DEF CreateColumn, Posts, Sender
  <2>2. QED
    BY <1>4, <1>5, <2>1 DEF CreateColumn
<1>6. ASSUME NEW retryable \in BOOLEAN, CreationAnswerLost(retryable) \/ CreationIsLate(retryable)
      PROVE  ColumnsMove
  <2>1. sender'.pc = "failed"
    BY <1>1, <1>6 DEF CreationAnswerLost, CreationIsLate, Fails, Sender
  <2>2. QED
    BY <1>4, <1>6, <2>1 DEF CreationAnswerLost, CreationIsLate
<1>7. ASSUME NEW item \in 1 .. Len(columns), LateColumnArrives(item) PROVE ColumnsMove
  BY <1>1, <1>7, ColumnIsListed DEF LateColumnArrives, ColumnsMove
<1>8. QED
  <2>1. CASE LmsTrouble
    BY <2>1, <1>2, <1>3, <1>6
    DEF LmsTrouble, FailsBeforeTheColumn, PostAnswerLost, PostIsLate, PostFails, lms
  <2>2. CASE SenderStep
    BY <2>2, <1>2, <1>3, <1>5
    DEF SenderStep, SenderWakes, FindNext, NothingDue, Claim, ClaimMisses, ReadClaimed,
        ColumnIsKnown, FindColumn, FindNone, PostScore, MarkSent, MarkFailed, lms
  <2>3. CASE \E a \in {"auto", "button"} : PassStep(a) \/ PassThrows(a)
    BY <2>3, <1>2
    DEF PassStep, PassReadsTotals, PassReadsRows, PassQueues, PassEnds, PassThrows, EndPass, lms
  <2>4. QED
    BY <2>1, <2>2, <2>3, <1>2, <1>7
    DEF Next, vars, lms, Regrade, Reweigh, PressSend, ComesDue, LateScoreArrives, SendThrows, Crash

\* Only a lookup that found no column leads to a request for one.
LEMMA OnlyFindNoneAsks ==
    ASSUME TypeInv, [Next]_vars, sender.pc # "create", sender'.pc = "create"
    PROVE  FindNone
<1>1. sender \in Sender
  BY DEF TypeInv, SenderOK
<1>2. CASE LmsTrouble
  BY <1>1, <1>2
  DEF LmsTrouble, FailsBeforeTheColumn, CorrectionAnswerLost, CreationAnswerLost, CreationIsLate,
      PostAnswerLost, PostIsLate, PostFails, Fails, Sender
<1>3. CASE SenderStep
  <2>1. CASE SenderWakes \/ NothingDue \/ ClaimMisses \/ MarkSent \/ MarkFailed
    BY <2>1, SenderPutsDown DEF SenderRests, Active
  <2>2. QED
    BY <1>1, <1>3, <2>1
    DEF SenderStep, FindNext, Claim, ReadClaimed, ColumnIsKnown, CorrectColumn, FindColumn,
        CreateColumn, PostScore, Posts, Sender
<1>4. CASE SendThrows \/ Crash
  BY <1>4, SenderPutsDown DEF SenderRests, Active
<1>5. CASE \E a \in {"auto", "button"} : PassStep(a) \/ PassThrows(a)
  BY <1>1, <1>5
  DEF PassStep, PassReadsTotals, PassReadsRows, PassQueues, PassEnds, PassThrows, EndPass, Sender
<1>6. QED
  BY <1>2, <1>3, <1>4, <1>5
  DEF Next, vars, Regrade, Reweigh, PressSend, ComesDue, LateScoreArrives, LateColumnArrives

LEMMA MadeInvNext == TypeInv /\ MadeInv /\ [Next]_vars => MadeInv'
<1> SUFFICES ASSUME TypeInv, MadeInv, [Next]_vars PROVE MadeInv'
  OBVIOUS
<1>1. columns \in Seq(Column) /\ Len(columns) \in Nat
  BY DEF TypeInv, LmsOK
<1>2. CASE UNCHANGED columns \/ Len(columns') = Len(columns)
  <2>1. /\ Len(columns') = Len(columns)
        /\ \A i \in 1 .. Len(columns) : columns'[i].made = "inTime" => columns[i].made = "inTime"
    BY <1>1, <1>2, ColumnsMoves DEF ColumnsMove
  <2>2. sender'.pc = "create" => \A i \in 1 .. Len(columns) : columns[i].made # "inTime"
    <3>1. CASE sender.pc = "create"
      BY <3>1 DEF MadeInv
    <3>2. CASE sender.pc # "create"
      BY <3>2, OnlyFindNoneAsks DEF FindNone, MayCreate, Listed
    <3>3. QED
      BY <3>1, <3>2
  <2>3. QED
    BY <2>1, <2>2 DEF MadeInv, OnlyALateCreationDoubles
<1>3. CASE /\ sender.pc = "create" /\ sender'.pc \in {"post", "failed"}
           /\ Len(columns') = Len(columns) + 1
           /\ \A i \in 1 .. Len(columns) : columns'[i] = columns[i]
  <2>1. \A i \in 1 .. Len(columns') : columns'[i].made = "inTime" => i = Len(columns) + 1
    BY <1>1, <1>3 DEF MadeInv
  <2>2. QED
    BY <1>3, <2>1 DEF MadeInv, OnlyALateCreationDoubles
<1>4. QED
  BY <1>2, <1>3, ColumnsMoves DEF ColumnsMove

\* Of the columns of the assignment at most one was made while its sender waited:
\* each further one takes a creation that came late, whichever student's send
\* asked for it and whatever went wrong in between (ensureLineItem).
THEOREM OnlyALateCreationMakesASecond == Spec => []OnlyALateCreationDoubles
<1>1. Init => MadeInv
  <2>1. Init => columns = <<>> /\ sender.pc = "start"
    BY StartingRecords DEF Init
  <2>2. QED
    BY <2>1 DEF MadeInv, OnlyALateCreationDoubles
<1>2. MadeInv => OnlyALateCreationDoubles
  BY DEF MadeInv
<1>3. QED
  BY <1>1, <1>2, MadeInvNext, TypeInvHolds, PTL DEF Spec

----------------------------------------------------------------------------
(* What is called sent is at the LMS.                                      *)

\* While the claim of a send is on the row, the row holds the score being sent.
SendsWhatIsQueued ==
    sender.pc \in AtWork /\ ClaimStands => rows[sender.student].score = sender.score

\* A score that was accepted is shown, with none behind it.
AcceptedIsShown ==
    sender.pc = "posted" => shown[sender.student] = sender.score /\ late[sender.student] = Nothing

\* Of a student whose score is sent nothing older is still to come.
SentIsLast ==
    \A s \in Students :
        rows[s].state = "SENT" => shown[s] = rows[s].score /\ late[s] = Nothing

LateWasQueued == \A s \in Students : late[s] # Nothing => rows[s].state # "none"

Delivery == SendsWhatIsQueued /\ AcceptedIsShown /\ SentIsLast /\ LateWasQueued

\* What a step does to what the LMS shows of one student.
LmsMove(s) ==
    \/ shown'[s] = shown[s] /\ late'[s] = late[s]
    \/ /\ late[s] # Nothing /\ UNCHANGED <<rows, sender>>
       /\ shown'[s] = late[s] /\ late'[s] = Nothing
    \/ /\ sender.pc = "post" /\ sender.student = s /\ UNCHANGED rows
       /\ \/ /\ sender'.pc \in {"posted", "failed"}
             /\ shown'[s] = sender.score /\ late'[s] = Nothing
          \/ sender'.pc = "failed"

LEMMA LmsMoves ==
    ASSUME TypeInv, [Next]_vars, NEW s \in Students
    PROVE  LmsMove(s)
<1>1. /\ sender \in Sender
      /\ sender.pc = "post" => sender.student \in Students
      /\ shown \in [Students -> Scores \cup {Nothing}]
      /\ late \in [Students -> Scores \cup {Nothing}]
  BY DEF TypeInv, SenderOK, LmsOK, Active
<1>2. CASE UNCHANGED <<shown, late>>
  BY <1>2 DEF LmsMove
<1>3. \A pc \in {"posted", "failed"} : \A retryable \in BOOLEAN :
         /\ [sender EXCEPT !.pc = pc].pc = pc
         /\ [sender EXCEPT !.pc = pc, !.retryable = retryable].pc = pc
  BY <1>1 DEF Sender
<1>4. CASE PostScore
  BY <1>1, <1>3, <1>4 DEF PostScore, Accepts, NothingOlder, LmsMove
<1>5. ASSUME NEW retryable \in BOOLEAN, PostAnswerLost(retryable) PROVE LmsMove(s)
  BY <1>1, <1>3, <1>5 DEF PostAnswerLost, Fails, Accepts, NothingOlder, LmsMove
<1>6. ASSUME NEW retryable \in BOOLEAN, PostIsLate(retryable) PROVE LmsMove(s)
  BY <1>1, <1>3, <1>6 DEF PostIsLate, Fails, LmsMove
<1>7. ASSUME NEW j \in Students, LateScoreArrives(j) PROVE LmsMove(s)
  BY <1>1, <1>7 DEF LateScoreArrives, LateColumnArrives, LmsMove
<1>8. QED
  <2>1. CASE LmsTrouble
    BY <2>1, <1>2, <1>5, <1>6
    DEF LmsTrouble, FailsBeforeTheColumn, CorrectionAnswerLost, CreationAnswerLost, CreationIsLate,
        PostFails, lms
  <2>2. CASE SenderStep
    BY <2>2, <1>2, <1>4
    DEF SenderStep, SenderWakes, FindNext, NothingDue, Claim, ClaimMisses, ReadClaimed,
        ColumnIsKnown, CorrectColumn, FindColumn, FindNone, CreateColumn, MarkSent, MarkFailed, lms
  <2>3. CASE \E a \in {"auto", "button"} : PassStep(a) \/ PassThrows(a)
    BY <2>3, <1>2
    DEF PassStep, PassReadsTotals, PassReadsRows, PassQueues, PassEnds, PassThrows, EndPass, lms
  <2>4. QED
    BY <2>1, <2>2, <2>3, <1>2, <1>7
    DEF Next, vars, lms, Regrade, Reweigh, PressSend, ComesDue, LateColumnArrives,
        SendThrows, Crash

LEMMA SendsWhatIsQueuedNext ==
    ASSUME TypeInv, SendsWhatIsQueued, [Next]_vars
    PROVE  SendsWhatIsQueued'
<1> SUFFICES ASSUME sender'.pc \in AtWork, ClaimStands'
             PROVE  rows'[sender'.student].score = sender'.score
  BY DEF SendsWhatIsQueued
<1>1. /\ sender \in Sender /\ rows \in [Students -> Row]
      /\ sender.pc \in Active => sender.student \in Students
  BY DEF TypeInv, SenderOK, RowsOK
<1>2. CASE UNCHANGED sender
  <2> DEFINE s == sender.student
  <2>1. s \in Students /\ rows[s] \in Row /\ sender.pc \in AtWork
    BY <1>1, <1>2 DEF Active, AtWork
  <2>2. rows'[s].token = sender.token /\ sender.token # NoToken
    BY <1>2 DEF ClaimStands
  <2>3. ASSUME NEW score \in Scores PROVE rows'[s] # QueuedRow(score)
    BY <2>2 DEF QueuedRow
  <2>4. \/ rows'[s] = rows[s]
        \/ rows'[s] = [rows[s] EXCEPT !.due = TRUE]
    BY <1>2, <2>1, <2>3, RowsMove DEF RowMove, AtWork
  <2>5. rows'[s].score = rows[s].score /\ rows'[s].token = rows[s].token
    BY <2>1, <2>4 DEF Row
  <2>6. ClaimStands
    BY <2>2, <2>5 DEF ClaimStands
  <2>7. QED
    BY <1>2, <2>1, <2>5, <2>6 DEF SendsWhatIsQueued
<1>3. CASE ReadClaimed
  BY <1>1, <1>3 DEF ReadClaimed, Sender
<1>4. ASSUME sender.pc \in {"column", "create", "post"}, UNCHANGED rows,
             NEW pc \in {"create", "post", "posted", "failed"}, NEW item \in Nat, NEW retryable \in BOOLEAN,
             \/ sender' = [sender EXCEPT !.pc = pc, !.item = item]
             \/ sender' = [sender EXCEPT !.pc = pc]
             \/ sender' = [sender EXCEPT !.pc = pc, !.retryable = retryable]
      PROVE  rows'[sender'.student].score = sender'.score
  <2>1. /\ sender'.student = sender.student /\ sender'.score = sender.score
        /\ sender'.token = sender.token
    BY <1>1, <1>4 DEF Sender
  <2>2. QED
    BY <1>4, <2>1 DEF SendsWhatIsQueued, ClaimStands, AtWork
<1>5. CASE SenderRests \/ sender' = [sender EXCEPT !.pc = "claimed"]
  BY <1>1, <1>5 DEF SenderRests, Active, AtWork, Sender
<1>6. CASE \E s \in Students : FindNext(s)
  BY <1>1, <1>6 DEF FindNext, AtWork, Sender
<1>7. QED
  BY SenderMoves, <1>2, <1>3, <1>4, <1>5, <1>6 DEF SenderMove

LEMMA AcceptedIsShownNext ==
    ASSUME TypeInv, AcceptedIsShown, [Next]_vars
    PROVE  AcceptedIsShown'
<1> SUFFICES ASSUME sender'.pc = "posted"
             PROVE  shown'[sender'.student] = sender'.score /\ late'[sender'.student] = Nothing
  BY DEF AcceptedIsShown
<1>1. /\ sender \in Sender
      /\ sender.pc \in Active => sender.student \in Students
      /\ shown \in [Students -> Scores \cup {Nothing}]
      /\ late \in [Students -> Scores \cup {Nothing}]
  BY DEF TypeInv, SenderOK, LmsOK
<1>2. CASE UNCHANGED sender
  <2>1. sender.student \in Students
    BY <1>1, <1>2 DEF Active
  <2>2. LmsMove(sender.student)
    BY <2>1, LmsMoves
  <2>3. QED
    BY <1>2, <2>1, <2>2 DEF LmsMove, AcceptedIsShown
<1>3. CASE /\ sender.pc = "post" /\ sender' = [sender EXCEPT !.pc = "posted"]
           /\ shown' = [shown EXCEPT ![sender.student] = sender.score]
           /\ late' = [late EXCEPT ![sender.student] = Nothing]
  BY <1>1, <1>3 DEF Sender, Active
<1>4. ASSUME NEW pc \in {"claimed", "create", "post", "failed"}, NEW item \in Nat, NEW retryable \in BOOLEAN,
             \/ sender' = [sender EXCEPT !.pc = pc, !.item = item]
             \/ sender' = [sender EXCEPT !.pc = pc]
             \/ sender' = [sender EXCEPT !.pc = pc, !.retryable = retryable]
      PROVE  FALSE
  BY <1>1, <1>4 DEF Sender
<1>5. ~ReadClaimed /\ ~(\E s \in Students : FindNext(s)) /\ ~SenderRests
  BY <1>1 DEF ReadClaimed, FindNext, SenderRests, Active, Sender
<1>6. QED
  BY SenderMoves, <1>2, <1>3, <1>4, <1>5 DEF SenderMove

LEMMA SentIsLastNext ==
    ASSUME TypeInv, Delivery, [Next]_vars, NEW s \in Students
    PROVE  /\ rows'[s].state = "SENT" => shown'[s] = rows'[s].score /\ late'[s] = Nothing
           /\ late'[s] # Nothing => rows'[s].state # "none"
<1>1. /\ rows[s] \in Row
      /\ sender.pc \in Active /\ sender.student = s => rows[s].state = "PENDING"
  BY DEF TypeInv, SenderOK, RowsOK
<1>2. LmsMove(s) /\ RowMove(s)
  BY LmsMoves, RowsMove
<1>3. ASSUME late'[s] # Nothing PROVE rows'[s].state # "none"
  <2>1. rows[s].state # "none"
    BY <1>1, <1>2, <1>3 DEF LmsMove, Delivery, LateWasQueued, Active
  <2>2. QED
    BY <2>1, RowsStayOK
<1>4. ASSUME rows'[s].state = "SENT"
      PROVE  shown'[s] = rows'[s].score /\ late'[s] = Nothing
  <2>1. ASSUME NEW score \in Scores PROVE rows'[s] # QueuedRow(score)
    BY <1>4 DEF QueuedRow
  <2>2. ASSUME rows[s].state = "PENDING",
               \/ rows'[s] = [rows[s] EXCEPT !.due = TRUE]
               \/ rows'[s] = [rows[s] EXCEPT !.attempts = rows[s].attempts + 1,
                                             !.token = FreshToken, !.due = FALSE]
        PROVE  FALSE
    BY <1>1, <1>4, <2>2 DEF Row
  <2>3. ASSUME NEW state \in {"FAILED", "PENDING"},
               rows'[s] = [rows[s] EXCEPT !.state = state, !.token = NoToken, !.due = FALSE]
        PROVE  FALSE
    BY <1>1, <1>4, <2>3 DEF Row
  <2>4. CASE rows'[s] = rows[s]
    BY <1>1, <1>2, <1>4, <2>4 DEF LmsMove, Delivery, SentIsLast, Active
  <2>5. CASE /\ sender.pc = "posted" /\ sender'.pc = "drain" /\ sender.student = s /\ ClaimStands
             /\ rows'[s] = [rows[s] EXCEPT !.state = "SENT", !.token = NoToken]
    <3>1. shown[s] = sender.score /\ late[s] = Nothing /\ rows[s].score = sender.score
      BY <2>5 DEF Delivery, AcceptedIsShown, SendsWhatIsQueued, AtWork
    <3>2. rows'[s].score = rows[s].score
      BY <1>1, <2>5 DEF Row
    <3>3. shown'[s] = shown[s] /\ late'[s] = late[s]
      BY <1>2, <2>5, <3>1 DEF LmsMove
    <3>4. QED
      BY <3>1, <3>2, <3>3
  <2>6. sender.student = s /\ MayClaim => rows[s].state = "PENDING"
    BY DEF MayClaim, Due
  <2>7. QED
    BY <1>2, <2>1, <2>2, <2>3, <2>4, <2>5, <2>6 DEF RowMove
<1>5. QED
  BY <1>3, <1>4

Inv == TypeInv /\ Delivery

LEMMA InvInit == Init => Inv
<1> SUFFICES ASSUME Init PROVE Inv
  OBVIOUS
<1>1. TypeInv
  BY TypeInvInit
<1>2. sender.pc = "start" /\ (\A s \in Students : rows[s].state = "none" /\ late[s] = Nothing)
  BY StartingRecords DEF Init
<1>3. QED
  BY <1>1, <1>2
  DEF Inv, Delivery, SendsWhatIsQueued, AcceptedIsShown, SentIsLast, LateWasQueued, AtWork

LEMMA InvNext == Inv /\ [Next]_vars => Inv'
<1> SUFFICES ASSUME Inv, [Next]_vars PROVE Inv'
  OBVIOUS
<1>1. TypeInv'
  BY TypeInvNext DEF Inv
<1>2. SendsWhatIsQueued' /\ AcceptedIsShown'
  BY SendsWhatIsQueuedNext, AcceptedIsShownNext DEF Inv, Delivery
<1>3. SentIsLast' /\ LateWasQueued'
  BY SentIsLastNext DEF Inv, SentIsLast, LateWasQueued
<1>4. QED
  BY <1>1, <1>2, <1>3 DEF Inv, Delivery

\* The score of a row that reads SENT is the one the LMS shows, however many
\* answers were lost, scores came late and claims ran out before.
THEOREM SentIsDelivered == Spec => []SentIsAtTheLms
<1>1. Inv => SentIsAtTheLms
  BY DEF Inv, Delivery, SentIsLast, SentIsAtTheLms
<1>2. QED
  BY <1>1, InvInit, InvNext, PTL DEF Spec

----------------------------------------------------------------------------
(* The queue implements GradePassback.                                     *)

LEMMA StartsAsPassback == Init => Passback!Init
BY StartingRecords DEF Init, Passback!Init, NoRow

\* What of a row GradePassback does not see.
LEMMA UnseenRowChange ==
    ASSUME TypeInv, UNCHANGED shown, NEW s \in Students, NEW row \in Row,
           row.state = rows[s].state, row.score = rows[s].score, rows' = [rows EXCEPT ![s] = row]
    PROVE  UNCHANGED Passback!passback
<1>1. \A j \in Students : rows'[j].state = rows[j].state /\ rows'[j].score = rows[j].score
  BY DEF TypeInv, RowsOK
<1>2. QED
  BY <1>1 DEF Passback!passback

LEMMA SeenRowChange ==
    ASSUME TypeInv, UNCHANGED shown, NEW s \in Students, NEW row \in Row,
           rows' = [rows EXCEPT ![s] = row]
    PROVE  /\ [j \in Students |-> rows'[j].score]
                = [[j \in Students |-> rows[j].score] EXCEPT ![s] = row.score]
           /\ [j \in Students |-> rows'[j].state]
                = [[j \in Students |-> rows[j].state] EXCEPT ![s] = row.state]
           /\ row.score = rows[s].score =>
                [j \in Students |-> rows'[j].score] = [j \in Students |-> rows[j].score]
BY DEF TypeInv, RowsOK

LEMMA AskIsAllowed ==
    ASSUME NEW s \in Students, NEW score \in Scores, Passback!Ask(s, score)
    PROVE  Passback!Next
BY DEF Passback!Next

LEMMA EndIsAllowed ==
    ASSUME NEW s \in Students, Passback!Deliver(s) \/ Passback!GiveUp(s)
    PROVE  Passback!Next
BY DEF Passback!Next

LEMMA ShownIsAllowed ==
    ASSUME TypeInv, NEW s \in Students, NEW score \in Scores, UNCHANGED rows,
           rows[s].state \in {"PENDING", "FAILED"}, shown' = [shown EXCEPT ![s] = score]
    PROVE  Passback!Next
<1>1. Passback!Show(s, score)
  BY DEF Passback!Show
<1>2. QED
  BY <1>1 DEF Passback!Next

LEMMA StepsOfPassback ==
    ASSUME Inv, [Next]_vars
    PROVE  [Passback!Next]_(Passback!passback)
<1>1. /\ TypeInv /\ TypeOK
      /\ \A s \in Students : rows[s] \in Row
      /\ rows \in [Students -> Row]
      /\ sender.pc \in Active => sender.student \in Students /\ rows[sender.student].state = "PENDING"
      /\ sender.pc \in AtWork => sender.score \in Scores
  BY TypeInvIsTyped DEF Inv, TypeInv, RowsOK, SenderOK
<1>2. CASE UNCHANGED <<rows, shown>>
  BY <1>2 DEF Passback!passback
<1>3. ASSUME NEW a \in {"auto", "button"}, NEW s \in Students, PassQueues(a, s)
      PROVE  [Passback!Next]_(Passback!passback)
  <2>1. CASE rows' = [rows EXCEPT ![s] = QueuedRow(WantedScore(a, s))]
    <3>1. PICK score \in Scores : score = WantedScore(a, s)
      BY <1>1, <1>3, WantedIsAScore DEF PassQueues, TypeInv, PassesOK
    <3>2. QueuedRow(score) \in Row /\ QueuedRow(score).score = score
          /\ QueuedRow(score).state = "PENDING"
      BY <3>1, QueuedIsTyped DEF QueuedRow
    <3>3. UNCHANGED shown
      BY <1>3 DEF PassQueues, lms
    <3>4. Passback!Ask(s, score)
      BY <1>1, <2>1, <3>1, <3>2, <3>3, SeenRowChange DEF Passback!Ask
    <3>5. QED
      BY <3>4, AskIsAllowed
  <2>2. QED
    BY <1>2, <1>3, <2>1 DEF PassQueues, lms
<1>4. ASSUME NEW s \in Students, ComesDue(s) PROVE UNCHANGED Passback!passback
  <2>1. rows' = [rows EXCEPT ![s] = [rows[s] EXCEPT !.due = TRUE]] /\ UNCHANGED shown
    BY <1>4 DEF ComesDue, lms
  <2>2. /\ [rows[s] EXCEPT !.due = TRUE] \in Row
        /\ [rows[s] EXCEPT !.due = TRUE].state = rows[s].state
        /\ [rows[s] EXCEPT !.due = TRUE].score = rows[s].score
    BY <1>1 DEF Row
  <2>3. QED
    BY <1>1, <2>1, <2>2, UnseenRowChange
<1>5. CASE Claim
  <2> DEFINE s == sender.student
             row == [rows[s] EXCEPT !.attempts = rows[s].attempts + 1, !.token = FreshToken,
                                    !.due = FALSE]
  <2>1. s \in Students /\ rows[s] \in Row
    BY <1>1, <1>5 DEF Claim, Active
  <2>2. rows[s].attempts + 1 \in Nat
    BY <2>1 DEF Row
  <2>3. FreshToken \in Tokens
    BY <1>5, FreshTokenIsFresh DEF Claim
  <2>4. row \in Row /\ row.state = rows[s].state /\ row.score = rows[s].score
    BY <2>1, <2>2, <2>3 DEF Row
  <2>5. rows' = [rows EXCEPT ![s] = row] /\ UNCHANGED shown
    BY <1>5 DEF Claim, lms
  <2> HIDE DEF row, s
  <2>6. QED
    BY <1>1, <2>1, <2>4, <2>5, UnseenRowChange
<1>6. CASE MarkSent /\ ClaimStands
  <2>1. PICK s \in Students : s = sender.student
    BY <1>1, <1>6 DEF MarkSent, Active
  <2> DEFINE row == [rows[s] EXCEPT !.state = "SENT", !.token = NoToken]
  <2>2. sender.pc = "posted" /\ rows[s] \in Row /\ rows[s].state = "PENDING"
    BY <1>1, <1>6, <2>1 DEF MarkSent, Active
  <2>3. row \in Row /\ row.state = "SENT" /\ row.score = rows[s].score
    BY <2>2 DEF Row, States
  <2>4. rows' = [rows EXCEPT ![s] = row] /\ UNCHANGED shown
    BY <1>6, <2>1 DEF MarkSent, lms
  <2>5. shown[s] = rows[s].score
    BY <1>6, <2>1, <2>2 DEF Inv, Delivery, AcceptedIsShown, SendsWhatIsQueued, AtWork
  <2> HIDE DEF row
  <2>6. Passback!Deliver(s)
    BY <1>1, <2>2, <2>3, <2>4, <2>5, SeenRowChange DEF Passback!Deliver
  <2>7. QED
    BY <2>6, EndIsAllowed
<1>7. CASE MarkFailed /\ ClaimStands
  <2>1. PICK s \in Students : s = sender.student
    BY <1>1, <1>7 DEF MarkFailed, Active
  <2> DEFINE state == IF IsExhausted \/ ~sender.retryable THEN "FAILED" ELSE "PENDING"
             row == [rows[s] EXCEPT !.state = state, !.token = NoToken, !.due = FALSE]
  <2>2. rows[s] \in Row /\ rows[s].state = "PENDING"
    BY <1>1, <1>7, <2>1 DEF MarkFailed, Active
  <2>3. state \in {"FAILED", "PENDING"}
    OBVIOUS
  <2>4. rows' = [rows EXCEPT ![s] = row] /\ UNCHANGED shown
    BY <1>7, <2>1 DEF MarkFailed, lms
  <2> HIDE DEF state
  <2>5. row \in Row /\ row.state = state /\ row.score = rows[s].score
    BY <2>2, <2>3 DEF Row, States
  <2> HIDE DEF row
  <2>6. CASE state = "PENDING"
    BY <1>1, <2>2, <2>4, <2>5, <2>6, UnseenRowChange
  <2>7. CASE state = "FAILED"
    <3>1. Passback!GiveUp(s)
      BY <1>1, <2>2, <2>4, <2>5, <2>7, SeenRowChange DEF Passback!GiveUp
    <3>2. QED
      BY <3>1, EndIsAllowed
  <2>8. QED
    BY <2>3, <2>6, <2>7
<1>8. CASE PostScore \/ \E retryable \in BOOLEAN : PostAnswerLost(retryable)
  <2>1. /\ sender.pc = "post" /\ UNCHANGED rows
        /\ shown' = [shown EXCEPT ![sender.student] = sender.score]
    BY <1>8 DEF PostScore, PostAnswerLost, Accepts
  <2>2. QED
    BY <1>1, <2>1, ShownIsAllowed DEF Active, AtWork
<1>9. ASSUME NEW s \in Students, LateScoreArrives(s) PROVE Passback!Next
  <2>1. late[s] # Nothing /\ UNCHANGED rows /\ shown' = [shown EXCEPT ![s] = late[s]]
    BY <1>9 DEF LateScoreArrives, LateColumnArrives
  <2>2. late[s] \in Scores
    BY <1>1, <2>1 DEF TypeInv, LmsOK
  <2>3. rows[s].state # "none" /\ rows[s].state # "SENT"
    BY <2>1 DEF Inv, Delivery, SentIsLast, LateWasQueued
  <2>4. rows[s].state \in {"PENDING", "FAILED"}
    BY <1>1, <2>3 DEF Row, States
  <2>5. QED
    BY <1>1, <2>1, <2>2, <2>4, ShownIsAllowed
<1>10. QED
  <2>1. CASE LmsTrouble
    BY <2>1, <1>2, <1>8
    DEF LmsTrouble, FailsBeforeTheColumn, CorrectionAnswerLost, CreationAnswerLost, CreationIsLate, PostFails,
        PostIsLate, lms
  <2>2. CASE SenderStep
    BY <2>2, <1>2, <1>5, <1>6, <1>7, <1>8
    DEF SenderStep, SenderWakes, FindNext, NothingDue, ClaimMisses, ReadClaimed,
        ColumnIsKnown, CorrectColumn, FindColumn, FindNone, CreateColumn, MarkSent, MarkFailed, lms
  <2>3. CASE \E a \in {"auto", "button"} : PassStep(a) \/ PassThrows(a)
    BY <2>3, <1>2, <1>3
    DEF PassStep, PassReadsTotals, PassReadsRows, PassEnds, PassThrows, EndPass, lms
  <2>4. QED
    BY <2>1, <2>2, <2>3, <1>2, <1>4, <1>9
    DEF Next, vars, lms, Regrade, Reweigh, PressSend, LateColumnArrives, SendThrows, Crash

\* The queue and the LMS do what GradePassback allows: nothing is shown for a
\* student whose score reads SENT, and only what is shown is called delivered.
THEOREM PassbackImplemented == Spec => ImplementsPassback
<1>1. Inv /\ [Next]_vars => [Passback!Next]_(Passback!passback)
  BY StepsOfPassback
<1>2. QED
  BY <1>1, InvInit, InvNext, StartsAsPassback, PTL DEF Spec, ImplementsPassback, Passback!Spec

----------------------------------------------------------------------------
(* The budget.                                                             *)

Sending == {"claimed"} \cup AtWork

\* The send in progress holds the claim on the row of s.
ClaimedNow(s) ==
    /\ sender.pc \in Sending
    /\ sender.student = s
    /\ rows[s].token # NoToken
    /\ sender.pc # "claimed" => sender.token = rows[s].token

\* A pass the sender runs itself ends before the sender goes on.
SyncsFirst == passes["auto"].pc # "none" => sender.pc = "syncing"

\* A send knows which attempt it is.
KnowsTheAttempt ==
    sender.pc \in AtWork /\ ClaimStands => sender.attempts = rows[sender.student].attempts

\* A row that waits has an attempt left, except while its last one is under way.
HasAnAttemptLeft(s) ==
    /\ rows[s].attempts <= MAX_ATTEMPTS + lost
    /\ rows[s].state = "PENDING" /\ ~ClaimedNow(s) => rows[s].attempts < MAX_ATTEMPTS + lost

Budget == SyncsFirst /\ KnowsTheAttempt /\ \A s \in Students : HasAnAttemptLeft(s)

LEMMA SyncsFirstNext ==
    ASSUME TypeInv, SyncsFirst, [Next]_vars
    PROVE  SyncsFirst'
<1>1. passes \in [{"auto", "button"} -> Pass] /\ sender \in Sender
  BY DEF TypeInv, PassesOK, SenderOK
<1>2. CASE UNCHANGED <<passes, sender>>
  BY <1>2 DEF SyncsFirst
<1>3. CASE SenderWakes
  <2>1. CASE AutoSync /\ maximum > 0
    BY <1>1, <1>3, <2>1 DEF SenderWakes, SyncsFirst, Sender
  <2>2. CASE AutoSync /\ ~(maximum > 0)
    <3>1. passes'["auto"] = NoPass
      BY <1>1, <1>3, <2>2 DEF SenderWakes, StartedPass
    <3>2. QED
      BY <3>1, StartingRecords DEF SyncsFirst
  <2>3. CASE ~AutoSync
    BY <1>3, <2>3 DEF SenderWakes, SyncsFirst
  <2>4. QED
    BY <2>1, <2>2, <2>3
<1>4. ASSUME NEW S \in {Students} \cup {{s} : s \in Students}, PressSend(S) PROVE SyncsFirst'
  BY <1>1, <1>4 DEF PressSend, SyncsFirst
<1>5. ASSUME NEW a \in {"auto", "button"},
             PassReadsTotals(a) \/ PassReadsRows(a) \/ \E s \in Students : PassQueues(a, s)
      PROVE  SyncsFirst'
  <2>1. UNCHANGED sender /\ passes[a].pc # "none"
    BY <1>5 DEF PassReadsTotals, PassReadsRows, PassQueues
  <2>2. a # "auto" => passes'["auto"] = passes["auto"]
    BY <1>1, <1>5 DEF PassReadsTotals, PassReadsRows, PassQueues
  <2>3. QED
    BY <2>1, <2>2 DEF SyncsFirst
<1>6. ASSUME NEW a \in {"auto", "button"}, EndPass(a) PROVE SyncsFirst'
  <2>1. CASE a = "auto"
    BY <1>1, <1>6, <2>1, StartingRecords DEF EndPass, SyncsFirst
  <2>2. CASE a = "button"
    BY <1>1, <1>6, <2>2 DEF EndPass, SyncsFirst
  <2>3. QED
    BY <2>1, <2>2
<1>7. CASE Crash
  BY <1>1, <1>7, StartingRecords DEF Crash, SyncsFirst
<1>8. CASE UNCHANGED passes /\ sender.pc # "syncing"
  BY <1>8 DEF SyncsFirst
<1>9. QED
  <2>1. CASE LmsTrouble
    BY <2>1, <1>8
    DEF LmsTrouble, FailsBeforeTheColumn, CorrectionAnswerLost, CreationAnswerLost, CreationIsLate,
        PostAnswerLost, PostIsLate, PostFails
  <2>2. CASE SenderStep
    BY <2>2, <1>3, <1>8
    DEF SenderStep, FindNext, NothingDue, Claim, ClaimMisses, ReadClaimed,
        ColumnIsKnown, CorrectColumn, FindColumn, FindNone, CreateColumn, PostScore, MarkSent, MarkFailed
  <2>3. CASE \E a \in {"auto", "button"} : PassStep(a) \/ PassThrows(a)
    BY <2>3, <1>5, <1>6 DEF PassStep, PassEnds, PassThrows
  <2>4. QED
    BY <2>1, <2>2, <2>3, <1>2, <1>4, <1>7, <1>8
    DEF Next, vars, Regrade, Reweigh, ComesDue,
        LateScoreArrives, LateColumnArrives, SendThrows

\* A send that holds its claim gives it up on the row, or is lost and counted.
LEMMA ClaimIsGivenUp ==
    ASSUME TypeInv, SyncsFirst, [Next]_vars, NEW s \in Students, ClaimedNow(s), SenderRests
    PROVE  rows'[s].token = NoToken \/ lost' = lost + 1
<1>1. /\ sender \in Sender /\ sender' \in Sender /\ sender'.pc \notin Active
      /\ rows \in [Students -> Row] /\ sender.pc \in Sending /\ sender.student = s
  BY DEF TypeInv, SenderOK, RowsOK, SenderRests, ClaimedNow
<1>2. sender'.pc # sender.pc
  BY <1>1 DEF Active, Sending, AtWork
<1>3. passes["auto"].pc = "none"
  BY <1>1 DEF SyncsFirst, Sending, AtWork
<1>4. CASE MarkSent \/ MarkFailed
  <2>1. ClaimStands
    BY <1>1, <1>4 DEF MarkSent, MarkFailed, ClaimedNow, ClaimStands
  <2>2. QED
    BY <1>1, <1>4, <2>1 DEF MarkSent, MarkFailed, Row
<1>5. CASE SendThrows \/ Crash
  BY <1>5 DEF SendThrows, Crash, IsLost
<1>6. ~LmsTrouble
  BY <1>1 DEF LmsTrouble, FailsBeforeTheColumn, CorrectionAnswerLost, CreationAnswerLost, CreationIsLate,
              PostAnswerLost, PostIsLate, PostFails, Fails, Sender, Active
<1>7. CASE SenderStep
  BY <1>1, <1>4, <1>7
  DEF SenderStep, SenderWakes, FindNext, NothingDue, Claim, ClaimMisses, ReadClaimed,
      ColumnIsKnown, CorrectColumn, FindColumn, FindNone, CreateColumn, PostScore, Posts,
      Sender, Active, Sending, AtWork
<1>8. ~(\E a \in {"auto", "button"} : PassStep(a) \/ PassThrows(a))
  BY <1>2, <1>3
  DEF PassStep, PassReadsTotals, PassReadsRows, PassQueues, PassEnds, PassThrows, EndPass
<1>9. QED
  BY <1>2, <1>4, <1>5, <1>6, <1>7, <1>8
  DEF Next, vars, Regrade, Reweigh, PressSend, ComesDue, LateScoreArrives, LateColumnArrives

LEMMA KnowsTheAttemptNext ==
    ASSUME TypeInv, KnowsTheAttempt, [Next]_vars
    PROVE  KnowsTheAttempt'
<1> SUFFICES ASSUME sender'.pc \in AtWork, ClaimStands'
             PROVE  sender'.attempts = rows'[sender'.student].attempts
  BY DEF KnowsTheAttempt
<1>1. /\ sender \in Sender /\ rows \in [Students -> Row]
      /\ sender.pc \in Active => sender.student \in Students
  BY DEF TypeInv, SenderOK, RowsOK
<1>2. CASE UNCHANGED sender
  <2> DEFINE s == sender.student
  <2>1. s \in Students /\ rows[s] \in Row /\ sender.pc \in AtWork
    BY <1>1, <1>2 DEF Active, AtWork
  <2>2. rows'[s].token = sender.token /\ sender.token # NoToken
    BY <1>2 DEF ClaimStands
  <2>3. ASSUME NEW score \in Scores PROVE rows'[s] # QueuedRow(score)
    BY <2>2 DEF QueuedRow
  <2>4. \/ rows'[s] = rows[s]
        \/ rows'[s] = [rows[s] EXCEPT !.due = TRUE]
    BY <1>2, <2>1, <2>3, RowsMove DEF RowMove, AtWork
  <2>5. rows'[s].attempts = rows[s].attempts /\ rows'[s].token = rows[s].token
    BY <2>1, <2>4 DEF Row
  <2>6. ClaimStands
    BY <2>2, <2>5 DEF ClaimStands
  <2>7. QED
    BY <1>2, <2>1, <2>5, <2>6 DEF KnowsTheAttempt
<1>3. CASE ReadClaimed
  BY <1>1, <1>3 DEF ReadClaimed, Sender
<1>4. ASSUME sender.pc \in {"column", "create", "post"}, UNCHANGED rows,
             NEW pc \in {"create", "post", "posted", "failed"}, NEW item \in Nat, NEW retryable \in BOOLEAN,
             \/ sender' = [sender EXCEPT !.pc = pc, !.item = item]
             \/ sender' = [sender EXCEPT !.pc = pc]
             \/ sender' = [sender EXCEPT !.pc = pc, !.retryable = retryable]
      PROVE  sender'.attempts = rows'[sender'.student].attempts
  <2>1. /\ sender'.student = sender.student /\ sender'.attempts = sender.attempts
        /\ sender'.token = sender.token
    BY <1>1, <1>4 DEF Sender
  <2>2. QED
    BY <1>4, <2>1 DEF KnowsTheAttempt, ClaimStands, AtWork
<1>5. CASE SenderRests \/ sender' = [sender EXCEPT !.pc = "claimed"]
  BY <1>1, <1>5 DEF SenderRests, Active, AtWork, Sender
<1>6. CASE \E s \in Students : FindNext(s)
  BY <1>1, <1>6 DEF FindNext, AtWork, Sender
<1>7. QED
  BY SenderMoves, <1>2, <1>3, <1>4, <1>5, <1>6 DEF SenderMove

LEMMA LostOnlyGrows ==
    ASSUME TypeInv, [Next]_vars
    PROVE  lost \in Nat /\ lost' \in Nat /\ lost' >= lost
<1>1. lost \in Nat /\ (lost' = lost \/ lost' = lost + 1)
  <2>1. CASE HasTrouble \/ IsLost \/ IsPress \/ IsChange \/ UNCHANGED bounds
    BY <2>1 DEF TypeInv, RestOK, HasTrouble, IsLost, IsPress, IsChange, bounds
  <2>2. CASE LmsTrouble
    BY <2>2, <2>1
    DEF LmsTrouble, FailsBeforeTheColumn, CorrectionAnswerLost, CreationAnswerLost, CreationIsLate,
        PostAnswerLost, PostIsLate, PostFails
  <2>3. CASE SenderStep
    BY <2>3, <2>1
    DEF SenderStep, SenderWakes, FindNext, NothingDue, Claim, ClaimMisses, ReadClaimed,
        ColumnIsKnown, CorrectColumn, FindColumn, FindNone, CreateColumn, PostScore, MarkSent, MarkFailed
  <2>4. CASE \E a \in {"auto", "button"} : PassStep(a) \/ PassThrows(a)
    BY <2>4, <2>1
    DEF PassStep, PassReadsTotals, PassReadsRows, PassQueues, PassEnds, PassThrows
  <2>5. QED
    BY <2>1, <2>2, <2>3, <2>4
    DEF Next, vars, bounds, Regrade, Reweigh, PressSend, ComesDue,
        LateScoreArrives, LateColumnArrives, SendThrows, Crash
<1>2. QED
  BY <1>1

\* The claim of a send stays on its row until the send rests.
LEMMA ClaimIsKept ==
    ASSUME TypeInv, [Next]_vars, NEW s \in Students, ClaimedNow(s), ~SenderRests,
           rows'[s].token = rows[s].token
    PROVE  ClaimedNow(s)'
<1>1. /\ sender \in Sender /\ sender.pc \in Sending /\ sender.student = s
      /\ rows[s].token # NoToken /\ (sender.pc # "claimed" => sender.token = rows[s].token)
  BY DEF TypeInv, SenderOK, ClaimedNow
<1>2. CASE UNCHANGED sender
  BY <1>1, <1>2 DEF ClaimedNow
<1>3. CASE ReadClaimed
  <2>1. /\ sender'.pc = "column" /\ sender'.student = sender.student
        /\ sender'.token = rows[s].token
    BY <1>1, <1>3 DEF ReadClaimed, Sender
  <2>2. QED
    BY <1>1, <2>1 DEF ClaimedNow, Sending, AtWork
<1>4. ASSUME sender.pc \in {"column", "create", "post"},
             NEW pc \in {"create", "post", "posted", "failed"}, NEW item \in Nat, NEW retryable \in BOOLEAN,
             \/ sender' = [sender EXCEPT !.pc = pc, !.item = item]
             \/ sender' = [sender EXCEPT !.pc = pc]
             \/ sender' = [sender EXCEPT !.pc = pc, !.retryable = retryable]
      PROVE  ClaimedNow(s)'
  <2>1. /\ sender'.student = sender.student /\ sender'.token = sender.token /\ sender'.pc = pc
    BY <1>1, <1>4 DEF Sender
  <2>2. QED
    BY <1>1, <1>4, <2>1 DEF ClaimedNow, Sending, AtWork
<1>5. ~(\E j \in Students : FindNext(j)) /\ sender.pc # "found"
  BY <1>1 DEF FindNext, Sending, AtWork
<1>6. QED
  BY SenderMoves, <1>2, <1>3, <1>4, <1>5 DEF SenderMove

LEMMA HasAnAttemptLeftNext ==
    ASSUME TypeInv, Budget, [Next]_vars, NEW s \in Students
    PROVE  HasAnAttemptLeft(s)'
<1>1. /\ rows[s] \in Row /\ rows[s].attempts \in Nat /\ rows'[s] \in Row
      /\ MAX_ATTEMPTS \in Nat \ {0} /\ sender \in Sender
  BY RowsStayOK, LimitsAssumption DEF TypeInv, RowsOK, SenderOK, Row
<1>2. lost \in Nat /\ lost' \in Nat /\ lost' >= lost
  BY LostOnlyGrows
<1>3. HasAnAttemptLeft(s)
  BY DEF Budget
<1>4. ASSUME NEW score \in Scores, rows'[s] = QueuedRow(score) PROVE HasAnAttemptLeft(s)'
  <2>1. rows'[s].attempts = 0
    BY <1>4 DEF QueuedRow
  <2>2. 0 < MAX_ATTEMPTS + lost' /\ 0 <= MAX_ATTEMPTS + lost'
    <3> DEFINE l == lost'
    <3>1. MAX_ATTEMPTS \in Nat /\ MAX_ATTEMPTS # 0 /\ l \in Nat
      BY <1>2, LimitsAssumption
    <3> HIDE DEF l
    <3>2. 0 < MAX_ATTEMPTS + l /\ 0 <= MAX_ATTEMPTS + l
      BY <3>1
    <3>3. QED
      BY <3>2 DEF l
  <2>3. QED
    BY <2>1, <2>2 DEF HasAnAttemptLeft
<1>5. CASE /\ sender.pc = "found" /\ sender'.pc = "claimed"
           /\ sender.student = s /\ sender'.student = s /\ MayClaim
           /\ \E t \in Tokens : IsFresh(t)
           /\ rows'[s] = [rows[s] EXCEPT !.attempts = rows[s].attempts + 1, !.token = FreshToken,
                                         !.due = FALSE]
  <2>1. FreshToken # NoToken /\ rows[s].state = "PENDING"
    BY <1>5, FreshTokenIsFresh, TokensAssumption DEF MayClaim, Due
  <2>2. ~ClaimedNow(s)
    BY <1>5 DEF ClaimedNow, Sending, AtWork
  <2>3. rows'[s].attempts = rows[s].attempts + 1 /\ rows'[s].token = FreshToken
    BY <1>1, <1>5 DEF Row
  <2>4. ClaimedNow(s)'
    BY <1>5, <2>1, <2>3 DEF ClaimedNow, Sending
  <2>5. rows[s].attempts < MAX_ATTEMPTS + lost
    BY <1>3, <2>1, <2>2 DEF HasAnAttemptLeft
  <2>6. rows'[s].attempts <= MAX_ATTEMPTS + lost'
    BY <1>1, <1>2, <2>3, <2>5
  <2>7. QED
    BY <2>4, <2>6 DEF HasAnAttemptLeft
<1>6. CASE rows'[s] = [rows[s] EXCEPT !.state = "SENT", !.token = NoToken]
  <2>1. rows'[s].attempts = rows[s].attempts /\ rows'[s].state = "SENT"
    BY <1>1, <1>6 DEF Row
  <2>2. QED
    BY <1>1, <1>2, <1>3, <2>1 DEF HasAnAttemptLeft
<1>7. ASSUME NEW state \in {"FAILED", "PENDING"}, state = "PENDING" => ~IsExhausted,
             sender.pc = "failed", sender.student = s, ClaimStands,
             rows'[s] = [rows[s] EXCEPT !.state = state, !.token = NoToken, !.due = FALSE]
      PROVE  HasAnAttemptLeft(s)'
  <2>1. rows'[s].attempts = rows[s].attempts /\ rows'[s].state = state
    BY <1>1, <1>7 DEF Row
  <2>2. sender.attempts = rows[s].attempts
    BY <1>7 DEF Budget, KnowsTheAttempt, AtWork
  <2>3. state = "PENDING" => rows[s].attempts < MAX_ATTEMPTS
    BY <1>1, <1>7, <2>2 DEF IsExhausted
  <2>4. QED
    BY <1>1, <1>2, <1>3, <2>1, <2>3 DEF HasAnAttemptLeft
<1>8. CASE \/ rows'[s] = rows[s]
           \/ rows[s].state = "PENDING" /\ rows'[s] = [rows[s] EXCEPT !.due = TRUE]
  <2>1. /\ rows'[s].attempts = rows[s].attempts /\ rows'[s].state = rows[s].state
        /\ rows'[s].token = rows[s].token
    BY <1>1, <1>8 DEF Row
  <2>2. CASE ~ClaimedNow(s)
    BY <1>1, <1>2, <1>3, <2>1, <2>2 DEF HasAnAttemptLeft
  <2>3. CASE ClaimedNow(s) /\ SenderRests
    <3>1. lost' = lost + 1
      BY <2>1, <2>3, ClaimIsGivenUp DEF Budget, ClaimedNow
    <3>2. QED
      BY <1>1, <1>2, <1>3, <2>1, <3>1 DEF HasAnAttemptLeft
  <2>4. CASE ClaimedNow(s) /\ ~SenderRests
    <3>1. ClaimedNow(s)'
      BY <2>1, <2>4, ClaimIsKept
    <3>2. QED
      BY <1>1, <1>2, <1>3, <2>1, <3>1 DEF HasAnAttemptLeft
  <2>5. QED
    BY <2>2, <2>3, <2>4
<1>9. RowMove(s)
  BY RowsMove
<1>10. QED
  BY <1>4, <1>5, <1>6, <1>7, <1>8, <1>9 DEF RowMove

LEMMA BudgetInit == Init => Budget
<1> SUFFICES ASSUME Init PROVE Budget
  OBVIOUS
<1>1. /\ sender.pc = "start" /\ passes["auto"].pc = "none" /\ lost = 0
      /\ \A s \in Students : rows[s].state = "none" /\ rows[s].attempts = 0
  BY StartingRecords DEF Init, NoRow
<1>2. QED
  BY <1>1, LimitsAssumption DEF Budget, SyncsFirst, KnowsTheAttempt, HasAnAttemptLeft, AtWork

LEMMA BudgetNext == TypeInv /\ Budget /\ [Next]_vars => Budget'
<1> SUFFICES ASSUME TypeInv, Budget, [Next]_vars PROVE Budget'
  OBVIOUS
<1>1. SyncsFirst' /\ KnowsTheAttempt'
  BY SyncsFirstNext, KnowsTheAttemptNext DEF Budget
<1>2. \A s \in Students : HasAnAttemptLeft(s)'
  BY HasAnAttemptLeftNext
<1>3. QED
  BY <1>1, <1>2 DEF Budget

\* A score goes past its budget only by the sends that recorded nothing.
THEOREM BudgetHolds == Spec => []AttemptsWithinBudget
<1>1. Budget => AttemptsWithinBudget
  BY DEF Budget, HasAnAttemptLeft, AttemptsWithinBudget
<1>2. QED
  BY <1>1, TypeInvHolds, BudgetInit, BudgetNext, PTL DEF Spec

----------------------------------------------------------------------------
(* What the column is worth.                                               *)

\* No answer to a request that makes or changes the column is lost.
HeardOfTheColumn ==
    \A retryable \in BOOLEAN : /\ ~CorrectionAnswerLost(retryable)
        /\ ~CreationAnswerLost(retryable)
        /\ ~CreationIsLate(retryable)

\* What is remembered of the column is what the LMS has, and a score goes to a
\* column that is worth what the score is out of.
ColumnInv ==
    /\ remembered.url = 0 \/ sender.pc = "create" => columns = <<>>
    /\ remembered.url # 0 =>
         remembered.url \in 1 .. Len(columns) /\ columns[remembered.url].max = remembered.max
    /\ sender.pc = "post" =>
         sender.item \in 1 .. Len(columns) /\ columns[sender.item].max = sender.score.max

LEMMA PostingIsAtTheItem ==
    ASSUME TypeInv, NEW item \in Nat, Posts(item)
    PROVE  sender'.item = item /\ sender'.score = sender.score
BY DEF TypeInv, SenderOK, Sender, Posts

\* Whoever does not find, make or change the column leaves what is known of it.
LEMMA OthersKeepTheColumn ==
    ASSUME TypeInv, ColumnInv, UNCHANGED <<columns, remembered>>,
           sender' = sender \/ sender'.pc \notin {"create", "post"}
    PROVE  ColumnInv'
BY DEF ColumnInv

LEMMA ColumnInvNext ==
    ASSUME TypeInv, ColumnInv, [Next]_vars, [HeardOfTheColumn]_vars
    PROVE  ColumnInv'
<1>1. /\ sender \in Sender /\ columns \in Seq(Column)
      /\ remembered \in [url : Nat, max : Maxima \cup {0}]
  BY DEF TypeInv, SenderOK, LmsOK
<1>2. CASE ColumnIsKnown
  <2>1. /\ sender'.item = remembered.url /\ sender'.score = sender.score
        /\ sender'.pc = "post"
    BY <1>1, <1>2, PostingIsAtTheItem DEF ColumnIsKnown, Posts, Sender
  <2>2. QED
    BY <1>2, <2>1 DEF ColumnIsKnown, ColumnInv, lms
<1>3. CASE CorrectColumn
  <2> DEFINE i == remembered.url
             worth == sender.score.max
  <2>1. sender'.item = i /\ sender'.score.max = worth /\ sender'.pc = "post"
    BY <1>1, <1>3, PostingIsAtTheItem DEF CorrectColumn, Posts, Sender
  <2>2. i \in 1 .. Len(columns) /\ i # 0 /\ columns' = [columns EXCEPT ![i].max = worth]
    BY <1>3 DEF CorrectColumn, NeedsCorrection, ColumnInv
  <2>3. remembered'.url = i /\ remembered'.max = worth
    BY <1>1, <1>3 DEF CorrectColumn
  <2>4. worth \in Maxima
    BY <1>3 DEF CorrectColumn, TypeInv, SenderOK, AtWork, Scores
  <2> HIDE DEF i, worth
  <2>5. Len(columns') = Len(columns) /\ columns'[i].max = worth
    BY <1>1, <2>2, <2>4, ColumnIsChanged
  <2>6. QED
    BY <2>1, <2>2, <2>3, <2>5 DEF ColumnInv
<1>4. ASSUME NEW item \in 1 .. Len(columns), FindColumn(item) PROVE FALSE
  <2>1. columns = <<>>
    BY <1>4 DEF FindColumn, ColumnInv
  <2>2. QED
    BY <1>1, <2>1
<1>5. CASE FindNone \/ \E item \in 1 .. Len(columns) + 1 : CreateColumn(item)
  <2>1. ASSUME NEW item \in 1 .. Len(columns) + 1, CreateColumn(item) PROVE ColumnInv'
    <3> DEFINE worth == sender.score.max
    <3>1. sender.pc = "create" /\ columns = <<>> /\ Len(columns) = 0 /\ item = 1
      BY <1>1, <2>1 DEF CreateColumn, ColumnInv
    <3>2. sender'.item = item /\ sender'.score.max = worth /\ sender'.pc = "post"
      BY <1>1, <2>1, PostingIsAtTheItem DEF CreateColumn, Posts, Sender
    <3>3. worth \in Maxima
      BY <3>1 DEF TypeInv, SenderOK, AtWork, Scores
    <3>4. Len(columns') = 1 /\ columns'[item].max = worth
      BY <1>1, <2>1, <3>1, <3>3, ColumnIsAsked DEF CreateColumn
    <3>5. remembered'.url = item /\ remembered'.max = worth
      BY <2>1 DEF CreateColumn
    <3> HIDE DEF worth
    <3>6. QED
      BY <3>1, <3>2, <3>4, <3>5 DEF ColumnInv
  <2>2. CASE FindNone
    <3>1. sender'.pc = "create" /\ UNCHANGED <<columns, remembered>> /\ remembered.url = 0
      BY <1>1, <2>2 DEF FindNone, MayCreate, lms, Sender
    <3>2. QED
      BY <3>1 DEF ColumnInv
  <2>3. QED
    BY <1>5, <2>1, <2>2
<1>6. ASSUME UNCHANGED <<columns, remembered>>, sender' = sender \/ sender'.pc \notin {"create", "post"}
      PROVE  ColumnInv'
  BY <1>6, OthersKeepTheColumn
<1>7. CASE LmsTrouble
  <2>1. PICK retryable \in BOOLEAN :
          \/ FailsBeforeTheColumn(retryable) \/ PostAnswerLost(retryable)
          \/ PostIsLate(retryable) \/ PostFails(retryable)
          \/ CorrectionAnswerLost(retryable) \/ CreationAnswerLost(retryable)
          \/ CreationIsLate(retryable)
    BY <1>7 DEF LmsTrouble
  <2>2. CASE \/ CorrectionAnswerLost(retryable) \/ CreationAnswerLost(retryable)
           \/ CreationIsLate(retryable)
    BY <1>6, <2>2 DEF HeardOfTheColumn, vars
  <2>3. CASE ~(\/ CorrectionAnswerLost(retryable) \/ CreationAnswerLost(retryable)
             \/ CreationIsLate(retryable))
    <3>1. Fails(retryable) /\ UNCHANGED <<columns, remembered>>
      BY <2>1, <2>3
      DEF FailsBeforeTheColumn, PostAnswerLost, PostIsLate, PostFails, Accepts, lms
    <3>2. sender'.pc = "failed"
      BY <1>1, <3>1 DEF Fails, Sender
    <3>3. QED
      BY <1>6, <3>1, <3>2
  <2>4. QED
    BY <2>2, <2>3
<1>8. CASE SenderStep
  <2>1. CASE SenderWakes \/ NothingDue \/ ClaimMisses \/ MarkSent \/ MarkFailed
    <3>1. sender'.pc \notin {"create", "post"}
      BY <2>1, SenderPutsDown DEF SenderRests, Active
    <3>2. QED
      BY <1>6, <2>1, <3>1 DEF SenderWakes, NothingDue, ClaimMisses, MarkSent, MarkFailed, lms
  <2>2. CASE Claim \/ ReadClaimed \/ PostScore \/ \E s \in Students : FindNext(s)
    <3>1. sender'.pc \in {"claimed", "column", "posted", "found"}
      BY <1>1, <2>2 DEF Claim, ReadClaimed, PostScore, FindNext, Sender
    <3>2. QED
      BY <1>6, <2>2, <3>1 DEF Claim, ReadClaimed, PostScore, FindNext, lms
  <2>3. QED
    BY <1>2, <1>3, <1>4, <1>5, <1>8, <2>1, <2>2 DEF SenderStep
<1>9. CASE SendThrows \/ Crash
  BY <1>6, <1>9, SenderPutsDown DEF SendThrows, Crash, SenderRests, Active, lms
<1>10. ASSUME NEW a \in {"auto", "button"}, PassStep(a) \/ PassThrows(a) PROVE ColumnInv'
  <2>1. sender' = sender \/ sender'.pc = "drain"
    BY <1>1, <1>10
    DEF PassStep, PassReadsTotals, PassReadsRows, PassQueues, PassEnds, PassThrows, EndPass, Sender
  <2>2. UNCHANGED <<columns, remembered>>
    BY <1>10
    DEF PassStep, PassReadsTotals, PassReadsRows, PassQueues, PassEnds, PassThrows, EndPass, lms
  <2>3. QED
    BY <1>6, <2>1, <2>2
<1>11. CASE UNCHANGED <<columns, remembered, sender>>
  BY <1>6, <1>11
<1>12. ASSUME NEW item \in 1 .. Len(columns), LateColumnArrives(item) PROVE ColumnInv'
  <2>1. /\ Len(columns') = Len(columns) /\ UNCHANGED <<remembered, sender>>
        /\ \A i \in 1 .. Len(columns) : columns'[i].max = columns[i].max
    BY <1>1, <1>12, ColumnIsListed DEF LateColumnArrives
  <2>2. columns # <<>>
    BY <1>1, <1>12
  <2>3. QED
    BY <2>1, <2>2 DEF ColumnInv
<1>13. QED
  BY <1>7, <1>8, <1>9, <1>10, <1>11, <1>12
  DEF Next, vars, lms, Regrade, Reweigh, PressSend, ComesDue, LateScoreArrives

\* A score is out of what its column is worth, through every change of the
\* points, failed post, late score, stop and restart, as long as the LMS answers
\* the requests that make or change the column (ensureLineItem).
THEOREM HeardColumnIsWorthTheScore ==
    Spec /\ [][HeardOfTheColumn]_vars => []ColumnIsWorthTheScore
<1>1. Init => ColumnInv
  BY StartingRecords DEF Init, ColumnInv, NoLineItem
<1>2. TypeInv /\ ColumnInv /\ [Next]_vars /\ [HeardOfTheColumn]_vars => ColumnInv'
  BY ColumnInvNext
<1>3. ColumnInv => ColumnIsWorthTheScore
  BY DEF ColumnInv, ColumnIsWorthTheScore
<1>4. QED
  BY <1>1, <1>2, <1>3, TypeInvHolds, PTL DEF Spec

=============================================================================
