-------------------------- MODULE MailQueue_proofs --------------------------
(***************************************************************************)
(* Theorems about MailQueue for every number of mails, links and resets    *)
(* and every number of faults.                                             *)
(***************************************************************************)
EXTENDS MailQueue, TLAPS

States == {"none", "PENDING", "SENT", "FAILED", "purged"}
MailRow == [state : States, attempts : Nat, due : BOOLEAN, body : BOOLEAN]
Link == [issued : BOOLEAN, used : BOOLEAN, expired : BOOLEAN]
Stages == {"drain", "claimed", "dead", "send", "sent", "failed"}
Sending == [pc : Stages, mail : Mails \cup {NoMail}, attempts : Nat, retryable : BOOLEAN]
Phases == {"new", "consume", "account", "password", "rest", "revoke", "commit", "done", "refused"}
ResetRecord == [pc : Phases, link : Mails \cup {NoMail}, saw : SUBSET Mails]

LEMMA TypeUnfolded ==
    TypeOK <=> /\ mails \in [Mails -> MailRow]
               /\ links \in [Mails -> Link]
               /\ active \in BOOLEAN
               /\ sender \in Sending
               /\ delivered \subseteq Mails
               /\ resets \in [Resets -> ResetRecord]
               /\ linkLock \in [Mails -> Resets \cup {Nobody}]
               /\ userLock \in Resets \cup {Nobody}
               /\ faults \in Nat
BY DEF TypeOK, States, MailRow, Link, Stages, Sending, Phases, ResetRecord

----------------------------------------------------------------------------
(* The queue: a mail that the sender has taken waits, and what waits has   *)
(* its body.                                                               *)

SenderHoldsAWaitingMail ==
    sender.pc # "drain" => sender.mail \in Mails /\ mails[sender.mail].state = "PENDING"

QueueInv ==
    /\ mails \in [Mails -> MailRow]
    /\ sender \in Sending
    /\ delivered \subseteq Mails
    /\ SenderHoldsAWaitingMail
    /\ BodyWhileWaiting

\* The steps that touch the queue, and what they do to it.
QueueStep ==
    \/ \E k \in Mails : RequestPasswordReset(k) \/ QueueNotice(k) \/ ComesDue(k)
    \/ PurgeSentMail
    \/ SenderStep
    \/ SenderTrouble

LEMMA OtherStepsLeaveTheQueue ==
    ASSUME [Next]_vars, ~QueueStep
    PROVE  UNCHANGED queue
<1> USE DEF queue, vars
<1>1. CASE \E k \in Mails : Expire(k)
  BY <1>1 DEF Expire
<1>2. CASE \E b \in BOOLEAN : SetActive(b)
  BY <1>2 DEF SetActive
<1>3. CASE \E r \in Resets : Reset(r)
  BY <1>3 DEF Reset, Follow, Consume, IsRefused, ReadAccount, SpendsTheLinkAlone, WritePassword,
              LooksForTheRest, RevokeTheRest, Commit, RollsBack
<1>4. CASE UNCHANGED vars
  BY <1>4
<1>5. QED
  BY <1>1, <1>2, <1>3, <1>4 DEF Next, QueueStep

LEMMA RowsWritten ==
    ASSUME NEW row \in MailRow
    PROVE  /\ Waiting \in MailRow
           /\ Purged \in MailRow
           /\ NoRow \in MailRow
           /\ [row EXCEPT !.due = TRUE] \in MailRow
           /\ [row EXCEPT !.due = FALSE] \in MailRow
           /\ [row EXCEPT !.attempts = @ + 1, !.due = FALSE] \in MailRow
           /\ Settled(row, "SENT") \in MailRow
           /\ Settled(row, "FAILED") \in MailRow
<1> USE DEF MailRow, States
<1>1. NoRow \in MailRow /\ Waiting \in MailRow
  BY DEF NoRow, Waiting
<1>2. Purged \in MailRow
  BY <1>1 DEF Purged
<1>3. [row EXCEPT !.due = TRUE] \in MailRow /\ [row EXCEPT !.due = FALSE] \in MailRow
  OBVIOUS
<1>4. [row EXCEPT !.attempts = @ + 1, !.due = FALSE] \in MailRow
  <2>1. row.attempts + 1 \in Nat
    OBVIOUS
  <2>2. QED
    BY <2>1
<1>5. Settled(row, "SENT") \in MailRow /\ Settled(row, "FAILED") \in MailRow
  BY DEF Settled
<1>6. QED
  BY <1>1, <1>2, <1>3, <1>4, <1>5

LEMMA AsleepIsSending == Asleep \in Sending /\ Asleep.pc = "drain"
BY DEF Asleep, Sending, Stages

LEMMA QueueInit == Init => QueueInv
<1> SUFFICES ASSUME Init PROVE QueueInv
  OBVIOUS
<1>1. NoRow \in MailRow /\ NoRow.state = "none" /\ NoRow.body = FALSE
  BY DEF NoRow, MailRow, States
<1>2. QED
  BY <1>1, AsleepIsSending DEF Init, QueueInv, SenderHoldsAWaitingMail, BodyWhileWaiting

LEMMA RecordKeepsTheQueue ==
    ASSUME QueueInv, sender.pc # "drain", NEW row \in MailRow, Record(row),
           row.body <=> row.state = "PENDING"
    PROVE  QueueInv'
<1>1. mails' \in [Mails -> MailRow]
  BY DEF QueueInv, Record
<1>2. sender' \in Sending /\ sender'.pc = "drain"
  BY AsleepIsSending DEF Record
<1>3. BodyWhileWaiting'
  BY DEF QueueInv, Record, BodyWhileWaiting
<1>4. QED
  BY <1>1, <1>2, <1>3 DEF QueueInv, Record, SenderHoldsAWaitingMail

LEMMA QueueSenderStep ==
    ASSUME QueueInv, SenderStep
    PROVE  QueueInv'
<1> USE DEF QueueInv
<1>1. ASSUME NEW k \in Mails, ClaimNextMail(k) PROVE QueueInv'
  <2> DEFINE row == [mails[k] EXCEPT !.attempts = @ + 1, !.due = FALSE]
  <2>0. mails[k] \in MailRow /\ mails[k].state = "PENDING"
    BY <1>1 DEF ClaimNextMail, Due
  <2>1. row \in MailRow /\ row.state = "PENDING" /\ (row.body <=> mails[k].body)
    <3>1. row \in MailRow
      BY <2>0, RowsWritten
    <3>2. QED
      BY <2>0, <3>1 DEF MailRow
  <2>2. mails' = [mails EXCEPT ![k] = row]
    BY <1>1 DEF ClaimNextMail, Claimed
  <2>3. sender' = [Asleep EXCEPT !.pc = "claimed", !.mail = k, !.attempts = row.attempts]
    BY <1>1 DEF ClaimNextMail, Claimed
  <2>4. row.attempts \in Nat
    BY <2>1 DEF MailRow
  <2> HIDE DEF row
  <2>5. sender' \in Sending /\ sender'.mail = k
    BY <2>3, <2>4 DEF Asleep, Sending, Stages
  <2>6. mails' \in [Mails -> MailRow] /\ mails'[k] = row
    BY <2>1, <2>2
  <2>7. BodyWhileWaiting'
    BY <1>1, <2>1, <2>2 DEF BodyWhileWaiting, ClaimNextMail, Due
  <2>8. QED
    BY <1>1, <2>1, <2>5, <2>6, <2>7 DEF ClaimNextMail, SenderHoldsAWaitingMail
<1>2. CASE CheckLink
  BY <1>2 DEF CheckLink, Sending, Stages, SenderHoldsAWaitingMail, BodyWhileWaiting
<1>3. CASE SendMail
  BY <1>3 DEF SendMail, Sending, Stages, SenderHoldsAWaitingMail, BodyWhileWaiting
<1>4. CASE MarkMailSent
  <2>1. sender.pc # "drain" /\ mails[sender.mail] \in MailRow
    BY <1>4 DEF MarkMailSent, SenderHoldsAWaitingMail
  <2>2. Settled(mails[sender.mail], "SENT").body = FALSE
        /\ Settled(mails[sender.mail], "SENT").state = "SENT"
    BY <2>1 DEF Settled, MailRow
  <2>3. QED
    BY <1>4, <2>1, <2>2, RowsWritten, RecordKeepsTheQueue DEF MarkMailSent
<1>5. CASE MarkMailFailed
  <2>1. /\ sender.pc # "drain" /\ mails[sender.mail] \in MailRow
        /\ mails[sender.mail].state = "PENDING" /\ mails[sender.mail].body
    BY <1>5 DEF MarkMailFailed, SenderHoldsAWaitingMail, BodyWhileWaiting
  <2>2. CASE OutOfTries \/ ~sender.retryable
    <3>1. Settled(mails[sender.mail], "FAILED").body = FALSE
          /\ Settled(mails[sender.mail], "FAILED").state = "FAILED"
      BY <2>1 DEF Settled, MailRow
    <3>2. QED
      BY <1>5, <2>1, <2>2, <3>1, RowsWritten, RecordKeepsTheQueue DEF MarkMailFailed
  <2>3. CASE ~(OutOfTries \/ ~sender.retryable)
    <3> DEFINE row == [mails[sender.mail] EXCEPT !.due = FALSE]
    <3>1. row \in MailRow /\ row.state = "PENDING" /\ row.body
      BY <2>1, RowsWritten DEF MailRow
    <3>2. Record(row)
      BY <1>5, <2>3 DEF MarkMailFailed
    <3> HIDE DEF row
    <3>3. QED
      BY <2>1, <3>1, <3>2, RecordKeepsTheQueue
  <2>4. QED
    BY <2>2, <2>3
<1>6. CASE AbandonMail
  <2>1. sender.pc # "drain" /\ mails[sender.mail] \in MailRow
    BY <1>6 DEF AbandonMail, SenderHoldsAWaitingMail
  <2>2. Settled(mails[sender.mail], "FAILED").body = FALSE
        /\ Settled(mails[sender.mail], "FAILED").state = "FAILED"
    BY <2>1 DEF Settled, MailRow
  <2>3. QED
    BY <1>6, <2>1, <2>2, RowsWritten, RecordKeepsTheQueue DEF AbandonMail
<1>7. QED
  BY <1>1, <1>2, <1>3, <1>4, <1>5, <1>6 DEF SenderStep

LEMMA QueueInvKept == QueueInv /\ [Next]_vars => QueueInv'
<1> SUFFICES ASSUME QueueInv, [Next]_vars PROVE QueueInv'
  OBVIOUS
<1> USE DEF QueueInv
<1>1. CASE ~QueueStep
  BY <1>1, OtherStepsLeaveTheQueue DEF queue, SenderHoldsAWaitingMail, BodyWhileWaiting
<1>2. ASSUME NEW k \in Mails, mails[k].state = "none", mails' = [mails EXCEPT ![k] = Waiting],
             UNCHANGED <<sender, delivered>>
      PROVE  QueueInv'
  <2>1. Waiting \in MailRow /\ Waiting.state = "PENDING" /\ Waiting.body
    BY DEF Waiting, MailRow, States
  <2>2. mails' \in [Mails -> MailRow]
    BY <1>2, <2>1
  <2>3. SenderHoldsAWaitingMail' /\ BodyWhileWaiting'
    BY <1>2, <2>1 DEF SenderHoldsAWaitingMail, BodyWhileWaiting
  <2>4. QED
    BY <1>2, <2>2, <2>3
<1>3. ASSUME NEW k \in Mails, ComesDue(k) PROVE QueueInv'
  <2> DEFINE row == [mails[k] EXCEPT !.due = TRUE]
  <2>0. mails[k] \in MailRow
    OBVIOUS
  <2>1. row \in MailRow /\ row.state = mails[k].state /\ row.body = mails[k].body
    <3>1. row \in MailRow
      BY <2>0, RowsWritten
    <3>2. QED
      BY <2>0, <3>1 DEF MailRow
  <2>2. mails' = [mails EXCEPT ![k] = row]
    BY <1>3 DEF ComesDue
  <2> HIDE DEF row
  <2>3. mails' \in [Mails -> MailRow]
    BY <2>1, <2>2
  <2>4. QED
    BY <1>3, <2>1, <2>2, <2>3 DEF ComesDue, SenderHoldsAWaitingMail, BodyWhileWaiting
<1>4. CASE PurgeSentMail
  <2>1. Purged \in MailRow /\ Purged.state = "purged" /\ Purged.body = FALSE
    BY DEF Purged, NoRow, MailRow, States
  <2>2. PICK S \in SUBSET {k \in Mails : mails[k].state \in {"SENT", "FAILED"}} :
             mails' = [k \in Mails |-> IF k \in S THEN Purged ELSE mails[k]]
    BY <1>4 DEF PurgeSentMail
  <2>3. mails' \in [Mails -> MailRow]
    BY <2>1, <2>2
  <2>4. SenderHoldsAWaitingMail' /\ BodyWhileWaiting'
    BY <1>4, <2>1, <2>2 DEF PurgeSentMail, SenderHoldsAWaitingMail, BodyWhileWaiting
  <2>5. QED
    BY <1>4, <2>3, <2>4 DEF PurgeSentMail
<1>5. CASE SenderTrouble
  <2>1. sender' \in Sending
    BY <1>5, AsleepIsSending
    DEF SenderTrouble, BodyUnreadable, SendFails, SenderDies, Sending, Stages
  <2>2. delivered' \subseteq Mails
    BY <1>5 DEF SenderTrouble, BodyUnreadable, SendFails, SenderDies, SenderHoldsAWaitingMail
  <2>3. mails' = mails
    BY <1>5 DEF SenderTrouble, BodyUnreadable, SendFails, SenderDies
  <2>4. sender'.pc = "drain" \/ (sender.pc # "drain" /\ sender'.mail = sender.mail)
    BY <1>5, AsleepIsSending
    DEF SenderTrouble, BodyUnreadable, SendFails, SenderDies, Sending, Stages
  <2>5. QED
    BY <2>1, <2>2, <2>3, <2>4 DEF SenderHoldsAWaitingMail, BodyWhileWaiting
<1>6. QED
  <2>1. ASSUME NEW k \in Mails, RequestPasswordReset(k) \/ QueueNotice(k)
        PROVE  QueueInv'
    BY <1>2, <2>1 DEF RequestPasswordReset, QueueNotice
  <2>2. QED
    BY <1>1, <1>3, <1>4, <1>5, <2>1, QueueSenderStep DEF QueueStep

\* A waiting mail has its body and a settled one has not, on every path that
\* records an outcome (markMailSent, markMailFailed, abandonMail).
THEOREM BodiesWait == Spec => []BodyWhileWaiting
<1>1. QueueInv => BodyWhileWaiting
  BY DEF QueueInv
<1>2. QED
  BY <1>1, QueueInit, QueueInvKept, PTL DEF Spec

LEMMA SettledStaysSettled ==
    ASSUME QueueInv, [Next]_vars, NEW k \in Mails, mails[k].state \in {"SENT", "FAILED"}
    PROVE  mails'[k] = mails[k] \/ mails'[k].state = "purged"
<1> USE DEF QueueInv
<1>1. CASE ~QueueStep
  BY <1>1, OtherStepsLeaveTheQueue DEF queue
<1>2. ASSUME NEW j \in Mails, RequestPasswordReset(j) \/ QueueNotice(j) \/ ComesDue(j) \/ ClaimNextMail(j)
      PROVE  mails'[k] = mails[k]
  BY <1>2 DEF RequestPasswordReset, QueueNotice, ComesDue, ClaimNextMail, Due
<1>3. CASE PurgeSentMail
  BY <1>3 DEF PurgeSentMail, Purged, NoRow
<1>4. CASE CheckLink \/ SendMail \/ SenderTrouble
  BY <1>4 DEF CheckLink, SendMail, SenderTrouble, BodyUnreadable, SendFails, SenderDies
<1>5. CASE MarkMailSent \/ MarkMailFailed \/ AbandonMail
  <2>1. sender.mail # k
    BY <1>5 DEF MarkMailSent, MarkMailFailed, AbandonMail, SenderHoldsAWaitingMail
  <2>2. QED
    BY <1>5, <2>1 DEF MarkMailSent, MarkMailFailed, AbandonMail, Record
<1>6. QED
  BY <1>1, <1>2, <1>3, <1>4, <1>5 DEF QueueStep, SenderStep

\* No step, of a sender that is late or of anybody else, changes a mail that
\* was sent or given up, other than its purge.
THEOREM SettledMailRests == Spec => SettledMailIsNotClaimed
<1>1. QueueInv /\ [Next]_vars =>
        [\A k \in Mails : mails[k].state \in {"SENT", "FAILED"} =>
            mails'[k] = mails[k] \/ mails'[k].state = "purged"]_vars
  BY SettledStaysSettled
<1>2. QED
  BY <1>1, QueueInit, QueueInvKept, PTL DEF Spec, SettledMailIsNotClaimed

----------------------------------------------------------------------------
(* The links and the resets.                                               *)

LocksAndRecords ==
    /\ links \in [Mails -> Link]
    /\ resets \in [Resets -> ResetRecord]
    /\ linkLock \in [Mails -> Resets \cup {Nobody}]
    /\ userLock \in Resets \cup {Nobody}

Holding == {"account", "password", "rest", "revoke", "commit"}

\* A link is issued once, with its mail.
IssuedWithTheMail == \A k \in Mails : mails[k].state = "none" => ~links[k].issued

FollowsALink(r) ==
    resets[r].pc \in Holding \cup {"consume", "done"} =>
        resets[r].link \in Mails /\ links[resets[r].link].issued

\* From its spending to the commit, the link is unspent for everybody else.
HoldsItsLink(r) ==
    resets[r].pc \in Holding =>
        linkLock[resets[r].link] = r /\ ~links[resets[r].link].used

HoldsTheUser(r) == resets[r].pc \in {"rest", "revoke", "commit"} => userLock = r

\* What it found unspent has its own link among it.
FoundTheRest(r) ==
    resets[r].pc \in {"revoke", "commit", "done"} =>
        /\ resets[r].link \in resets[r].saw
        /\ \A k \in resets[r].saw : links[k].issued

HoldsTheRest(r) ==
    resets[r].pc = "commit" => \A k \in resets[r].saw : links[k].used \/ linkLock[k] = r

SpentTheRest(r) == resets[r].pc = "done" => \A k \in resets[r].saw : links[k].used

ResetIs(r) ==
    /\ FollowsALink(r)
    /\ HoldsItsLink(r)
    /\ HoldsTheUser(r)
    /\ FoundTheRest(r)
    /\ HoldsTheRest(r)
    /\ SpentTheRest(r)

ResetInv ==
    /\ LocksAndRecords
    /\ \A r \in Resets : ResetIs(r)

LEMMA ResetInit == Init => IssuedWithTheMail /\ ResetInv
<1> SUFFICES ASSUME Init PROVE IssuedWithTheMail /\ ResetInv
  OBVIOUS
<1>1. NoLink \in Link /\ NoLink.issued = FALSE
  BY DEF NoLink, Link
<1>2. NewReset \in ResetRecord /\ NewReset.pc = "new"
  BY DEF NewReset, ResetRecord, Phases
<1>3. \A r \in Resets : ResetIs(r)
  BY <1>2 DEF Init, ResetIs, FollowsALink, HoldsItsLink, HoldsTheUser, FoundTheRest,
              HoldsTheRest, SpentTheRest, Holding
<1>4. QED
  BY <1>1, <1>2, <1>3 DEF Init, ResetInv, LocksAndRecords, IssuedWithTheMail

LEMMA NoMailIsUnqueued ==
    ASSUME QueueInv, [Next]_vars, NEW k \in Mails, mails'[k].state = "none"
    PROVE  mails[k].state = "none" /\ mails'[k] = mails[k]
<1> USE DEF QueueInv
<1>1. CASE ~QueueStep
  BY <1>1, OtherStepsLeaveTheQueue DEF queue
<1>2. ASSUME NEW j \in Mails, RequestPasswordReset(j) \/ QueueNotice(j)
      PROVE  mails'[k] = mails[k]
  BY <1>2 DEF RequestPasswordReset, QueueNotice, Waiting
<1>3. ASSUME NEW j \in Mails, ComesDue(j) PROVE mails'[k] = mails[k]
  BY <1>3 DEF ComesDue, MailRow
<1>4. ASSUME NEW j \in Mails, ClaimNextMail(j) PROVE mails'[k] = mails[k]
  BY <1>4 DEF ClaimNextMail, Due, Claimed, MailRow
<1>5. CASE PurgeSentMail
  BY <1>5 DEF PurgeSentMail, Purged, NoRow
<1>6. CASE CheckLink \/ SendMail \/ SenderTrouble
  BY <1>6 DEF CheckLink, SendMail, SenderTrouble, BodyUnreadable, SendFails, SenderDies
<1>7. CASE MarkMailSent \/ MarkMailFailed \/ AbandonMail
  <2>1. sender.mail \in Mails /\ mails[sender.mail] \in MailRow /\ mails[sender.mail].state = "PENDING"
    BY <1>7 DEF MarkMailSent, MarkMailFailed, AbandonMail, SenderHoldsAWaitingMail
  <2>2. sender.mail # k
    <3>1. \A row \in MailRow : /\ Settled(row, "SENT").state = "SENT"
                              /\ Settled(row, "FAILED").state = "FAILED"
                              /\ [row EXCEPT !.due = FALSE].state = row.state
      BY DEF Settled, MailRow
    <3>2. QED
      BY <1>7, <2>1, <3>1 DEF MarkMailSent, MarkMailFailed, AbandonMail, Record
  <2>3. QED
    BY <1>7, <2>2 DEF MarkMailSent, MarkMailFailed, AbandonMail, Record
<1>8. QED
  BY <1>1, <1>2, <1>3, <1>4, <1>5, <1>6, <1>7 DEF QueueStep, SenderStep

LEMMA IssuedWithTheMailKept ==
    ASSUME QueueInv, IssuedWithTheMail, LocksAndRecords, [Next]_vars
    PROVE  IssuedWithTheMail'
<1> SUFFICES ASSUME NEW k \in Mails, mails'[k].state = "none" PROVE ~links'[k].issued
  BY DEF IssuedWithTheMail
<1>1. mails[k].state = "none" /\ mails'[k] = mails[k] /\ ~links[k].issued
  BY NoMailIsUnqueued DEF IssuedWithTheMail
<1>2. ASSUME NEW j \in Mails, RequestPasswordReset(j) PROVE j # k
  BY <1>1, <1>2 DEF RequestPasswordReset, Waiting, QueueInv
<1>3. ASSUME NEW j \in Mails, RequestPasswordReset(j) PROVE ~links'[k].issued
  BY <1>1, <1>2, <1>3 DEF RequestPasswordReset, LocksAndRecords
<1>4. ASSUME ~(\E j \in Mails : RequestPasswordReset(j)) PROVE links'[k].issued = links[k].issued
  <2>1. CASE UNCHANGED links
    BY <2>1
  <2>2. ASSUME NEW j \in Mails, Expire(j) PROVE links'[k].issued = links[k].issued
    BY <2>2 DEF Expire, LocksAndRecords, Link
  <2>3. ASSUME NEW r \in Resets, SpendsTheLinkAlone(r) PROVE links'[k].issued = links[k].issued
    BY <2>3 DEF SpendsTheLinkAlone, LocksAndRecords, Link
  <2>4. ASSUME NEW r \in Resets, Commit(r) PROVE links'[k].issued = links[k].issued
    BY <2>4 DEF Commit, LocksAndRecords, Link
  <2>5. CASE \E r \in Resets : Reset(r)
    BY <2>1, <2>3, <2>4, <2>5
    DEF Reset, Follow, Consume, IsRefused, ReadAccount, WritePassword, LooksForTheRest, RevokeTheRest,
        RollsBack
  <2>6. QED
    BY <1>4, <2>1, <2>2, <2>5
    DEF Next, vars, locks, queue, QueueNotice, ComesDue, SetActive,
        PurgeSentMail, SenderStep, ClaimNextMail, CheckLink, SendMail, MarkMailSent, MarkMailFailed,
        AbandonMail, Record, SenderTrouble, BodyUnreadable, SendFails, SenderDies
<1>5. QED
  BY <1>1, <1>3, <1>4

----------------------------------------------------------------------------
(* What a reset that does not move needs from a step of another.           *)

\* The links it knows stay as they were for it, and so do its locks.
LeavesAlone(r) ==
    /\ resets'[r] = resets[r]
    /\ \A k \in Mails : links[k].issued => links'[k].issued /\ (links[k].used => links'[k].used)
    /\ HoldsItsLink(r)'
    /\ userLock = r => userLock' = r
    /\ HoldsTheRest(r)'

LEMMA AnUndisturbedReset ==
    ASSUME LocksAndRecords, NEW r \in Resets, ResetIs(r), LeavesAlone(r)
    PROVE  ResetIs(r)'
<1>1. resets[r].saw \subseteq Mails
  BY DEF LocksAndRecords, ResetRecord
<1>2. FollowsALink(r)'
  BY DEF ResetIs, FollowsALink, LeavesAlone
<1>3. HoldsTheUser(r)'
  BY DEF ResetIs, HoldsTheUser, LeavesAlone
<1>4. FoundTheRest(r)'
  BY <1>1 DEF ResetIs, FoundTheRest, LeavesAlone
<1>5. SpentTheRest(r)'
  BY <1>1 DEF ResetIs, FoundTheRest, SpentTheRest, LeavesAlone
<1>6. QED
  BY <1>2, <1>3, <1>4, <1>5 DEF ResetIs, LeavesAlone

\* Nothing but resets takes a lock or spends a link.
LEMMA OtherStepsLeaveTheResets ==
    ASSUME IssuedWithTheMail, ResetInv, [Next]_vars, ~(\E r \in Resets : Reset(r))
    PROVE  ResetInv'
<1> USE DEF ResetInv
<1>1. /\ UNCHANGED <<resets, linkLock, userLock>>
      /\ \/ links' = links
         \/ \E k \in Mails : links' = [links EXCEPT ![k].expired = TRUE]
         \/ \E k \in Mails : mails[k].state = "none" /\ links' = [links EXCEPT ![k] = FreshLink]
                            /\ mails' = [mails EXCEPT ![k] = Waiting]
  BY DEF Next, vars, locks, queue, RequestPasswordReset, QueueNotice, Expire, ComesDue, SetActive,
         PurgeSentMail, SenderStep, ClaimNextMail, CheckLink, SendMail, MarkMailSent, MarkMailFailed,
         AbandonMail, Record, SenderTrouble, BodyUnreadable, SendFails, SenderDies
<1>2. FreshLink \in Link /\ FreshLink.issued
  BY DEF FreshLink, Link
<1>3. links' \in [Mails -> Link]
  BY <1>1, <1>2 DEF LocksAndRecords, Link
<1>4. \A k \in Mails : links[k].issued => links'[k].issued /\ links'[k].used = links[k].used
  BY <1>1 DEF LocksAndRecords, Link, IssuedWithTheMail
<1>5. LocksAndRecords'
  BY <1>1, <1>3 DEF LocksAndRecords
<1>6. ASSUME NEW r \in Resets PROVE ResetIs(r)'
  <2>1. HoldsItsLink(r)'
    BY <1>1, <1>4 DEF ResetIs, HoldsItsLink, FollowsALink
  <2>2. resets[r].saw \subseteq Mails
    BY DEF LocksAndRecords, ResetRecord
  <2>3. HoldsTheRest(r)'
    BY <1>1, <1>4, <2>2 DEF ResetIs, HoldsTheRest, FoundTheRest
  <2>4. LeavesAlone(r)
    BY <1>1, <1>4, <2>1, <2>3 DEF LeavesAlone
  <2>5. QED
    BY <2>4, AnUndisturbedReset
<1>7. QED
  BY <1>5, <1>6

----------------------------------------------------------------------------
(* The steps of a reset.                                                   *)

LEMMA OneRecordMoves ==
    ASSUME LocksAndRecords, NEW r \in Resets, NEW phase \in Phases, Ends(r, phase)
    PROVE  /\ resets' \in [Resets -> ResetRecord]
           /\ resets'[r].pc = phase
           /\ resets'[r].link = resets[r].link
           /\ resets'[r].saw = resets[r].saw
           /\ \A q \in Resets \ {r} : resets'[q] = resets[q]
<1> DEFINE new == [resets[r] EXCEPT !.pc = phase]
<1>1. resets[r] \in ResetRecord
  BY DEF LocksAndRecords
<1>2. new \in ResetRecord /\ new.pc = phase /\ new.link = resets[r].link /\ new.saw = resets[r].saw
  BY <1>1 DEF ResetRecord
<1>3. resets' = [resets EXCEPT ![r] = new]
  BY DEF Ends, LocksAndRecords
<1> HIDE DEF new
<1>4. QED
  BY <1>2, <1>3 DEF LocksAndRecords

LEMMA ARefusedReset ==
    ASSUME LocksAndRecords, NEW r \in Resets, Refused(r)
    PROVE  /\ resets' \in [Resets -> ResetRecord]
           /\ ResetIs(r)'
           /\ \A q \in Resets \ {r} : resets'[q] = resets[q]
<1> DEFINE new == [NewReset EXCEPT !.pc = "refused"]
<1>1. new \in ResetRecord /\ new.pc = "refused"
  BY DEF ResetRecord, NewReset, Phases
<1>2. resets' = [resets EXCEPT ![r] = new]
  BY DEF Refused
<1> HIDE DEF new
<1>3. resets' \in [Resets -> ResetRecord] /\ resets'[r].pc = "refused"
  BY <1>1, <1>2 DEF LocksAndRecords
<1>4. ResetIs(r)'
  BY <1>3 DEF ResetIs, FollowsALink, HoldsItsLink, HoldsTheUser, FoundTheRest, HoldsTheRest,
              SpentTheRest, Holding
<1>5. QED
  BY <1>2, <1>3, <1>4 DEF LocksAndRecords

\* Letting go of its locks is nothing to the others.
LEMMA ReleaseIsTyped ==
    ASSUME LocksAndRecords, NEW r \in Resets, Release(r)
    PROVE  /\ linkLock' \in [Mails -> Resets \cup {Nobody}]
           /\ userLock' \in Resets \cup {Nobody}
           /\ \A q \in Resets \ {r}, k \in Mails : linkLock[k] = q => linkLock'[k] = q
           /\ \A q \in Resets \ {r} : userLock = q => userLock' = q
BY DEF LocksAndRecords, Release

\* A step that keeps the locks and the links of q keeps q.
LEMMA AnotherReset ==
    ASSUME LocksAndRecords, NEW q \in Resets, ResetIs(q), resets'[q] = resets[q],
           \A k \in Mails : links[k].issued => links'[k].issued /\ (links[k].used => links'[k].used),
           \A k \in Mails : linkLock[k] = q => linkLock'[k] = q,
           userLock = q => userLock' = q,
           resets[q].pc \in Holding => ~links'[resets[q].link].used
    PROVE  ResetIs(q)'
<1>1. HoldsItsLink(q)'
  BY DEF ResetIs, HoldsItsLink, FollowsALink
<1>2. resets[q].saw \subseteq Mails
  BY DEF LocksAndRecords, ResetRecord
<1>3. HoldsTheRest(q)'
  BY <1>2 DEF ResetIs, HoldsTheRest, FoundTheRest
<1>4. QED
  BY <1>1, <1>3, AnUndisturbedReset DEF LeavesAlone

LEMMA StepBeforeTheRest ==
    ASSUME ResetInv, NEW r \in Resets,
           \/ \E k \in Mails : Follow(r, k)
           \/ Consume(r) \/ ReadAccount(r) \/ WritePassword(r)
    PROVE  ResetInv'
<1> USE DEF ResetInv, LocksAndRecords
<1>0. Nobody \notin Resets
  BY NamesAssumption
<1>1. ASSUME NEW k \in Mails, Follow(r, k) PROVE ResetInv'
  <2> DEFINE new == [NewReset EXCEPT !.pc = "consume", !.link = k]
  <2>1. new \in ResetRecord /\ new.pc = "consume" /\ new.link = k
    BY DEF ResetRecord, NewReset, Phases
  <2>2. resets' = [resets EXCEPT ![r] = new] /\ links[k].issued
    BY <1>1 DEF Follow
  <2> HIDE DEF new
  <2>3. UNCHANGED <<links, linkLock, userLock>>
    BY <1>1 DEF Follow, locks
  <2>4. resets' \in [Resets -> ResetRecord] /\ resets'[r] = new
        /\ \A q \in Resets \ {r} : resets'[q] = resets[q]
    BY <2>1, <2>2
  <2>5. ResetIs(r)'
    BY <2>1, <2>2, <2>3, <2>4
    DEF ResetIs, FollowsALink, HoldsItsLink, HoldsTheUser, FoundTheRest, HoldsTheRest, SpentTheRest,
        Holding
  <2>6. ASSUME NEW q \in Resets \ {r} PROVE ResetIs(q)'
    BY <2>3, <2>4, AnotherReset DEF ResetIs, HoldsItsLink
  <2>7. QED
    BY <2>3, <2>4, <2>5, <2>6
<1>2. CASE Consume(r)
  <2>0. resets[r].link \in Mails /\ resets[r].pc = "consume"
    BY <1>2 DEF Consume, ResetIs, FollowsALink
  <2>1. Ends(r, "account") /\ "account" \in Phases
    BY <1>2 DEF Consume, Phases
  <2>2. /\ linkLock' = [linkLock EXCEPT ![resets[r].link] = r]
        /\ linkLock[resets[r].link] = Nobody
        /\ ~links[resets[r].link].used
        /\ UNCHANGED <<links, userLock>>
    BY <1>2 DEF Consume, MaySpend, Works
  <2>3. ResetIs(r)'
    BY <2>0, <2>1, <2>2, OneRecordMoves
    DEF ResetIs, FollowsALink, HoldsItsLink, HoldsTheUser, FoundTheRest, HoldsTheRest, SpentTheRest,
        Holding
  <2>4. ASSUME NEW q \in Resets \ {r} PROVE ResetIs(q)'
    BY <1>0, <2>0, <2>1, <2>2, OneRecordMoves, AnotherReset DEF ResetIs, HoldsItsLink
  <2>5. QED
    BY <2>0, <2>1, <2>2, <2>3, <2>4, OneRecordMoves
<1>3. CASE ReadAccount(r)
  <2>1. Ends(r, "password") /\ "password" \in Phases /\ resets[r].pc = "account"
        /\ UNCHANGED <<links, linkLock, userLock>>
    BY <1>3 DEF ReadAccount, Phases, locks
  <2>2. ResetIs(r)'
    BY <2>1, OneRecordMoves
    DEF ResetIs, FollowsALink, HoldsItsLink, HoldsTheUser, FoundTheRest, HoldsTheRest, SpentTheRest,
        Holding
  <2>3. ASSUME NEW q \in Resets \ {r} PROVE ResetIs(q)'
    BY <2>1, OneRecordMoves, AnotherReset DEF ResetIs, HoldsItsLink
  <2>4. QED
    BY <2>1, <2>2, <2>3, OneRecordMoves
<1>4. CASE WritePassword(r)
  <2>1. Ends(r, "rest") /\ "rest" \in Phases /\ resets[r].pc = "password"
        /\ UNCHANGED <<links, linkLock>> /\ userLock = Nobody /\ userLock' = r
    BY <1>4 DEF WritePassword, Phases
  <2>2. ResetIs(r)'
    BY <2>1, OneRecordMoves
    DEF ResetIs, FollowsALink, HoldsItsLink, HoldsTheUser, FoundTheRest, HoldsTheRest, SpentTheRest,
        Holding
  <2>3. ASSUME NEW q \in Resets \ {r} PROVE ResetIs(q)'
    BY <1>0, <2>1, OneRecordMoves, AnotherReset DEF ResetIs, HoldsItsLink
  <2>4. QED
    BY <2>1, <2>2, <2>3, OneRecordMoves
<1>5. QED
  BY <1>1, <1>2, <1>3, <1>4

LEMMA StepOverTheRest ==
    ASSUME ResetInv, NEW r \in Resets, LooksForTheRest(r) \/ RevokeTheRest(r)
    PROVE  ResetInv'
<1> USE DEF ResetInv, LocksAndRecords
<1>0. Nobody \notin Resets
  BY NamesAssumption
<1>1. CASE LooksForTheRest(r)
  <2> DEFINE found == {k \in Mails : links[k].issued /\ ~links[k].used}
             new == [resets[r] EXCEPT !.pc = "revoke", !.saw = found]
  <2>1. new \in ResetRecord /\ new.pc = "revoke" /\ new.link = resets[r].link /\ new.saw = found
    <3>1. found \in SUBSET Mails /\ resets[r] \in ResetRecord
      OBVIOUS
    <3> HIDE DEF found
    <3>2. QED
      BY <3>1 DEF ResetRecord, Phases
  <2>2. resets' = [resets EXCEPT ![r] = new]
    BY <1>1 DEF LooksForTheRest
  <2>3. resets[r].link \in found
    BY <1>1 DEF LooksForTheRest, ResetIs, FollowsALink, HoldsItsLink, Holding
  <2>4. \A k \in found : links[k].issued
    OBVIOUS
  <2> HIDE DEF new, found
  <2>5. UNCHANGED <<links, linkLock, userLock>> /\ resets[r].pc = "rest"
    BY <1>1 DEF LooksForTheRest, locks
  <2>6. resets' \in [Resets -> ResetRecord] /\ resets'[r] = new
        /\ \A q \in Resets \ {r} : resets'[q] = resets[q]
    BY <2>1, <2>2
  <2>7. ResetIs(r)'
    BY <2>1, <2>3, <2>4, <2>5, <2>6
    DEF ResetIs, FollowsALink, HoldsItsLink, HoldsTheUser, FoundTheRest, HoldsTheRest, SpentTheRest,
        Holding
  <2>8. ASSUME NEW q \in Resets \ {r} PROVE ResetIs(q)'
    BY <2>5, <2>6, AnotherReset DEF ResetIs, HoldsItsLink
  <2>9. QED
    BY <2>5, <2>6, <2>7, <2>8
<1>2. CASE RevokeTheRest(r)
  <2>1. /\ Ends(r, "commit") /\ "commit" \in Phases /\ resets[r].pc = "revoke"
        /\ UNCHANGED <<links, userLock>>
        /\ linkLock' = [k \in Mails |-> IF k \in resets[r].saw THEN r ELSE linkLock[k]]
        /\ \A k \in resets[r].saw : ~links[k].used => linkLock[k] \in {Nobody, r}
    BY <1>2 DEF RevokeTheRest, NobodyHoldsTheRest, Phases
  <2>2. resets[r].saw \subseteq Mails
    BY DEF ResetRecord
  <2>3. ResetIs(r)'
    BY <2>1, <2>2, OneRecordMoves
    DEF ResetIs, FollowsALink, HoldsItsLink, HoldsTheUser, FoundTheRest, HoldsTheRest, SpentTheRest,
        Holding
  <2>4. ASSUME NEW q \in Resets \ {r} PROVE ResetIs(q)'
    <3>1. userLock = r
      BY <2>1 DEF ResetIs, HoldsTheUser
    <3>2. resets[q].pc # "commit" /\ resets'[q] = resets[q]
      BY <2>1, <3>1, OneRecordMoves DEF ResetIs, HoldsTheUser
    <3>3. HoldsItsLink(q)'
      <4>1. SUFFICES ASSUME resets[q].pc \in Holding
                     PROVE  linkLock'[resets[q].link] = q /\ ~links'[resets[q].link].used
        BY <3>2 DEF HoldsItsLink
      <4>2. /\ resets[q].link \in Mails
            /\ linkLock[resets[q].link] = q /\ ~links[resets[q].link].used
        BY <4>1 DEF ResetIs, FollowsALink, HoldsItsLink
      <4>3. resets[q].link \notin resets[r].saw
        BY <1>0, <2>1, <4>2
      <4>4. QED
        BY <2>1, <4>2, <4>3
    <3>4. HoldsTheRest(q)'
      BY <3>2 DEF HoldsTheRest
    <3>5. QED
      BY <2>1, <3>2, <3>3, <3>4, AnUndisturbedReset DEF LeavesAlone
  <2>5. QED
    BY <2>1, <2>3, <2>4, OneRecordMoves
<1>3. QED
  BY <1>1, <1>2

LEMMA LastStep ==
    ASSUME ResetInv, NEW r \in Resets,
           IsRefused(r) \/ SpendsTheLinkAlone(r) \/ Commit(r) \/ RollsBack(r)
    PROVE  ResetInv'
<1> USE DEF ResetInv, LocksAndRecords
<1>1. CASE IsRefused(r)
  <2>1. Refused(r) /\ UNCHANGED <<links, linkLock, userLock>>
    BY <1>1 DEF IsRefused, locks
  <2>2. ASSUME NEW q \in Resets \ {r} PROVE ResetIs(q)'
    BY <2>1, ARefusedReset, AnotherReset DEF ResetIs, HoldsItsLink
  <2>3. QED
    BY <2>1, <2>2, ARefusedReset
<1>2. CASE RollsBack(r)
  <2>1. Refused(r) /\ Release(r) /\ UNCHANGED links
    BY <1>2 DEF RollsBack
  <2>2. ASSUME NEW q \in Resets \ {r} PROVE ResetIs(q)'
    BY <2>1, ARefusedReset, ReleaseIsTyped, AnotherReset DEF ResetIs, HoldsItsLink
  <2>3. QED
    BY <2>1, <2>2, ARefusedReset, ReleaseIsTyped
<1>3. CASE SpendsTheLinkAlone(r)
  <2>1. Refused(r) /\ Release(r) /\ links' = [links EXCEPT ![resets[r].link].used = TRUE]
        /\ resets[r].pc = "account"
    BY <1>3 DEF SpendsTheLinkAlone
  <2>2. resets[r].link \in Mails /\ linkLock[resets[r].link] = r
    BY <2>1 DEF ResetIs, FollowsALink, HoldsItsLink, Holding
  <2>3. /\ links' \in [Mails -> Link]
        /\ \A k \in Mails : links'[k].issued = links[k].issued /\ (links[k].used => links'[k].used)
        /\ \A k \in Mails : k # resets[r].link => links'[k] = links[k]
    BY <2>1, <2>2 DEF Link
  <2>4. ASSUME NEW q \in Resets \ {r} PROVE ResetIs(q)'
    <3>1. resets[q].pc \in Holding => ~links'[resets[q].link].used
      BY <2>2, <2>3 DEF ResetIs, FollowsALink, HoldsItsLink
    <3>2. QED
      BY <2>1, <2>3, <3>1, ARefusedReset, ReleaseIsTyped, AnotherReset
  <2>5. QED
    BY <2>1, <2>3, <2>4, ARefusedReset, ReleaseIsTyped
<1>4. CASE Commit(r)
  <2>1. /\ Ends(r, "done") /\ "done" \in Phases /\ Release(r) /\ resets[r].pc = "commit"
        /\ links' = [k \in Mails |-> IF k \in resets[r].saw THEN [links[k] EXCEPT !.used = TRUE]
                                     ELSE links[k]]
    BY <1>4 DEF Commit, Phases
  <2>2. /\ links' \in [Mails -> Link]
        /\ \A k \in Mails : links'[k].issued = links[k].issued /\ (links[k].used => links'[k].used)
        /\ \A k \in Mails : k \in resets[r].saw => links'[k].used
        /\ \A k \in Mails : k \notin resets[r].saw => links'[k] = links[k]
    BY <2>1 DEF Link
  <2>3. resets[r].saw \subseteq Mails
    BY DEF ResetRecord
  <2>4. ResetIs(r)'
    BY <2>1, <2>2, <2>3, OneRecordMoves
    DEF ResetIs, FollowsALink, HoldsItsLink, HoldsTheUser, FoundTheRest, HoldsTheRest, SpentTheRest,
        Holding
  <2>5. ASSUME NEW q \in Resets \ {r} PROVE ResetIs(q)'
    <3>1. ASSUME resets[q].pc \in Holding PROVE ~links'[resets[q].link].used
      <4>1. /\ resets[q].link \in Mails
            /\ linkLock[resets[q].link] = q /\ ~links[resets[q].link].used
        BY <3>1 DEF ResetIs, FollowsALink, HoldsItsLink
      <4>2. resets[q].link \notin resets[r].saw
        BY <2>1, <4>1 DEF ResetIs, HoldsTheRest
      <4>3. QED
        BY <2>2, <4>1, <4>2
    <3>2. QED
      BY <2>1, <2>2, <3>1, OneRecordMoves, ReleaseIsTyped, AnotherReset
  <2>6. QED
    BY <2>1, <2>2, <2>4, <2>5, OneRecordMoves, ReleaseIsTyped
<1>5. QED
  BY <1>1, <1>2, <1>3, <1>4

LEMMA ResetInvKept ==
    ASSUME IssuedWithTheMail, ResetInv, [Next]_vars
    PROVE  ResetInv'
BY OtherStepsLeaveTheResets, StepBeforeTheRest, StepOverTheRest, LastStep DEF Reset

----------------------------------------------------------------------------

Inv == QueueInv /\ IssuedWithTheMail /\ ResetInv

LEMMA InvHolds == Spec => []Inv
<1>1. Init => Inv
  BY QueueInit, ResetInit DEF Inv
<1>2. Inv /\ [Next]_vars => Inv'
  BY QueueInvKept, IssuedWithTheMailKept, ResetInvKept DEF Inv, ResetInv
<1>3. QED
  BY <1>1, <1>2, PTL DEF Spec

\* Every reachable state is well typed, for every number of mails and resets.
THEOREM TypeCorrect == Spec => []TypeOK
<1>1. Init => active \in BOOLEAN /\ faults \in Nat
  BY DEF Init
<1>2. active \in BOOLEAN /\ faults \in Nat /\ [Next]_vars => (active \in BOOLEAN /\ faults \in Nat)'
  <2>1. SUFFICES ASSUME active \in BOOLEAN, faults \in Nat, [Next]_vars
                 PROVE  active' \in BOOLEAN /\ faults' \in Nat
    OBVIOUS
  <2>2. faults' = faults \/ faults' = faults + 1
    BY <2>1 DEF Next, vars, IsFault, RequestPasswordReset, QueueNotice, Expire, ComesDue, SetActive,
           PurgeSentMail, SenderStep, ClaimNextMail, CheckLink, SendMail, MarkMailSent, MarkMailFailed,
           AbandonMail, Record, SenderTrouble, BodyUnreadable, SendFails, SenderDies,
           Reset, Follow, Consume, IsRefused, ReadAccount, SpendsTheLinkAlone, WritePassword,
           LooksForTheRest, RevokeTheRest, Commit, RollsBack
  <2>3. active' = active \/ \E b \in BOOLEAN : active' = b
    BY <2>1 DEF Next, vars, RequestPasswordReset, QueueNotice, Expire, ComesDue, SetActive,
           PurgeSentMail, SenderStep, ClaimNextMail, CheckLink, SendMail, MarkMailSent, MarkMailFailed,
           AbandonMail, Record, SenderTrouble, BodyUnreadable, SendFails, SenderDies, queue,
           Reset, Follow, Consume, IsRefused, ReadAccount, SpendsTheLinkAlone, WritePassword,
           LooksForTheRest, RevokeTheRest, Commit, RollsBack
  <2>4. QED
    BY <2>1, <2>2, <2>3
<1>3. Inv /\ active \in BOOLEAN /\ faults \in Nat => TypeOK
  BY TypeUnfolded DEF Inv, QueueInv, ResetInv, LocksAndRecords
<1>4. QED
  BY <1>1, <1>2, <1>3, InvHolds, PTL DEF Spec

\* No two resets succeed with one link (consumeSingleUseToken): the one that
\* is done has spent it, and the other still holds it unspent.
THEOREM LinksResetOnce == Spec => []EachLinkResetsOnce
<1>1. Init => EachLinkResetsOnce
  BY DEF Init, EachLinkResetsOnce, NewReset
<1>2. Inv /\ EachLinkResetsOnce /\ [Next]_vars => EachLinkResetsOnce'
  <2>1. SUFFICES ASSUME Inv, EachLinkResetsOnce, [Next]_vars,
                        NEW r \in Resets, NEW q \in Resets, r # q,
                        resets'[r].pc = "done", resets'[q].pc = "done"
                 PROVE  resets'[r].link # resets'[q].link
    BY DEF EachLinkResetsOnce
  <2>2. ASSUME NEW p \in Resets, Commit(p)
        PROVE  resets'[r].link # resets'[q].link
    <3>1. /\ resets[p].pc = "commit" /\ ~links[resets[p].link].used
          /\ resets'[p].link = resets[p].link
          /\ \A o \in Resets \ {p} : resets'[o] = resets[o]
      BY <2>1, <2>2, OneRecordMoves
      DEF Commit, Inv, ResetInv, ResetIs, HoldsItsLink, Holding, Phases
    <3>2. \A o \in Resets : resets[o].pc = "done" => links[resets[o].link].used
      BY <2>1 DEF Inv, ResetInv, ResetIs, FoundTheRest, SpentTheRest
    <3>3. QED
      BY <2>1, <3>1, <3>2 DEF EachLinkResetsOnce
  <2>3. ASSUME ~(\E p \in Resets : Commit(p))
        PROVE  resets[r].pc = "done" /\ resets[q].pc = "done"
               /\ resets'[r].link = resets[r].link /\ resets'[q].link = resets[q].link
    <3>1. CASE UNCHANGED resets
      BY <2>1, <3>1
    <3>2. ASSUME NEW p \in Resets, Refused(p)
          PROVE  \A o \in Resets : resets'[o].pc = "done" => resets'[o] = resets[o]
      BY <2>1, <3>2 DEF Refused, NewReset, Inv, ResetInv, LocksAndRecords
    <3>3. ASSUME NEW p \in Resets, NEW phase \in Phases \ {"done"}, Ends(p, phase)
          PROVE  \A o \in Resets : resets'[o].pc = "done" => resets'[o] = resets[o]
      BY <2>1, <3>3, OneRecordMoves DEF Inv, ResetInv
    <3>4. ASSUME NEW p \in Resets, LooksForTheRest(p) \/ \E k \in Mails : Follow(p, k)
          PROVE  \A o \in Resets : resets'[o].pc = "done" => resets'[o] = resets[o]
      BY <2>1, <3>4 DEF LooksForTheRest, Follow, NewReset, Inv, ResetInv, LocksAndRecords, ResetRecord
    <3>5. ASSUME NEW p \in Resets, Reset(p)
          PROVE  \A o \in Resets : resets'[o].pc = "done" => resets'[o] = resets[o]
      BY <2>3, <3>2, <3>3, <3>4, <3>5
      DEF Reset, Consume, IsRefused, ReadAccount, SpendsTheLinkAlone, WritePassword, RevokeTheRest,
          RollsBack, Phases
    <3>6. CASE ~(\E p \in Resets : Reset(p))
      <4>1. UNCHANGED resets
        BY <2>1, <3>6
        DEF Next, vars, RequestPasswordReset, QueueNotice, Expire, ComesDue, SetActive,
            PurgeSentMail, SenderStep, ClaimNextMail, CheckLink, SendMail, MarkMailSent, MarkMailFailed,
            AbandonMail, Record, SenderTrouble, BodyUnreadable, SendFails, SenderDies
      <4>2. QED
        BY <3>1, <4>1
    <3>7. QED
      BY <2>1, <3>5, <3>6
  <2>4. QED
    BY <2>1, <2>2, <2>3 DEF EachLinkResetsOnce
<1>3. QED
  BY <1>1, <1>2, InvHolds, PTL DEF Spec

\* When a reset commits, its link was in no reset's hands that is done already:
\* that one would have withdrawn it (completePasswordReset).
THEOREM OlderLinksAreDead == Spec => AnOlderLinkIsDead
<1>1. Inv => \A r, q \in Resets :
                resets[r].pc = "commit" /\ resets[q].pc = "done" => resets[r].link \notin resets[q].saw
  BY DEF Inv, ResetInv, ResetIs, HoldsItsLink, SpentTheRest, Holding
<1>2. Inv => [\A r, q \in Resets :
                resets[r].pc = "commit" /\ resets'[r].pc = "done" /\ resets[q].pc = "done" =>
                    resets[r].link \notin resets[q].saw]_vars
  BY <1>1
<1>3. QED
  BY <1>2, InvHolds, PTL DEF AnOlderLinkIsDead

----------------------------------------------------------------------------
(* MailDesk is implemented.                                                *)

\* The sender comes to say so after the server took it.
TakenBeforeSaid == sender.pc = "sent" => sender.mail \in delivered

LEMMA TakenBeforeSaidKept == QueueInv /\ TakenBeforeSaid /\ [Next]_vars => TakenBeforeSaid'
<1> SUFFICES ASSUME QueueInv, TakenBeforeSaid, [Next]_vars PROVE TakenBeforeSaid'
  OBVIOUS
<1> USE DEF QueueInv, TakenBeforeSaid
<1>1. CASE ~QueueStep
  BY <1>1, OtherStepsLeaveTheQueue DEF queue
<1>2. CASE \E k \in Mails : RequestPasswordReset(k) \/ QueueNotice(k) \/ ComesDue(k)
  BY <1>2 DEF RequestPasswordReset, QueueNotice, ComesDue
<1>3. CASE PurgeSentMail
  BY <1>3 DEF PurgeSentMail
<1>4. CASE \E k \in Mails : ClaimNextMail(k)
  BY <1>4 DEF ClaimNextMail, Asleep
<1>5. CASE CheckLink \/ BodyUnreadable
  BY <1>5 DEF CheckLink, BodyUnreadable, Sending
<1>6. CASE SendMail \/ \E taken, retryable \in BOOLEAN : SendFails(taken, retryable)
  BY <1>6 DEF SendMail, SendFails, Sending
<1>7. CASE MarkMailSent \/ MarkMailFailed \/ AbandonMail \/ SenderDies
  BY <1>7, AsleepIsSending DEF MarkMailSent, MarkMailFailed, AbandonMail, SenderDies, Record
<1>8. QED
  BY <1>1, <1>2, <1>3, <1>4, <1>5, <1>6, <1>7 DEF QueueStep, SenderStep, SenderTrouble

\* The tables, as MailDesk sees them.
mailSeen == [k \in Mails |-> mails[k].state]
linkSeen == [k \in Mails |-> LinkSeen(links[k])]
stageSeen == [r \in Resets |-> StageSeen(resets[r].pc)]
bySeen == [r \in Resets |-> resets[r].link]
sawSeen == [r \in Resets |-> resets[r].saw]
resetsSeen == <<stageSeen, bySeen, sawSeen>>

\* What each action of MailDesk asks of a step of the tables.
LEMMA DeskStutters ==
    ASSUME UNCHANGED <<mailSeen, delivered, linkSeen, resetsSeen>>
    PROVE  UNCHANGED Desk!vars
BY DEF Desk!vars, mailSeen, linkSeen, stageSeen, bySeen, sawSeen, resetsSeen

LEMMA DeskEnqueues ==
    ASSUME NEW k \in Mails, mailSeen[k] = "none",
           mailSeen' = [mailSeen EXCEPT ![k] = "PENDING"], UNCHANGED <<delivered, resetsSeen>>,
           \/ UNCHANGED linkSeen
           \/ linkSeen[k] = "none" /\ linkSeen' = [linkSeen EXCEPT ![k] = "live"]
    PROVE  Desk!Next
<1>1. Desk!EnqueueNotice(k) \/ Desk!EnqueueLink(k)
  BY DEF Desk!Enqueue, Desk!EnqueueNotice, Desk!EnqueueLink, Desk!desk,
         mailSeen, linkSeen, stageSeen, bySeen, sawSeen, resetsSeen
<1>2. QED
  BY <1>1 DEF Desk!Next

LEMMA DeskDelivers ==
    ASSUME NEW k \in Mails, mailSeen[k] = "PENDING", delivered' = delivered \cup {k},
           UNCHANGED <<mailSeen, linkSeen, resetsSeen>>
    PROVE  Desk!Next
<1>1. Desk!Deliver(k)
  BY DEF Desk!Deliver, Desk!desk, mailSeen, linkSeen, stageSeen, bySeen, sawSeen, resetsSeen
<1>2. QED
  BY <1>1 DEF Desk!Next

LEMMA DeskSettles ==
    ASSUME NEW k \in Mails, NEW as \in {"SENT", "FAILED"}, mailSeen[k] = "PENDING",
           as = "SENT" => k \in delivered,
           mailSeen' = [mailSeen EXCEPT ![k] = as], UNCHANGED <<delivered, linkSeen, resetsSeen>>
    PROVE  Desk!Next
<1>1. Desk!Settle(k, as)
  BY DEF Desk!Settle, Desk!desk, mailSeen, linkSeen, stageSeen, bySeen, sawSeen, resetsSeen
<1>2. QED
  BY <1>1 DEF Desk!Next

LEMMA DeskPurges ==
    ASSUME NEW S \in SUBSET Mails, \A k \in S : mailSeen[k] \in {"SENT", "FAILED"},
           mailSeen' = [k \in Mails |-> IF k \in S THEN "purged" ELSE mailSeen[k]],
           UNCHANGED <<delivered, linkSeen, resetsSeen>>
    PROVE  Desk!Next
<1>1. Desk!Purge(S)
  BY DEF Desk!Purge, Desk!desk, mailSeen, linkSeen, stageSeen, bySeen, sawSeen, resetsSeen
<1>2. QED
  BY <1>1 DEF Desk!Next

LEMMA StartsAsDesk == Init => Desk!Init
<1> SUFFICES ASSUME Init PROVE Desk!Init
  OBVIOUS
<1>1. NoRow.state = "none" /\ LinkSeen(NoLink) = "none"
  BY DEF NoRow, NoLink, LinkSeen
<1>2. NewReset.pc = "new" /\ NewReset.link = NoMail /\ NewReset.saw = {} /\ StageSeen("new") = "new"
  BY DEF NewReset, StageSeen
<1>3. QED
  BY <1>1, <1>2 DEF Init, Desk!Init

----------------------------------------------------------------------------
(* The steps of the queue.                                                 *)

LEMMA LinkAndResetsUnseen ==
    ASSUME UNCHANGED <<links, resets>>
    PROVE  UNCHANGED <<linkSeen, resetsSeen>>
BY DEF linkSeen, stageSeen, bySeen, sawSeen, resetsSeen

\* One row is written: its state is what is seen of it.
LEMMA OneRowWritten ==
    ASSUME QueueInv, NEW k \in Mails, NEW row \in MailRow, mails' = [mails EXCEPT ![k] = row]
    PROVE  mailSeen' = [mailSeen EXCEPT ![k] = row.state]
BY DEF QueueInv, mailSeen

LEMMA OneRowKept ==
    ASSUME QueueInv, NEW k \in Mails, NEW row \in MailRow, row.state = mails[k].state,
           mails' = [mails EXCEPT ![k] = row]
    PROVE  UNCHANGED mailSeen
BY DEF QueueInv, mailSeen

LEMMA QueueingIsSeen ==
    ASSUME QueueInv, IssuedWithTheMail, LocksAndRecords, NEW k \in Mails,
           RequestPasswordReset(k) \/ QueueNotice(k)
    PROVE  Desk!Next
<1>1. /\ mailSeen[k] = "none"
      /\ mails' = [mails EXCEPT ![k] = Waiting]
      /\ UNCHANGED <<delivered, resets>>
  BY DEF RequestPasswordReset, QueueNotice, mailSeen
<1>2. Waiting \in MailRow /\ Waiting.state = "PENDING"
  BY DEF Waiting, MailRow, States
<1>3. mailSeen' = [mailSeen EXCEPT ![k] = "PENDING"]
  BY <1>1, <1>2, OneRowWritten
<1>4. UNCHANGED resetsSeen
  BY <1>1 DEF stageSeen, bySeen, sawSeen, resetsSeen
<1>5. CASE QueueNotice(k)
  BY <1>1, <1>3, <1>4, <1>5, LinkAndResetsUnseen, DeskEnqueues DEF QueueNotice
<1>6. CASE RequestPasswordReset(k)
  <2>1. ~links[k].issued /\ links' = [links EXCEPT ![k] = FreshLink]
    BY <1>6 DEF RequestPasswordReset, IssuedWithTheMail
  <2>2. LinkSeen(FreshLink) = "live"
    BY DEF FreshLink, LinkSeen
  <2>3. linkSeen[k] = "none"
    BY <2>1 DEF linkSeen, LinkSeen
  <2>4. linkSeen' = [linkSeen EXCEPT ![k] = "live"]
    BY <2>1, <2>2 DEF LocksAndRecords, linkSeen
  <2>5. QED
    BY <1>1, <1>3, <1>4, <2>3, <2>4, DeskEnqueues
<1>7. QED
  BY <1>5, <1>6

LEMMA SettlingIsSeen ==
    ASSUME QueueInv, sender.pc # "drain", NEW as \in {"SENT", "FAILED"},
           as = "SENT" => sender.mail \in delivered,
           Record(Settled(mails[sender.mail], as))
    PROVE  Desk!Next
<1>1. sender.mail \in Mails /\ mails[sender.mail].state = "PENDING" /\ mails[sender.mail] \in MailRow
  BY DEF QueueInv, SenderHoldsAWaitingMail
<1> DEFINE row == Settled(mails[sender.mail], as)
<1>2. row \in MailRow
  BY <1>1, RowsWritten
<1>3. row.state = as
  BY <1>1 DEF Settled, MailRow
<1>4. mails' = [mails EXCEPT ![sender.mail] = row] /\ UNCHANGED <<links, resets, delivered>>
  BY DEF Record
<1> HIDE DEF row
<1>5. mailSeen' = [mailSeen EXCEPT ![sender.mail] = as]
  BY <1>1, <1>2, <1>3, <1>4, OneRowWritten
<1>6. mailSeen[sender.mail] = "PENDING"
  BY <1>1 DEF mailSeen
<1>7. QED
  BY <1>1, <1>4, <1>5, <1>6, LinkAndResetsUnseen, DeskSettles

LEMMA QueueStepIsSeen ==
    ASSUME QueueInv, TakenBeforeSaid, IssuedWithTheMail, LocksAndRecords, QueueStep
    PROVE  Desk!Next \/ UNCHANGED Desk!vars
<1> USE DEF QueueInv
<1>1. CASE \E k \in Mails : RequestPasswordReset(k) \/ QueueNotice(k)
  BY <1>1, QueueingIsSeen
<1>2. ASSUME NEW k \in Mails, ComesDue(k) PROVE UNCHANGED Desk!vars
  <2> DEFINE row == [mails[k] EXCEPT !.due = TRUE]
  <2>1. mails[k] \in MailRow
    OBVIOUS
  <2>2. row \in MailRow
    BY <2>1, RowsWritten
  <2>3. row.state = mails[k].state
    BY <2>1 DEF MailRow
  <2>4. mails' = [mails EXCEPT ![k] = row] /\ UNCHANGED <<links, resets, delivered>>
    BY <1>2 DEF ComesDue
  <2> HIDE DEF row
  <2>5. QED
    BY <2>2, <2>3, <2>4, OneRowKept, LinkAndResetsUnseen, DeskStutters
<1>3. ASSUME NEW k \in Mails, ClaimNextMail(k) PROVE UNCHANGED Desk!vars
  <2> DEFINE row == [mails[k] EXCEPT !.attempts = @ + 1, !.due = FALSE]
  <2>1. mails[k] \in MailRow
    OBVIOUS
  <2>2. row \in MailRow
    BY <2>1, RowsWritten
  <2>3. row.state = mails[k].state
    BY <2>1 DEF MailRow
  <2>4. mails' = [mails EXCEPT ![k] = row] /\ UNCHANGED <<links, resets, delivered>>
    BY <1>3 DEF ClaimNextMail, Claimed
  <2> HIDE DEF row
  <2>5. QED
    BY <2>2, <2>3, <2>4, OneRowKept, LinkAndResetsUnseen, DeskStutters
<1>4. CASE CheckLink \/ BodyUnreadable \/ SenderDies
  <2>1. UNCHANGED <<mails, links, resets, delivered>>
    BY <1>4 DEF CheckLink, BodyUnreadable, SenderDies
  <2>2. UNCHANGED mailSeen
    BY <2>1 DEF mailSeen
  <2>3. QED
    BY <2>1, <2>2, LinkAndResetsUnseen, DeskStutters
<1>5. CASE SendMail \/ \E taken, retryable \in BOOLEAN : SendFails(taken, retryable)
  <2>1. /\ UNCHANGED <<mails, links, resets>>
        /\ UNCHANGED delivered \/ delivered' = delivered \cup {sender.mail}
        /\ sender.pc = "send"
    BY <1>5 DEF SendMail, SendFails
  <2>2. sender.mail \in Mails /\ mailSeen[sender.mail] = "PENDING"
    BY <2>1 DEF SenderHoldsAWaitingMail, mailSeen
  <2>3. UNCHANGED mailSeen
    BY <2>1 DEF mailSeen
  <2>4. QED
    BY <2>1, <2>2, <2>3, LinkAndResetsUnseen, DeskStutters, DeskDelivers
<1>6. CASE MarkMailSent \/ AbandonMail
  BY <1>6, SettlingIsSeen DEF MarkMailSent, AbandonMail, TakenBeforeSaid
<1>7. CASE MarkMailFailed
  <2>1. sender.pc # "drain"
    BY <1>7 DEF MarkMailFailed
  <2>2. CASE OutOfTries \/ ~sender.retryable
    BY <1>7, <2>1, <2>2, SettlingIsSeen DEF MarkMailFailed
  <2>3. CASE ~(OutOfTries \/ ~sender.retryable)
    <3> DEFINE row == [mails[sender.mail] EXCEPT !.due = FALSE]
    <3>1. sender.mail \in Mails /\ mails[sender.mail] \in MailRow
      BY <2>1 DEF SenderHoldsAWaitingMail
    <3>2. row \in MailRow
      BY <3>1, RowsWritten
    <3>3. row.state = mails[sender.mail].state
      BY <3>1 DEF MailRow
    <3>4. mails' = [mails EXCEPT ![sender.mail] = row] /\ UNCHANGED <<links, resets, delivered>>
      BY <1>7, <2>3 DEF MarkMailFailed, Record
    <3> HIDE DEF row
    <3>5. QED
      BY <3>1, <3>2, <3>3, <3>4, OneRowKept, LinkAndResetsUnseen, DeskStutters
  <2>4. QED
    BY <2>2, <2>3
<1>8. CASE PurgeSentMail
  <2>1. PICK S \in SUBSET {k \in Mails : mails[k].state \in {"SENT", "FAILED"}} :
             mails' = [k \in Mails |-> IF k \in S THEN Purged ELSE mails[k]]
    BY <1>8 DEF PurgeSentMail
  <2>2. Purged.state = "purged"
    BY DEF Purged, NoRow
  <2>3. mailSeen' = [k \in Mails |-> IF k \in S THEN "purged" ELSE mailSeen[k]]
    BY <2>1, <2>2 DEF mailSeen
  <2>4. S \in SUBSET Mails /\ \A k \in S : mailSeen[k] \in {"SENT", "FAILED"}
    BY <2>1 DEF mailSeen
  <2>5. UNCHANGED <<delivered, links, resets>>
    BY <1>8 DEF PurgeSentMail
  <2>6. QED
    BY <2>3, <2>4, <2>5, LinkAndResetsUnseen, DeskPurges
<1>9. QED
  BY <1>1, <1>2, <1>3, <1>4, <1>5, <1>6, <1>7, <1>8 DEF QueueStep, SenderStep, SenderTrouble

----------------------------------------------------------------------------
(* The steps of a reset.                                                   *)

\* What was not opened yet has seen nothing.
UnopenedSawNothing == \A r \in Resets : resets[r].pc = "new" => resets[r].saw = {}

LEMMA UnopenedSawNothingKept ==
    ASSUME LocksAndRecords, UnopenedSawNothing, [Next]_vars
    PROVE  UnopenedSawNothing'
<1> SUFFICES ASSUME NEW r \in Resets, resets'[r].pc = "new" PROVE resets'[r] = resets[r]
  BY DEF UnopenedSawNothing
<1>1. ASSUME NEW p \in Resets, NEW phase \in Phases \ {"new"}, Ends(p, phase)
      PROVE  resets'[r] = resets[r]
  BY <1>1, OneRecordMoves
<1>2. ASSUME NEW p \in Resets,
             Refused(p) \/ LooksForTheRest(p) \/ \E k \in Mails : Follow(p, k)
      PROVE  resets'[r] = resets[r]
  BY <1>2 DEF Refused, LooksForTheRest, Follow, NewReset, LocksAndRecords, ResetRecord
<1>3. ASSUME NEW p \in Resets, Reset(p)
      PROVE  resets'[r] = resets[r]
  BY <1>1, <1>2, <1>3
  DEF Reset, Consume, IsRefused, ReadAccount, SpendsTheLinkAlone, WritePassword, RevokeTheRest,
      Commit, RollsBack, Phases
<1>4. CASE ~(\E p \in Resets : Reset(p))
  BY <1>4
  DEF Next, vars, RequestPasswordReset, QueueNotice, Expire, ComesDue, SetActive,
      PurgeSentMail, SenderStep, ClaimNextMail, CheckLink, SendMail, MarkMailSent, MarkMailFailed,
      AbandonMail, Record, SenderTrouble, BodyUnreadable, SendFails, SenderDies
<1>5. QED
  BY <1>3, <1>4

\* One reset moves: what is seen of it is what its new record shows.
LEMMA OneResetSeen ==
    ASSUME LocksAndRecords, NEW r \in Resets, NEW new \in ResetRecord,
           resets' = [resets EXCEPT ![r] = new]
    PROVE  /\ stageSeen' = [stageSeen EXCEPT ![r] = StageSeen(new.pc)]
           /\ bySeen' = [bySeen EXCEPT ![r] = new.link]
           /\ sawSeen' = [sawSeen EXCEPT ![r] = new.saw]
           /\ new.link = resets[r].link => UNCHANGED bySeen
           /\ new.saw = resets[r].saw => UNCHANGED sawSeen
           /\ StageSeen(new.pc) = StageSeen(resets[r].pc) => UNCHANGED stageSeen
BY DEF LocksAndRecords, stageSeen, bySeen, sawSeen

LEMMA OneResetEnds ==
    ASSUME LocksAndRecords, NEW r \in Resets, NEW phase \in Phases, Ends(r, phase)
    PROVE  /\ stageSeen' = [stageSeen EXCEPT ![r] = StageSeen(phase)]
           /\ UNCHANGED <<bySeen, sawSeen>>
           /\ StageSeen(phase) = StageSeen(resets[r].pc) => UNCHANGED stageSeen
<1> DEFINE new == [resets[r] EXCEPT !.pc = phase]
<1>1. resets[r] \in ResetRecord
  BY DEF LocksAndRecords
<1>2. new \in ResetRecord /\ new.pc = phase /\ new.link = resets[r].link /\ new.saw = resets[r].saw
  BY <1>1 DEF ResetRecord
<1>3. resets' = [resets EXCEPT ![r] = new]
  BY DEF Ends, LocksAndRecords
<1> HIDE DEF new
<1>4. QED
  BY <1>2, <1>3, OneResetSeen

LEMMA OneResetRefused ==
    ASSUME LocksAndRecords, NEW r \in Resets, Refused(r)
    PROVE  /\ stageSeen' = [stageSeen EXCEPT ![r] = "refused"]
           /\ bySeen' = [bySeen EXCEPT ![r] = NoMail]
           /\ sawSeen' = [sawSeen EXCEPT ![r] = {}]
<1> DEFINE new == [NewReset EXCEPT !.pc = "refused"]
<1>1. new \in ResetRecord /\ new.pc = "refused" /\ new.link = NoMail /\ new.saw = {}
  BY DEF ResetRecord, NewReset, Phases
<1>2. resets' = [resets EXCEPT ![r] = new]
  BY DEF Refused
<1>3. StageSeen("refused") = "refused"
  BY DEF StageSeen
<1> HIDE DEF new
<1>4. /\ stageSeen' = [stageSeen EXCEPT ![r] = StageSeen(new.pc)]
      /\ bySeen' = [bySeen EXCEPT ![r] = new.link]
      /\ sawSeen' = [sawSeen EXCEPT ![r] = new.saw]
  BY <1>1, <1>2, OneResetSeen
<1>5. QED
  BY <1>1, <1>3, <1>4

LEMMA QueueUnseen ==
    ASSUME UNCHANGED <<mails, delivered>>
    PROVE  UNCHANGED <<mailSeen, delivered>>
BY DEF mailSeen

LEMMA DeskRefuses ==
    ASSUME NEW r \in Resets, stageSeen[r] \in {"open", "looked"},
           stageSeen' = [stageSeen EXCEPT ![r] = "refused"],
           bySeen' = [bySeen EXCEPT ![r] = NoMail],
           sawSeen' = [sawSeen EXCEPT ![r] = {}],
           UNCHANGED <<mailSeen, delivered>>,
           \/ UNCHANGED linkSeen
           \/ /\ stageSeen[r] = "open"
              /\ linkSeen[bySeen[r]] = "live"
              /\ linkSeen' = [linkSeen EXCEPT ![bySeen[r]] = "spent"]
    PROVE  Desk!Next
<1>1. Desk!Refuse(r) \/ Desk!SpendForNothing(r)
  BY DEF Desk!Refuse, Desk!SpendForNothing, Desk!TurnAway, Desk!post,
         mailSeen, linkSeen, stageSeen, bySeen, sawSeen
<1>2. QED
  BY <1>1 DEF Desk!Next

LEMMA FollowIsSeen ==
    ASSUME LocksAndRecords, UnopenedSawNothing, NEW r \in Resets, NEW k \in Mails, Follow(r, k)
    PROVE  Desk!Next
<1> DEFINE new == [NewReset EXCEPT !.pc = "consume", !.link = k]
<1>1. new \in ResetRecord /\ new.pc = "consume" /\ new.link = k /\ new.saw = {}
  BY DEF ResetRecord, NewReset, Phases
<1>2. /\ resets' = [resets EXCEPT ![r] = new]
      /\ resets[r].pc = "new" /\ k \in delivered /\ links[k].issued
      /\ UNCHANGED <<mails, delivered, links>>
  BY DEF Follow, queue
<1>3. StageSeen("consume") = "open" /\ StageSeen("new") = "new"
  BY DEF StageSeen
<1>4. stageSeen[r] = "new" /\ linkSeen[k] # "none"
  BY <1>2, <1>3 DEF stageSeen, linkSeen, LinkSeen
<1>5. resets[r].saw = {}
  BY <1>2 DEF UnopenedSawNothing
<1>6. UNCHANGED linkSeen
  BY <1>2 DEF linkSeen
<1> HIDE DEF new
<1>7. /\ stageSeen' = [stageSeen EXCEPT ![r] = "open"]
      /\ bySeen' = [bySeen EXCEPT ![r] = k]
      /\ UNCHANGED sawSeen
  <2>1. /\ stageSeen' = [stageSeen EXCEPT ![r] = StageSeen(new.pc)]
        /\ bySeen' = [bySeen EXCEPT ![r] = new.link]
        /\ new.saw = resets[r].saw => UNCHANGED sawSeen
    BY <1>1, <1>2, OneResetSeen
  <2>2. QED
    BY <1>1, <1>3, <1>5, <2>1
<1>8. UNCHANGED mailSeen
  BY <1>2, QueueUnseen
<1>9. Desk!Open(r, k)
  BY <1>2, <1>4, <1>6, <1>7, <1>8
  DEF Desk!Open, Desk!post, mailSeen, linkSeen, stageSeen, bySeen, sawSeen
<1>10. QED
  BY <1>9 DEF Desk!Next

LEMMA LookIsSeen ==
    ASSUME LocksAndRecords, NEW r \in Resets, LooksForTheRest(r)
    PROVE  Desk!Next
<1> DEFINE found == {k \in Mails : links[k].issued /\ ~links[k].used}
           new == [resets[r] EXCEPT !.pc = "revoke", !.saw = found]
<1>1. new \in ResetRecord /\ new.pc = "revoke" /\ new.link = resets[r].link /\ new.saw = found
  <2>1. found \in SUBSET Mails /\ resets[r] \in ResetRecord
    BY DEF LocksAndRecords
  <2> HIDE DEF found
  <2>2. QED
    BY <2>1 DEF ResetRecord, Phases
<1>2. /\ resets' = [resets EXCEPT ![r] = new]
      /\ resets[r].pc = "rest"
      /\ UNCHANGED <<mails, delivered, links>>
  BY DEF LooksForTheRest, queue
<1>3. found = {k \in Mails : linkSeen[k] = "live"}
  BY DEF linkSeen, LinkSeen
<1> HIDE DEF new, found
<1>4. StageSeen("revoke") = "looked" /\ stageSeen[r] = "open"
  BY <1>2 DEF stageSeen, StageSeen
<1>5. /\ stageSeen' = [stageSeen EXCEPT ![r] = "looked"]
      /\ UNCHANGED bySeen
      /\ sawSeen' = [sawSeen EXCEPT ![r] = {k \in Mails : linkSeen[k] = "live"}]
  <2>1. /\ stageSeen' = [stageSeen EXCEPT ![r] = StageSeen(new.pc)]
        /\ new.link = resets[r].link => UNCHANGED bySeen
        /\ sawSeen' = [sawSeen EXCEPT ![r] = new.saw]
    BY <1>1, <1>2, OneResetSeen
  <2>2. QED
    BY <1>1, <1>3, <1>4, <2>1
<1>6. UNCHANGED <<mailSeen, linkSeen>>
  BY <1>2, QueueUnseen DEF linkSeen
<1>7. Desk!LookRound(r)
  BY <1>2, <1>4, <1>5, <1>6
  DEF Desk!LookRound, Desk!post, mailSeen, linkSeen, stageSeen, bySeen, sawSeen
<1>8. QED
  BY <1>7 DEF Desk!Next

LEMMA CommitIsSeen ==
    ASSUME ResetInv, NEW r \in Resets, Commit(r)
    PROVE  Desk!Next
<1> USE DEF ResetInv
<1>1. /\ resets[r].pc = "commit"
      /\ links' = [k \in Mails |-> IF k \in resets[r].saw THEN [links[k] EXCEPT !.used = TRUE] ELSE links[k]]
      /\ Ends(r, "done") /\ "done" \in Phases
      /\ UNCHANGED <<mails, delivered>>
  BY DEF Commit, queue, Phases
<1>2. /\ resets[r].link \in Mails /\ links[resets[r].link].issued /\ ~links[resets[r].link].used
      /\ resets[r].link \in resets[r].saw
      /\ \A k \in resets[r].saw : links[k].issued
  BY <1>1 DEF ResetIs, FollowsALink, HoldsItsLink, FoundTheRest, Holding
<1>3. linkSeen' = [k \in Mails |-> IF k \in sawSeen[r] THEN "spent" ELSE linkSeen[k]]
  <2>1. ASSUME NEW k \in Mails
        PROVE  linkSeen'[k] = IF k \in sawSeen[r] THEN "spent" ELSE linkSeen[k]
    <3>1. CASE k \in resets[r].saw
      <4>1. links[k] \in Link /\ links[k].issued
        BY <1>2, <3>1 DEF LocksAndRecords
      <4>2. links'[k] = [links[k] EXCEPT !.used = TRUE]
        BY <1>1, <3>1
      <4>3. links'[k].issued /\ links'[k].used
        BY <4>1, <4>2 DEF Link
      <4>4. QED
        BY <3>1, <4>3 DEF linkSeen, LinkSeen, sawSeen
    <3>2. CASE k \notin resets[r].saw
      BY <1>1, <3>2 DEF linkSeen, sawSeen
    <3>3. QED
      BY <3>1, <3>2
  <2>2. QED
    BY <2>1 DEF linkSeen
<1>4. /\ stageSeen[r] = "looked"
      /\ linkSeen[bySeen[r]] = "live"
      /\ bySeen[r] \in sawSeen[r]
  BY <1>1, <1>2 DEF stageSeen, StageSeen, linkSeen, LinkSeen, bySeen, sawSeen
<1>5. StageSeen("done") = "done"
  BY DEF StageSeen
<1>6. stageSeen' = [stageSeen EXCEPT ![r] = "done"] /\ UNCHANGED <<bySeen, sawSeen>>
  BY <1>1, <1>5, OneResetEnds
<1>7. UNCHANGED mailSeen
  BY <1>1, QueueUnseen
<1>8. Desk!Succeed(r)
  BY <1>1, <1>3, <1>4, <1>6, <1>7
  DEF Desk!Succeed, Desk!post, mailSeen, linkSeen, stageSeen, bySeen, sawSeen
<1>9. QED
  BY <1>8 DEF Desk!Next

LEMMA RefusalIsSeen ==
    ASSUME ResetInv, NEW r \in Resets, IsRefused(r) \/ RollsBack(r) \/ SpendsTheLinkAlone(r)
    PROVE  Desk!Next
<1> USE DEF ResetInv
<1>1. /\ resets[r].pc \in {"consume", "account", "password", "rest", "revoke", "commit"}
      /\ Refused(r)
      /\ UNCHANGED <<mails, delivered>>
  BY DEF IsRefused, RollsBack, SpendsTheLinkAlone, queue
<1>2. stageSeen[r] \in {"open", "looked"}
  BY <1>1 DEF stageSeen, StageSeen
<1>3. UNCHANGED mailSeen
  BY <1>1, QueueUnseen
<1>4. CASE IsRefused(r) \/ RollsBack(r)
  <2>1. UNCHANGED linkSeen
    BY <1>4 DEF IsRefused, RollsBack, linkSeen
  <2>2. QED
    BY <1>1, <1>2, <1>3, <2>1, OneResetRefused, DeskRefuses
<1>5. CASE SpendsTheLinkAlone(r)
  <2>1. /\ resets[r].pc = "account"
        /\ links' = [links EXCEPT ![resets[r].link].used = TRUE]
    BY <1>5 DEF SpendsTheLinkAlone
  <2>2. resets[r].link \in Mails /\ links[resets[r].link].issued /\ ~links[resets[r].link].used
    BY <2>1 DEF ResetIs, FollowsALink, HoldsItsLink, Holding
  <2>3. stageSeen[r] = "open" /\ bySeen[r] = resets[r].link /\ linkSeen[bySeen[r]] = "live"
    BY <2>1, <2>2 DEF stageSeen, StageSeen, linkSeen, LinkSeen, bySeen
  <2>4. linkSeen' = [linkSeen EXCEPT ![bySeen[r]] = "spent"]
    <3>1. links'[resets[r].link].issued /\ links'[resets[r].link].used
      BY <2>1, <2>2 DEF LocksAndRecords, Link
    <3>2. \A k \in Mails : k # resets[r].link => links'[k] = links[k]
      BY <2>1, <2>2 DEF LocksAndRecords
    <3>3. QED
      BY <2>2, <2>3, <3>1, <3>2 DEF linkSeen, LinkSeen
  <2>5. QED
    BY <1>1, <1>2, <1>3, <2>3, <2>4, OneResetRefused, DeskRefuses
<1>6. QED
  BY <1>4, <1>5

\* On its way through the rows a reset shows nothing.
LEMMA OnItsWayIsUnseen ==
    ASSUME LocksAndRecords, NEW r \in Resets,
           Consume(r) \/ ReadAccount(r) \/ WritePassword(r) \/ RevokeTheRest(r)
    PROVE  UNCHANGED Desk!vars
<1>1. UNCHANGED <<mails, delivered, links>>
  BY DEF Consume, ReadAccount, WritePassword, RevokeTheRest, queue
<1>2. PICK phase \in Phases :
        Ends(r, phase) /\ StageSeen(phase) = StageSeen(resets[r].pc)
  <2>1. CASE Consume(r)
    BY <2>1 DEF Consume, Phases, StageSeen
  <2>2. CASE ReadAccount(r)
    BY <2>2 DEF ReadAccount, Phases, StageSeen
  <2>3. CASE WritePassword(r)
    BY <2>3 DEF WritePassword, Phases, StageSeen
  <2>4. CASE RevokeTheRest(r)
    BY <2>4 DEF RevokeTheRest, Phases, StageSeen
  <2>5. QED
    BY <2>1, <2>2, <2>3, <2>4
<1>3. UNCHANGED <<stageSeen, bySeen, sawSeen>>
  BY <1>2, OneResetEnds
<1>4. UNCHANGED <<mailSeen, linkSeen>>
  BY <1>1, QueueUnseen DEF linkSeen
<1>5. QED
  BY <1>1, <1>3, <1>4, DeskStutters DEF resetsSeen

LEMMA StepIsSeen ==
    ASSUME Inv, TakenBeforeSaid, UnopenedSawNothing, [Next]_vars
    PROVE  Desk!Next \/ UNCHANGED Desk!vars
<1> USE DEF Inv, ResetInv
<1>1. CASE QueueStep
  BY <1>1, QueueStepIsSeen
<1>2. CASE \E k \in Mails : Expire(k)
  <2>1. PICK k \in Mails : Expire(k)
    BY <1>2
  <2>2. links' = [links EXCEPT ![k].expired = TRUE] /\ UNCHANGED <<mails, delivered, resets>>
    BY <2>1 DEF Expire, queue
  <2>3. \A j \in Mails : links'[j].issued = links[j].issued /\ links'[j].used = links[j].used
    BY <2>2 DEF LocksAndRecords, Link
  <2>4. UNCHANGED linkSeen
    BY <2>3 DEF linkSeen, LinkSeen
  <2>5. QED
    BY <2>2, <2>4, DeskStutters DEF mailSeen, stageSeen, bySeen, sawSeen, resetsSeen
<1>3. CASE (\E b \in BOOLEAN : SetActive(b)) \/ UNCHANGED vars
  <2>1. UNCHANGED <<mails, delivered, links, resets>>
    BY <1>3 DEF SetActive, vars, queue
  <2>2. QED
    BY <2>1, LinkAndResetsUnseen, DeskStutters DEF mailSeen
<1>4. ASSUME NEW r \in Resets, Reset(r)
      PROVE  Desk!Next \/ UNCHANGED Desk!vars
  BY <1>4, FollowIsSeen, LookIsSeen, CommitIsSeen, RefusalIsSeen, OnItsWayIsUnseen DEF Reset
<1>5. QED
  BY <1>1, <1>2, <1>3, <1>4 DEF Next, QueueStep

\* The mail queue and the resets implement MailDesk: every step of theirs is
\* one of it or shows nothing, for every number of mails and resets, whatever
\* the leases, the row locks and the faults.
THEOREM DeskImplemented == Spec => ImplementsDesk
<1>1. Init => TakenBeforeSaid /\ UnopenedSawNothing
  BY DEF Init, TakenBeforeSaid, UnopenedSawNothing, Asleep, NewReset
<1>2. Inv /\ TakenBeforeSaid /\ UnopenedSawNothing /\ [Next]_vars
        => TakenBeforeSaid' /\ UnopenedSawNothing'
  BY TakenBeforeSaidKept, UnopenedSawNothingKept DEF Inv, ResetInv
<1>3. Inv /\ TakenBeforeSaid /\ UnopenedSawNothing /\ [Next]_vars => [Desk!Next]_Desk!vars
  BY StepIsSeen
<1>4. QED
  BY <1>1, <1>2, <1>3, StartsAsDesk, InvHolds, PTL DEF Spec, ImplementsDesk, Desk!Spec
=============================================================================
