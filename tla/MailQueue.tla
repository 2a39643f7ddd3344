----------------------------- MODULE MailQueue ------------------------------
(***************************************************************************)
(* The mail to one person, the single-use links some of it carries, and    *)
(* the password resets made with them.                                     *)
(*                                                                         *)
(* One sender takes a row under a lease, looks whether the link in it      *)
(* still works, hands it to the mail server and records how that went, in  *)
(* separate statements.  The server may take a mail and say nothing, and   *)
(* the process may die between any two steps.                              *)
(*                                                                         *)
(* A reset is one READ COMMITTED transaction of a few statements: a         *)
(* statement that would change a row another reset holds waits for it, and *)
(* the database breaks a cycle by failing one of the two.                  *)
(***************************************************************************)
EXTENDS Integers

CONSTANTS
    Mails,
    NoMail,
    Resets,         \* the requests that complete a reset
    Nobody,
    MAX_ATTEMPTS,
    MaxFaults       \* bound: failures of the mail server, sends that throw or die,
                    \* links that expire, accounts disabled or enabled

ASSUME NamesAssumption == NoMail \notin Mails /\ Nobody \notin Resets

ASSUME LimitsAssumption ==
    /\ MAX_ATTEMPTS \in Nat \ {0}
    /\ MaxFaults \in Nat

VARIABLES
    mails,          \* mails[k]: the MailQueue row
    links,          \* links[k]: the SingleUseToken whose hash mail k carries
    active,         \* User.inactive is false
    sender,
    delivered,      \* the mails the mail server has taken, once or more often
    resets,
    linkLock,       \* linkLock[k]: the reset that holds the row of the token
    userLock,       \* the reset that holds the row of the user
    faults

queue == <<mails, sender, delivered>>
locks == <<linkLock, userLock>>
vars == <<mails, links, active, sender, delivered, resets, linkLock, userLock, faults>>

NoRow == [state |-> "none", attempts |-> 0, due |-> FALSE, body |-> FALSE]
Purged == [NoRow EXCEPT !.state = "purged"]
Waiting == [state |-> "PENDING", attempts |-> 0, due |-> TRUE, body |-> TRUE]

NoLink == [issued |-> FALSE, used |-> FALSE, expired |-> FALSE]
FreshLink == [issued |-> TRUE, used |-> FALSE, expired |-> FALSE]

Works(link) == link.issued /\ ~link.used /\ ~link.expired

Asleep == [pc |-> "drain", mail |-> NoMail, attempts |-> 0, retryable |-> FALSE]

IsFault == faults < MaxFaults /\ faults' = faults + 1

NewReset == [pc |-> "new", link |-> NoMail, saw |-> {}]

----------------------------------------------------------------------------
(* What is queued.                                                         *)

\* requestPasswordReset: the link and the mail that carries it, in one
\* transaction; links issued earlier are left alone.
RequestPasswordReset(k) ==
    /\ mails[k].state = "none"
    /\ active
    /\ mails' = [mails EXCEPT ![k] = Waiting]
    /\ links' = [links EXCEPT ![k] = FreshLink]
    /\ UNCHANGED <<active, sender, delivered, resets, locks, faults>>

\* A mail with no link: how to sign in, or that the password was changed.
QueueNotice(k) ==
    /\ mails[k].state = "none"
    /\ mails' = [mails EXCEPT ![k] = Waiting]
    /\ UNCHANGED <<links, active, sender, delivered, resets, locks, faults>>

SetActive(b) ==
    /\ IsFault
    /\ userLock = Nobody
    /\ active # b
    /\ active' = b
    /\ UNCHANGED <<queue, links, resets, locks>>

\* That a spent link expires as well makes no difference.
Expire(k) ==
    /\ IsFault
    /\ Works(links[k])
    /\ links' = [links EXCEPT ![k].expired = TRUE]
    /\ UNCHANGED <<queue, active, resets, locks>>

----------------------------------------------------------------------------
(* The sender.                                                             *)

\* Mistake: whatever is old enough is taken.
IsOld(k) == mails[k].due

\* Mistake: only what was never tried is taken.
IsNew(k) == mails[k].state = "PENDING" /\ mails[k].due /\ mails[k].attempts = 0

Due(k) == mails[k].state = "PENDING" /\ mails[k].due

\* The end of a lease or of a backoff.
ComesDue(k) ==
    /\ mails[k].state = "PENDING"
    /\ ~mails[k].due
    /\ mails' = [mails EXCEPT ![k].due = TRUE]
    /\ UNCHANGED <<links, active, sender, delivered, resets, locks, faults>>

\* Mistake: the tries left are counted, from 0.
CountedDown(k) == [mails[k] EXCEPT !.attempts = @ - 1, !.due = FALSE]

Claimed(k) == [mails[k] EXCEPT !.attempts = @ + 1, !.due = FALSE]

\* findFirst and updateMany: nobody else changes a waiting mail in between.
ClaimNextMail(k) ==
    /\ sender.pc = "drain"
    /\ Due(k)
    /\ mails' = [mails EXCEPT ![k] = Claimed(k)]
    /\ sender' = [Asleep EXCEPT !.pc = "claimed", !.mail = k, !.attempts = Claimed(k).attempts]
    /\ UNCHANGED <<links, active, delivered, resets, locks, faults>>

\* An expired link may be purged as well, which changes nothing here.
LinkIsDead(k) == links[k].issued /\ ~Works(links[k])

CheckLink ==
    /\ sender.pc = "claimed"
    /\ sender' = [sender EXCEPT !.pc = IF LinkIsDead(sender.mail) THEN "dead" ELSE "send"]
    /\ UNCHANGED <<mails, links, active, delivered, resets, locks, faults>>

\* The key it was encrypted with is not there any more.
BodyUnreadable ==
    /\ sender.pc = "send"
    /\ IsFault
    /\ sender' = [sender EXCEPT !.pc = "dead"]
    /\ UNCHANGED <<mails, links, active, delivered, resets, locks>>

\* Mistake: nobody waits for what the mail server says.
SendUnawaited ==
    /\ sender.pc = "send"
    /\ sender' = [sender EXCEPT !.pc = "sent"]
    /\ UNCHANGED <<mails, links, active, delivered, resets, locks, faults>>

SendMail ==
    /\ sender.pc = "send"
    /\ delivered' = delivered \cup {sender.mail}
    /\ sender' = [sender EXCEPT !.pc = "sent"]
    /\ UNCHANGED <<mails, links, active, resets, locks, faults>>

\* With or without the mail having been taken.
SendFails(taken, retryable) ==
    /\ sender.pc = "send"
    /\ IsFault
    /\ delivered' = IF taken THEN delivered \cup {sender.mail} ELSE delivered
    /\ sender' = [sender EXCEPT !.pc = "failed", !.retryable = retryable]
    /\ UNCHANGED <<mails, links, active, resets, locks>>

\* Mistake: a mail that is given up keeps its body.
SettledWithBody(row, state) == [row EXCEPT !.state = state]

Settled(row, state) == [row EXCEPT !.state = state, !.body = FALSE]

Record(row) ==
    /\ mails' = [mails EXCEPT ![sender.mail] = row]
    /\ sender' = Asleep
    /\ UNCHANGED <<links, active, delivered, resets, locks, faults>>

MarkMailSent ==
    /\ sender.pc = "sent"
    /\ Record(Settled(mails[sender.mail], "SENT"))

OutOfTries == sender.attempts >= MAX_ATTEMPTS

MarkMailFailed ==
    /\ sender.pc = "failed"
    /\ Record(IF OutOfTries \/ ~sender.retryable THEN Settled(mails[sender.mail], "FAILED")
              ELSE [mails[sender.mail] EXCEPT !.due = FALSE])

AbandonMail ==
    /\ sender.pc = "dead"
    /\ Record(Settled(mails[sender.mail], "FAILED"))

\* The loop catches it, or the process is started again; the row stays claimed.
SenderDies ==
    /\ sender.pc # "drain"
    /\ IsFault
    /\ sender' = Asleep
    /\ UNCHANGED <<mails, links, active, delivered, resets, locks>>

PurgeSentMail ==
    /\ mails' \in {[k \in Mails |-> IF k \in S THEN Purged ELSE mails[k]] :
                    S \in SUBSET {k \in Mails : mails[k].state \in {"SENT", "FAILED"}} \ {{}}}
    /\ UNCHANGED <<links, active, sender, delivered, resets, locks, faults>>

----------------------------------------------------------------------------
(* Completing a reset.                                                     *)

\* Somebody opens a link that reached them.
Follow(r, k) ==
    /\ resets[r].pc = "new"
    /\ k \in delivered
    /\ links[k].issued
    /\ resets' = [resets EXCEPT ![r] = [NewReset EXCEPT !.pc = "consume", !.link = k]]
    /\ UNCHANGED <<queue, links, active, locks, faults>>

Release(r) ==
    /\ linkLock' = [k \in Mails |-> IF linkLock[k] = r THEN Nobody ELSE linkLock[k]]
    /\ userLock' = IF userLock = r THEN Nobody ELSE userLock

Ends(r, pc) == resets' = [resets EXCEPT ![r].pc = pc]
Refused(r) == resets' = [resets EXCEPT ![r] = [NewReset EXCEPT !.pc = "refused"]]

\* Mistake: the link is read, and spent afterwards.
LooksUnspent(k) == Works(links[k])

\* updateMany where usedAt is null: it holds the row, or waits for who does.
MaySpend(k) == Works(links[k]) /\ linkLock[k] = Nobody

Consume(r) ==
    LET k == resets[r].link
    IN  /\ resets[r].pc = "consume"
        /\ MaySpend(k)
        /\ linkLock' = [linkLock EXCEPT ![k] = r]
        /\ Ends(r, "account")
        /\ UNCHANGED <<queue, links, active, userLock, faults>>

IsRefused(r) ==
    /\ resets[r].pc = "consume"
    /\ ~Works(links[resets[r].link])
    /\ Refused(r)
    /\ UNCHANGED <<queue, links, active, locks, faults>>

ReadAccount(r) ==
    /\ resets[r].pc = "account"
    /\ active
    /\ Ends(r, "password")
    /\ UNCHANGED <<queue, links, active, locks, faults>>

\* The account is disabled: the transaction returns, which commits what it has
\* done so far, the spending of the link.
SpendsTheLinkAlone(r) ==
    /\ resets[r].pc = "account"
    /\ ~active
    /\ links' = [links EXCEPT ![resets[r].link].used = TRUE]
    /\ Release(r)
    /\ Refused(r)
    /\ UNCHANGED <<queue, active, faults>>

WritePassword(r) ==
    /\ resets[r].pc = "password"
    /\ userLock = Nobody
    /\ userLock' = r
    /\ Ends(r, "rest")
    /\ UNCHANGED <<queue, links, active, linkLock, faults>>

\* The update goes over the unspent links that are there when it starts,
LooksForTheRest(r) ==
    /\ resets[r].pc = "rest"
    /\ resets' = [resets EXCEPT ![r].pc = "revoke",
                                ![r].saw = {k \in Mails : links[k].issued /\ ~links[k].used}]
    /\ UNCHANGED <<queue, links, active, locks, faults>>

\* Mistake: links that others hold are skipped.
SkipsLocked(r) == TRUE

\* and waits for every one of them that another reset holds.
NobodyHoldsTheRest(r) ==
    \A k \in resets[r].saw : ~links[k].used => linkLock[k] \in {Nobody, r}

RevokeTheRest(r) ==
    /\ resets[r].pc = "revoke"
    /\ NobodyHoldsTheRest(r)
    /\ linkLock' = [k \in Mails |-> IF k \in resets[r].saw THEN r ELSE linkLock[k]]
    /\ Ends(r, "commit")
    /\ UNCHANGED <<queue, links, active, userLock, faults>>

Commit(r) ==
    /\ resets[r].pc = "commit"
    /\ links' = [k \in Mails |-> IF k \in resets[r].saw THEN [links[k] EXCEPT !.used = TRUE] ELSE links[k]]
    /\ Release(r)
    /\ Ends(r, "done")
    /\ UNCHANGED <<queue, active, faults>>

\* A deadlock the database broke, or an error: nothing happened.
RollsBack(r) ==
    /\ resets[r].pc \in {"consume", "account", "password", "rest", "revoke", "commit"}
    /\ Release(r)
    /\ Refused(r)
    /\ UNCHANGED <<queue, links, active, faults>>

----------------------------------------------------------------------------

Init ==
    /\ mails = [k \in Mails |-> NoRow]
    /\ links = [k \in Mails |-> NoLink]
    /\ active = TRUE
    /\ sender = Asleep
    /\ delivered = {}
    /\ resets = [r \in Resets |-> NewReset]
    /\ linkLock = [k \in Mails |-> Nobody]
    /\ userLock = Nobody
    /\ faults = 0

SenderStep ==
    \/ \E k \in Mails : ClaimNextMail(k)
    \/ CheckLink
    \/ SendMail
    \/ MarkMailSent
    \/ MarkMailFailed
    \/ AbandonMail

SenderTrouble ==
    \/ BodyUnreadable
    \/ \E taken, retryable \in BOOLEAN : SendFails(taken, retryable)
    \/ SenderDies

Reset(r) ==
    \/ \E k \in Mails : Follow(r, k)
    \/ Consume(r)
    \/ IsRefused(r)
    \/ ReadAccount(r)
    \/ SpendsTheLinkAlone(r)
    \/ WritePassword(r)
    \/ LooksForTheRest(r)
    \/ RevokeTheRest(r)
    \/ Commit(r)
    \/ RollsBack(r)

Next ==
    \/ \E k \in Mails : RequestPasswordReset(k) \/ QueueNotice(k) \/ Expire(k) \/ ComesDue(k)
    \/ \E b \in BOOLEAN : SetActive(b)
    \/ PurgeSentMail
    \/ SenderStep
    \/ SenderTrouble
    \/ \E r \in Resets : Reset(r)

Spec == Init /\ [][Next]_vars

\* The loop of the sender catches everything and goes on, and is started again
\* with the process; time passes.
FairSpec == Spec /\ WF_vars(SenderStep) /\ \A k \in Mails : WF_vars(ComesDue(k))

----------------------------------------------------------------------------
(* Correctness.                                                            *)

\* The type of the tables, the sender, the resets and the row locks.
TypeOK ==
    /\ mails \in [Mails -> [state : {"none", "PENDING", "SENT", "FAILED", "purged"}, attempts : Nat,
                            due : BOOLEAN, body : BOOLEAN]]
    /\ links \in [Mails -> [issued : BOOLEAN, used : BOOLEAN, expired : BOOLEAN]]
    /\ active \in BOOLEAN
    /\ sender \in [pc : {"drain", "claimed", "dead", "send", "sent", "failed"},
                   mail : Mails \cup {NoMail}, attempts : Nat, retryable : BOOLEAN]
    /\ delivered \subseteq Mails
    /\ resets \in [Resets -> [pc : {"new", "consume", "account", "password", "rest", "revoke", "commit",
                                    "done", "refused"},
                              link : Mails \cup {NoMail}, saw : SUBSET Mails]]
    /\ linkLock \in [Mails -> Resets \cup {Nobody}]
    /\ userLock \in Resets \cup {Nobody}
    /\ faults \in Nat

\* "A second link requested earlier must not still work after a successful
\* reset" (completePasswordReset): of two resets under way with two links, the
\* one that is later cannot succeed, because the rows each must change are held
\* by the other.
AnOlderLinkIsDead ==
    [][\A r, q \in Resets :
        resets[r].pc = "commit" /\ resets'[r].pc = "done" /\ resets[q].pc = "done" =>
            resets[r].link \notin resets[q].saw]_vars

\* Whatever two openings of one link overlap, one of them at most resets the
\* password with it (consumeSingleUseToken).
EachLinkResetsOnce ==
    \A r, q \in Resets :
        r # q /\ resets[r].pc = "done" /\ resets[q].pc = "done" => resets[r].link # resets[q].link

\* What was sent or given up is never claimed again, so a mail goes out twice
\* only where an answer was lost or the sender died before it could say so.
SettledMailIsNotClaimed ==
    [][\A k \in Mails : mails[k].state \in {"SENT", "FAILED"} =>
        mails'[k] = mails[k] \/ mails'[k].state = "purged"]_vars

\* A waiting mail has its body, so none goes out empty; a settled one has not,
\* so no link stays in the table (markMailSent, markMailFailed, abandonMail).
BodyWhileWaiting == \A k \in Mails : mails[k].body <=> mails[k].state = "PENDING"

\* Whatever the mail server and crashes do, a queued mail is sent or given up.
EveryMailSettles == \A k \in Mails : []<>(mails[k].state # "PENDING")

----------------------------------------------------------------------------
(* What the queue and the transactions promise: MailDesk, seen through the *)
(* tables.  Leases and row locks are not seen, and neither are expiry and  *)
(* the account, which a reset judges when it takes its link and not when   *)
(* it commits.                                                             *)

LinkSeen(link) == IF ~link.issued THEN "none" ELSE IF link.used THEN "spent" ELSE "live"

StageSeen(pc) ==
    CASE pc \in {"consume", "account", "password", "rest"} -> "open"
      [] pc \in {"revoke", "commit"} -> "looked"
      [] OTHER -> pc

Desk == INSTANCE MailDesk WITH
    mail <- [k \in Mails |-> mails[k].state],
    link <- [k \in Mails |-> LinkSeen(links[k])],
    stage <- [r \in Resets |-> StageSeen(resets[r].pc)],
    by <- [r \in Resets |-> resets[r].link],
    seen <- [r \in Resets |-> resets[r].saw]

\* Whatever the leases, the lost answers, the waiting for rows and the broken
\* deadlocks do, each mail and each reset goes the way of MailDesk: what is
\* called sent was taken by the mail server, what is settled is sent no more,
\* and a reset succeeds on a link that nobody has spent, and withdraws at that
\* moment every link it found (sendOneMail, completePasswordReset).
ImplementsDesk == Desk!Spec

=============================================================================
