------------------------------ MODULE MailDesk -------------------------------
(***************************************************************************)
(* What the mail and the links in it promise, with no lease, no row lock   *)
(* and no half a transaction in it: a mail is called sent when the mail    *)
(* server has it, a link reaches people with its mail, and a reset spends, *)
(* at one moment, its own link and every other it found unspent.           *)
(*                                                                         *)
(* Three things are promised less than that, because the code promises     *)
(* less.  A mail may be given up although the server has it.  A link that  *)
(* is issued after a reset looked round stays alive.  And a link may be    *)
(* spent for nothing, by a reset that finds the account disabled.          *)
(*                                                                         *)
(* MailQueue is shown to implement it.                                     *)
(***************************************************************************)
CONSTANTS Mails, NoMail, Resets

VARIABLES
    mail,       \* mail[k]: how far mail k has come
    delivered,  \* the mails the mail server has taken
    link,       \* link[k]: the link that mail k carries, if any
    stage,      \* stage[r]: how far reset r has come
    by,         \* by[r]: the link it was opened with
    seen        \* seen[r]: the links it found unspent

post == <<mail, delivered>>
desk == <<stage, by, seen>>
vars == <<mail, delivered, link, stage, by, seen>>

Init ==
    /\ mail = [k \in Mails |-> "none"]
    /\ delivered = {}
    /\ link = [k \in Mails |-> "none"]
    /\ stage = [r \in Resets |-> "new"]
    /\ by = [r \in Resets |-> NoMail]
    /\ seen = [r \in Resets |-> {}]

Enqueue(k) ==
    /\ mail[k] = "none"
    /\ mail' = [mail EXCEPT ![k] = "PENDING"]
    /\ UNCHANGED <<delivered, desk>>

EnqueueNotice(k) ==
    /\ Enqueue(k)
    /\ UNCHANGED link

\* The link and the mail that carries it.
EnqueueLink(k) ==
    /\ Enqueue(k)
    /\ link[k] = "none"
    /\ link' = [link EXCEPT ![k] = "live"]

\* Once or more often, but never one that is settled.
Deliver(k) ==
    /\ mail[k] = "PENDING"
    /\ delivered' = delivered \cup {k}
    /\ UNCHANGED <<mail, link, desk>>

Settle(k, as) ==
    /\ mail[k] = "PENDING"
    /\ as = "SENT" => k \in delivered
    /\ mail' = [mail EXCEPT ![k] = as]
    /\ UNCHANGED <<delivered, link, desk>>

Purge(S) ==
    /\ \A k \in S : mail[k] \in {"SENT", "FAILED"}
    /\ mail' = [k \in Mails |-> IF k \in S THEN "purged" ELSE mail[k]]
    /\ UNCHANGED <<delivered, link, desk>>

Open(r, k) ==
    /\ stage[r] = "new"
    /\ k \in delivered
    /\ link[k] # "none"
    /\ stage' = [stage EXCEPT ![r] = "open"]
    /\ by' = [by EXCEPT ![r] = k]
    /\ UNCHANGED <<post, link, seen>>

LookRound(r) ==
    /\ stage[r] = "open"
    /\ stage' = [stage EXCEPT ![r] = "looked"]
    /\ seen' = [seen EXCEPT ![r] = {k \in Mails : link[k] = "live"}]
    /\ UNCHANGED <<post, link, by>>

\* Its own link is unspent to the last, and then none of those it found is.
Succeed(r) ==
    /\ stage[r] = "looked"
    /\ link[by[r]] = "live"
    /\ by[r] \in seen[r]
    /\ link' = [k \in Mails |-> IF k \in seen[r] THEN "spent" ELSE link[k]]
    /\ stage' = [stage EXCEPT ![r] = "done"]
    /\ UNCHANGED <<post, by, seen>>

TurnAway(r) ==
    /\ stage' = [stage EXCEPT ![r] = "refused"]
    /\ by' = [by EXCEPT ![r] = NoMail]
    /\ seen' = [seen EXCEPT ![r] = {}]
    /\ UNCHANGED post

Refuse(r) ==
    /\ stage[r] \in {"open", "looked"}
    /\ TurnAway(r)
    /\ UNCHANGED link

SpendForNothing(r) ==
    /\ stage[r] = "open"
    /\ link[by[r]] = "live"
    /\ link' = [link EXCEPT ![by[r]] = "spent"]
    /\ TurnAway(r)

Next ==
    \/ \E k \in Mails : EnqueueNotice(k) \/ EnqueueLink(k) \/ Deliver(k)
    \/ \E k \in Mails, as \in {"SENT", "FAILED"} : Settle(k, as)
    \/ \E S \in SUBSET Mails : Purge(S)
    \/ \E r \in Resets :
        \/ \E k \in Mails : Open(r, k)
        \/ LookRound(r) \/ Succeed(r) \/ Refuse(r) \/ SpendForNothing(r)

Spec == Init /\ [][Next]_vars
=============================================================================
