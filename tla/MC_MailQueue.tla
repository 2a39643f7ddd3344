---------------------------- MODULE MC_MailQueue ----------------------------
(* Instances of MailQueue small enough for TLC.                            *)
EXTENDS MailQueue

MCTwo == 1 .. 2
=============================================================================
