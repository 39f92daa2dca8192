---- MODULE MCMailTransaction ----
(* MailTransaction for TLC: the .cfg files give the constants. *)
EXTENDS MailTransaction
====
