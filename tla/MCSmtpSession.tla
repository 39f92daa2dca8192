---- MODULE MCSmtpSession ----
(* SmtpSession for TLC: the .cfg files give the constants. *)
EXTENDS SmtpSession
====
