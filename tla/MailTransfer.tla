---------------------------- MODULE MailTransfer ----------------------------
(***************************************************************************)
(* What one e-mail transaction promises, whatever the SMTP server does:    *)
(* the sender logs in, then hands over the message, then it is delivered,  *)
(* each of them at most once and none without the one before; a            *)
(* transaction that is over hands over nothing any more.                   *)
(***************************************************************************)
VARIABLES
    progress,   \* how far the message got
    open        \* the transaction has begun and is not over

vars == <<progress, open>>

Init == progress = "unsent" /\ open = FALSE

Begin   == progress = "unsent" /\ ~open /\ open' = TRUE /\ UNCHANGED progress
Login   == progress = "unsent" /\ progress' = "login" /\ UNCHANGED open
Submit  == progress = "login" /\ open /\ progress' = "submitted" /\ UNCHANGED open
Deliver == progress = "submitted" /\ progress' = "delivered" /\ UNCHANGED open
End     == open /\ open' = FALSE /\ UNCHANGED progress

Next == Begin \/ Login \/ Submit \/ Deliver \/ End

Spec == Init /\ [][Next]_vars
=============================================================================
