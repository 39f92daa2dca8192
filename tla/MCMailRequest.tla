--------------------------- MODULE MCMailRequest ---------------------------
(* MailRequest for TLC: requests with all keys, with some, and with none.  *)
EXTENDS MailRequest, TLC
CONSTANTS r1, r2, r3, r4
Full == {"to", "subject", "emailbody", "files", "from", "passwd"}
MixedKeys == (r1 :> Full) @@ (r2 :> {"to", "emailbody", "from", "passwd"}) @@ (r3 :> {"subject", "files"})
             @@ (r4 :> {})
FullKeys == (r1 :> Full) @@ (r2 :> Full)
=============================================================================
