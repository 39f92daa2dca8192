----------------------- MODULE MailTransactionProofs -----------------------
(***************************************************************************)
(* Proofs about MailTransaction, for any number of recipients, any length  *)
(* of the message and any faults of the server.                            *)
(*                                                                         *)
(* The acquire of the reactor thread does not wait because the semaphore   *)
(* counts the initial unit, the one svc adds, and the two acquires, and    *)
(* because the reactor thread acquires once: a session that has ended does *)
(* not end again.  That it does not is a matter of the dialogue with the   *)
(* server, which Dialogue describes: only a reply 220 in a state that does *)
(* not expect it, or the end of a TLS stream, ends a session.              *)
(*                                                                         *)
(* SInv of SmtpSessionProofs is of no use here: a worker that is late puts *)
(* the state machine back to GREETING in the middle of a session, and the  *)
(* two ends are no longer in step.                                         *)
(***************************************************************************)
EXTENDS MailTransaction, SmtpSessionProofs

USE DEF Gone

-----------------------------------------------------------------------------
(* Membership and order in a sequence.                                     *)

Has(s, x) == \E i \in 1..Len(s) : s[i] = x
InOrder(s, x, y) == \A i, j \in 1..Len(s) : s[i] = x /\ s[j] = y => i <= j

(* A sequence without its first k elements.                                *)
LEMMA Dropped ==
    ASSUME NEW s, NEW t, NEW k \in Nat, Len(s) \in Nat, Len(t) = Len(s) - k,
           \A i \in 1..Len(t) : t[i] = s[i + k]
    PROVE  /\ \A x : Has(t, x) => Has(s, x)
           /\ \A x, y : InOrder(s, x, y) => InOrder(t, x, y)
PROOF
  <1>1. \A i \in 1..Len(t) : i \in Int /\ i + k \in 1..Len(s)  OBVIOUS
  <1>2. ASSUME NEW x, Has(t, x) PROVE Has(s, x)
    BY <1>1, <1>2 DEF Has
  <1>3. ASSUME NEW x, NEW y, InOrder(s, x, y) PROVE InOrder(t, x, y)
    <2> SUFFICES ASSUME NEW i \in 1..Len(t), NEW j \in 1..Len(t), t[i] = x, t[j] = y
                 PROVE  i <= j
      BY DEF InOrder
    <2>1. i + k <= j + k  BY <1>1, <1>3 DEF InOrder
    <2> QED  BY <2>1
  <1> QED  BY <1>2, <1>3

(* What comes first comes before what it must not follow.                  *)
LEMMA TailWithout ==
    ASSUME NEW s, NEW t, NEW x, Len(s) \in Nat \ {0}, Len(t) = Len(s) - 1,
           \A i \in 1..Len(t) : t[i] = s[i + 1], InOrder(s, x, s[1])
    PROVE  ~Has(t, x)
PROOF
  <1> SUFFICES ASSUME NEW i \in 1..Len(t), t[i] = x PROVE FALSE  BY DEF Has
  <1>1. i + 1 \in 1..Len(s) /\ 1 \in 1..Len(s) /\ s[i + 1] = x  OBVIOUS
  <1>2. i + 1 <= 1  BY <1>1 DEF InOrder
  <1> QED  BY <1>2

LEMMA Joined ==
    ASSUME NEW S, NEW s \in Seq(S), NEW r \in Seq(S)
    PROVE  /\ \A x : Has(s \o r, x) <=> Has(s, x) \/ Has(r, x)
           /\ \A x, y : InOrder(s, x, y) /\ InOrder(r, x, y) /\ (Has(r, x) => ~Has(s, y))
                        => InOrder(s \o r, x, y)
           /\ s \o r \in Seq(S) /\ Len(s \o r) = Len(s) + Len(r)
           /\ Len(s) \in Nat /\ Len(r) \in Nat
           /\ \A x, i : i \in 1..Len(s \o r) /\ (s \o r)[i] = x =>
                 /\ Has(r, x) \/ (i \in 1..Len(s) /\ s[i] = x)
                 /\ Has(s, x) \/ i > Len(s)
PROOF
  <1> DEFINE t == s \o r
  <1>1. /\ Len(s) \in Nat /\ Len(r) \in Nat /\ Len(t) = Len(s) + Len(r)
        /\ \A i \in 1..Len(s) + Len(r) :
              t[i] = IF i <= Len(s) THEN s[i] ELSE r[i - Len(s)]
    BY ConcatProperties
  <1> HIDE DEF t
  <1>2. \A i \in 1..Len(s) : i \in 1..Len(t) /\ t[i] = s[i]  BY <1>1
  <1>3. ASSUME NEW i \in 1..Len(r)
        PROVE  i + Len(s) \in 1..Len(t) /\ t[i + Len(s)] = r[i]
    <2>1. i + Len(s) \in 1..Len(s) + Len(r) /\ ~(i + Len(s) <= Len(s))
          /\ (i + Len(s)) - Len(s) = i
      BY <1>1
    <2> QED  BY <1>1, <2>1
  <1>4. ASSUME NEW i \in 1..Len(t)
        PROVE  \/ i \in 1..Len(s) /\ t[i] = s[i]
               \/ i > Len(s) /\ i - Len(s) \in 1..Len(r) /\ t[i] = r[i - Len(s)]
    BY <1>1
  <1>5. ASSUME NEW x PROVE Has(t, x) <=> Has(s, x) \/ Has(r, x)
    <2>1. Has(t, x) => Has(s, x) \/ Has(r, x)  BY <1>4 DEF Has
    <2>2. Has(s, x) => Has(t, x)  BY <1>2 DEF Has
    <2>3. Has(r, x) => Has(t, x)  BY <1>3 DEF Has
    <2> QED  BY <2>1, <2>2, <2>3
  <1>6. ASSUME NEW x, NEW y, InOrder(s, x, y), InOrder(r, x, y), Has(r, x) => ~Has(s, y)
        PROVE  InOrder(t, x, y)
    <2> SUFFICES ASSUME NEW i \in 1..Len(t), NEW j \in 1..Len(t), t[i] = x, t[j] = y
                 PROVE  i <= j
      BY DEF InOrder
    <2>1. CASE i \in 1..Len(s) /\ j \in 1..Len(s)
      BY <1>2, <1>6, <2>1 DEF InOrder
    <2>2. CASE i \in 1..Len(s) /\ j > Len(s)
      BY <1>1, <2>2
    <2>3. CASE i > Len(s) /\ j > Len(s)
      <3>1. i - Len(s) \in 1..Len(r) /\ j - Len(s) \in 1..Len(r)
            /\ r[i - Len(s)] = x /\ r[j - Len(s)] = y
        BY <1>1, <1>4, <2>3
      <3>2. i - Len(s) <= j - Len(s)  BY <1>6, <3>1 DEF InOrder
      <3> QED  BY <1>1, <3>2
    <2>4. CASE i > Len(s) /\ j \in 1..Len(s)
      <3>1. i - Len(s) \in 1..Len(r) /\ r[i - Len(s)] = x  BY <1>1, <1>4, <2>4
      <3>2. Has(r, x)  BY <3>1 DEF Has
      <3>3. Has(s, y)  BY <1>2, <2>4 DEF Has
      <3> QED  BY <1>6, <3>2, <3>3
    <2> QED  BY <1>1, <1>4, <2>1, <2>2, <2>3, <2>4
  <1>7. ASSUME NEW x, NEW i \in 1..Len(t), t[i] = x
        PROVE  /\ Has(r, x) \/ (i \in 1..Len(s) /\ s[i] = x)
               /\ Has(s, x) \/ i > Len(s)
    BY <1>4, <1>7 DEF Has
  <1>8. t \in Seq(S)  BY DEF t
  <1>9. /\ \A x : Has(t, x) <=> Has(s, x) \/ Has(r, x)
        /\ \A x, y : InOrder(s, x, y) /\ InOrder(r, x, y) /\ (Has(r, x) => ~Has(s, y))
                        => InOrder(t, x, y)
        /\ t \in Seq(S) /\ Len(t) = Len(s) + Len(r) /\ Len(s) \in Nat /\ Len(r) \in Nat
        /\ \A x, i : i \in 1..Len(t) /\ t[i] = x =>
                 /\ Has(r, x) \/ (i \in 1..Len(s) /\ s[i] = x)
                 /\ Has(s, x) \/ i > Len(s)
    BY <1>1, <1>5, <1>6, <1>7, <1>8
  <1> QED  BY <1>9 DEF t

LEMMA JoinedAt ==
    ASSUME NEW S, NEW s \in Seq(S), NEW r \in Seq(S), NEW i \in 1..Len(s \o r)
    PROVE  /\ Has(r, (s \o r)[i]) \/ (i \in 1..Len(s) /\ s[i] = (s \o r)[i])
           /\ Has(s, (s \o r)[i]) \/ i > Len(s)
PROOF BY Joined

LEMMA Singleton ==
    ASSUME NEW c
    PROVE  /\ \A x : Has(<<c>>, x) <=> x = c
           /\ \A x, y : InOrder(<<c>>, x, y)
PROOF
  <1>1. Len(<<c>>) = 1 /\ <<c>>[1] = c  OBVIOUS
  <1>2. \A i \in 1..Len(<<c>>) : i = 1  BY <1>1
  <1>3. 1 \in 1..Len(<<c>>)  BY <1>1
  <1> QED  BY <1>1, <1>2, <1>3 DEF Has, InOrder

LEMMA Nothing == \A x, y : ~Has(<<>>, x) /\ InOrder(<<>>, x, y)
PROOF
  <1>1. Len(<<>>) = 0  OBVIOUS
  <1> QED  BY <1>1 DEF Has, InOrder
-----------------------------------------------------------------------------
(* The dialogue with the server.                                           *)

Login == "AUTH LOGIN"
Rcpt == "RCPT TO"
Challenge == R(334, "Username:")

(* The server says no other 220 than its greeting and the one that answers *)
(* STARTTLS, and nothing before the client is connected.                   *)
OnlyThese ==
    \A r \in Reply : Has(toClient, r) =>
        /\ r.code = 220 => r \in {Banner220, TlsReady}
        /\ r.text = "STARTTLS" => r = CanStartTls
Unconnected ==
    server \in {"none", "greet"} =>
        /\ toServer = <<>> /\ toClient = <<>> /\ state = "GREETING" /\ ssl # "up"
        /\ client /\ reactor = "idle"

(* A greeting is read before anything else: only one in two parts, of      *)
(* which a read took the first, meets the state HELO.                      *)
Parts == \A i \in 1..Len(toClient) : toClient[i] = Banner220 =>
            i = 1 \/ (i = 2 /\ state = "GREETING" /\ May("splitBanner"))
GreetingFirst ==
    Has(toClient, Banner220) =>
        /\ state \in {"GREETING", "HELO"} /\ ssl # "up" /\ Parts
        /\ state = "HELO" => May("splitBanner")
        /\ ~Has(toClient, Challenge) /\ ~Has(toClient, TlsReady)
        /\ ~Has(toServer, Login) /\ ~Has(toServer, "STARTTLS")

(* STARTTLS is asked once and before the login, however often the worker   *)
(* or a second greeting put the state machine back.                        *)
Early == state \in {"MAIL", "GREETING"} /\ stage \in {"AUTH_INIT", "AUTH_USRNAME"}
TlsAsked ==
    Has(toServer, "STARTTLS") =>
        /\ Early /\ ~Has(toClient, Banner220) /\ ~Has(toClient, TlsReady)
        /\ ~Has(toClient, Challenge)
        /\ InOrder(toServer, "STARTTLS", "STARTTLS")
        /\ InOrder(toServer, "STARTTLS", Login) /\ InOrder(toServer, "EHLO", "STARTTLS")
ReadyLast == \A i \in 1..Len(toClient) : toClient[i] = TlsReady => i = Len(toClient)
TlsOffered ==
    Has(toClient, TlsReady) =>
        /\ Early /\ server \in {"handshake", "dropped"} /\ ReadyLast
        /\ ~Has(toClient, Banner220) /\ ~Has(toClient, Challenge)
        /\ ~Has(toServer, "STARTTLS") /\ ~Has(toServer, "EHLO")
LoginLater ==
    state = "HELO" =>
        /\ InOrder(toServer, Login, "EHLO") /\ InOrder(toClient, Challenge, CanStartTls)
        /\ Has(toClient, CanStartTls) => ~Has(toServer, Login)

(* endEmailTransaction is the end: no second one follows.                  *)
Sealed ==
    /\ ~Has(toClient, Banner220) /\ ~Has(toClient, TlsReady)
    /\ ~Has(toServer, "STARTTLS") /\ server \notin {"none", "greet"}
OneEnd == ~client \/ reactor = "ending" => May("splitBanner") /\ ssl # "up" /\ Sealed

Dialogue == OnlyThese /\ Unconnected /\ GreetingFirst /\ TlsAsked /\ TlsOffered
            /\ LoginLater /\ OneEnd

(* The recipients are sent once, in a row: however many the server still   *)
(* has before it, it cannot accept more than there are.                    *)
InARow ==
    \A i, j \in 1..Len(toServer) : toServer[i] = Rcpt /\ toServer[j] = Rcpt =>
        (j - i) + 1 + rcpts <= NRcpt
OneBatch ==
    /\ \/ rcpts = 0 /\ ~Has(toServer, Rcpt)
       \/ state \in {"DATA", "BODY", "QUIT", "GREETING"} /\ Sealed
    /\ InARow

Talk == Alive => Dialogue /\ OneBatch

LEMMA Words ==
    /\ Login # "EHLO" /\ Login # "STARTTLS" /\ Rcpt # Login
    /\ Rcpt # "EHLO" /\ Rcpt # "STARTTLS"
    /\ Login \in Command /\ Rcpt \in Command /\ "EHLO" \in Command /\ "STARTTLS" \in Command
PROOF BY Zenon DEF Login, Rcpt, Command

LEMMA ReplyFacts ==
    /\ Banner220 \in Reply /\ TlsReady \in Reply /\ Challenge \in Reply /\ CanStartTls \in Reply
    /\ Banner220.code = 220 /\ TlsReady.code = 220 /\ Challenge.code = 334
    /\ CanStartTls.code = 250 /\ CanStartTls.text = "STARTTLS"
    /\ Challenge.text # "STARTTLS" /\ Banner220.text # "STARTTLS" /\ TlsReady.text # "STARTTLS"
    /\ Banner220 # TlsReady /\ Banner220 # Challenge /\ TlsReady # Challenge
    /\ Banner220 # CanStartTls /\ TlsReady # CanStartTls /\ Challenge # CanStartTls
PROOF BY DEF Banner220, TlsReady, Challenge, CanStartTls, R, Reply

(* The answer rs to the command c.                                         *)
Answers(c, rs) ==
    /\ Take(c) /\ rs \in Seq(Reply) /\ toClient' = toClient \o rs
    /\ \A r \in Reply : Has(rs, r) =>
          /\ r.code = 220 => r = TlsReady
          /\ r.text = "STARTTLS" => r = CanStartTls
    /\ Has(rs, TlsReady) => c = "STARTTLS" /\ Len(rs) = 1 /\ server' = "handshake"
    /\ Has(rs, CanStartTls) => c = "EHLO" /\ ~Has(rs, Challenge)
    /\ Has(rs, Challenge) => c = Login
    /\ server' \in {server, "helo", "handshake", "user", "pass", "authed", "mail", "data",
                    "closed", "reset"}
    /\ rcpts' = rcpts \/ (c = Rcpt /\ rcpts' = rcpts + 1)
    /\ UNCHANGED <<fsmVars, tlsVars, clientVars, faults>>

LEMMA AnswersKeep ==
    ASSUME TypeOK, Alive, Dialogue, OneBatch, NEW c, NEW rs, Answers(c, rs)
    PROVE  Dialogue' /\ OneBatch' /\ rcpts' \in 0..NRcpt
           /\ toClient' \in Seq(Reply) /\ toServer' \in Seq(Command)
PROOF
  <1> USE Words, ReplyFacts
  <1>1. /\ Take(c) /\ rs \in Seq(Reply) /\ toClient \in Seq(Reply) /\ toServer \in Seq(Command)
        /\ toClient' = toClient \o rs
    BY DEF Answers, TypeOK
  <1>2. /\ server \notin {"none", "handshake", "closed", "reset", "dropped"}
        /\ Len(toServer) \in Nat \ {0} /\ toServer[1] = c
        /\ toServer' \in Seq(Command) /\ Len(toServer') = Len(toServer) - 1
        /\ \A i \in 1..Len(toServer') : toServer'[i] = toServer[i + 1]
    BY <1>1, TakeIs DEF Ended
  <1>3. /\ \A x : Has(toServer', x) => Has(toServer, x)
        /\ \A x, y : InOrder(toServer, x, y) => InOrder(toServer', x, y)
        /\ \A x : InOrder(toServer, x, c) => ~Has(toServer', x)
    <2>1. Len(toServer) \in Nat  BY <1>2
    <2>2. /\ \A x : Has(toServer', x) => Has(toServer, x)
          /\ \A x, y : InOrder(toServer, x, y) => InOrder(toServer', x, y)
      BY <1>2, <2>1, Dropped, SMTT(30)
    <2>3. ASSUME NEW x, InOrder(toServer, x, c) PROVE ~Has(toServer', x)
      BY <1>2, <2>3, TailWithout
    <2> QED  BY <2>2, <2>3
  <1>4. Has(toServer, c)
    <2>1. 1 \in 1..Len(toServer)  BY <1>2
    <2> QED  BY <1>2, <2>1 DEF Has
  <1>5. /\ \A x : Has(toClient', x) <=> Has(toClient, x) \/ Has(rs, x)
        /\ \A x, y : InOrder(toClient, x, y) /\ InOrder(rs, x, y)
                        /\ (Has(rs, x) => ~Has(toClient, y)) => InOrder(toClient', x, y)
        /\ toClient' \in Seq(Reply) /\ Len(toClient') = Len(toClient) + Len(rs)
        /\ Len(toClient) \in Nat /\ Len(rs) \in Nat
        /\ \A x, i : i \in 1..Len(toClient') /\ toClient'[i] = x /\ ~Has(rs, x) =>
              i \in 1..Len(toClient) /\ toClient[i] = x
        /\ \A x, i : i \in 1..Len(toClient') /\ toClient'[i] = x /\ ~Has(toClient, x) =>
              i > Len(toClient)
    <2> DEFINE t == toClient \o rs
    <2>1. /\ \A x : Has(t, x) <=> Has(toClient, x) \/ Has(rs, x)
          /\ \A x, y : InOrder(toClient, x, y) /\ InOrder(rs, x, y)
                          /\ (Has(rs, x) => ~Has(toClient, y)) => InOrder(t, x, y)
          /\ t \in Seq(Reply) /\ Len(t) = Len(toClient) + Len(rs)
          /\ Len(toClient) \in Nat /\ Len(rs) \in Nat
          /\ \A x, i : i \in 1..Len(t) /\ t[i] = x =>
                   /\ Has(rs, x) \/ (i \in 1..Len(toClient) /\ toClient[i] = x)
                   /\ Has(toClient, x) \/ i > Len(toClient)
      <3>1. rs \in Seq(Reply) /\ toClient \in Seq(Reply)  BY <1>1
      <3> QED  BY <3>1, Joined
    <2>2. toClient' = t  BY <1>1
    <2> HIDE DEF t
    <2> QED  BY <2>1, <2>2
  <1>6. server # "greet"
    <2>1. toServer # <<>>  BY <1>2
    <2> QED  BY <2>1 DEF Dialogue, Unconnected
  <1>7. ~Has(toClient, TlsReady)  BY <1>2 DEF Dialogue, TlsOffered
  <1>8. /\ state' = state /\ stage' = stage /\ ssl' = ssl /\ client' = client
        /\ reactor' = reactor /\ faults' = faults /\ server' \notin {"none", "greet"}
    BY <1>2, <1>6 DEF Answers, fsmVars, tlsVars, clientVars
  <1>9. /\ \A r \in Reply : Has(rs, r) =>
              (r.code = 220 => r = TlsReady) /\ (r.text = "STARTTLS" => r = CanStartTls)
        /\ Has(rs, TlsReady) => c = "STARTTLS" /\ Len(rs) = 1 /\ server' = "handshake"
        /\ Has(rs, CanStartTls) => c = "EHLO" /\ ~Has(rs, Challenge)
        /\ Has(rs, Challenge) => c = Login
        /\ ~Has(rs, Banner220)
    BY DEF Answers
  <1>10. OnlyThese'
    <2> SUFFICES ASSUME NEW r \in Reply, Has(toClient', r)
                 PROVE  /\ r.code = 220 => r \in {Banner220, TlsReady}
                        /\ r.text = "STARTTLS" => r = CanStartTls
      BY DEF OnlyThese
    <2>1. Has(toClient, r) \/ Has(rs, r)  BY <1>5
    <2> QED  BY <1>9, <2>1 DEF Dialogue, OnlyThese
  <1>11. Unconnected'  BY <1>8 DEF Unconnected
  <1>12. GreetingFirst'
    <2> SUFFICES ASSUME Has(toClient', Banner220) PROVE GreetingFirst'
      BY DEF GreetingFirst
    <2>1. Has(toClient, Banner220)  BY <1>5, <1>9
    <2>2. /\ state \in {"GREETING", "HELO"} /\ ssl # "up" /\ Parts
          /\ state = "HELO" => May("splitBanner")
          /\ ~Has(toClient, Challenge) /\ ~Has(toServer, Login) /\ ~Has(toServer, "STARTTLS")
      BY <2>1 DEF Dialogue, GreetingFirst
    <2>3. ~Has(toClient', Challenge) /\ ~Has(toClient', TlsReady)
      BY <1>4, <1>5, <1>7, <1>9, <2>2
    <2>4. Parts'
      <3> SUFFICES ASSUME NEW i \in 1..Len(toClient'), toClient'[i] = Banner220
                   PROVE  i = 1 \/ (i = 2 /\ state = "GREETING" /\ May("splitBanner"))
        BY <1>8 DEF Parts, May
      <3>1. i \in 1..Len(toClient) /\ toClient[i] = Banner220  BY <1>5, <1>9
      <3> QED  BY <2>2, <3>1 DEF Parts
    <2> QED  BY <1>3, <1>8, <2>2, <2>3, <2>4 DEF GreetingFirst, May
  <1>13. Has(toServer', "STARTTLS") =>
            /\ Early /\ ~Has(toClient, Banner220) /\ ~Has(toClient, Challenge)
            /\ c # "STARTTLS" /\ c # Login
            /\ InOrder(toServer', "STARTTLS", "STARTTLS")
            /\ InOrder(toServer', "STARTTLS", Login) /\ InOrder(toServer', "EHLO", "STARTTLS")
    BY <1>3 DEF Dialogue, TlsAsked
  <1>14. TlsAsked'
    BY <1>5, <1>7, <1>8, <1>9, <1>13 DEF TlsAsked, Early
  <1>15. TlsOffered'
    <2> SUFFICES ASSUME Has(toClient', TlsReady) PROVE TlsOffered'
      BY DEF TlsOffered
    <2>1. Has(rs, TlsReady)  BY <1>5, <1>7
    <2>2. c = "STARTTLS" /\ Len(rs) = 1 /\ server' = "handshake"  BY <1>9, <2>1
    <2>3. /\ Early /\ ~Has(toClient, Banner220) /\ ~Has(toClient, Challenge)
          /\ InOrder(toServer, "STARTTLS", c) /\ InOrder(toServer, "EHLO", c)
      BY <1>4, <2>2 DEF Dialogue, TlsAsked
    <2>4. ~Has(toClient', Banner220) /\ ~Has(toClient', Challenge)
      BY <1>5, <1>9, <2>2, <2>3
    <2>5. ReadyLast'
      <3> SUFFICES ASSUME NEW i \in 1..Len(toClient'), toClient'[i] = TlsReady
                   PROVE  i = Len(toClient')
        BY DEF ReadyLast
      <3>1. i > Len(toClient)  BY <1>5, <1>7
      <3> QED  BY <1>5, <2>2, <3>1
    <2> QED  BY <1>3, <1>8, <2>2, <2>3, <2>4, <2>5 DEF TlsOffered, Early
  <1>16. LoginLater'
    <2> SUFFICES ASSUME state = "HELO" PROVE LoginLater'
      BY <1>8 DEF LoginLater
    <2>1. /\ InOrder(toServer, Login, "EHLO") /\ InOrder(toClient, Challenge, CanStartTls)
          /\ Has(toClient, CanStartTls) => ~Has(toServer, Login)
      BY DEF Dialogue, LoginLater
    <2>2. InOrder(rs, Challenge, CanStartTls)
      <3>1. ~Has(rs, Challenge) \/ ~Has(rs, CanStartTls)  BY <1>9
      <3> QED  BY <3>1 DEF Has, InOrder
    <2>3. Has(rs, Challenge) => ~Has(toClient, CanStartTls)  BY <1>4, <1>9, <2>1
    <2>4. InOrder(toClient', Challenge, CanStartTls)  BY <1>5, <2>1, <2>2, <2>3
    <2>5. Has(toClient', CanStartTls) => ~Has(toServer', Login)
      BY <1>3, <1>5, <1>9, <2>1
    <2> QED  BY <1>3, <2>1, <2>4, <2>5 DEF LoginLater
  <1>17. Sealed => Sealed'
    BY <1>3, <1>4, <1>5, <1>8, <1>9 DEF Sealed
  <1>18. OneEnd'  BY <1>8, <1>17 DEF Dialogue, OneEnd, May
  <1>19. rcpts \in Nat /\ NRcpt \in Nat  BY NRcptAssumption DEF TypeOK
  <1>20. rcpts' = rcpts \/ (c = Rcpt /\ rcpts' = rcpts + 1)  BY DEF Answers
  <1>21. OneBatch'
    <2>1. \/ rcpts = 0 /\ ~Has(toServer, Rcpt)
          \/ state \in {"DATA", "BODY", "QUIT", "GREETING"} /\ Sealed
      BY DEF OneBatch
    <2>2. \/ rcpts' = 0 /\ ~Has(toServer', Rcpt)
          \/ state' \in {"DATA", "BODY", "QUIT", "GREETING"} /\ Sealed'
      BY <1>3, <1>4, <1>8, <1>17, <1>20, <2>1
    <2>3. InARow'
      <3> SUFFICES ASSUME NEW i \in 1..Len(toServer'), NEW j \in 1..Len(toServer'),
                          toServer'[i] = Rcpt, toServer'[j] = Rcpt
                   PROVE  (j - i) + 1 + rcpts' <= NRcpt
        BY DEF InARow
      <3>1. /\ i + 1 \in 1..Len(toServer) /\ j + 1 \in 1..Len(toServer)
            /\ 1 \in 1..Len(toServer) /\ i \in Nat \ {0} /\ j \in Nat
        BY <1>2
      <3>2. toServer[i + 1] = Rcpt /\ toServer[j + 1] = Rcpt  BY <1>2
      <3>3. ((j + 1) - (i + 1)) + 1 + rcpts <= NRcpt  BY <3>1, <3>2 DEF OneBatch, InARow
      <3>4. c = Rcpt => ((j + 1) - 1) + 1 + rcpts <= NRcpt
        BY <1>2, <3>1, <3>2 DEF OneBatch, InARow
      <3> QED  BY <1>19, <1>20, <3>1, <3>3, <3>4
    <2> QED  BY <2>2, <2>3 DEF OneBatch
  <1>22. rcpts' \in 0..NRcpt
    <2>1. 1 \in 1..Len(toServer)  BY <1>2
    <2>2. c = Rcpt => (1 - 1) + 1 + rcpts <= NRcpt  BY <1>2, <2>1 DEF OneBatch, InARow
    <2>3. rcpts <= NRcpt  BY DEF TypeOK
    <2> QED  BY <1>19, <1>20, <2>2, <2>3
  <1> QED
    BY <1>2, <1>5, <1>10, <1>11, <1>12, <1>14, <1>15, <1>16, <1>18, <1>21, <1>22
    DEF Dialogue

(* The server's actions are answers...                                     *)
Reached == {"helo", "handshake", "user", "pass", "authed", "mail", "data", "closed",
            "reset"}
Plain(r) == r \in Reply /\ r.code # 220 /\ r.text # "STARTTLS" /\ r # Challenge

LEMMA OneAnswer ==
    ASSUME NEW c, NEW r \in Reply, Take(c), Say(<<r>>),
           \/ Plain(r)
           \/ r = TlsReady /\ c = "STARTTLS" /\ server' = "handshake"
           \/ r = Challenge /\ c = Login
           \/ r = CanStartTls /\ c = "EHLO",
           server' \in {server} \cup Reached,
           rcpts' = rcpts \/ (c = Rcpt /\ rcpts' = rcpts + 1),
           UNCHANGED <<fsmVars, tlsVars, clientVars, faults>>
    PROVE  Answers(c, <<r>>)
PROOF
  <1>1. <<r>> \in Seq(Reply) /\ toClient' = toClient \o <<r>> /\ Len(<<r>>) = 1
    BY DEF Say
  <1>2. \A x : Has(<<r>>, x) <=> x = r  BY Singleton
  <1>3. server' \in {server, "helo", "handshake", "user", "pass", "authed", "mail", "data",
                    "closed", "reset"}
    BY DEF Reached
  <1> QED  BY <1>1, <1>2, <1>3, ReplyFacts DEF Answers, Plain

LEMMA PlainAnswers ==
    ASSUME NEW c, NEW rs \in Seq(Reply), Take(c), Say(rs),
           \A i \in 1..Len(rs) : Plain(rs[i]),
           server' \in {server} \cup Reached, rcpts' = rcpts,
           UNCHANGED <<fsmVars, tlsVars, clientVars, faults>>
    PROVE  Answers(c, rs)
PROOF
  <1>1. toClient' = toClient \o rs  BY DEF Say
  <1>2. \A x : Has(rs, x) => Plain(x)  BY DEF Has
  <1>3. server' \in {server, "helo", "handshake", "user", "pass", "authed", "mail", "data",
                    "closed", "reset"}
    BY DEF Reached
  <1> QED  BY <1>1, <1>2, <1>3, ReplyFacts DEF Answers, Plain

LEMMA Plainly ==
    /\ \A c \in {221, 235, 421, 454, 500, 530, 535, 550, 554} :
          \A t \in {"error", "2.0.0", "2.7.0"} : Plain(R(c, t))
    /\ Plain(R(250, "2.0.0")) /\ Plain(R(250, "2.1.0")) /\ Plain(R(250, "2.1.5"))
    /\ Plain(R(250, "SIZE")) /\ Plain(R(334, "Password:")) /\ Plain(R(354, "Go"))
PROOF BY DEF Plain, R, Reply, Challenge

LEMMA EhloAnswers == Ehlo => \E rs : Answers("EHLO", rs)
PROOF
  <1> SUFFICES ASSUME Ehlo PROVE \E rs : Answers("EHLO", rs)  OBVIOUS
  <1>1. /\ Take("EHLO") /\ server' = "helo" /\ rcpts' = rcpts
        /\ UNCHANGED <<fsmVars, tlsVars, clientVars, faults>>
    BY DEF Ehlo
  <1>2. Size \in Reply /\ CanStartTls \in Reply  BY DEF Size, CanStartTls, R, Reply
  <1>3. Plain(Size)  BY Plainly DEF Size
  <1>4. CASE Say(<<Size>>)
    BY <1>1, <1>2, <1>3, <1>4, OneAnswer DEF Reached
  <1>5. CASE Say(<<Size, CanStartTls>>)
    <2> DEFINE rs == <<Size, CanStartTls>>
    <2>1. /\ rs \in Seq(Reply) /\ Len(rs) = 2 /\ rs[1] = Size /\ rs[2] = CanStartTls
      BY <1>2
    <2>2. toClient' = toClient \o rs  BY <1>5 DEF Say
    <2> HIDE DEF rs
    <2>3. \A x : Has(rs, x) => x \in {Size, CanStartTls}
      <3>1. \A i \in 1..Len(rs) : i = 1 \/ i = 2  BY <2>1
      <3> QED  BY <2>1, <3>1 DEF Has
    <2>4. /\ \A r \in Reply : Has(rs, r) =>
                (r.code = 220 => r = TlsReady) /\ (r.text = "STARTTLS" => r = CanStartTls)
          /\ ~Has(rs, TlsReady) /\ ~Has(rs, Challenge)
      BY <1>3, <2>3, ReplyFacts DEF Plain
    <2> QED  BY <1>1, <2>1, <2>2, <2>4 DEF Answers
  <1> QED  BY <1>4, <1>5 DEF Ehlo, Size, CanStartTls

LEMMA ServerAnswers ==
    ASSUME TypeOK, Server, ~Banner
    PROVE  /\ \E c, rs : Answers(c, rs)
           /\ secure' = secure /\ loggedIn' \in BOOLEAN /\ misread' \in BOOLEAN
           /\ accepted' \in Nat
PROOF
  <1> USE DEF Reached
  <1> DEFINE Goal == \E c, rs : Answers(c, rs)
             Rest0 == /\ secure' = secure /\ loggedIn' \in BOOLEAN /\ misread' \in BOOLEAN
                      /\ accepted' \in Nat
  <1>1. ASSUME Ehlo PROVE Goal /\ Rest0
    BY <1>1, EhloAnswers DEF Ehlo, TypeOK
  <1>2. ASSUME StartTls PROVE Goal /\ Rest0
    <2>1. /\ Take("STARTTLS") /\ rcpts' = rcpts
          /\ UNCHANGED <<fsmVars, tlsVars, clientVars, faults>> /\ Rest0
      BY <1>2 DEF StartTls, TypeOK
    <2>2. CASE Say(<<TlsReady>>) /\ server' = "handshake"
      BY <2>1, <2>2, ReplyFacts, OneAnswer
    <2>3. CASE Say(<<R(454, "error")>>) /\ server' = server
      BY <2>1, <2>3, Plainly, OneAnswer DEF Plain
    <2> QED  BY <1>2, <2>1, <2>2, <2>3 DEF StartTls, TlsReady
  <1>3. ASSUME AuthLogin PROVE Goal /\ Rest0
    <2>1. /\ Take(Login) /\ rcpts' = rcpts
          /\ UNCHANGED <<fsmVars, tlsVars, clientVars, faults>>
          /\ UNCHANGED <<secure, loggedIn, misread, accepted>>
      BY <1>3, Zenon DEF AuthLogin, Login
    <2>2. CASE Say(<<Challenge>>) /\ server' = "user"
      <3>1. PICK c, r : c = Login /\ r = Challenge  OBVIOUS
      <3>2. /\ Say(<<r>>) /\ Take(c) /\ r = Challenge /\ c = Login /\ r \in Reply
            /\ server' \in {server} \cup Reached
        BY <2>1, <2>2, <3>1, ReplyFacts
      <3>3. Answers(c, <<r>>)  BY <2>1, <3>2, OneAnswer, Zenon
      <3>4. Rest0  BY <2>1 DEF TypeOK
      <3> QED  BY <3>3, <3>4
    <2>3. CASE Say(<<R(530, "error")>>) /\ server' = server
      <3>1. Plain(R(530, "error")) /\ R(530, "error") \in Reply  BY Plainly DEF Plain
      <3>2. Goal  BY <2>1, <2>3, <3>1, OneAnswer
      <3> QED  BY <2>1, <3>2 DEF TypeOK
    <2> QED  BY <1>3, <2>1, <2>2, <2>3, Zenon DEF AuthLogin, Challenge
  <1>4. ASSUME Username PROVE Goal /\ Rest0
    <2> DEFINE r == R(334, "Password:")
    <2>1. /\ Take("username") /\ Say(<<r>>) /\ rcpts' = rcpts /\ server' = "pass"
          /\ UNCHANGED <<fsmVars, tlsVars, clientVars, faults>> /\ Rest0
      BY <1>4 DEF Username, serverVars, TypeOK
    <2>2. Plain(r) /\ r \in Reply  BY Plainly DEF Plain
    <2> HIDE DEF r
    <2> QED  BY <2>1, <2>2, OneAnswer
  <1>5. ASSUME Password PROVE Goal /\ Rest0
    <2>1. /\ Take("password") /\ rcpts' = rcpts /\ server' \in {"authed", "helo"}
          /\ UNCHANGED <<fsmVars, tlsVars, clientVars, faults>> /\ Rest0
      BY <1>5 DEF Password, TypeOK
    <2>2. PICK r \in {R(235, "2.7.0"), R(535, "error"), R(454, "error")} : Say(<<r>>)
      BY <1>5 DEF Password
    <2>3. Plain(r) /\ r \in Reply  BY <2>2, Plainly DEF Plain
    <2> QED  BY <2>1, <2>2, <2>3, OneAnswer
  <1>6. ASSUME Rset PROVE Goal /\ Rest0
    <2> DEFINE r == R(250, "2.0.0")
    <2>1. /\ Take("RSET") /\ Say(<<r>>) /\ rcpts' = rcpts /\ server' = server
          /\ UNCHANGED <<fsmVars, tlsVars, clientVars, faults>> /\ Rest0
      BY <1>6 DEF Rset, serverVars, TypeOK
    <2>2. Plain(r) /\ r \in Reply  BY Plainly DEF Plain
    <2> HIDE DEF r
    <2> QED  BY <2>1, <2>2, OneAnswer
  <1>7. ASSUME MailFrom PROVE Goal /\ Rest0
    <2>1. PICK c : /\ Take(c) /\ rcpts' = rcpts /\ server' \in {"mail", server}
          /\ UNCHANGED <<fsmVars, tlsVars, clientVars, faults>>
          /\ UNCHANGED <<secure, loggedIn, misread, accepted>>
      BY <1>7, Zenon DEF MailFrom
    <2>2. PICK r \in {R(250, "2.1.0"), R(530, "error")} : Say(<<r>>)
      BY <1>7, Zenon DEF MailFrom
    <2>3. Plain(r) /\ r \in Reply  BY <2>2, Plainly DEF Plain
    <2>4. server' \in {server} \cup Reached /\ Say(<<r>>)  BY <2>1, <2>2
    <2>5. Answers(c, <<r>>)  BY <2>1, <2>3, <2>4, OneAnswer, Zenon
    <2>6. Rest0  BY <2>1 DEF TypeOK
    <2> QED  BY <2>5, <2>6
  <1>8. ASSUME RcptTo PROVE Goal /\ Rest0
    <2>1. /\ Take(Rcpt) /\ (rcpts' = rcpts \/ rcpts' = rcpts + 1) /\ server' = server
          /\ UNCHANGED <<fsmVars, tlsVars, clientVars, faults>>
          /\ UNCHANGED <<secure, loggedIn, misread, accepted>>
      BY <1>8, Zenon DEF RcptTo, Rcpt
    <2>2. PICK r \in {R(250, "2.1.5"), R(550, "error")} : Say(<<r>>)
      BY <1>8, Zenon DEF RcptTo
    <2>3. Plain(r) /\ r \in Reply  BY <2>2, Plainly DEF Plain
    <2>4. PICK c : c = Rcpt  OBVIOUS
    <2>5. /\ server' \in {server} \cup Reached /\ Say(<<r>>) /\ Take(c)
          /\ (rcpts' = rcpts \/ (c = Rcpt /\ rcpts' = rcpts + 1))
      BY <2>1, <2>2, <2>4
    <2>6. Answers(c, <<r>>)  BY <2>1, <2>3, <2>5, OneAnswer, Zenon
    <2>7. Rest0  BY <2>1 DEF TypeOK
    <2> QED  BY <2>6, <2>7
  <1>9. ASSUME Data PROVE Goal /\ Rest0
    <2>1. /\ Take("DATA") /\ rcpts' = rcpts /\ server' \in {"data", server}
          /\ UNCHANGED <<fsmVars, tlsVars, clientVars, faults>> /\ Rest0
      BY <1>9 DEF Data, TypeOK
    <2>2. PICK r \in {R(354, "Go"), R(554, "error")} : Say(<<r>>)
      BY <1>9 DEF Data
    <2>3. Plain(r) /\ r \in Reply  BY <2>2, Plainly DEF Plain
    <2> QED  BY <2>1, <2>2, <2>3, OneAnswer
  <1>10. ASSUME Message PROVE Goal /\ Rest0
    <2>1. /\ Take("message") /\ rcpts' = rcpts /\ server' \in {"authed", server}
          /\ UNCHANGED <<fsmVars, tlsVars, clientVars, faults>> /\ Rest0
      <3>1. accepted' \in {accepted, accepted + 1} /\ misread' \in {misread, TRUE}
        BY <1>10, Zenon DEF Message
      <3>a. accepted' \in Nat
        <4>1. accepted \in Nat  BY DEF TypeOK
        <4> QED  BY <3>1, <4>1
      <3>b. misread' \in BOOLEAN
        <4>1. misread \in BOOLEAN  BY DEF TypeOK
        <4> QED  BY <3>1, <4>1, Zenon
      <3>2. accepted' \in Nat /\ misread' \in BOOLEAN  BY <3>a, <3>b
      <3>3. /\ Take("message") /\ rcpts' = rcpts /\ server' \in {"authed", server}
            /\ UNCHANGED <<fsmVars, tlsVars, clientVars, faults, secure, loggedIn>>
        BY <1>10, Zenon DEF Message
      <3> QED  BY <3>2, <3>3 DEF TypeOK
    <2>2. CASE \E r \in {R(250, "2.0.0"), R(554, "error")} : Say(<<r>>)
      <3>1. PICK r \in {R(250, "2.0.0"), R(554, "error")} : Say(<<r>>)  BY <2>2
      <3>2. Plain(r) /\ r \in Reply  BY <3>1, Plainly DEF Plain
      <3> QED  BY <2>1, <3>1, <3>2, OneAnswer
    <2>3. CASE Say([i \in 1..BodyLines |-> R(500, "error")])
      <3> DEFINE lines == [i \in 1..BodyLines |-> R(500, "error")]
      <3>1. BodyLines \in Nat  BY BodyLinesAssumption
      <3>2. Plain(R(500, "error")) /\ R(500, "error") \in Reply  BY Plainly DEF Plain
      <3>3. lines \in [1..BodyLines -> Reply]  BY <3>2
      <3>4. lines \in Seq(Reply) /\ Len(lines) = BodyLines  BY <3>1, <3>3
      <3>5. \A i \in 1..Len(lines) : Plain(lines[i])  BY <3>2, <3>4
      <3> HIDE DEF lines
      <3> QED  BY <2>1, <2>3, <3>4, <3>5, PlainAnswers DEF lines
    <2> QED  BY <1>10, <2>1, <2>2, <2>3 DEF Message
  <1>11. ASSUME Quit PROVE Goal /\ Rest0
    <2> DEFINE r == R(221, "2.0.0")
    <2>1. /\ Take("QUIT") /\ Say(<<r>>) /\ rcpts' = rcpts /\ server' \in {"closed", "reset"}
          /\ UNCHANGED <<fsmVars, tlsVars, clientVars, faults>> /\ Rest0
      BY <1>11 DEF Quit, serverVars, TypeOK
    <2>2. Plain(r) /\ r \in Reply  BY Plainly DEF Plain
    <2> HIDE DEF r
    <2> QED  BY <2>1, <2>2, OneAnswer
  <1> QED
    BY <1>1, <1>2, <1>3, <1>4, <1>5, <1>6, <1>7, <1>8, <1>9, <1>10, <1>11 DEF Server

(* ...except the first thing it says.                                      *)
LEMMA BannerKeeps ==
    ASSUME TypeOK, Alive, Dialogue, OneBatch, Banner
    PROVE  TypeOK' /\ Dialogue' /\ OneBatch'
PROOF
  <1> USE ReplyFacts
  <1>1. /\ server = "greet" /\ server' = "ready" /\ toServer' = toServer
        /\ UNCHANGED <<fsmVars, tlsVars, clientVars, rcpts, faults, secure, loggedIn,
                       accepted, misread>>
    BY DEF Banner
  <1>2. toServer = <<>> /\ toClient = <<>> /\ state = "GREETING" /\ ssl # "up"
        /\ client /\ reactor = "idle"
    BY <1>1 DEF Dialogue, Unconnected
  <1>3. /\ toClient' \in Seq(Reply)
        /\ \A x : Has(toClient', x) => x = Banner220
        /\ \A i \in 1..Len(toClient') : i = 1 \/ (i = 2 /\ May("splitBanner"))
    <2>1. CASE toClient' = <<Banner220>>
      <3>1. Len(<<Banner220>>) = 1 /\ <<Banner220>> \in Seq(Reply)  OBVIOUS
      <3> QED  BY <2>1, <3>1, Singleton
    <2>2. CASE toClient' = <<Banner220, Banner220>> /\ May("splitBanner")
      <3> DEFINE two == <<Banner220, Banner220>>
      <3>1. Len(two) = 2 /\ two \in Seq(Reply) /\ two[1] = Banner220 /\ two[2] = Banner220
        OBVIOUS
      <3> HIDE DEF two
      <3>2. toClient' = two /\ May("splitBanner")  BY <2>2 DEF two
      <3>3. \A i \in 1..Len(two) : i = 1 \/ i = 2  BY <3>1
      <3>4. \A x : Has(two, x) => x = Banner220  BY <3>1, <3>3 DEF Has
      <3>5. \A i \in 1..Len(two) : i = 1 \/ (i = 2 /\ May("splitBanner"))
        BY <2>2, <3>3, Zenon
      <3> QED  BY <3>1, <3>2, <3>4, <3>5, Zenon
    <2> QED  BY <1>2, <2>1, <2>2 DEF Banner, Say, Banner220
  <1>4. \A x : ~Has(toServer', x)  BY <1>1, <1>2, Nothing
  <1>5. /\ state' = "GREETING" /\ ssl' # "up" /\ client' /\ reactor' = "idle"
        /\ faults' = faults
    BY <1>1, <1>2 DEF fsmVars, tlsVars, clientVars
  <1>6. OnlyThese' /\ Unconnected' /\ TlsAsked' /\ TlsOffered' /\ LoginLater' /\ OneEnd'
    BY <1>1, <1>3, <1>4, <1>5
    DEF OnlyThese, Unconnected, TlsAsked, TlsOffered, LoginLater, OneEnd
  <1>7. GreetingFirst'
    BY <1>3, <1>4, <1>5 DEF GreetingFirst, Parts, May
  <1>8. OneBatch'
    <2>1. rcpts = 0
      BY <1>1 DEF OneBatch, Sealed
    <2>2. \A i \in 1..Len(toServer') : toServer'[i] # Rcpt  BY <1>4 DEF Has
    <2> QED  BY <1>1, <1>4, <2>1, <2>2 DEF OneBatch, InARow
  <1>9. TypeOK'  BY <1>1, <1>3 DEF TypeOK, fsmVars, tlsVars, clientVars
  <1> QED  BY <1>6, <1>7, <1>8, <1>9 DEF Dialogue

LEMMA ServerTalks ==
    ASSUME TypeOK, Talk, Server
    PROVE  TypeOK' /\ Talk'
PROOF
  <1>1. CASE Banner
    <2>1. Alive  BY <1>1 DEF Banner
    <2> QED  BY <1>1, <2>1, BannerKeeps DEF Talk
  <1>2. CASE ~Banner
    <2>1. PICK c, rs : Answers(c, rs)  BY <1>2, ServerAnswers
    <2>2. Alive  BY <2>1, TakeIs DEF Answers
    <2>3. Dialogue' /\ OneBatch' /\ rcpts' \in 0..NRcpt
          /\ toClient' \in Seq(Reply) /\ toServer' \in Seq(Command)
      BY <2>1, <2>2, AnswersKeep DEF Talk
    <2>4. /\ UNCHANGED <<fsmVars, tlsVars, clientVars, faults>>
          /\ server' \in {server, "helo", "handshake", "user", "pass", "authed", "mail",
                          "data", "closed", "reset"}
      BY <2>1 DEF Answers
    <2>5. secure' = secure /\ loggedIn' \in BOOLEAN /\ misread' \in BOOLEAN /\ accepted' \in Nat
      BY <1>2, ServerAnswers
    <2>6. TypeOK'
      BY <2>3, <2>4, <2>5 DEF TypeOK, fsmVars, tlsVars, clientVars
    <2> QED  BY <2>3, <2>6 DEF Talk
  <1> QED  BY <1>1, <1>2

LEMMA IdleTimeoutTalks ==
    ASSUME TypeOK, Talk, IdleTimeout
    PROVE  TypeOK' /\ Talk'
PROOF
  <1>1. /\ Alive /\ toServer = <<>> /\ toClient = <<>> /\ server' = "closed"
        /\ toServer' = toServer /\ server \notin {"none", "greet"}
        /\ UNCHANGED <<fsmVars, tlsVars, clientVars, rcpts, faults, secure, loggedIn,
                       accepted, misread>>
    BY DEF IdleTimeout, ServerOpen
  <1> DEFINE r == R(421, "error")
  <1>2. Plain(r) /\ r \in Reply  BY Plainly DEF Plain
  <1>3. toClient' = <<r>>  BY <1>1 DEF IdleTimeout, Say
  <1> HIDE DEF r
  <1>4. toClient' \in Seq(Reply) /\ \A x : Has(toClient', x) <=> x = r
    <2>1. <<r>> \in Seq(Reply)  BY <1>2
    <2> QED  BY <1>3, <2>1, Singleton
  <1>5. \A x : ~Has(toServer, x) /\ ~Has(toServer', x) /\ ~Has(toClient, x)
    BY <1>1, Nothing
  <1>6. /\ state' = state /\ ssl' = ssl /\ client' = client /\ reactor' = reactor
        /\ faults' = faults /\ rcpts' = rcpts
    BY <1>1 DEF fsmVars, tlsVars, clientVars
  <1>7. Has(toClient', Banner220) = FALSE /\ Has(toClient', TlsReady) = FALSE
        /\ Has(toClient', Challenge) = FALSE /\ Has(toClient', CanStartTls) = FALSE
    BY <1>2, <1>4, ReplyFacts DEF Plain
  <1>8. OnlyThese'  BY <1>2, <1>4 DEF OnlyThese, Plain
  <1>9. Unconnected' /\ TlsAsked' /\ TlsOffered' /\ GreetingFirst'
    BY <1>1, <1>5, <1>7 DEF Unconnected, TlsAsked, TlsOffered, GreetingFirst
  <1>10. LoginLater'
    <2>1. \A x, y : ~Has(toServer', x) => InOrder(toServer', x, y)  BY DEF Has, InOrder
    <2>2. \A x, y : ~Has(toClient', x) => InOrder(toClient', x, y)  BY DEF Has, InOrder
    <2> QED  BY <1>5, <1>7, <2>1, <2>2 DEF LoginLater
  <1>11. Sealed'  BY <1>1, <1>5, <1>7 DEF Sealed
  <1>12. OneEnd'  BY <1>1, <1>6, <1>11 DEF Talk, Dialogue, OneEnd, May
  <1>13. OneBatch'
    <2>1. \A i \in 1..Len(toServer') : toServer'[i] # Rcpt  BY <1>5 DEF Has
    <2>2. InARow'  BY <2>1 DEF InARow
    <2> QED  BY <1>1, <1>5, <1>6, <1>11, <2>2 DEF Talk, OneBatch
  <1>14. TypeOK'  BY <1>1, <1>4 DEF TypeOK, fsmVars, tlsVars, clientVars
  <1> QED
    BY <1>8, <1>9, <1>10, <1>12, <1>13, <1>14 DEF Talk, Dialogue

(* Nothing is said, and nothing is forgotten.                              *)
LEMMA SilentTalks ==
    ASSUME Talk, UNCHANGED <<netVars, rcpts, faults, stage, ssl>>,
           state' \in {state, "GREETING"}, Alive' => Alive,
           server' \in {server, "dropped"} \/ (server = "none" /\ server' = "greet"),
           client' = client \/ (reactor = "ending" /\ ~client'),
           reactor' \in {reactor, "idle"} \/ (reactor' = "closing" /\ server \notin {"none", "greet"})
    PROVE  Talk'
PROOF
  <1> SUFFICES ASSUME Alive, Alive' PROVE Dialogue' /\ OneBatch'  BY DEF Talk
  <1>1. Dialogue /\ OneBatch  BY DEF Talk
  <1>2. toServer' = toServer /\ toClient' = toClient  BY DEF netVars
  <1>3. OnlyThese'  BY <1>1, <1>2 DEF Dialogue, OnlyThese
  <1>4. Unconnected'
    BY <1>1, <1>2 DEF Dialogue, Unconnected, OneEnd, Sealed
  <1>5. Parts => Parts'  BY <1>2 DEF Parts, May
  <1>6. GreetingFirst'  BY <1>1, <1>2, <1>5 DEF Dialogue, GreetingFirst, May
  <1>7. TlsAsked'  BY <1>1, <1>2 DEF Dialogue, TlsAsked, Early
  <1>8. TlsOffered'  BY <1>1, <1>2 DEF Dialogue, TlsOffered, ReadyLast, Early
  <1>9. LoginLater'  BY <1>1, <1>2 DEF Dialogue, LoginLater
  <1>10. Sealed => Sealed'  BY <1>2 DEF Sealed
  <1>11. OneEnd'  BY <1>1, <1>2, <1>10 DEF Dialogue, OneEnd, May
  <1>12. OneBatch'  BY <1>1, <1>2, <1>10 DEF OneBatch, InARow
  <1> QED  BY <1>3, <1>4, <1>6, <1>7, <1>8, <1>9, <1>11, <1>12 DEF Dialogue

-----------------------------------------------------------------------------
(* The client reads.                                                       *)

(* What the answer to a reply asks of the server, and when it ends the     *)
(* transaction: in HELO, or after the password, on a 220.                  *)
Says(rep, chunk, a) ==
    /\ \/ /\ a.cmds = <<"EHLO">> /\ state = "GREETING" /\ rep.code = 220
          /\ Target(a) = "HELO" /\ a.stage = "AUTH_INIT"
       \/ /\ a.cmds = <<"STARTTLS">> /\ state = "HELO" /\ rep.code = 250
          /\ \E r \in chunk : r.text = "STARTTLS"
          /\ Target(a) = "MAIL" /\ a.stage = "AUTH_INIT"
       \/ /\ a.cmds = <<Login>> /\ state = "MAIL" /\ stage = "AUTH_INIT"
          /\ Target(a) = "MAIL" /\ a.stage = "AUTH_USRNAME"
       \/ /\ ~Has(a.cmds, "EHLO") /\ ~Has(a.cmds, "STARTTLS") /\ ~Has(a.cmds, Login)
          /\ state \in {"GREETING", "HELO"} => Target(a) = state /\ a.stage = stage
          /\ state = "GREETING" => rep.code # 220
          /\ state \notin {"GREETING", "HELO"} => Target(a) \notin {"GREETING", "HELO"}
          /\ state = "MAIL" /\ stage \in {"AUTH_INIT", "AUTH_USRNAME"} /\ rep # Challenge =>
                Target(a) = "MAIL" /\ a.stage \in {"AUTH_INIT", "AUTH_USRNAME"}
    /\ Ends(rep, a) => rep.code = 220
          /\ (state = "HELO" \/ (state = "MAIL" /\ stage = "AUTH_SUCCESS"))

LEMMA NoneOf ==
    ASSUME NEW c, c \notin {"EHLO", "STARTTLS", Login}
    PROVE  ~Has(<<c>>, "EHLO") /\ ~Has(<<c>>, "STARTTLS") /\ ~Has(<<c>>, Login)
PROOF BY Singleton

LEMMA OtherWords ==
    \A c \in {"username", "password", "MAIL FROM", "RSET", "DATA", "message", "QUIT", Rcpt} :
        c \notin {"EHLO", "STARTTLS", Login}
PROOF BY Zenon DEF Login, Rcpt

LEMMA SaysThat ==
    ASSUME TypeOK, NEW rep, NEW chunk
    PROVE  Says(rep, chunk, onRx(rep, chunk))
PROOF
  <1> DEFINE a == onRx(rep, chunk)
             Silent(x) == ~Has(x, "EHLO") /\ ~Has(x, "STARTTLS") /\ ~Has(x, Login)
  <1> SUFFICES Says(rep, chunk, a)  OBVIOUS
  <1>0. state \in States /\ stage \in AuthSteps  BY DEF TypeOK
  <1>a. \A st : Ignore(st) = Answer("OK", <<>>, st, stage)  BY DEF Ignore
  <1>b. Silent(<<>>)  BY Nothing
  <1>c. \A c \in {"username", "password", "MAIL FROM", "RSET", "DATA", "message", "QUIT"} :
           Silent(<<c>>)
    BY NoneOf, OtherWords
  <1> DEFINE Rest1 ==
          /\ state \in {"GREETING", "HELO"} => Target(a) = state /\ a.stage = stage
          /\ state = "GREETING" => rep.code # 220
          /\ state \notin {"GREETING", "HELO"} => Target(a) \notin {"GREETING", "HELO"}
          /\ state = "MAIL" /\ stage \in {"AUTH_INIT", "AUTH_USRNAME"} /\ rep # Challenge =>
                Target(a) = "MAIL" /\ a.stage \in {"AUTH_INIT", "AUTH_USRNAME"}
          /\ Ends(rep, a) => rep.code = 220
                /\ (state = "HELO" \/ (state = "MAIL" /\ stage = "AUTH_SUCCESS"))
  <1>d. ASSUME Silent(a.cmds), Rest1 PROVE Says(rep, chunk, a)
    BY <1>d DEF Says
  <1>1. CASE state = "GREETING"
    <2>1. a = GREETING_onResponse(rep)  BY <1>1 DEF onRx
    <2> HIDE DEF a
    <2>2. CASE rep.code = 220
      <3>1. a = Answer("GOTO_NEXT_STATE", <<"EHLO">>, "HELO", "AUTH_INIT")
        BY <2>1, <2>2 DEF GREETING_onResponse, Goto
      <3>2. /\ a.cmds = <<"EHLO">> /\ a.status = "GOTO_NEXT_STATE" /\ a.state = "HELO"
            /\ a.stage = "AUTH_INIT"
        BY <3>1 DEF Answer
      <3> QED  BY <1>1, <2>2, <3>2 DEF Says, Target, Ends
    <2>3. CASE rep.code # 220
      <3>1. a = Answer("OK", <<>>, "GREETING", stage)
        BY <1>a, <2>1, <2>3 DEF GREETING_onResponse
      <3>2. a.cmds = <<>> /\ a.status = "OK" /\ a.stage = stage  BY <3>1 DEF Answer
      <3> QED  BY <1>1, <1>b, <1>d, <2>3, <3>2 DEF Target, Ends
    <2> QED  BY <2>2, <2>3
  <1>2. CASE state = "HELO"
    <2>1. a = HELO_onResponse(rep, chunk)  BY <1>2 DEF onRx
    <2> HIDE DEF a
    <2>2. CASE rep.code = 250 /\ \E r \in chunk : r.text = "STARTTLS"
      <3>1. a = Answer("GOTO_NEXT_STATE", <<"STARTTLS">>, "MAIL", "AUTH_INIT")
        BY <2>1, <2>2 DEF HELO_onResponse, Goto
      <3>2. /\ a.cmds = <<"STARTTLS">> /\ a.status = "GOTO_NEXT_STATE" /\ a.state = "MAIL"
            /\ a.stage = "AUTH_INIT"
        BY <3>1 DEF Answer
      <3> QED  BY <1>2, <2>2, <3>2 DEF Says, Target, Ends
    <2>3. CASE ~(rep.code = 250 /\ \E r \in chunk : r.text = "STARTTLS")
      <3>1. \E st : a = Answer(st, <<>>, "HELO", stage) /\ st # "GOTO_NEXT_STATE"
        <4>1. CASE rep.code # 250  BY <1>a, <2>1, <4>1 DEF HELO_onResponse
        <4>2. CASE rep.code = 250  BY <2>1, <2>3, <4>2 DEF HELO_onResponse
        <4> QED  BY <4>1, <4>2
      <3>2. a.cmds = <<>> /\ a.status # "GOTO_NEXT_STATE" /\ a.stage = stage
        BY <3>1 DEF Answer
      <3> QED  BY <1>2, <1>b, <1>d, <3>2 DEF Target, Ends
    <2> QED  BY <2>2, <2>3
  <1>3. CASE state = "MAIL"
    <2>1. a = MAIL_onResponse(rep)  BY <1>3 DEF onRx
    <2>w. Leads(rep, chunk, a)  BY WhereTo
    <2> HIDE DEF a
    <2>e. Ends(rep, a) => rep.code = 220 /\ stage = "AUTH_SUCCESS"
      BY <1>3, <2>w DEF Leads
    <2>t. Target(a) \in {"MAIL", "RCPT"}  BY <1>3, <2>w DEF Leads
    <2>2. CASE rep.code = 535
      <3>1. a = Answer("OK", <<>>, "MAIL", stage)
        BY <1>a, <2>1, <2>2 DEF MAIL_onResponse
      <3>2. a.cmds = <<>> /\ a.status = "OK" /\ a.stage = stage  BY <3>1 DEF Answer
      <3> QED  BY <1>3, <1>b, <1>d, <2>e, <3>2 DEF Target
    <2>3. CASE rep.code # 535
      <3>1. a = MAIL_onCommand(rep)  BY <2>1, <2>3 DEF MAIL_onResponse
      <3>2. CASE stage = "AUTH_INIT"
        <4>1. a = Answer("REMAIN_IN_SAME_STATE", <<Login>>, "MAIL", "AUTH_USRNAME")
          BY <3>1, <3>2, Zenon DEF MAIL_onCommand, Remain, Login
        <4>2. a.cmds = <<Login>> /\ a.status = "REMAIN_IN_SAME_STATE"
              /\ a.stage = "AUTH_USRNAME"
          BY <4>1 DEF Answer
        <4> QED  BY <1>3, <2>e, <3>2, <4>2 DEF Says, Target
      <3>3. CASE stage = "AUTH_USRNAME"
        <4>1. CASE rep = Challenge
          <5>1. a = Answer("REMAIN_IN_SAME_STATE", <<"username">>, "MAIL", "AUTH_PASSWORD")
            BY <3>1, <3>3, <4>1, Zenon DEF MAIL_onCommand, Remain, Challenge
          <5>2. a.cmds = <<"username">>  BY <5>1 DEF Answer
          <5>3. Silent(<<"username">>)  BY <1>c
          <5>4. Silent(a.cmds)
            <6> HIDE DEF Silent
            <6> QED  BY <5>2, <5>3
          <5> HIDE DEF Silent
          <5> QED  BY <1>3, <1>d, <2>e, <2>t, <4>1, <5>4
        <4>2. CASE rep # Challenge
          <5>1. a = Answer("REMAIN_IN_SAME_STATE", <<>>, "MAIL", stage)
            BY <3>1, <3>3, <4>2, Zenon DEF MAIL_onCommand, Remain, Challenge
          <5>2. a.cmds = <<>> /\ a.status = "REMAIN_IN_SAME_STATE" /\ a.stage = stage
            BY <5>1 DEF Answer
          <5> QED  BY <1>3, <1>b, <1>d, <2>e, <3>3, <5>2 DEF Target
        <4> QED  BY <4>1, <4>2
      <3>4. CASE stage \in {"AUTH_PASSWORD", "AUTH_SUCCESS"}
        <4> DEFINE W == {"password", "MAIL FROM", "RSET"}
        <4>1. \E c \in W : \E st, to, sg :
                  a = Answer(st, <<c>>, to, sg) \/ a = Answer(st, <<>>, to, sg)
          <5>1. CASE stage = "AUTH_PASSWORD"
            BY <3>1, <5>1, Zenon DEF MAIL_onCommand, Remain
          <5>2. CASE stage = "AUTH_SUCCESS"
            BY <3>1, <5>2, Zenon DEF MAIL_onCommand, Goto
          <5> QED  BY <3>4, <5>1, <5>2
        <4>2. \A c \in W : Silent(<<c>>)  BY <1>c, Zenon
        <4> HIDE DEF W, Silent
        <4>3. \E c \in W : a.cmds = <<c>> \/ a.cmds = <<>>
          BY <4>1 DEF Answer
        <4>4. Silent(a.cmds)  BY <1>b, <4>2, <4>3, Zenon
        <4> QED  BY <1>3, <1>d, <2>e, <2>t, <3>4, <4>4
      <3> QED  BY <1>0, <3>2, <3>3, <3>4 DEF AuthSteps
    <2> QED  BY <2>2, <2>3
  <1>4. CASE state \in {"RCPT", "DATA", "BODY", "QUIT"}
    <2>w. Leads(rep, chunk, a)  BY WhereTo
    <2>1. Silent(a.cmds)
      <3> DEFINE all == [i \in 1..NRcpt |-> "RCPT TO"]
      <3>a. Silent(all)
        <4>1. NRcpt \in Nat  BY NRcptAssumption
        <4>2. \A i \in 1..NRcpt : all[i] = Rcpt  BY Zenon DEF Rcpt
        <4>3. Len(all) = NRcpt  BY <4>1
        <4> HIDE DEF all
        <4> QED  BY <4>2, <4>3, OtherWords DEF Has
      <3>1. CASE state = "RCPT"
        <4>1. a = RCPT_onResponse(rep)  BY <3>1 DEF onRx
        <4>2. \E st, to, sg : a = Answer(st, <<>>, to, sg) \/ a = Answer(st, all, to, sg)
          <5>1. CASE rep.code = 535 \/ (rep.code = 250 /\ rep.text # "2.1.0")
            <6>1. a = Ignore("RCPT")  BY <4>1, <5>1, Zenon DEF RCPT_onResponse
            <6> HIDE DEF a
            <6> QED  BY <1>a, <6>1, Zenon
          <5>2. CASE ~(rep.code = 535 \/ (rep.code = 250 /\ rep.text # "2.1.0"))
            <6>1. a = Goto(all, "DATA")  BY <4>1, <5>2, Zenon DEF RCPT_onResponse
            <6> HIDE DEF a, all
            <6> QED  BY <6>1, Zenon DEF Goto
          <5> QED  BY <5>1, <5>2
        <4>3. a.cmds = <<>> \/ a.cmds = all
          <5> HIDE DEF a, all
          <5> QED  BY <4>2 DEF Answer
        <4> HIDE DEF Silent, all, a
        <4> QED  BY <1>b, <3>a, <4>3, Zenon
      <3>2. CASE state \in {"DATA", "BODY", "QUIT"}
        <4>1. \E c \in {"DATA", "message", "QUIT"} : \E st, to, sg :
                 a = Answer(st, <<>>, to, sg) \/ a = Answer(st, <<c>>, to, sg)
          <5>1. CASE state = "DATA"
            BY <1>a, <5>1, Zenon DEF onRx, DATA_onResponse, Goto
          <5>2. CASE state = "BODY"
            BY <1>a, <5>2, Zenon DEF onRx, BODY_onResponse, Goto
          <5>3. CASE state = "QUIT"
            <6>1. a = QUIT_onResponse(rep)  BY <5>3 DEF onRx
            <6> HIDE DEF a
            <6>2. \/ a = Ignore("QUIT") \/ a = Remain(<<>>, "QUIT", stage)
                  \/ a = Remain(<<"QUIT">>, "QUIT", stage)
              BY <6>1, Zenon DEF QUIT_onResponse
            <6> QED  BY <1>a, <6>2, Zenon DEF Remain
          <5> QED  BY <3>2, <5>1, <5>2, <5>3
        <4>2. \E c \in {"DATA", "message", "QUIT"} : a.cmds = <<>> \/ a.cmds = <<c>>
          <5> HIDE DEF a
          <5> QED  BY <4>1 DEF Answer
        <4> HIDE DEF Silent, a
        <4> QED  BY <1>b, <1>c, <4>2, Zenon
      <3> QED  BY <1>4, <3>1, <3>2
    <2> HIDE DEF a, Silent
    <2>2. Target(a) \notin {"GREETING", "HELO"} /\ ~Ends(rep, a)
      BY <1>4, <2>w DEF Leads
    <2> QED  BY <1>4, <1>d, <2>1, <2>2
  <1> QED  BY <1>0, <1>1, <1>2, <1>3, <1>4 DEF States

(* What a read leaves of the dialogue, if the reactor thread returns.      *)
LEMMA ReadKeeps ==
    ASSUME TypeOK, Alive, Dialogue, OneBatch, NEW k, Reads(k), Alive',
           NEW rep \in Reply, NEW a, ReadAnswers(k, rep, a)
    PROVE  Dialogue' /\ (reactor' = "ending" => client)
PROOF
  <1> USE Words, ReplyFacts
  <1>1. /\ k \in 1..Len(toClient) /\ Len(toClient) \in Nat \ {0}
        /\ toClient' \in Seq(Reply) /\ Len(toClient') = Len(toClient) - k
        /\ \A i \in 1..Len(toClient') :
              i + k \in 1..Len(toClient) /\ toClient'[i] = toClient[i + k]
        /\ client' = client /\ rcpts' = rcpts /\ faults' = faults /\ handler' = handler
    BY Rest
  <1>2. /\ \A x : Has(toClient', x) => Has(toClient, x)
        /\ \A x, y : InOrder(toClient, x, y) => InOrder(toClient', x, y)
    <2>1. k \in Nat /\ Len(toClient) \in Nat /\ Len(toClient') = Len(toClient) - k
          /\ \A i \in 1..Len(toClient') : toClient'[i] = toClient[i + k]
      BY <1>1
    <2> QED  BY <2>1, Dropped, SMTT(30)
  <1>3. PICK jj \in 1..k : rep = toClient[jj]
    BY DEF ReadAnswers, Chunk
  <1>4. jj \in 1..Len(toClient) /\ Has(toClient, rep)
    <2>1. jj \in 1..Len(toClient)  BY <1>1
    <2> QED  BY <1>3, <2>1 DEF Has
  <1>5. Says(rep, Chunk(k), a)  BY SaysThat DEF ReadAnswers
  <1>6. /\ state' = Target(a) /\ stage' = a.stage
        /\ ssl' = "up" => ssl = "up" \/ rep = TlsReady
        /\ server' \in {server, "helo"} \cup Gone
        /\ rep # TlsReady => server' = server \/ Ended
        /\ server = "dropped" => server' = server
        /\ toServer' \in {toServer, toServer \o a.cmds}
        /\ a.cmds # <<>> => ssl' = "up" \/ client
        /\ reactor' = "ending" => Ends(rep, a)
    BY DEF ReadAnswers, Alive
  <1>7. toServer \in Seq(Command) /\ a.cmds \in Seq(Command)
    BY AnswerTyped DEF TypeOK, Typed, ReadAnswers
  <1>8. /\ \A x : Has(toServer', x) => Has(toServer, x) \/ Has(a.cmds, x)
        /\ \A x, y : InOrder(toServer, x, y) /\ InOrder(a.cmds, x, y)
                        /\ (Has(a.cmds, x) => ~Has(toServer, y)) => InOrder(toServer', x, y)
    <2> DEFINE t == toServer \o a.cmds
    <2>1. /\ \A x : Has(t, x) <=> Has(toServer, x) \/ Has(a.cmds, x)
          /\ \A x, y : InOrder(toServer, x, y) /\ InOrder(a.cmds, x, y)
                        /\ (Has(a.cmds, x) => ~Has(toServer, y)) => InOrder(t, x, y)
      BY <1>7, Joined
    <2>2. toServer' = toServer \/ toServer' = t  BY <1>6
    <2> HIDE DEF t
    <2> QED  BY <2>1, <2>2
  <1>9. server \notin {"none", "greet"} /\ server' \notin {"none", "greet"}
    <2>1. toClient # <<>>  BY <1>1
    <2> QED  BY <1>6, <2>1 DEF Dialogue, Unconnected
  <1>10. rep.code = 220 => rep \in {Banner220, TlsReady}
    BY <1>4 DEF Dialogue, OnlyThese
  <1>11. \A x, y : ~Has(toServer, x) \/ ~Has(toServer, y) => InOrder(toServer, x, y)
    BY DEF Has, InOrder
  \* What the answer asks for, in terms of the queue.
  <1>12. \/ /\ a.cmds = <<"EHLO">> /\ state = "GREETING" /\ rep \in {Banner220, TlsReady}
            /\ state' = "HELO"
         \/ /\ a.cmds = <<"STARTTLS">> /\ state = "HELO" /\ rep.code = 250
            /\ \E i \in 1..k : toClient[i].text = "STARTTLS"
            /\ state' = "MAIL" /\ stage' = "AUTH_INIT"
         \/ /\ a.cmds = <<Login>> /\ state = "MAIL" /\ stage = "AUTH_INIT"
            /\ state' = "MAIL" /\ stage' = "AUTH_USRNAME"
         \/ /\ ~Has(a.cmds, "EHLO") /\ ~Has(a.cmds, "STARTTLS") /\ ~Has(a.cmds, Login)
            /\ state \in {"GREETING", "HELO"} => state' = state /\ stage' = stage
            /\ state = "GREETING" => rep.code # 220
            /\ state \notin {"GREETING", "HELO"} => state' \notin {"GREETING", "HELO"}
            /\ state = "MAIL" /\ stage \in {"AUTH_INIT", "AUTH_USRNAME"} /\ rep # Challenge =>
                state' = "MAIL" /\ stage' \in {"AUTH_INIT", "AUTH_USRNAME"}
    BY <1>5, <1>6, <1>10 DEF Says, Chunk
  <1>13. ASSUME NEW c, NEW x PROVE Has(<<c>>, x) <=> x = c  BY Singleton
  <1>14. OnlyThese'  BY <1>2 DEF Dialogue, OnlyThese
  <1>15. Unconnected'  BY <1>9 DEF Unconnected
  <1>16. Has(toClient', Banner220) =>
            /\ state = "GREETING" /\ k = 1 /\ May("splitBanner") /\ ssl # "up"
            /\ ~Has(toClient, Challenge) /\ ~Has(toClient, TlsReady)
            /\ ~Has(toServer, Login) /\ ~Has(toServer, "STARTTLS") /\ rep # TlsReady
            /\ \A i \in 1..Len(toClient') : toClient'[i] = Banner220 => i = 1
    <2> SUFFICES ASSUME Has(toClient', Banner220) PROVE
            /\ state = "GREETING" /\ k = 1 /\ May("splitBanner") /\ ssl # "up"
            /\ ~Has(toClient, Challenge) /\ ~Has(toClient, TlsReady)
            /\ ~Has(toServer, Login) /\ ~Has(toServer, "STARTTLS") /\ rep # TlsReady
            /\ \A i \in 1..Len(toClient') : toClient'[i] = Banner220 => i = 1
      OBVIOUS
    <2>1. /\ ssl # "up" /\ Parts /\ ~Has(toClient, Challenge) /\ ~Has(toClient, TlsReady)
          /\ ~Has(toServer, Login) /\ ~Has(toServer, "STARTTLS")
      BY <1>2 DEF Dialogue, GreetingFirst
    <2>2. ASSUME NEW i \in 1..Len(toClient'), toClient'[i] = Banner220
          PROVE  i = 1 /\ k = 1 /\ state = "GREETING" /\ May("splitBanner")
      <3>1. i + k \in 1..Len(toClient) /\ toClient[i + k] = Banner220  BY <1>1, <2>2
      <3>2. i + k = 1 \/ (i + k = 2 /\ state = "GREETING" /\ May("splitBanner"))
        BY <2>1, <3>1 DEF Parts
      <3>3. i \in Nat \ {0} /\ k \in Nat \ {0}  BY <1>1
      <3>4. i = 1 /\ k = 1 /\ i + k # 1  BY <3>2, <3>3
      <3> QED  BY <3>2, <3>4, Zenon
    <2>3. PICK i \in 1..Len(toClient') : toClient'[i] = Banner220  BY DEF Has
    <2>4. k = 1 /\ state = "GREETING" /\ May("splitBanner")  BY <2>2, <2>3
    <2>5. rep # TlsReady  BY <1>4, <2>1
    <2> QED  BY <2>1, <2>2, <2>4, <2>5
  <1>17. GreetingFirst'
    <2> SUFFICES ASSUME Has(toClient', Banner220) PROVE GreetingFirst'
      BY DEF GreetingFirst
    <2>1. state' \in {"GREETING", "HELO"}  BY <1>12, <1>16
    <2>2. ~Has(a.cmds, Login) /\ ~Has(a.cmds, "STARTTLS")
      <3>1. a.cmds = <<"EHLO">> \/ (~Has(a.cmds, Login) /\ ~Has(a.cmds, "STARTTLS"))
        BY <1>12, <1>16
      <3>2. ~Has(<<"EHLO">>, Login) /\ ~Has(<<"EHLO">>, "STARTTLS")  BY <1>13
      <3> QED  BY <3>1, <3>2
    <2>3. Parts'  BY <1>16 DEF Parts
    <2>4. ssl' # "up"  BY <1>6, <1>16
    <2>5. May("splitBanner")'  BY <1>1, <1>16 DEF May
    <2> QED  BY <1>2, <1>8, <1>16, <2>1, <2>2, <2>3, <2>4, <2>5 DEF GreetingFirst
  \* While STARTTLS is asked or answered the login does not go on.
  <1>18. ASSUME Early, rep.code # 220, rep # Challenge
         PROVE  Early' /\ ~Has(a.cmds, "EHLO") /\ ~Has(a.cmds, "STARTTLS")
    BY <1>12, <1>13, <1>18 DEF Early
  <1>19. TlsAsked'
    <2> SUFFICES ASSUME Has(toServer', "STARTTLS") PROVE TlsAsked'
      BY DEF TlsAsked
    <2>1. CASE Has(toServer, "STARTTLS")
      <3>1. /\ Early /\ ~Has(toClient, Banner220) /\ ~Has(toClient, TlsReady)
            /\ ~Has(toClient, Challenge)
            /\ InOrder(toServer, "STARTTLS", "STARTTLS")
            /\ InOrder(toServer, "STARTTLS", Login) /\ InOrder(toServer, "EHLO", "STARTTLS")
        BY <2>1 DEF Dialogue, TlsAsked
      <3>2. rep.code # 220 /\ rep # Challenge  BY <1>4, <1>10, <3>1
      <3>3. Early' /\ ~Has(a.cmds, "EHLO") /\ ~Has(a.cmds, "STARTTLS")
        BY <1>18, <3>1, <3>2
      <3>4. \A x, y : ~Has(a.cmds, x) => InOrder(a.cmds, x, y)  BY DEF Has, InOrder
      <3>5. /\ InOrder(toServer', "STARTTLS", "STARTTLS")
            /\ InOrder(toServer', "STARTTLS", Login) /\ InOrder(toServer', "EHLO", "STARTTLS")
        BY <1>8, <3>1, <3>3, <3>4
      <3> QED  BY <1>2, <3>1, <3>3, <3>5 DEF TlsAsked
    <2>2. CASE ~Has(toServer, "STARTTLS")
      <3>1. Has(a.cmds, "STARTTLS")  BY <1>8, <2>2
      <3>2. /\ a.cmds = <<"STARTTLS">> /\ state = "HELO" /\ rep.code = 250
            /\ \E i \in 1..k : toClient[i].text = "STARTTLS"
            /\ state' = "MAIL" /\ stage' = "AUTH_INIT"
        BY <1>12, <1>13, <3>1
      <3>3. PICK i \in 1..k : toClient[i].text = "STARTTLS"  BY <3>2
      <3>4. i \in 1..Len(toClient) /\ toClient[i] \in Reply  BY <1>1 DEF TypeOK
      <3>5. Has(toClient, toClient[i])  BY <3>4 DEF Has
      <3>6. toClient[i] = CanStartTls  BY <3>3, <3>4, <3>5 DEF Dialogue, OnlyThese
      <3>7. InOrder(toClient, Challenge, CanStartTls) /\ ~Has(toServer, Login)
        BY <3>2, <3>5, <3>6 DEF Dialogue, LoginLater
      <3>8. ~Has(toClient', Challenge)
        <4> SUFFICES ASSUME NEW j \in 1..Len(toClient'), toClient'[j] = Challenge
                     PROVE  FALSE
          BY DEF Has
        <4>1. j + k \in 1..Len(toClient) /\ toClient[j + k] = Challenge  BY <1>1
        <4>2. j + k <= i  BY <3>4, <3>6, <3>7, <4>1 DEF InOrder
        <4> QED  BY <1>1, <4>2
      <3>9. ~Has(toClient', Banner220)  BY <1>16, <3>2
      <3>10. ~Has(toClient', TlsReady)  BY <1>2, <3>2 DEF Dialogue, TlsOffered, Early
      <3>11. /\ InOrder(a.cmds, "STARTTLS", "STARTTLS") /\ InOrder(a.cmds, "STARTTLS", Login)
             /\ InOrder(a.cmds, "EHLO", "STARTTLS") /\ ~Has(a.cmds, "EHLO")
        BY <3>2, Singleton
      <3>12. /\ InOrder(toServer', "STARTTLS", "STARTTLS")
             /\ InOrder(toServer', "STARTTLS", Login)
             /\ InOrder(toServer', "EHLO", "STARTTLS")
        BY <1>8, <1>11, <2>2, <3>7, <3>11
      <3>13. Early'  BY <3>2 DEF Early
      <3> QED  BY <3>8, <3>9, <3>10, <3>12, <3>13 DEF TlsAsked
    <2> QED  BY <2>1, <2>2
  <1>20. TlsOffered'
    <2> SUFFICES ASSUME Has(toClient', TlsReady) PROVE TlsOffered'
      BY DEF TlsOffered
    <2>1. /\ Early /\ server \in {"handshake", "dropped"} /\ ReadyLast
          /\ ~Has(toClient, Banner220) /\ ~Has(toClient, Challenge)
          /\ ~Has(toServer, "STARTTLS") /\ ~Has(toServer, "EHLO")
      BY <1>2 DEF Dialogue, TlsOffered
    <2>2. PICK i \in 1..Len(toClient') : toClient'[i] = TlsReady  BY DEF Has
    <2>3. i + k = Len(toClient)  BY <1>1, <2>1, <2>2 DEF ReadyLast
    <2>4. rep # TlsReady
      <3> SUFFICES ASSUME rep = TlsReady PROVE FALSE  OBVIOUS
      <3>1. jj = Len(toClient)  BY <1>3, <1>4, <2>1 DEF ReadyLast
      <3>2. jj \in 1..k /\ i \in Nat \ {0} /\ k \in Nat  BY <1>1
      <3> QED  BY <2>3, <3>1, <3>2
    <2>5. rep.code # 220 /\ rep # Challenge  BY <1>4, <1>10, <2>1, <2>4
    <2>6. Early' /\ ~Has(a.cmds, "EHLO") /\ ~Has(a.cmds, "STARTTLS")
      BY <1>18, <2>1, <2>5
    <2>7. ReadyLast'
      <3> SUFFICES ASSUME NEW j \in 1..Len(toClient'), toClient'[j] = TlsReady
                   PROVE  j = Len(toClient')
        BY DEF ReadyLast
      <3>1. j + k = Len(toClient)  BY <1>1, <2>1 DEF ReadyLast
      <3>2. Len(toClient') = Len(toClient) - k /\ k \in Nat /\ j \in Nat  BY <1>1
      <3> QED  BY <3>1, <3>2
    <2>8. server' \in {"handshake", "dropped"}  BY <1>6, <2>1, <2>4 DEF Ended
    <2> QED  BY <1>2, <1>8, <2>1, <2>6, <2>7, <2>8 DEF TlsOffered
  <1>21. LoginLater'
    <2> SUFFICES ASSUME state' = "HELO" PROVE LoginLater'
      BY DEF LoginLater
    <2>1. CASE state = "HELO"
      <3>1. ~Has(a.cmds, "EHLO") /\ ~Has(a.cmds, Login)  BY <1>12, <2>1
      <3>2. InOrder(a.cmds, Login, "EHLO")  BY <3>1 DEF Has, InOrder
      <3> QED  BY <1>2, <1>8, <2>1, <3>1, <3>2 DEF Dialogue, LoginLater
    <2>2. CASE state # "HELO"
      <3>1. a.cmds = <<"EHLO">> /\ state = "GREETING" /\ rep \in {Banner220, TlsReady}
        BY <1>12, <2>2
      <3>2. ~Has(a.cmds, Login) /\ InOrder(a.cmds, Login, "EHLO")  BY <3>1, Singleton
      <3>3. \A x, y : ~Has(toClient, x) => InOrder(toClient, x, y)  BY DEF Has, InOrder
      <3>4. CASE rep = Banner220
        <4>1. ~Has(toClient, Challenge) /\ ~Has(toServer, Login)
          BY <1>4, <3>4 DEF Dialogue, GreetingFirst
        <4> QED  BY <1>2, <1>8, <1>11, <3>2, <3>3, <4>1 DEF LoginLater
      <3>5. CASE rep = TlsReady
        <4>1. ~Has(toClient, Challenge) /\ ~Has(toServer, "EHLO") /\ ReadyLast
          BY <1>4, <3>5 DEF Dialogue, TlsOffered
        <4>2. jj = Len(toClient)
          <5>1. jj \in 1..Len(toClient) /\ toClient[jj] = TlsReady  BY <1>3, <1>4, <3>5
          <5> QED  BY <4>1, <5>1 DEF ReadyLast
        <4>3. Len(toClient') = 0  BY <1>1, <4>2
        <4>4. ~Has(toClient', CanStartTls)  BY <4>3 DEF Has
        <4> QED  BY <1>2, <1>8, <1>11, <3>2, <3>3, <4>1, <4>4 DEF LoginLater
      <3> QED  BY <3>1, <3>4, <3>5
    <2> QED  BY <2>1, <2>2
  \* Sealed once, sealed for ever, unless it is said in HELO.
  <1>22. Sealed /\ ~Has(a.cmds, "STARTTLS") => Sealed'
    BY <1>2, <1>8, <1>9 DEF Sealed
  <1>23. ~client => May("splitBanner") /\ ssl' # "up" /\ Sealed'
    <2> SUFFICES ASSUME ~client PROVE May("splitBanner") /\ ssl' # "up" /\ Sealed'
      OBVIOUS
    <2>1. May("splitBanner") /\ ssl # "up" /\ Sealed  BY DEF Dialogue, OneEnd
    <2>2. rep # TlsReady  BY <1>4, <2>1 DEF Sealed
    <2>3. ssl' # "up"  BY <1>6, <2>1, <2>2
    <2>4. a.cmds = <<>>  BY <1>6, <2>3
    <2>5. ~Has(a.cmds, "STARTTLS")  BY <2>4, Nothing
    <2> QED  BY <1>22, <2>1, <2>3, <2>5
  <1>24. reactor' = "ending" => /\ May("splitBanner") /\ ssl' # "up" /\ Sealed' /\ client
    <2> SUFFICES ASSUME reactor' = "ending"
                 PROVE  May("splitBanner") /\ ssl' # "up" /\ Sealed' /\ client
      OBVIOUS
    <2>1. rep.code = 220 /\ (state = "HELO" \/ (state = "MAIL" /\ stage = "AUTH_SUCCESS"))
      BY <1>5, <1>6 DEF Says
    <2>2. rep # TlsReady
      BY <1>4, <2>1 DEF Dialogue, TlsOffered, Early
    <2>3. rep = Banner220  BY <1>10, <2>1, <2>2
    <2>4. /\ state = "HELO" /\ May("splitBanner") /\ ssl # "up" /\ ~Has(toClient, TlsReady)
          /\ ~Has(toServer, "STARTTLS")
      BY <1>4, <2>1, <2>3 DEF Dialogue, GreetingFirst
    <2>5. ~Has(a.cmds, "STARTTLS")  BY <1>12, <1>13, <2>1, <2>4
    <2>6. ~Has(toClient', Banner220)  BY <1>16, <2>4
    <2>7. Sealed'  BY <1>2, <1>8, <1>9, <2>4, <2>5, <2>6 DEF Sealed
    <2>8. client  BY <1>4, <2>3 DEF Dialogue, OneEnd, Sealed
    <2> QED  BY <1>6, <2>2, <2>4, <2>7, <2>8
  <1>25. OneEnd'  BY <1>1, <1>23, <1>24 DEF OneEnd, May
  <1> QED
    BY <1>14, <1>15, <1>17, <1>19, <1>20, <1>21, <1>24, <1>25 DEF Dialogue

(* The recipients are asked for in RCPT only, which the session reaches    *)
(* once: after the login there is no 220 that could start it again.        *)
RcptBatch == [i \in 1..NRcpt |-> Rcpt]

LEMMA BatchIs ==
    /\ RcptBatch \in Seq(Command) /\ Len(RcptBatch) = NRcpt
    /\ \A i \in 1..NRcpt : RcptBatch[i] = Rcpt
PROOF
  <1>1. NRcpt \in Nat  BY NRcptAssumption
  <1>2. RcptBatch \in [1..NRcpt -> Command]  BY Words DEF RcptBatch
  <1>3. RcptBatch \in Seq(Command) /\ Len(RcptBatch) = NRcpt
    BY <1>1, <1>2 DEF RcptBatch
  <1> QED  BY <1>3 DEF RcptBatch

Batched(a) ==
    \/ /\ ~Has(a.cmds, Rcpt)
       /\ state = "MAIL" => Target(a) \in {"MAIL", "RCPT"}
       /\ state \in {"RCPT", "DATA", "BODY", "QUIT"} =>
             Target(a) \in {"RCPT", "DATA", "BODY", "QUIT"}
       /\ state \in {"DATA", "BODY", "QUIT"} => Target(a) # "RCPT"
       /\ state = "RCPT" => Target(a) = "RCPT"
    \/ a.cmds = RcptBatch /\ state = "RCPT" /\ Target(a) = "DATA"

LEMMA BatchOnlyInRcpt ==
    ASSUME TypeOK, NEW rep, NEW chunk
    PROVE  Batched(onRx(rep, chunk))
PROOF
  <1> DEFINE a == onRx(rep, chunk)
  <1> SUFFICES Batched(a)  OBVIOUS
  <1>0. state \in States  BY DEF TypeOK
  <1>1. Leads(rep, chunk, a)  BY WhereTo
  <1>2. CASE state = "RCPT"
    <2>1. a = RCPT_onResponse(rep)  BY <1>2 DEF onRx
    <2>2. a = Ignore("RCPT") \/ a = Goto(RcptBatch, "DATA")
      BY <2>1, Zenon DEF RCPT_onResponse, RcptBatch, Rcpt
    <2> HIDE DEF a
    <2>3. CASE a = Ignore("RCPT")
      <3>1. a.cmds = <<>> /\ a.status = "OK"  BY <2>3 DEF Ignore, Answer
      <3>2. ~Has(a.cmds, Rcpt)  BY <3>1, Nothing
      <3> QED  BY <1>2, <3>1, <3>2 DEF Batched, Target
    <2>4. CASE a = Goto(RcptBatch, "DATA")
      <3>1. a.cmds = RcptBatch /\ a.status = "GOTO_NEXT_STATE" /\ a.state = "DATA"
        BY <2>4 DEF Goto, Answer
      <3> QED  BY <1>2, <3>1 DEF Batched, Target
    <2> QED  BY <2>2, <2>3, <2>4
  <1>3. CASE state \in {"GREETING", "HELO"}
    <2>1. Says(rep, chunk, a)  BY SaysThat
    <2>2. a.cmds = <<>> \/ a.cmds = <<"EHLO">> \/ a.cmds = <<"STARTTLS">>
      <3>1. CASE state = "GREETING"
        <4>1. a = GREETING_onResponse(rep)  BY <3>1 DEF onRx
        <4> HIDE DEF a
        <4> QED  BY <4>1 DEF GREETING_onResponse, Goto, Ignore, Answer
      <3>2. CASE state = "HELO"
        <4>1. a = HELO_onResponse(rep, chunk)  BY <3>2 DEF onRx
        <4> HIDE DEF a
        <4> QED  BY <4>1 DEF HELO_onResponse, Goto, Ignore, Answer
      <3> QED  BY <1>3, <3>1, <3>2
    <2> HIDE DEF a
    <2>3. ~Has(a.cmds, Rcpt)
      <3>1. ~Has(<<>>, Rcpt) /\ ~Has(<<"EHLO">>, Rcpt) /\ ~Has(<<"STARTTLS">>, Rcpt)
        BY Nothing, Singleton, Words
      <3> QED  BY <2>2, <3>1
    <2> QED  BY <1>3, <2>3 DEF Batched
  <1>4. CASE state = "MAIL"
    <2> DEFINE W == {"AUTH LOGIN", "username", "password", "MAIL FROM", "RSET"}
    <2>1. a = MAIL_onResponse(rep)  BY <1>4 DEF onRx
    <2>2. \E c \in W : \E st, to, sg : a = Answer(st, <<c>>, to, sg) \/ a = Answer(st, <<>>, to, sg)
      <3>1. CASE rep.code = 535
        BY <2>1, <3>1, Zenon DEF MAIL_onResponse, Ignore
      <3>2. CASE rep.code # 535
        <4>1. a = MAIL_onCommand(rep)  BY <2>1, <3>2, Zenon DEF MAIL_onResponse
        <4>2. stage \in AuthSteps  BY DEF TypeOK
        <4>3. CASE stage = "AUTH_INIT"  BY <4>1, <4>3, Zenon DEF MAIL_onCommand, Remain
        <4>4. CASE stage = "AUTH_USRNAME"  BY <4>1, <4>4, Zenon DEF MAIL_onCommand, Remain
        <4>5. CASE stage = "AUTH_PASSWORD"  BY <4>1, <4>5, Zenon DEF MAIL_onCommand, Remain
        <4>6. CASE stage = "AUTH_SUCCESS"
          BY <4>1, <4>6, Zenon DEF MAIL_onCommand, Goto
        <4> QED  BY <4>2, <4>3, <4>4, <4>5, <4>6, Zenon DEF AuthSteps
      <3> QED  BY <3>1, <3>2, Zenon
    <2>3. \A c \in W : c # Rcpt  BY Zenon DEF Rcpt
    <2> HIDE DEF W, a
    <2>4. \E c \in W : a.cmds = <<c>> \/ a.cmds = <<>>  BY <2>2 DEF Answer
    <2>5. ~Has(a.cmds, Rcpt)
      <3>1. PICK c \in W : a.cmds = <<c>> \/ a.cmds = <<>>  BY <2>4
      <3>2. ~Has(<<c>>, Rcpt) /\ ~Has(<<>>, Rcpt)  BY <2>3, Singleton, Nothing
      <3> QED  BY <3>1, <3>2
    <2>6. Target(a) \in {"MAIL", "RCPT"}  BY <1>1, <1>4 DEF Leads
    <2> QED  BY <1>4, <2>5, <2>6 DEF Batched
  <1>5. CASE state \in {"DATA", "BODY", "QUIT"}
    <2> DEFINE W == {"DATA", "message", "QUIT"}
    <2>1. \E c \in W : \E st, to, sg : a = Answer(st, <<>>, to, sg) \/ a = Answer(st, <<c>>, to, sg)
      <3>1. CASE state = "DATA"
        BY <3>1, Zenon DEF onRx, DATA_onResponse, Goto, Ignore
      <3>2. CASE state = "BODY"
        BY <3>2, Zenon DEF onRx, BODY_onResponse, Goto, Ignore
      <3>3. CASE state = "QUIT"
        <4>1. a = QUIT_onResponse(rep)  BY <3>3 DEF onRx
        <4> HIDE DEF a
        <4>2. \/ a = Ignore("QUIT") \/ a = Remain(<<>>, "QUIT", stage)
              \/ a = Remain(<<"QUIT">>, "QUIT", stage)
          BY <4>1, Zenon DEF QUIT_onResponse
        <4> QED  BY <4>2, Zenon DEF Remain, Ignore
      <3> QED  BY <1>5, <3>1, <3>2, <3>3
    <2>2. \A c \in W : c # Rcpt  BY Zenon DEF Rcpt
    <2> HIDE DEF W, a
    <2>3. \E c \in W : a.cmds = <<c>> \/ a.cmds = <<>>  BY <2>1 DEF Answer
    <2>4. ~Has(a.cmds, Rcpt)
      <3>1. PICK c \in W : a.cmds = <<c>> \/ a.cmds = <<>>  BY <2>3
      <3>2. ~Has(<<c>>, Rcpt) /\ ~Has(<<>>, Rcpt)  BY <2>2, Singleton, Nothing
      <3> QED  BY <3>1, <3>2
    <2>5. Target(a) \in {"DATA", "BODY", "QUIT"}  BY <1>1, <1>5 DEF Leads
    <2> QED  BY <1>5, <2>4, <2>5 DEF Batched
  <1> QED  BY <1>0, <1>2, <1>3, <1>4, <1>5 DEF States

LEMMA ReadBatches ==
    ASSUME TypeOK, Alive, Dialogue, OneBatch, NEW k, Reads(k), Alive',
           NEW rep \in Reply, NEW a, ReadAnswers(k, rep, a)
    PROVE  OneBatch'
PROOF
  <1> USE Words, ReplyFacts
  <1>1. Batched(a) /\ Says(rep, Chunk(k), a)
    BY BatchOnlyInRcpt, SaysThat DEF ReadAnswers
  <1>2. /\ state' = Target(a) /\ toServer' \in {toServer, toServer \o a.cmds}
        /\ server' \in {server, "helo"} \cup Gone /\ rep \in Chunk(k)
    BY DEF ReadAnswers
  <1>3. k \in 1..Len(toClient) /\ rcpts' = rcpts /\ k \in Nat /\ Len(toClient) \in Nat
        /\ Len(toClient') = Len(toClient) - k
        /\ \A i \in 1..Len(toClient') : toClient'[i] = toClient[i + k]
    BY Rest
  <1>4. \A x : Has(toClient', x) => Has(toClient, x)  BY <1>3, Dropped, SMTT(30)
  <1>5. Has(toClient, rep)
    <2>1. 1..k \subseteq 1..Len(toClient)  BY <1>3
    <2> QED  BY <1>2, <2>1 DEF Has, Chunk
  <1>6. server \notin {"none", "greet"} /\ server' \notin {"none", "greet"}
    <2>1. toClient # <<>>  BY <1>3
    <2> QED  BY <1>2, <2>1 DEF Dialogue, Unconnected
  <1>7. toServer \in Seq(Command) /\ a.cmds \in Seq(Command)
    BY AnswerTyped DEF TypeOK, Typed, ReadAnswers
  <1>8. rcpts \in Nat /\ NRcpt \in Nat  BY NRcptAssumption DEF TypeOK
  <1>9. Has(a.cmds, "STARTTLS") => state = "HELO" /\ ~Has(a.cmds, Rcpt)
    <2>1. ASSUME NEW c, NEW x PROVE Has(<<c>>, x) <=> x = c  BY Singleton
    <2> QED  BY <1>1, <2>1 DEF Says
  <1>10. ASSUME NEW x, Has(toServer', x) PROVE Has(toServer, x) \/ Has(a.cmds, x)
    <2>1. Has(toServer \o a.cmds, x) => Has(toServer, x) \/ Has(a.cmds, x)
      BY <1>7, Joined
    <2> QED  BY <1>2, <1>10, <2>1
  <1>11. CASE ~Has(a.cmds, Rcpt)
    <2>1. ASSUME NEW i \in 1..Len(toServer'), toServer'[i] = Rcpt
          PROVE  i \in 1..Len(toServer) /\ toServer[i] = Rcpt
      <3>1. CASE toServer' = toServer  BY <2>1, <3>1
      <3>2. CASE toServer' = toServer \o a.cmds
        <4>1. i \in 1..Len(toServer \o a.cmds) /\ (toServer \o a.cmds)[i] = Rcpt
          BY <2>1, <3>2
        <4>2. \/ Has(a.cmds, (toServer \o a.cmds)[i])
              \/ i \in 1..Len(toServer) /\ toServer[i] = (toServer \o a.cmds)[i]
          BY <1>7, <4>1, JoinedAt
        <4> QED  BY <1>11, <4>1, <4>2
      <3> QED  BY <1>2, <3>1, <3>2
    <2>2. InARow'
      <3> SUFFICES ASSUME NEW i \in 1..Len(toServer'), NEW j \in 1..Len(toServer'),
                          toServer'[i] = Rcpt, toServer'[j] = Rcpt
                   PROVE  (j - i) + 1 + rcpts <= NRcpt
        BY <1>3 DEF InARow
      <3> QED  BY <2>1 DEF OneBatch, InARow
    <2>3. CASE rcpts = 0 /\ ~Has(toServer, Rcpt)
      <3>1. ~Has(toServer', Rcpt)  BY <1>10, <1>11, <2>3
      <3> QED  BY <1>3, <2>2, <2>3, <3>1 DEF OneBatch
    <2>4. CASE state \in {"DATA", "BODY", "QUIT", "GREETING"} /\ Sealed
      <3>1. rep.code # 220
        <4>1. rep \in Reply /\ ~Has(toClient, Banner220) /\ ~Has(toClient, TlsReady)
          BY <2>4 DEF Sealed
        <4> QED  BY <1>5, <4>1 DEF Dialogue, OnlyThese
      <3>2. state' \in {"DATA", "BODY", "QUIT", "GREETING"}
        <4>1. CASE state = "GREETING"
          BY <1>1, <1>2, <3>1, <4>1 DEF Says
        <4>2. CASE state \in {"DATA", "BODY", "QUIT"}
          BY <1>1, <1>2, <4>2 DEF Batched
        <4> QED  BY <2>4, <4>1, <4>2
      <3>3. ~Has(toServer', "STARTTLS")  BY <1>9, <1>10, <2>4 DEF Sealed
      <3>4. Sealed'  BY <1>4, <1>6, <2>4, <3>3 DEF Sealed
      <3> QED  BY <2>2, <3>2, <3>4 DEF OneBatch
    <2> QED  BY <2>3, <2>4 DEF OneBatch
  <1>12. CASE Has(a.cmds, Rcpt)
    <2>1. a.cmds = RcptBatch /\ state = "RCPT" /\ state' = "DATA"
      BY <1>1, <1>2, <1>12 DEF Batched
    <2>2. rcpts = 0 /\ ~Has(toServer, Rcpt)  BY <2>1 DEF OneBatch
    <2>3. /\ ~Has(toClient, Banner220) /\ ~Has(toClient, TlsReady)
          /\ ~Has(toServer, "STARTTLS")
      BY <2>1 DEF Dialogue, GreetingFirst, TlsOffered, TlsAsked, Early
    <2>4. Sealed'  BY <1>4, <1>6, <1>9, <1>10, <1>12, <2>3 DEF Sealed
    <2>5. InARow'
      <3> SUFFICES ASSUME NEW i \in 1..Len(toServer'), NEW j \in 1..Len(toServer'),
                          toServer'[i] = Rcpt, toServer'[j] = Rcpt
                   PROVE  (j - i) + 1 <= NRcpt
        BY <1>3, <1>8, <2>2 DEF InARow
      <3>1. toServer' = toServer \o a.cmds
        <4>1. Has(toServer', Rcpt)  BY DEF Has
        <4> QED  BY <1>2, <2>2, <4>1
      <3>2. /\ i > Len(toServer) /\ j > Len(toServer) /\ Len(toServer) \in Nat
            /\ Len(toServer') = Len(toServer) + NRcpt
        <4>1. ASSUME NEW n \in 1..Len(toServer'), toServer'[n] = Rcpt
              PROVE  n > Len(toServer)
          <5>1. n \in 1..Len(toServer \o a.cmds) /\ (toServer \o a.cmds)[n] = Rcpt
            BY <3>1, <4>1
          <5>2. Has(toServer, (toServer \o a.cmds)[n]) \/ n > Len(toServer)
            BY <1>7, <5>1, JoinedAt
          <5> QED  BY <2>2, <5>1, <5>2
        <4>2. /\ Len(toServer \o a.cmds) = Len(toServer) + Len(a.cmds)
              /\ Len(toServer) \in Nat
          BY <1>7, Joined
        <4>3. Len(a.cmds) = NRcpt  BY <2>1, BatchIs
        <4> QED  BY <3>1, <4>1, <4>2, <4>3
      <3> QED  BY <1>8, <3>2
    <2> QED  BY <2>1, <2>4, <2>5 DEF OneBatch
  <1> QED  BY <1>11, <1>12

LEMMA ReadTalks ==
    ASSUME TypeOK, Talk, NEW k, Reads(k)
    PROVE  TypeOK' /\ Talk' /\ (reactor' = "ending" => client /\ handler)
PROOF
  <1>1. TypeOK'  BY ReadTyped
  <1>2. Alive /\ handler  BY Rest DEF Reads
  <1>3. Dialogue /\ OneBatch  BY <1>2 DEF Talk
  <1>4. CASE ~Alive'
    BY <1>1, <1>4 DEF Talk, Alive
  <1>5. CASE Alive'
    <2>1. PICK rep, a : rep \in Reply /\ ReadAnswers(k, rep, a)
      BY <1>5, ReadIs DEF Alive, ReadFails
    <2>2. Dialogue' /\ (reactor' = "ending" => client)
      BY <1>2, <1>3, <1>5, <2>1, ReadKeeps
    <2>3. OneBatch'  BY <1>2, <1>3, <1>5, <2>1, ReadBatches
    <2> QED  BY <1>1, <1>2, <2>2, <2>3 DEF Talk
  <1> QED  BY <1>4, <1>5

-----------------------------------------------------------------------------
(* The threads.                                                            *)

(* What the reactor thread still has to finish is there: one end only.     *)
Lively == reactor \in {"closing", "ending"} => client /\ handler
Begins ==
    /\ server = "none" => ~handler /\ client
    /\ worker \in {"start", "connected", "open"} => thread = "none"
    /\ worker = "start" => server = "none"

(* The units of the semaphore: one at first and one from svc, less that of *)
(* the worker and that of the reactor thread, which ends by letting go of  *)
(* the handler or of the Client.                                           *)
One(c) == IF c THEN 1 ELSE 0
Finished == ~client \/ (~handler /\ server # "none")
Units == sem = One(worker \notin {"reset", "spin", "done"})
                 + One(thread \notin {"none", "svc"}) - One(Finished)

(* The flag is cleared by a connection that failed, which registered no    *)
(* handler, by the end of the stream, on the way to Client::stop, or by    *)
(* endEmailTransaction.                                                    *)
HandlerGone ==
    ~May("splitBanner") /\ worker \notin {"start", "connected"} /\ handler /\ ~available =>
        reactor \in {"closing", "stuck", "crashed"}
DoneIsOver == worker = "done" => ~available

ThreadInv == Lively /\ Begins /\ Units /\ HandlerGone /\ DoneIsOver
TxInv == TxTypeOK /\ Talk /\ ThreadInv

LEMMA TxInitHolds == TxInit => TxInv
PROOF
  <1> SUFFICES ASSUME TxInit PROVE TxInv  OBVIOUS
  <1>1. TypeOK
    <2>1. Init  BY DEF TxInit
    <2> QED  BY <2>1, InitHolds DEF SInv
  <1>2. TxTypeOK  BY <1>1 DEF TxInit, TxTypeOK
  <1>3. \A x : ~Has(toServer, x) /\ ~Has(toClient, x)
    BY Nothing DEF TxInit, Init
  <1>4. Dialogue
    BY <1>3 DEF TxInit, Init, Dialogue, OnlyThese, Unconnected, GreetingFirst, TlsAsked,
                TlsOffered, LoginLater, OneEnd
  <1>5. OneBatch
    <2>1. rcpts = 0  BY DEF TxInit, Init
    <2>2. \A i \in 1..Len(toServer) : toServer[i] # Rcpt  BY <1>3 DEF Has
    <2> QED  BY <1>3, <2>1, <2>2 DEF OneBatch, InARow
  <1>6. ThreadInv
    BY DEF ThreadInv, Lively, Begins, Units, One, Finished, HandlerGone, DoneIsOver, TxInit,
           Init
  <1> QED  BY <1>2, <1>4, <1>5, <1>6 DEF TxInv, Talk

(* The count changes with worker, thread and the end of the session only.  *)
LEMMA UnitsSame ==
    ASSUME Units, sem' = sem, Finished' <=> Finished,
           (worker' \in {"reset", "spin", "done"}) <=> (worker \in {"reset", "spin", "done"}),
           (thread' \in {"none", "svc"}) <=> (thread \in {"none", "svc"})
    PROVE  Units'
PROOF BY DEF Units, One

LEMMA UnitsBound == Units => sem <= 2
PROOF
  <1>1. \A c : One(c) \in {0, 1}  BY DEF One
  <1> HIDE DEF One
  <1> QED  BY <1>1 DEF Units

LEMMA CrashKeeps == TxInv /\ Crash => TxInv'
PROOF
  <1> SUFFICES ASSUME TxInv, Crash PROVE TxInv'  OBVIOUS
  <1>1. /\ reactor' = "crashed"
        /\ UNCHANGED <<fsmVars, tlsVars, available, handler, client, netVars, serverVars,
                       threadVars>>
    BY DEF Crash
  <1>2. TxTypeOK'
    BY <1>1 DEF TxInv, TxTypeOK, TypeOK, fsmVars, tlsVars, netVars, serverVars, threadVars
  <1>3. Talk'  BY <1>1 DEF Talk, Alive
  <1>4. Units'
    BY <1>1, UnitsSame DEF TxInv, ThreadInv, Finished, serverVars, threadVars
  <1>5. Lively' /\ Begins' /\ HandlerGone' /\ DoneIsOver'
    BY <1>1 DEF TxInv, ThreadInv, Lively, Begins, HandlerGone, DoneIsOver, serverVars, threadVars
  <1> QED  BY <1>2, <1>3, <1>4, <1>5 DEF TxInv, ThreadInv

LEMMA ConnectKeeps == TxInv /\ (Connect \/ ConnectFails \/ SetAvailable) => TxInv'
PROOF
  <1> SUFFICES ASSUME TxInv, Connect \/ ConnectFails \/ SetAvailable PROVE TxInv'
    OBVIOUS
  <1>0. TxTypeOK /\ TypeOK /\ Talk /\ Lively /\ Begins /\ Units /\ HandlerGone /\ DoneIsOver
    BY DEF TxInv, ThreadInv, TxTypeOK
  <1> USE DEF fsmVars, tlsVars, netVars, serverVars
  <1>1. CASE Connect
    <2>1. /\ worker = "start" /\ server = "none" /\ ~handler /\ client /\ handler' = TRUE
          /\ server' = "greet" /\ worker' = "connected"
          /\ UNCHANGED <<fsmVars, tlsVars, available, client, reactor, netVars, secure,
                   rcpts, loggedIn, accepted, misread, faults, thread, sem, semPtr>>
      BY <1>0, <1>1 DEF Connect, Begins
    <2>2. TxTypeOK'  BY <1>0, <2>1 DEF TxTypeOK, TypeOK
    <2>3. Talk'  BY <1>0, <2>1, SilentTalks DEF Alive
    <2>4. Units'  BY <1>0, <2>1, UnitsSame DEF Finished
    <2>5. Lively' /\ Begins' /\ HandlerGone' /\ DoneIsOver'
      BY <1>0, <2>1 DEF Lively, Begins, HandlerGone, DoneIsOver
    <2> QED  BY <2>2, <2>3, <2>4, <2>5 DEF TxInv, ThreadInv
  <1>2. CASE ConnectFails
    <2>1. /\ worker = "start" /\ server = "none" /\ ~handler /\ client
          /\ available' = FALSE /\ worker' = "acquire"
          /\ UNCHANGED <<fsmVars, tlsVars, handler, client, reactor, netVars, serverVars,
                         thread, sem, semPtr>>
      BY <1>0, <1>2 DEF ConnectFails, Begins
    <2>2. TxTypeOK'  BY <1>0, <2>1, ZenonT(60) DEF TxTypeOK, TypeOK
    <2>3. Talk'  BY <1>0, <2>1, SilentTalks DEF Alive
    <2>4. Units'  BY <1>0, <2>1, UnitsSame DEF Finished
    <2>5. Lively' /\ Begins' /\ HandlerGone' /\ DoneIsOver'
      BY <1>0, <2>1 DEF Lively, Begins, HandlerGone, DoneIsOver
    <2> QED  BY <2>2, <2>3, <2>4, <2>5 DEF TxInv, ThreadInv
  <1>3. CASE SetAvailable
    <2>1. /\ worker = "connected" /\ available' = TRUE /\ worker' = "open"
          /\ UNCHANGED <<fsmVars, tlsVars, handler, client, reactor, netVars, serverVars,
                         thread, sem, semPtr>>
      BY <1>3 DEF SetAvailable
    <2>2. TxTypeOK'  BY <1>0, <2>1 DEF TxTypeOK, TypeOK
    <2>3. Talk'  BY <1>0, <2>1, SilentTalks DEF Alive
    <2>4. Units'  BY <1>0, <2>1, UnitsSame DEF Finished
    <2>5. Lively' /\ Begins' /\ HandlerGone' /\ DoneIsOver'
      BY <1>0, <2>1 DEF Lively, Begins, HandlerGone, DoneIsOver
    <2> QED  BY <2>2, <2>3, <2>4, <2>5 DEF TxInv, ThreadInv
  <1> QED  BY <1>1, <1>2, <1>3

LEMMA WaitKeeps ==
    TxInv /\ (Open \/ Acquire \/ SetGreeting \/ Return \/ Thread) => TxInv'
PROOF
  <1> SUFFICES ASSUME TxInv, Open \/ Acquire \/ SetGreeting \/ Return \/ Thread PROVE TxInv'
    OBVIOUS
  <1>0. TxTypeOK /\ TypeOK /\ Talk /\ Lively /\ Begins /\ Units /\ HandlerGone /\ DoneIsOver
    BY DEF TxInv, ThreadInv, TxTypeOK
  <1> USE DEF vars, fsmVars, tlsVars, clientVars, netVars, serverVars
  <1>1. /\ UNCHANGED <<stage, tlsVars, clientVars, netVars, serverVars>>
        /\ state' \in {state, "GREETING"}
    BY DEF Open, Acquire, SetGreeting, Return, Thread, Svc, HandleEvents, EventsReturn, MainEnds
  <1>2. TypeOK'  BY <1>0, <1>1 DEF TypeOK, States
  <1>3. Talk'  BY <1>0, <1>1, SilentTalks DEF Alive
  <1>4. /\ worker' # worker => \/ worker = "open" /\ worker' = "acquire" /\ thread' = "svc"
                               \/ worker = "acquire" /\ worker' = "reset" /\ thread' = thread
                               \/ worker = "reset" /\ worker' = "spin" /\ thread' = thread
                               \/ worker = "spin" /\ worker' = "done" /\ ~available
                                     /\ thread' = thread
        /\ thread' # thread =>
              \/ worker = "open" /\ worker' = "acquire" /\ thread' = "svc"
              \/ worker' = worker /\ thread # "none" /\ thread' \in {"check", "events", "exited"}
    BY DEF Open, Acquire, SetGreeting, Return, Thread, Svc, HandleEvents, EventsReturn, MainEnds
  <1>5. Lively' /\ Begins' /\ HandlerGone' /\ DoneIsOver'
    BY <1>0, <1>1, <1>4 DEF Lively, Begins, HandlerGone, DoneIsOver, May
  <1>6. Units' /\ sem' \in Nat /\ semPtr' \in BOOLEAN
    <2>0. sem \in Nat /\ semPtr \in BOOLEAN  BY <1>0 DEF TxTypeOK
    <2>1. Finished' <=> Finished  BY <1>1 DEF Finished
    <2>2. CASE Open
      <3>1. /\ sem' = sem /\ semPtr' = semPtr /\ worker = "open" /\ worker' = "acquire"
            /\ thread' = "svc" /\ thread = "none"
        BY <1>0, <2>2 DEF Open, Begins
      <3> QED  BY <1>0, <2>0, <2>1, <3>1, UnitsSame
    <2>3. CASE Acquire
      <3>1. /\ sem' = sem - 1 /\ semPtr' = semPtr /\ worker = "acquire" /\ worker' = "reset"
            /\ thread' = thread /\ sem > 0
        BY <2>3 DEF Acquire
      <3> QED  BY <1>0, <2>0, <2>1, <3>1 DEF Units, One
    <2>4. CASE SetGreeting
      <3>1. /\ sem' = sem /\ semPtr' = semPtr /\ worker = "reset" /\ worker' = "spin"
            /\ thread' = thread
        BY <2>4 DEF SetGreeting
      <3> QED  BY <1>0, <2>0, <2>1, <3>1, UnitsSame
    <2>5. CASE Return
      <3>1. /\ sem' = sem /\ semPtr' = semPtr /\ worker = "spin" /\ worker' = "done"
            /\ thread' = thread
        BY <2>5 DEF Return
      <3> QED  BY <1>0, <2>0, <2>1, <3>1, UnitsSame
    <2>6. CASE Svc
      <3>1. /\ sem' = sem + 1 /\ semPtr' = semPtr /\ worker' = worker
            /\ thread = "svc" /\ thread' = "check"
        BY <2>6 DEF Svc
      <3> QED  BY <1>0, <2>0, <2>1, <3>1 DEF Units, One
    <2>7. CASE HandleEvents \/ EventsReturn \/ MainEnds
      <3>1. /\ sem' = sem /\ semPtr' \in {semPtr, FALSE} /\ worker' = worker
            /\ thread \in {"check", "events"} /\ thread' \in {"check", "events", "exited"}
        BY <2>7 DEF HandleEvents, EventsReturn, MainEnds
      <3>2. semPtr' \in BOOLEAN  BY <2>0, <3>1, Zenon
      <3> QED  BY <1>0, <2>0, <2>1, <3>1, <3>2, UnitsSame
    <2> QED  BY <2>2, <2>3, <2>4, <2>5, <2>6, <2>7 DEF Thread
  <1>7. sem' \in 0..2
    <2>1. (Units => sem <= 2)'  BY UnitsBound, PTL
    <2> QED  BY <1>6, <2>1
  <1>8. worker' \in {"start", "connected", "open", "acquire", "reset", "spin", "done"}
        /\ thread' \in {"none", "svc", "check", "events", "exited"}
    BY <1>0, <1>4 DEF TxTypeOK
  <1> QED  BY <1>2, <1>3, <1>5, <1>6, <1>7, <1>8 DEF TxInv, TxTypeOK, ThreadInv

(* A step that leaves the threads alone, once a server is connected.       *)
LEMMA ThreadsApart ==
    ASSUME ThreadInv, UNCHANGED threadVars, UNCHANGED <<handler, client, faults>>,
           server # "none", server' # "none", available' = available,
           reactor' \in {reactor, "stuck", "crashed"}
    PROVE  ThreadInv'
PROOF
  <1> USE DEF ThreadInv, threadVars
  <1>1. Units'  BY UnitsSame DEF Finished
  <1>2. Lively' /\ Begins' /\ HandlerGone' /\ DoneIsOver'
    BY DEF Lively, Begins, HandlerGone, DoneIsOver, May
  <1> QED  BY <1>1, <1>2

LEMMA ReadIsKept ==
    ASSUME TxInv, NEW k, Reads(k), worker # "done", UNCHANGED threadVars
    PROVE  TxInv'
PROOF
  <1>0. TxTypeOK /\ TypeOK /\ Talk /\ ThreadInv  BY DEF TxInv, TxTypeOK
  <1>1. TypeOK' /\ Talk' /\ (reactor' = "ending" => client /\ handler)
    BY <1>0, ReadTalks
  <1>2. TxTypeOK'  BY <1>0, <1>1 DEF TxTypeOK, threadVars
  <1>3. /\ reactor = "idle" /\ Alive /\ Len(toClient) # 0
        /\ UNCHANGED <<handler, client, faults>>
    BY <1>0, Rest
  <1>4. server \notin {"none", "greet"}
    <2>1. toClient # <<>>  BY <1>3
    <2> QED  BY <1>0, <1>3, <2>1 DEF Talk, Dialogue, Unconnected
  <1>5. \/ /\ reactor' \in {"idle", "stuck", "crashed"} /\ available' = available
           /\ server' # "none"
        \/ /\ reactor' = "ending" /\ available' = FALSE /\ server' # "none"
    <2>1. CASE ReadFails
      BY <1>4, <2>1 DEF ReadFails
    <2>2. CASE \E rep, a : rep \in Reply /\ ReadAnswers(k, rep, a)
      <3>1. PICK rep, a : ReadAnswers(k, rep, a)  BY <2>2
      <3> QED  BY <1>4, <3>1 DEF ReadAnswers
    <2> QED  BY <1>0, <2>1, <2>2, ReadIs
  <1>6. CASE reactor' # "ending"
    <2>1. ThreadInv'  BY <1>0, <1>3, <1>4, <1>5, <1>6, ThreadsApart
    <2> QED  BY <1>1, <1>2, <2>1 DEF TxInv
  <1>7. CASE reactor' = "ending"
    <2>1. May("splitBanner")'
      BY <1>1, <1>7 DEF Talk, Alive, Dialogue, OneEnd
    <2>2. Units'
      BY <1>0, <1>3, <1>4, <1>5, UnitsSame DEF ThreadInv, Finished, threadVars
    <2>3. Lively'  BY <1>1, <1>3, <1>7 DEF Lively
    <2>4. Begins' /\ HandlerGone' /\ DoneIsOver'
      BY <1>0, <1>3, <1>4, <1>5, <1>7, <2>1
      DEF ThreadInv, Begins, HandlerGone, DoneIsOver, threadVars
    <2> QED  BY <1>1, <1>2, <2>2, <2>3, <2>4 DEF TxInv, ThreadInv
  <1> QED  BY <1>6, <1>7

LEMMA ReadEofIsKept == TxInv /\ ReadEof /\ worker # "done" /\ UNCHANGED threadVars => TxInv'
PROOF
  <1> SUFFICES ASSUME TxInv, ReadEof, worker # "done", UNCHANGED threadVars PROVE TxInv'
    OBVIOUS
  <1>0. TxTypeOK /\ TypeOK /\ Talk /\ ThreadInv  BY DEF TxInv, TxTypeOK
  <1>1. /\ reactor = "idle" /\ handler /\ server \in Gone
        /\ UNCHANGED <<fsmVars, tlsVars, handler, client, netVars, serverVars>>
        /\ \/ ssl = "up" /\ available' = FALSE /\ reactor' = "closing"
           \/ reactor' = "crashed" /\ available' = available
    BY DEF ReadEof
  <1> USE DEF fsmVars, tlsVars, netVars, serverVars
  <1>2. TxTypeOK'
    <2>1. available' \in BOOLEAN /\ reactor' \in {"closing", "crashed"}
      BY <1>0, <1>1, Zenon DEF TypeOK
    <2>2. TypeOK'  BY <1>0, <1>1, <2>1 DEF TypeOK
    <2> QED  BY <1>0, <2>2 DEF TxTypeOK, threadVars
  <1>3. Alive  BY <1>1 DEF Alive
  <1>4. CASE reactor' = "crashed" /\ available' = available
    <2>1. Talk'  BY <1>4 DEF Talk, Alive
    <2>2. ThreadInv'  BY <1>0, <1>1, <1>4, ThreadsApart
    <2> QED  BY <1>2, <2>1, <2>2 DEF TxInv
  <1>5. CASE ssl = "up" /\ available' = FALSE /\ reactor' = "closing"
    <2>1. Talk'  BY <1>0, <1>1, <1>3, <1>5, SilentTalks
    <2>2. client  BY <1>0, <1>3, <1>5 DEF Talk, Dialogue, OneEnd
    <2>3. Units'  BY <1>0, <1>1, UnitsSame DEF ThreadInv, Finished, threadVars
    <2>4. Lively' /\ Begins' /\ HandlerGone' /\ DoneIsOver'
      BY <1>0, <1>1, <1>5, <2>2
      DEF ThreadInv, Lively, Begins, HandlerGone, DoneIsOver, threadVars
    <2> QED  BY <1>2, <2>1, <2>3, <2>4 DEF TxInv, ThreadInv
  <1> QED  BY <1>1, <1>4, <1>5

(* The second acquire of the reactor thread never comes: it lets go of the *)
(* handler or of the Client, and what it lets go of was there.             *)
LEMMA FinishKeeps == TxInv /\ Finish => TxInv'
PROOF
  <1> SUFFICES ASSUME TxInv, Finish PROVE TxInv'  OBVIOUS
  <1>0. TxTypeOK /\ TypeOK /\ Talk /\ Lively /\ Begins /\ Units /\ HandlerGone /\ DoneIsOver
    BY DEF TxInv, ThreadInv, TxTypeOK
  <1>1. /\ reactor \in {"closing", "ending"} /\ sem > 0 /\ sem' = sem - 1
        /\ UNCHANGED <<fsmVars, tlsVars, netVars, serverVars, worker, thread, semPtr>>
        /\ reactor' = "idle"
        /\ \/ /\ handler' = FALSE /\ available' = FALSE /\ client' = client
           \/ /\ reactor = "ending" /\ client' = FALSE
              /\ UNCHANGED <<available, handler>>
    BY DEF Finish, Stop, ReleaseClient
  <1> USE DEF fsmVars, tlsVars, netVars, serverVars
  <1>2. client /\ handler /\ Alive /\ server # "none"
    BY <1>0, <1>1 DEF Lively, Begins, Alive
  <1>3. TxTypeOK'
    <2>1. TypeOK'  BY <1>0, <1>1, ZenonT(60) DEF TypeOK
    <2>2. sem' \in 0..2
      <3>1. sem \in 0..2  BY <1>0 DEF TxTypeOK
      <3> QED  BY <1>1, <3>1
    <2> QED  BY <1>0, <1>1, <2>1, <2>2 DEF TxTypeOK
  <1>4. Talk'  BY <1>0, <1>1, <1>2, SilentTalks DEF Alive
  <1>5. Units'
    <2>1. ~Finished /\ Finished'  BY <1>1, <1>2 DEF Finished
    <2> QED  BY <1>0, <1>1, <2>1 DEF Units, One
  <1>6. HandlerGone'
    <2>1. CASE handler' = FALSE  BY <2>1 DEF HandlerGone
    <2>2. CASE reactor = "ending"
      <3>1. May("splitBanner")  BY <1>0, <1>2, <2>2 DEF Talk, Dialogue, OneEnd
      <3> QED  BY <1>1, <3>1 DEF HandlerGone, May
    <2> QED  BY <1>1, <2>1, <2>2
  <1>7. Lively' /\ Begins'
    BY <1>0, <1>1, <1>2 DEF Lively, Begins
  <1>8. DoneIsOver'
    <2>1. available' = FALSE \/ available' = available  BY <1>1
    <2> QED  BY <1>0, <1>1, <2>1, Zenon DEF DoneIsOver
  <1> QED  BY <1>8, <1>3, <1>4, <1>5, <1>6, <1>7 DEF TxInv, ThreadInv

LEMMA ServerIsKept ==
    TxInv /\ (Server \/ IdleTimeout \/ Drop) /\ UNCHANGED threadVars => TxInv'
PROOF
  <1> SUFFICES ASSUME TxInv, Server \/ IdleTimeout \/ Drop, UNCHANGED threadVars
               PROVE  TxInv'
    OBVIOUS
  <1>0. TxTypeOK /\ TypeOK /\ Talk /\ ThreadInv  BY DEF TxInv, TxTypeOK
  <1>1. /\ UNCHANGED <<fsmVars, tlsVars, clientVars, faults>>
        /\ server # "none" /\ server' # "none"
    <2>1. CASE Banner  BY <2>1 DEF Banner
    <2>2. CASE Server /\ ~Banner
      <3>1. PICK c, rs : Answers(c, rs)  BY <1>0, <2>2, ServerAnswers
      <3>2. server \notin {"none"}  BY <3>1 DEF Answers, Take, ServerOpen
      <3> QED  BY <3>1, <3>2 DEF Answers
    <2>3. CASE IdleTimeout \/ Drop  BY <2>3 DEF IdleTimeout, Drop, ServerOpen
    <2> QED  BY <2>1, <2>2, <2>3
  <1>2. TypeOK' /\ Talk'
    <2>1. CASE Server  BY <1>0, <2>1, ServerTalks
    <2>2. CASE IdleTimeout  BY <1>0, <2>2, IdleTimeoutTalks
    <2>3. CASE Drop
      <3>1. /\ server' = "dropped"
            /\ UNCHANGED <<fsmVars, tlsVars, clientVars, netVars, secure, rcpts, loggedIn,
                           accepted, misread, faults>>
        BY <2>3 DEF Drop
      <3>2. TypeOK'
        BY <1>0, <3>1 DEF TypeOK, fsmVars, tlsVars, clientVars, netVars
      <3>3. Talk'
        BY <1>0, <3>1, SilentTalks DEF fsmVars, tlsVars, clientVars, Alive
      <3> QED  BY <3>2, <3>3
    <2> QED  BY <2>1, <2>2, <2>3
  <1>3. TxTypeOK'  BY <1>0, <1>2 DEF TxTypeOK, threadVars
  <1>4. ThreadInv'  BY <1>0, <1>1, ThreadsApart DEF clientVars
  <1> QED  BY <1>2, <1>3, <1>4 DEF TxInv

LEMMA TxStepKept ==
    ASSUME NoCuts, Whole, TxInv, [TxNext]_txVars
    PROVE  TxInv'
PROOF
  <1>1. CASE Worker
    <2>1. CASE WorkerNull  BY <2>1, CrashKeeps DEF WorkerNull
    <2>2. CASE Connect \/ ConnectFails \/ SetAvailable  BY <2>2, ConnectKeeps
    <2>3. CASE Open \/ Acquire \/ SetGreeting \/ Return  BY <2>3, WaitKeeps
    <2> QED  BY <1>1, <2>1, <2>2, <2>3 DEF Worker
  <1>2. CASE Thread  BY <1>2, WaitKeeps
  <1>3. CASE Reactor
    <2>1. CASE HandleInput
      <3>1. CASE ReadEof  BY <2>1, <3>1, ReadEofIsKept DEF HandleInput
      <3>2. CASE \E k \in 1..Len(toClient) : Read(k)
        <4>1. PICK k : Read(k)  BY <3>2
        <4>2. Reads(k)  BY <4>1, ReadsWhole DEF TxInv, TxTypeOK
        <4> QED  BY <2>1, <4>2, ReadIsKept DEF HandleInput
      <3> QED  BY <2>1, <3>1, <3>2 DEF HandleInput
    <2>2. CASE HandleInputDangling \/ FinishNull
      BY <2>2, CrashKeeps DEF HandleInputDangling, FinishNull
    <2>3. CASE Finish  BY <2>3, FinishKeeps
    <2> QED  BY <1>3, <2>1, <2>2, <2>3 DEF Reactor
  <1>4. CASE TxServer  BY <1>4, ServerIsKept DEF TxServer
  <1>5. CASE (IdleTimeout \/ Drop) /\ UNCHANGED threadVars  BY <1>5, ServerIsKept
  <1>6. CASE UNCHANGED txVars
    <2> USE DEF txVars, vars, fsmVars, tlsVars, clientVars, netVars, serverVars, threadVars
    <2>1. TxTypeOK /\ TypeOK /\ Talk /\ ThreadInv  BY DEF TxInv, TxTypeOK
    <2>2. TxTypeOK'  BY <1>6, <2>1 DEF TxTypeOK, TypeOK
    <2>3. Talk'  BY <1>6, <2>1, SilentTalks DEF Alive
    <2>4. Units'  BY <1>6, <2>1, UnitsSame DEF ThreadInv, Finished
    <2>5. Lively' /\ Begins' /\ HandlerGone' /\ DoneIsOver'
      BY <1>6, <2>1 DEF ThreadInv, Lively, Begins, HandlerGone, DoneIsOver, May
    <2> QED  BY <2>2, <2>3, <2>4, <2>5 DEF TxInv, ThreadInv
  <1> QED  BY <1>1, <1>2, <1>3, <1>4, <1>5, <1>6 DEF TxNext

(* Faults do not change, and lines that arrive whole stay whole.           *)
LEMMA TxFaultsStay == [TxNext]_txVars => faults' = faults
PROOF
  <1> SUFFICES ASSUME [TxNext]_txVars PROVE faults' = faults  OBVIOUS
  <1> USE DEF vars, serverVars
  <1>1. CASE Worker \/ Thread
    <2>1. CASE Thread \/ Open \/ Acquire \/ SetGreeting \/ Return
      BY <2>1 DEF Open, Acquire, SetGreeting, Return, Thread, Svc, HandleEvents,
                  EventsReturn, MainEnds
    <2>2. CASE Connect \/ ConnectFails \/ SetAvailable \/ WorkerNull
      BY <2>2 DEF Connect, ConnectFails, SetAvailable, WorkerNull, Crash
    <2> QED  BY <1>1, <2>1, <2>2 DEF Worker
  <1>2. CASE HandleInput \/ TxServer \/ IdleTimeout \/ Drop
    <2>1. [Next]_vars  BY <1>2, Zenon DEF HandleInput, TxServer, Next, ClientStep
    <2> QED  BY <2>1, FaultsStay
  <1>3. CASE HandleInputDangling \/ FinishNull \/ Finish
    BY <1>3 DEF HandleInputDangling, FinishNull, Crash, Finish, Stop, ReleaseClient
  <1>4. CASE UNCHANGED txVars  BY <1>4 DEF txVars
  <1> QED  BY <1>1, <1>2, <1>3, <1>4 DEF TxNext, Reactor

LEMMA TxWholeKept ==
    ASSUME NoCuts, Whole, TypeOK, [TxNext]_txVars
    PROVE  Whole'
PROOF
  <1> USE DEF vars, netVars
  <1>1. CASE UNCHANGED toClient  BY <1>1 DEF Whole
  <1>2. CASE Worker \/ Thread
    <2>1. CASE Thread \/ Open \/ Acquire \/ SetGreeting \/ Return
      BY <1>1, <2>1 DEF Open, Acquire, SetGreeting, Return, Thread, Svc, HandleEvents,
                        EventsReturn, MainEnds
    <2>2. CASE Connect \/ ConnectFails \/ SetAvailable \/ WorkerNull
      BY <1>1, <2>2 DEF Connect, ConnectFails, SetAvailable, WorkerNull, Crash
    <2> QED  BY <1>2, <2>1, <2>2 DEF Worker
  <1>3. CASE HandleInput \/ TxServer \/ IdleTimeout \/ Drop
    <2>1. [Next]_vars  BY <1>3, Zenon DEF HandleInput, TxServer, Next, ClientStep
    <2> QED  BY <2>1, NextWhole, WholeKept
  <1>4. CASE HandleInputDangling \/ FinishNull \/ Finish
    BY <1>1, <1>4 DEF HandleInputDangling, FinishNull, Crash, Finish, Stop, ReleaseClient
  <1>5. CASE UNCHANGED txVars  BY <1>1, <1>5 DEF txVars
  <1> QED  BY <1>2, <1>3, <1>4, <1>5 DEF TxNext, Reactor

TxWholeInv == NoCuts => Whole /\ TxInv

LEMMA TxInductive == TxSpec => []TxWholeInv
PROOF
  <1>1. TxInit => TxWholeInv
    <2>1. TxInit => Whole  BY DEF TxInit, Init, Whole
    <2> QED  BY <2>1, TxInitHolds DEF TxWholeInv
  <1>2. TxWholeInv /\ [TxNext]_txVars => TxWholeInv'
    <2> SUFFICES ASSUME TxWholeInv, [TxNext]_txVars, NoCuts' PROVE Whole' /\ TxInv'
      BY DEF TxWholeInv
    <2>1. NoCuts /\ Whole /\ TxInv  BY TxFaultsStay DEF NoCuts, May, TxWholeInv
    <2>2. Whole'  BY <2>1, TxWholeKept DEF TxInv, TxTypeOK
    <2> QED  BY <2>1, <2>2, TxStepKept
  <1> QED  BY <1>1, <1>2, PTL DEF TxSpec

(* The variables of the session and of its three threads keep their types: *)
(* the semaphore never counts more than two units, for any number of       *)
(* recipients and any faults of the server, as long as no line is cut.     *)
THEOREM TxTyped == TxSpec => [](~May("midLine") => TxTypeOK)
PROOF
  <1>1. TxWholeInv => (~May("midLine") => TxTypeOK)  BY DEF TxWholeInv, NoCuts, TxInv
  <1> QED  BY <1>1, TxInductive, PTL

(* startEmailTransaction destroys its User only when no handle_input can   *)
(* call into it any more, unless the greeting comes in two parts (and with *)
(* no line cut).                                                           *)
THEOREM NoInputAfterReturn == TxSpec => [](~May("midLine") => UserOutlivesInput)
PROOF
  <1>1. TxWholeInv => (~May("midLine") => UserOutlivesInput)
    <2> SUFFICES ASSUME TxInv, worker = "done", handler, ~May("splitBanner")
                 PROVE  reactor \in {"closing", "stuck", "crashed"}
      BY DEF UserOutlivesInput, TxWholeInv, NoCuts
    <2>1. HandlerGone /\ ~available  BY DEF TxInv, ThreadInv, DoneIsOver
    <2> QED  BY <2>1 DEF HandlerGone
  <1> QED  BY <1>1, TxInductive, PTL

(* The acquire of the reactor thread, at the end of the stream and in      *)
(* endEmailTransaction, finds a unit once the Client's thread has started: *)
(* the reactor thread, which the worker waits for, waits for nobody (with  *)
(* no line cut).                                                           *)
THEOREM AcquireIsFree == TxSpec => [](~May("midLine") => AcquireNeverWaits)
PROOF
  <1>1. TxWholeInv => (~May("midLine") => AcquireNeverWaits)
    <2> SUFFICES ASSUME TxInv, reactor \in {"closing", "ending"}, thread \notin {"none", "svc"}
                 PROVE  sem > 0
      BY DEF AcquireNeverWaits, TxWholeInv, NoCuts
    <2>1. Units /\ ~Finished
      BY DEF TxInv, ThreadInv, Lively, Finished
    <2>2. One(thread \notin {"none", "svc"}) = 1 /\ One(Finished) = 0
          /\ One(worker \notin {"reset", "spin", "done"}) \in {0, 1}
      BY <2>1 DEF One
    <2> HIDE DEF One, Finished
    <2> QED  BY <2>1, <2>2 DEF Units
  <1> QED  BY <1>1, TxInductive, PTL

=============================================================================
