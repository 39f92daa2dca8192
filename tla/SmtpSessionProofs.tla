------------------------- MODULE SmtpSessionProofs -------------------------
(***************************************************************************)
(* Theorems about SmtpSession, for every number of recipients, every       *)
(* length of a message and all sets of faults.                             *)
(*                                                                         *)
(* The invariant OpenInv follows the session as long as the connection is  *)
(* open and the client can go on.  Up to the reply to MAIL FROM the two    *)
(* sides are in lockstep: one command or its reply is under way, so that   *)
(* the reply the state machine looks at answers its last command.  From    *)
(* the recipients on commands are pipelined; then the order of what is     *)
(* under way to the server says how the server will take it.               *)
(*                                                                         *)
(* PoliteInv is about sessions whose server keeps to the protocol: before  *)
(* TLS they have but one course, and after it nothing ends TLS.            *)
(* PatientInv counts, where the server rejects no recipient, what may make *)
(* the client write once more, so that it never writes after a reset.      *)
(* TransferInv is what the session needs besides to implement MailTransfer *)
(* also when the connection is gone and the client reads on.               *)
(***************************************************************************)
EXTENDS SmtpSession, TLAPS, SequenceTheorems

Ended == server \in Gone
USE DEF Gone
Banner220 == R(220, "banner")
TlsReady == R(220, "2.0.0")
Size == R(250, "SIZE")
CanStartTls == R(250, "STARTTLS")

(* What is under way: nothing, one command, or one reply.                  *)
Quiet == toServer = <<>> /\ toClient = <<>>
Asked(c) == toServer = <<c>> /\ toClient = <<>>
Told(r) == toServer = <<>> /\ toClient = <<r>>

InGreeting ==
    /\ toServer = <<>>
    /\ \/ server \in {"none", "greet"} /\ toClient = <<>>
       \/ server = "ready" /\ \A i \in 1..Len(toClient) : toClient[i] = Banner220
InHelo ==
    \/ /\ toServer = <<"EHLO">> /\ server = "ready"
       /\ \A i \in 1..Len(toClient) : toClient[i] = Banner220
    \/ /\ toServer = <<>> /\ server = "helo"
       /\ \A i \in 1..Len(toClient) :
             \/ toClient[i] \in {Banner220, Size}
             \/ toClient[i] = CanStartTls /\ i = Len(toClient)
InMail ==
    /\ stage = "AUTH_INIT" =>
            \/ Quiet \/ Asked("STARTTLS") \/ Asked("RSET")
            \/ Told(R(454, "error")) \/ Told(R(250, "2.0.0"))
            \/ Told(TlsReady)
    /\ stage = "AUTH_USRNAME" =>
            \/ Quiet
            \/ Asked("AUTH LOGIN")
            \/ Told(R(530, "error"))
            \/ Told(R(334, "Username:")) /\ server = "user"
    /\ stage = "AUTH_PASSWORD" =>
            \/ Quiet
            \/ Asked("username") /\ server = "user"
            \/ Told(R(334, "Password:")) /\ server = "pass"
    /\ stage = "AUTH_SUCCESS" =>
            \/ Quiet
            \/ Asked("password") /\ server = "pass"
            \/ Told(R(235, "2.7.0"))
            \/ Told(R(535, "error"))
            \/ Told(R(454, "error"))
InRcpt == Quiet \/ Asked("MAIL FROM") \/ Told(R(250, "2.1.0")) \/ Told(R(530, "error"))

Lockstep ==
    /\ server \in {"none", "greet"} => state = "GREETING"
    /\ state = "GREETING" => InGreeting
    /\ state = "HELO" => InHelo
    /\ state = "MAIL" => InMail
    /\ state = "RCPT" => InRcpt

(* What the client writes arrives.                                         *)
Reachable ==
    /\ reactor # "closing"
    /\ state \in {"GREETING", "HELO"} => ssl # "up"
    /\ state \notin {"GREETING", "HELO"} => reactor = "idle" /\ client /\ available
    /\ reactor = "idle" /\ client /\ server # "none" => available

(* The pipelined commands: those of the states so far, each kind after     *)
(* what has to precede it.  The position of a RCPT TO says how many the    *)
(* server can still accept.                                                *)
Late == {"DATA", "BODY", "QUIT"}
Sent == {toServer[i] : i \in 1..Len(toServer)}
Follows(before, after) ==
    before = "RCPT TO" \/ (before = "DATA" /\ after \notin {"RCPT TO", "DATA"})
        \/ after \notin {"RCPT TO", "DATA", "message"}
Ordered ==
    /\ \A i, j \in 1..Len(toServer) : i < j => Follows(toServer[i], toServer[j])
    /\ \A i \in 1..Len(toServer) : toServer[i] = "RCPT TO" => i + rcpts <= NRcpt
Pipeline ==
    /\ state = "DATA" => Sent \subseteq {"RCPT TO"}
    /\ state = "BODY" => Sent \subseteq {"RCPT TO", "DATA"}
    /\ state = "QUIT" => Sent \subseteq {"RCPT TO", "DATA", "message", "QUIT"}
    /\ state \in Late => \A i \in 1..Len(toClient) : toClient[i].code # 220
    /\ state \notin Late => rcpts = 0
    /\ state \notin {"BODY", "QUIT"} => server # "data"
    /\ state \in Late => Ordered

(* Where the message will find the server: in data mode, because it is or  *)
(* a DATA is ahead, or with no recipient and none to come.                 *)
NoRecipient == rcpts = 0 /\ "RCPT TO" \notin Sent
DataMode ==
    /\ server = "data" => Sent \subseteq {"message", "QUIT"}
    /\ state = "BODY" => server = "data" \/ "DATA" \in Sent \/ NoRecipient
    /\ \A i \in 1..Len(toServer) : toServer[i] = "message" =>
          \/ server = "data"
          \/ \E j \in 1..Len(toServer) : j < i /\ toServer[j] = "DATA"
          \/ NoRecipient
    /\ misread => state = "QUIT" /\ NoRecipient

OpenInv == Alive /\ ~Ended => Lockstep /\ Reachable /\ Pipeline /\ DataMode

(* When it is over nothing happens any more that could break a promise.    *)
OverInv == ~(Alive /\ ~Ended) =>
              SecretsAnswerChallenges /\ NeverMisread /\ server # "none"

SInv == TypeOK /\ OpenInv /\ OverInv

-----------------------------------------------------------------------------
(* Sessions whose lines all arrive whole.                                  *)

NoCuts == ~May("midLine")
Whole == \A i \in 1..Len(toClient) : toClient[i].text \notin Fragment

(* What a read then is: it takes k replies and answers one of them.        *)
Chunk(k) == {toClient[i] : i \in 1..k}
Reads(k) ==
    /\ reactor = "idle" /\ handler /\ k \in 1..Len(toClient)
    /\ toClient' = SubSeq(toClient, k + 1, Len(toClient))
    /\ IF tlsUp /\ ssl # "up"
       THEN /\ reactor' = "crashed"
            /\ UNCHANGED <<fsmVars, tlsVars, available, toServer, server, secure>>
       ELSE \E rep \in Chunk(k) : Respond(rep, onRx(rep, Chunk(k)))
    /\ UNCHANGED <<handler, client, rcpts, loggedIn, accepted, misread, faults>>
WholeStep ==
    Start \/ (\E k \in 1..Len(toClient) : Reads(k)) \/ ReadEof \/ Stop \/ ReleaseClient
WholeNext == WholeStep \/ Server \/ IdleTimeout \/ Drop

LEMMA ReadsWhole ==
    ASSUME TypeOK, NoCuts, Whole, NEW k, Read(k)
    PROVE  Reads(k)
PROOF
  <1> DEFINE s == SubSeq(toClient, 1, k)
  <1>1. k \in 1..Len(toClient) /\ toClient \in Seq(Reply)  BY DEF Read, TypeOK
  <1>2. Chunks(k) = {<<s, SubSeq(toClient, k + 1, Len(toClient))>>}
    BY DEF Chunks, NoCuts
  <1>3. Len(s) = k /\ \A i \in 1..k : s[i] = toClient[i] /\ s[i].text \notin Fragment
    <2>1. /\ 1 \in Int /\ k \in Int /\ \A i \in 1..k : toClient[i] \in Reply
      BY <1>1
    <2>2. Len(s) = k /\ \A i \in 1..k : s[i] = toClient[1 + i - 1]
      BY <1>1, <2>1, SubSeqProperties
    <2>3. \A i \in 1..k : 1 + i - 1 = i /\ i \in 1..Len(toClient)  BY <1>1
    <2> QED  BY <2>2, <2>3 DEF Whole
  <1> HIDE DEF s
  <1>4. ~Throws(s) /\ ~MayThrow(s)
    <2>1. "throws" \in Fragment /\ "glued" \in Fragment  BY DEF Fragment
    <2>2. 1 \in 1..k  BY <1>1
    <2> QED  BY <1>3, <2>1, <2>2 DEF Throws, MayThrow
  <1>5. Replies(s) = Chunk(k)
    <2>1. {n \in 1..Len(s) : s[n].text \notin Fragment} = 1..k  BY <1>3
    <2>2. \A i \in 1..k : ~(i > 1 /\ s[i - 1].text = "glued")
      <3>1. \A i \in 1..k : i > 1 => i - 1 \in 1..k  BY <1>1
      <3>2. "glued" \in Fragment  BY DEF Fragment
      <3> QED  BY <1>3, <3>1, <3>2
    <2>3. Replies(s) = {IF i > 1 /\ s[i - 1].text = "glued" THEN R(0, s[i].text) ELSE s[i] :
                           i \in 1..k}
      BY <2>1 DEF Replies
    <2>4. Replies(s) = {s[i] : i \in 1..k}  BY <2>2, <2>3
    <2> QED  BY <1>3, <2>4 DEF Chunk
  <1>6. Chunk(k) # {}
    <2>1. toClient[1] \in Chunk(k)  BY <1>1 DEF Chunk
    <2> QED  BY <2>1
  <1>7. rx(s) => \E rep \in Chunk(k) : Respond(rep, onRx(rep, Chunk(k)))
    BY <1>4, <1>5, <1>6 DEF rx
  <1>8. /\ toClient' = SubSeq(toClient, k + 1, Len(toClient))
        /\ IF tlsUp /\ ssl # "up"
           THEN /\ reactor' = "crashed"
                /\ UNCHANGED <<fsmVars, tlsVars, available, toServer, server, secure>>
           ELSE rx(s)
    <2>1. PICK chunk \in Chunks(k) :
            /\ toClient' = chunk[2]
            /\ IF tlsUp /\ ssl # "up"
               THEN /\ reactor' = "crashed"
                    /\ UNCHANGED <<fsmVars, tlsVars, available, toServer, server, secure>>
               ELSE rx(chunk[1])
      BY Zenon DEF Read
    <2>2. chunk[1] = s /\ chunk[2] = SubSeq(toClient, k + 1, Len(toClient))
      BY <1>2, <2>1
    <2> QED  BY <2>1, <2>2
  <1>9. reactor = "idle" /\ handler
        /\ UNCHANGED <<handler, client, rcpts, loggedIn, accepted, misread, faults>>
    BY Zenon DEF Read
  <1> QED  BY <1>1, <1>7, <1>8, <1>9 DEF Reads

LEMMA NextWhole == TypeOK /\ NoCuts /\ Whole /\ [Next]_vars => [WholeNext]_vars
PROOF BY ReadsWhole, Zenon DEF Next, ClientStep, WholeNext, WholeStep

-----------------------------------------------------------------------------
(* Facts about the queues and about what may be at their head.             *)

LEMMA OneReply ==
    ASSUME NEW r
    PROVE  /\ Len(<<r>>) = 1 /\ <<r>>[1] = r /\ <<>> \o <<r>> = <<r>>
           /\ r \in Reply => <<r>> \in Seq(Reply)
PROOF OBVIOUS

LateCommand == {"RCPT TO", "DATA", "message", "QUIT"}

LEMMA Vocabulary ==
    ASSUME Pipeline, state \in Late
    PROVE  Sent \subseteq LateCommand
PROOF
  <1>1. \/ Sent \subseteq {"RCPT TO"}
        \/ Sent \subseteq {"RCPT TO", "DATA"}
        \/ Sent \subseteq {"RCPT TO", "DATA", "message", "QUIT"}
    BY Zenon DEF Pipeline, Late
  <1> QED  BY <1>1 DEF LateCommand

(* As long as the session is open it keeps its promises.                   *)
LEMMA OpenSuffices ==
    ASSUME TypeOK, OpenInv, Alive, ~Ended
    PROVE  SecretsAnswerChallenges /\ NeverMisread
PROOF
  <1> USE DEF OpenInv
  <1>1. ASSUME NEW c \in {"username", "password"}, Queued(c)
        PROVE  server = IF c = "username" THEN "user" ELSE "pass"
    <2>1. c \in Sent /\ toServer # <<>>  BY <1>1 DEF Queued, Sent
    <2>2. \A d : Asked(d) /\ c # d => FALSE  BY <1>1 DEF Queued, Asked
    <2>3. state \notin Late  BY <2>1, Vocabulary DEF LateCommand
    <2>4. state # "GREETING" /\ state # "HELO"
      BY <1>1, <2>1 DEF Lockstep, InGreeting, InHelo, Queued
    <2>5. state # "RCPT"  BY <2>1, <2>2 DEF Lockstep, InRcpt, Quiet, Told
    <2>6. state = "MAIL"  BY <2>3, <2>4, <2>5 DEF TypeOK, States, Late
    <2> QED  BY <2>1, <2>2, <2>6 DEF Lockstep, InMail, Quiet, Told, TypeOK, AuthSteps
  <1>2. SecretsAnswerChallenges  BY <1>1 DEF SecretsAnswerChallenges
  <1>3. NeverMisread  BY DEF NeverMisread, DataMode, NoRecipient
  <1> QED  BY <1>2, <1>3

(* The server takes the command at the head.                               *)
LEMMA TakeIs ==
    ASSUME TypeOK, NEW c, Take(c)
    PROVE  /\ Alive /\ ~Ended /\ server \notin {"none", "handshake"}
           /\ Len(toServer) \in Nat \ {0} /\ toServer[1] = c /\ c \in Command /\ c \in Sent
           /\ toServer' \in Seq(Command) /\ Len(toServer') = Len(toServer) - 1
           /\ \A i \in 1..Len(toServer') : toServer'[i] = toServer[i + 1]
           /\ \A d : toServer = <<d>> => c = d /\ toServer' = <<>>
           /\ Sent' \subseteq Sent
PROOF
  <1>1. toServer \in Seq(Command) /\ toServer # <<>> /\ toServer[1] = c
    BY DEF Take, TypeOK
  <1>2. Len(toServer) \in Nat \ {0} /\ c \in Command  BY <1>1
  <1>3. /\ toServer' \in Seq(Command) /\ Len(toServer') = Len(toServer) - 1
        /\ \A i \in 1..Len(toServer') : toServer'[i] = toServer[i + 1]
    BY <1>1, HeadTailProperties DEF Take
  <1>4. ASSUME NEW d, toServer = <<d>> PROVE c = d /\ toServer' = <<>>
    BY <1>4 DEF Take
  <1>5. Sent' \subseteq Sent
    <2>1. \A i \in 1..Len(toServer') : i + 1 \in 1..Len(toServer)  BY <1>2, <1>3
    <2> QED  BY <1>3, <2>1 DEF Sent
  <1>6. c \in Sent  BY <1>1, <1>2 DEF Sent
  <1> QED  BY <1>2, <1>3, <1>4, <1>5, <1>6 DEF Take, Ended, ServerOpen

(* Which state the client is in tells what it may have asked.              *)
LEMMA WhoAsks ==
    ASSUME TypeOK, OpenInv, NEW c, Take(c)
    PROVE  /\ c \in LateCommand => state \in Late
           /\ c \notin LateCommand => state \notin Late /\ toServer = <<c>> /\ toServer' = <<>>
           /\ c \notin LateCommand \cup {"EHLO"} => toClient = <<>>
           /\ c = "EHLO" => /\ state = "HELO" /\ server = "ready"
                            /\ \A i \in 1..Len(toClient) : toClient[i] = Banner220
           /\ c \in {"STARTTLS", "RSET"} => state = "MAIL" /\ stage = "AUTH_INIT"
           /\ c = "AUTH LOGIN" => state = "MAIL" /\ stage = "AUTH_USRNAME"
           /\ c = "username" => state = "MAIL" /\ stage = "AUTH_PASSWORD"
           /\ c = "password" => state = "MAIL" /\ stage = "AUTH_SUCCESS"
           /\ c = "MAIL FROM" => state = "RCPT"
PROOF
  <1>0. /\ Lockstep /\ Pipeline /\ toServer # <<>> /\ c \in Sent /\ toServer[1] = c
        /\ server # "none" /\ Len(toServer) \in Nat \ {0}
        /\ \A d : toServer = <<d>> => c = d /\ toServer' = <<>>
    BY TakeIs DEF OpenInv, Take
  <1>1. CASE state \in Late
    BY <1>0, <1>1, Vocabulary DEF Late, LateCommand
  <1>2. CASE state = "GREETING"
    BY <1>0, <1>2 DEF Lockstep, InGreeting
  <1>3. CASE state = "HELO"
    <2>1. toServer = <<"EHLO">> /\ server = "ready"
          /\ \A i \in 1..Len(toClient) : toClient[i] = Banner220
      BY <1>0, <1>3 DEF Lockstep, InHelo
    <2> QED  BY <1>0, <1>3, <2>1 DEF LateCommand, Late
  <1>4. CASE state = "MAIL"
    <2>1. \E d : Asked(d)
      BY <1>0, <1>4 DEF Lockstep, InMail, Quiet, Told, TypeOK, AuthSteps
    <2>2. toServer = <<c>> /\ toServer' = <<>> /\ toClient = <<>>
      BY <1>0, <2>1 DEF Asked
    <2>3. \A d : Asked(d) => d = c  BY <1>0 DEF Asked
    <2>4. \/ stage = "AUTH_INIT" /\ c \in {"STARTTLS", "RSET"}
          \/ stage = "AUTH_USRNAME" /\ c = "AUTH LOGIN"
          \/ stage = "AUTH_PASSWORD" /\ c = "username"
          \/ stage = "AUTH_SUCCESS" /\ c = "password"
      BY <1>0, <1>4, <2>3 DEF Lockstep, InMail, Quiet, Told, TypeOK, AuthSteps
    <2> QED  BY <1>4, <2>2, <2>4 DEF LateCommand, Late
  <1>5. CASE state = "RCPT"
    <2>1. Asked("MAIL FROM")  BY <1>0, <1>5 DEF Lockstep, InRcpt, Quiet, Told
    <2>2. c = "MAIL FROM" /\ toServer = <<c>> /\ toServer' = <<>> /\ toClient = <<>>
      BY <1>0, <2>1 DEF Asked
    <2> QED  BY <1>5, <2>2 DEF LateCommand, Late
  <1> QED  BY <1>1, <1>2, <1>3, <1>4, <1>5 DEF TypeOK, States, Late

LEMMA SafeNow ==
    ASSUME SInv
    PROVE  SecretsAnswerChallenges /\ NeverMisread
PROOF BY OpenSuffices DEF SInv, OverInv

LEMMA OverKept ==
    ASSUME SInv, misread' = misread, rcpts' = rcpts,
           Ended' \/ (toServer' = toServer /\ server' = server /\ server # "none")
    PROVE  OverInv'
PROOF
  <1>1. NeverMisread'  BY SafeNow DEF NeverMisread
  <1>2. SecretsAnswerChallenges'
    BY SafeNow DEF SecretsAnswerChallenges, Queued, ServerOpen, Ended
  <1> QED  BY <1>1, <1>2 DEF OverInv, Ended

-----------------------------------------------------------------------------
(* The server answers.                                                     *)

(* A command of the time before the pipeline: only the lockstep is new.    *)
LEMMA EarlyAnswer ==
    ASSUME SInv, NEW c, Take(c), c \notin LateCommand,
           UNCHANGED <<fsmVars, tlsVars, clientVars, rcpts, misread>>,
           server' \notin {"none", "greet", "data", "closed", "reset", "dropped"},
           Lockstep'
    PROVE  OpenInv' /\ OverInv'
PROOF
  <1>1. /\ Alive /\ ~Ended /\ Lockstep /\ Reachable /\ Pipeline /\ DataMode
        /\ server # "none" /\ state \notin Late /\ toServer' = <<>>
    BY TakeIs, WhoAsks DEF SInv, OpenInv
  <1>2. Alive' /\ ~Ended'  BY <1>1 DEF Alive, Ended, clientVars
  <1>3. Len(toServer') = 0  BY <1>1
  <1>4. Reachable'  BY <1>1 DEF Reachable, clientVars, fsmVars, tlsVars
  <1>5. Pipeline'
    <2>1. rcpts = 0 /\ state' \notin Late  BY <1>1 DEF Pipeline, fsmVars
    <2> QED  BY <2>1 DEF Pipeline, Late
  <1>6. DataMode'
    <2>1. ~misread /\ state' \notin {"BODY", "QUIT"}
      BY <1>1 DEF DataMode, Late, fsmVars
    <2> QED  BY <1>3, <2>1 DEF DataMode
  <1> QED  BY <1>2, <1>4, <1>5, <1>6 DEF OpenInv, OverInv

LEMMA BannerKept == SInv /\ Banner => SInv'
PROOF
  <1> SUFFICES ASSUME SInv, Banner PROVE SInv'  OBVIOUS
  <1>1. /\ Alive /\ ~Ended /\ server = "greet" /\ server' = "ready"
        /\ Lockstep /\ Reachable /\ Pipeline /\ DataMode
    BY DEF SInv, OpenInv, Banner, Ended
  <1>2. state = "GREETING" /\ toServer = <<>> /\ toClient = <<>>
    BY <1>1 DEF Lockstep, InGreeting
  <1>3. /\ toClient' \in Seq(Reply)
        /\ \A i \in 1..Len(toClient') : toClient'[i] = Banner220
    <2>1. Banner220 \in Reply  BY DEF Banner220, R, Reply
    <2>2. toClient' = <<Banner220>> \/ toClient' = <<Banner220, Banner220>>
      BY <1>2 DEF Banner, Say, Banner220
    <2> HIDE DEF Banner220
    <2>3. CASE toClient' = <<Banner220>>
      <3>1. Len(toClient') = 1 /\ toClient'[1] = Banner220  BY <2>3
      <3>2. <<Banner220>> \in Seq(Reply)  BY <2>1
      <3> QED  BY <2>3, <3>1, <3>2
    <2>4. CASE toClient' = <<Banner220, Banner220>>
      <3>1. Len(toClient') = 2 /\ toClient'[1] = Banner220 /\ toClient'[2] = Banner220
        BY <2>4
      <3>2. <<Banner220, Banner220>> \in Seq(Reply)  BY <2>1
      <3> QED  BY <2>4, <3>1, <3>2
    <2> QED  BY <2>2, <2>3, <2>4
  <1>4. UNCHANGED <<fsmVars, tlsVars, clientVars, toServer, rcpts, misread>>
    BY DEF Banner
  <1>5. Lockstep'  BY <1>1, <1>2, <1>3, <1>4 DEF Lockstep, InGreeting, fsmVars
  <1>6. Reachable'  BY <1>1, <1>4 DEF Reachable, fsmVars, tlsVars, clientVars
  <1>7. Pipeline'  BY <1>1, <1>2, <1>4 DEF Pipeline, Late, fsmVars
  <1>8. DataMode'
    BY <1>1, <1>2, <1>4 DEF DataMode, NoRecipient, Sent, fsmVars
  <1>9. Alive' /\ ~Ended'  BY <1>1, <1>4 DEF Alive, Ended, clientVars
  <1>10. TypeOK'  BY <1>1, <1>3 DEF SInv, TypeOK, Banner, fsmVars, tlsVars, clientVars
  <1> QED  BY <1>5, <1>6, <1>7, <1>8, <1>9, <1>10 DEF SInv, OpenInv, OverInv

LEMMA EhloKept == SInv /\ Ehlo => SInv'
PROOF
  <1> SUFFICES ASSUME SInv, Ehlo PROVE SInv'  OBVIOUS
  <1>0. TypeOK /\ OpenInv /\ Take("EHLO")  BY DEF SInv, Ehlo
  <1>a. "EHLO" \notin LateCommand  BY DEF LateCommand
  <1>b. toServer' = <<>>  BY <1>0, <1>a, WhoAsks
  <1>c. /\ state = "HELO" /\ server = "ready"
        /\ \A i \in 1..Len(toClient) : toClient[i] = Banner220
    BY <1>0, WhoAsks
  <1>1. /\ state = "HELO" /\ toServer' = <<>> /\ server' = "helo" /\ server = "ready"
        /\ \A i \in 1..Len(toClient) : toClient[i] = Banner220
    BY <1>b, <1>c DEF Ehlo
  <1>2. UNCHANGED <<fsmVars, tlsVars, clientVars, rcpts, misread>>  BY DEF Ehlo
  <1>3. Size \in Reply /\ CanStartTls \in Reply  BY DEF Size, CanStartTls, R, Reply
  <1>4. toClient \in Seq(Reply)  BY <1>0 DEF TypeOK
  <1>5. \/ toClient' = toClient \o <<Size, CanStartTls>>
        \/ toClient' = toClient \o <<Size>>
    BY DEF Ehlo, Say, Size, CanStartTls
  <1>6. /\ toClient' \in Seq(Reply)
        /\ \A i \in 1..Len(toClient') :
             \/ toClient'[i] \in {Banner220, Size}
             \/ toClient'[i] = CanStartTls /\ i = Len(toClient')
    <2> HIDE DEF Size, CanStartTls, Banner220
    <2>1. CASE toClient' = toClient \o <<Size, CanStartTls>>
      <3>1. <<Size, CanStartTls>> \in Seq(Reply)  BY <1>3
      <3>2. /\ toClient' \in Seq(Reply) /\ Len(toClient') = Len(toClient) + 2
            /\ \A i \in 1..Len(toClient) + 2 : toClient'[i] =
                  IF i <= Len(toClient) THEN toClient[i]
                  ELSE <<Size, CanStartTls>>[i - Len(toClient)]
        BY <1>4, <2>1, <3>1, ConcatProperties
      <3> QED  BY <1>1, <1>4, <3>2
    <2>2. CASE toClient' = toClient \o <<Size>>
      <3>1. <<Size>> \in Seq(Reply)  BY <1>3
      <3>2. /\ toClient' \in Seq(Reply) /\ Len(toClient') = Len(toClient) + 1
            /\ \A i \in 1..Len(toClient) + 1 : toClient'[i] =
                  IF i <= Len(toClient) THEN toClient[i] ELSE <<Size>>[i - Len(toClient)]
        BY <1>4, <2>2, <3>1, ConcatProperties
      <3> QED  BY <1>1, <1>4, <3>2
    <2> QED  BY <1>5, <2>1, <2>2
  <1>7. Lockstep'  BY <1>1, <1>2, <1>6 DEF Lockstep, InHelo, fsmVars
  <1>8. OpenInv' /\ OverInv'  BY <1>0, <1>1, <1>2, <1>7, EarlyAnswer DEF LateCommand
  <1>9. TypeOK'
    BY <1>0, <1>1, <1>6, TakeIs DEF TypeOK, Ehlo, fsmVars, tlsVars, clientVars
  <1> QED  BY <1>8, <1>9 DEF SInv

(* The commands that are answered with one reply in MAIL and RCPT.         *)
LEMMA ToldKept ==
    ASSUME SInv, NEW c, Take(c), c \notin LateCommand \cup {"EHLO"}, NEW r \in Reply,
           Say(<<r>>),
           UNCHANGED <<fsmVars, tlsVars, clientVars, secure, rcpts, accepted, misread, faults>>,
           server' \in {"helo", "handshake", "user", "pass", "authed", "mail", "ready"},
           loggedIn' \in BOOLEAN,
           Told(r)' => /\ state = "MAIL" => InMail'
                       /\ state = "RCPT" => InRcpt'
    PROVE  SInv'
PROOF
  <1>0. TypeOK /\ OpenInv  BY DEF SInv
  <1>1. /\ state \in {"MAIL", "RCPT"} /\ toServer' = <<>> /\ toClient' = <<r>>
    BY <1>0, WhoAsks, TakeIs, OneReply DEF Say, LateCommand, Command
  <1>2. Told(r)'  BY <1>1 DEF Told
  <1>3. Lockstep'  BY <1>1, <1>2 DEF Lockstep, fsmVars
  <1>4. OpenInv' /\ OverInv'  BY <1>3, EarlyAnswer
  <1>5. TypeOK'
    BY <1>0, <1>1, OneReply DEF TypeOK, fsmVars, tlsVars, clientVars
  <1> QED  BY <1>4, <1>5 DEF SInv

LEMMA EarlyServer ==
    ASSUME SInv, NEW c, Take(c), c \notin LateCommand \cup {"EHLO"}
    PROVE  /\ server \in {"ready", "helo", "user", "pass", "authed", "mail"}
           /\ loggedIn \in BOOLEAN
PROOF
  <1>1. TypeOK /\ OpenInv  BY DEF SInv
  <1>2. Lockstep /\ Pipeline /\ server \notin {"none", "handshake", "closed", "reset", "dropped"}
    BY <1>1, TakeIs DEF OpenInv, Ended
  <1>3. state \in {"MAIL", "RCPT"}  BY <1>1, TakeIs, WhoAsks DEF LateCommand, Command
  <1>4. server # "greet"  BY <1>2, <1>3 DEF Lockstep
  <1>5. server # "data"  BY <1>2, <1>3 DEF Pipeline
  <1> QED  BY <1>1, <1>2, <1>4, <1>5 DEF TypeOK

LEMMA EarlyAnswersKept ==
    SInv /\ (StartTls \/ AuthLogin \/ Username \/ Password \/ Rset \/ MailFrom) => SInv'
PROOF
  <1> SUFFICES ASSUME SInv PROVE
        StartTls \/ AuthLogin \/ Username \/ Password \/ Rset \/ MailFrom => SInv'
    OBVIOUS
  <1>0. TypeOK /\ OpenInv  BY DEF SInv
  <1> USE DEF LateCommand
  <1>1. ASSUME StartTls PROVE SInv'
    <2>1. state = "MAIL" /\ stage = "AUTH_INIT"  BY <1>0, <1>1, WhoAsks DEF StartTls
    <2>2. server \in {"ready", "helo", "user", "pass", "authed", "mail"} /\ loggedIn \in BOOLEAN
      BY <1>1, EarlyServer DEF StartTls
    <2>3. PICK r \in {TlsReady, R(454, "error")} :
             Say(<<r>>) /\ server' \in {"handshake", server}
      BY <1>1 DEF StartTls, TlsReady
    <2>4. r \in Reply  BY <2>3 DEF TlsReady, R, Reply
    <2>5. Told(r)' => InMail'
      BY <1>1, <2>1, <2>3 DEF InMail, StartTls, fsmVars
    <2>6. server' \in {"helo", "handshake", "user", "pass", "authed", "mail", "ready"}
      BY <2>2, <2>3
    <2>7. loggedIn' \in BOOLEAN /\ Say(<<r>>)  BY <2>2, <2>3, <1>1 DEF StartTls
    <2> QED  BY <1>1, <2>1, <2>4, <2>5, <2>6, <2>7, ToldKept DEF StartTls
  <1>2. ASSUME AuthLogin PROVE SInv'
    <2>1. state = "MAIL" /\ stage = "AUTH_USRNAME"  BY <1>0, <1>2, WhoAsks DEF AuthLogin
    <2>2. server \in {"ready", "helo", "user", "pass", "authed", "mail"} /\ loggedIn \in BOOLEAN
      BY <1>2, EarlyServer DEF AuthLogin
    <2>3. PICK r \in {R(334, "Username:"), R(530, "error")} :
             /\ Say(<<r>>) /\ server' \in {"user", server}
             /\ r = R(334, "Username:") => server' = "user"
      BY <1>2, ZenonT(60) DEF AuthLogin, R
    <2>4. r \in Reply  BY <2>3 DEF R, Reply
    <2>5. Told(r)' => InMail'
      BY <1>2, <2>1, <2>3, ZenonT(60) DEF InMail, AuthLogin, fsmVars
    <2>6. server' \in {"helo", "handshake", "user", "pass", "authed", "mail", "ready"}
      BY <2>2, <2>3
    <2>7. loggedIn' \in BOOLEAN /\ Say(<<r>>)  BY <2>2, <2>3, <1>2 DEF AuthLogin
    <2> QED  BY <1>2, <2>1, <2>4, <2>5, <2>6, <2>7, ToldKept, ZenonT(60) DEF AuthLogin
  <1>3. ASSUME Username PROVE SInv'
    <2>1. state = "MAIL" /\ stage = "AUTH_PASSWORD"  BY <1>0, <1>3, WhoAsks DEF Username
    <2>2. loggedIn \in BOOLEAN  BY <1>0 DEF TypeOK
    <2> DEFINE r == R(334, "Password:")
    <2>4. r \in Reply  BY DEF R, Reply
    <2>5. Told(r)' => InMail'  BY <1>3, <2>1 DEF InMail, Username, fsmVars
    <2> QED  BY <1>3, <2>1, <2>2, <2>4, <2>5, ToldKept DEF Username
  <1>4. ASSUME Password PROVE SInv'
    <2>1. state = "MAIL" /\ stage = "AUTH_SUCCESS"  BY <1>0, <1>4, WhoAsks DEF Password
    <2>2. loggedIn' \in BOOLEAN  BY <1>0, <1>4 DEF Password, TypeOK
    <2>3. PICK r \in {R(235, "2.7.0"), R(535, "error"), R(454, "error")} :
             Say(<<r>>) /\ server' \in {"authed", "helo"}
      BY <1>4 DEF Password
    <2>4. r \in Reply  BY <2>3 DEF R, Reply
    <2>5. Told(r)' => InMail'  BY <1>4, <2>1, <2>3 DEF InMail, Password, fsmVars
    <2> QED  BY <1>4, <2>1, <2>2, <2>3, <2>4, <2>5, ToldKept, ZenonT(60) DEF Password
  <1>5. ASSUME Rset PROVE SInv'
    <2>1. state = "MAIL" /\ stage = "AUTH_INIT"  BY <1>0, <1>5, WhoAsks DEF Rset
    <2>2. server \in {"ready", "helo", "user", "pass", "authed", "mail"} /\ loggedIn \in BOOLEAN
      BY <1>5, EarlyServer DEF Rset
    <2> DEFINE r == R(250, "2.0.0")
    <2>4. r \in Reply  BY DEF R, Reply
    <2>5. Told(r)' => InMail'  BY <1>5, <2>1 DEF InMail, Rset, fsmVars
    <2> QED  BY <1>5, <2>1, <2>2, <2>4, <2>5, ToldKept, ZenonT(60) DEF Rset, serverVars
  <1>6. ASSUME MailFrom PROVE SInv'
    <2>1. state = "RCPT"  BY <1>0, <1>6, WhoAsks DEF MailFrom
    <2>2. server \in {"ready", "helo", "user", "pass", "authed", "mail"} /\ loggedIn \in BOOLEAN
      BY <1>6, EarlyServer DEF MailFrom
    <2>3. PICK r \in {R(250, "2.1.0"), R(530, "error")} :
             Say(<<r>>) /\ server' \in {"mail", server}
      BY <1>6, ZenonT(60) DEF MailFrom
    <2>4. r \in Reply  BY <2>3 DEF R, Reply
    <2>5. Told(r)' => InRcpt'  BY <2>3 DEF InRcpt
    <2>6. server' \in {"helo", "handshake", "user", "pass", "authed", "mail", "ready"}
      BY <2>2, <2>3
    <2>7. loggedIn' \in BOOLEAN /\ Say(<<r>>)  BY <2>2, <2>3, <1>6 DEF MailFrom
    <2> QED  BY <1>6, <2>1, <2>4, <2>5, <2>6, <2>7, ToldKept, ZenonT(60) DEF MailFrom
  <1> QED  BY <1>1, <1>2, <1>3, <1>4, <1>5, <1>6

-----------------------------------------------------------------------------
(* The server answers pipelined commands.                                  *)

LEMMA RepliesAdded ==
    ASSUME toClient \in Seq(Reply), \A i \in 1..Len(toClient) : toClient[i].code # 220,
           NEW replies \in Seq(Reply), \A i \in 1..Len(replies) : replies[i].code # 220,
           toClient' = toClient \o replies
    PROVE  /\ toClient' \in Seq(Reply)
           /\ \A i \in 1..Len(toClient') : toClient'[i].code # 220
PROOF
  <1>1. /\ toClient' \in Seq(Reply) /\ Len(toClient') = Len(toClient) + Len(replies)
        /\ \A i \in 1..Len(toClient) + Len(replies) : toClient'[i] =
              IF i <= Len(toClient) THEN toClient[i] ELSE replies[i - Len(toClient)]
    BY ConcatProperties
  <1>2. Len(toClient) \in Nat /\ Len(replies) \in Nat  OBVIOUS
  <1>3. ASSUME NEW i \in 1..Len(toClient') PROVE toClient'[i].code # 220
    <2>1. CASE i <= Len(toClient)  BY <1>1, <1>2, <2>1
    <2>2. CASE ~(i <= Len(toClient))
      <3>1. i - Len(toClient) \in 1..Len(replies)  BY <1>1, <1>2, <2>2
      <3> QED  BY <1>1, <1>2, <2>2, <3>1
    <2> QED  BY <2>1, <2>2
  <1> QED  BY <1>1, <1>3

LEMMA OneReplyAdded ==
    ASSUME SInv, state \in Late, Alive, ~Ended, NEW r \in Reply, r.code # 220, Say(<<r>>)
    PROVE  /\ toClient' \in Seq(Reply)
           /\ \A i \in 1..Len(toClient') : toClient'[i].code # 220
PROOF
  <1>1. toClient \in Seq(Reply) /\ \A i \in 1..Len(toClient) : toClient[i].code # 220
    BY DEF SInv, TypeOK, OpenInv, Pipeline
  <1>2. <<r>> \in Seq(Reply) /\ \A i \in 1..Len(<<r>>) : <<r>>[i].code # 220
    OBVIOUS
  <1>3. toClient' = toClient \o <<r>>  BY DEF Say
  <1> QED  BY <1>1, <1>2, <1>3, RepliesAdded

Recipients == rcpts' = rcpts \/ rcpts' = rcpts + 1

LEMMA OrderedTail ==
    ASSUME SInv, NEW c, Take(c), state \in Late, Recipients
    PROVE  /\ Ordered'
           /\ \A d \in Sent' : Follows(c, d)
           /\ c = "RCPT TO" => 1 + rcpts <= NRcpt
PROOF
  <1>0. TypeOK /\ OpenInv  BY DEF SInv
  <1>a. rcpts \in Nat  BY <1>0, NRcptAssumption DEF TypeOK
  <1>b. Pipeline  BY <1>0, TakeIs DEF OpenInv
  <1>1. TypeOK /\ Ordered /\ rcpts \in Nat
    BY <1>0, <1>a, <1>b DEF Pipeline
  <1>2. /\ Len(toServer) \in Nat \ {0} /\ toServer[1] = c /\ c \in Command
        /\ Len(toServer') = Len(toServer) - 1
        /\ \A i \in 1..Len(toServer') : toServer'[i] = toServer[i + 1]
    BY <1>1, TakeIs
  <1>3. \A i \in 1..Len(toServer') : i + 1 \in 1..Len(toServer) /\ 1 < i + 1
    BY <1>2
  <1>4. ASSUME NEW i \in 1..Len(toServer'), NEW j \in 1..Len(toServer'), i < j
        PROVE  Follows(toServer'[i], toServer'[j])
    <2>1. i + 1 < j + 1  BY <1>2, <1>4
    <2> QED  BY <1>1, <1>2, <1>3, <2>1 DEF Ordered
  <1>5. ASSUME NEW i \in 1..Len(toServer'), toServer'[i] = "RCPT TO"
        PROVE  i + rcpts' <= NRcpt
    <2>1. (i + 1) + rcpts <= NRcpt  BY <1>1, <1>2, <1>3, <1>5 DEF Ordered
    <2>2. i \in Nat /\ NRcpt \in Nat  BY NRcptAssumption
    <2>3. CASE rcpts' = rcpts  BY <1>1, <2>1, <2>2, <2>3
    <2>4. CASE rcpts' = rcpts + 1  BY <1>1, <2>1, <2>2, <2>4
    <2> QED  BY <2>3, <2>4 DEF Recipients
  <1>6. \A d \in Sent' : Follows(c, d)
    <2> SUFFICES ASSUME NEW i \in 1..Len(toServer') PROVE Follows(c, toServer'[i])
      BY DEF Sent
    <2>1. 1 \in 1..Len(toServer)  BY <1>2
    <2> QED  BY <1>1, <1>2, <1>3, <2>1 DEF Ordered
  <1>7. c = "RCPT TO" => 1 + rcpts <= NRcpt
    <2>1. 1 \in 1..Len(toServer)  BY <1>2
    <2> QED  BY <1>1, <1>2, <2>1 DEF Ordered
  <1> QED  BY <1>4, <1>5, <1>6, <1>7 DEF Ordered

LEMMA LateAnswer ==
    ASSUME SInv, NEW c, Take(c), c \in LateCommand, UNCHANGED <<fsmVars, tlsVars, clientVars>>,
           \A i \in 1..Len(toClient') : toClient'[i].code # 220,
           Recipients,
           server' \notin {"none", "greet", "closed", "reset", "dropped"},
           server' = "data" => state \in {"BODY", "QUIT"},
           DataMode'
    PROVE  OpenInv' /\ OverInv'
PROOF
  <1>0. TypeOK /\ OpenInv  BY DEF SInv
  <1>1. /\ Alive /\ ~Ended /\ state \in Late /\ server # "none" /\ Sent' \subseteq Sent
        /\ Lockstep /\ Reachable /\ Pipeline
    BY <1>0, TakeIs, WhoAsks DEF OpenInv
  <1>2. Alive' /\ ~Ended'  BY <1>1 DEF Alive, Ended, clientVars
  <1>3. state' = state  BY DEF fsmVars
  <1>4. Lockstep'  BY <1>1, <1>3 DEF Lockstep, Late
  <1>5. Reachable'  BY <1>1 DEF Reachable, fsmVars, tlsVars, clientVars
  <1>6. Ordered'  BY <1>1, OrderedTail
  <1>7. Pipeline'
    <2>1. /\ state = "DATA" => Sent' \subseteq {"RCPT TO"}
          /\ state = "BODY" => Sent' \subseteq {"RCPT TO", "DATA"}
          /\ state = "QUIT" => Sent' \subseteq {"RCPT TO", "DATA", "message", "QUIT"}
      BY <1>1 DEF Pipeline
    <2> QED  BY <1>1, <1>3, <1>6, <2>1 DEF Pipeline, Late
  <1> QED  BY <1>2, <1>4, <1>5, <1>7 DEF OpenInv, OverInv

LEMMA SentTail ==
    ASSUME TypeOK, NEW c, Take(c)
    PROVE  /\ \A d \in Sent : d = c \/ d \in Sent'
           /\ \A j \in 1..Len(toServer) : j = 1 \/ j - 1 \in 1..Len(toServer')
           /\ \A j \in 1..Len(toServer) : j # 1 => toServer'[j - 1] = toServer[j]
PROOF
  <1>1. /\ Len(toServer) \in Nat \ {0} /\ toServer[1] = c
        /\ Len(toServer') = Len(toServer) - 1
        /\ \A i \in 1..Len(toServer') : toServer'[i] = toServer[i + 1]
    BY TakeIs
  <1>2. ASSUME NEW j \in 1..Len(toServer), j # 1
        PROVE  j - 1 \in 1..Len(toServer') /\ toServer'[j - 1] = toServer[j]
    <2>1. j - 1 \in 1..Len(toServer') /\ (j - 1) + 1 = j  BY <1>1, <1>2
    <2> QED  BY <1>1, <2>1
  <1>3. ASSUME NEW d \in Sent PROVE d = c \/ d \in Sent'
    <2>1. PICK j \in 1..Len(toServer) : toServer[j] = d  BY DEF Sent
    <2>2. CASE j = 1  BY <1>1, <2>1, <2>2
    <2>3. CASE j # 1  BY <1>2, <2>1, <2>3 DEF Sent
    <2> QED  BY <2>2, <2>3
  <1> QED  BY <1>2, <1>3

(* What holds in common when a pipelined command is taken.                 *)
LEMMA LateTake ==
    ASSUME SInv, NEW c, Take(c), c \in LateCommand
    PROVE  /\ TypeOK /\ OpenInv /\ Alive /\ ~Ended /\ server # "none" /\ server # "greet"
           /\ state \in Late /\ Pipeline /\ DataMode /\ c \in Sent /\ rcpts \in Nat
           /\ Sent' \subseteq Sent /\ Sent \subseteq LateCommand
           /\ toServer' \in Seq(Command)
           /\ server = "data" => state \in {"BODY", "QUIT"}
PROOF
  <1>1. TypeOK /\ OpenInv  BY DEF SInv
  <1>2. Alive /\ ~Ended /\ server # "none" /\ state \in Late /\ Pipeline /\ DataMode
        /\ c \in Sent /\ Sent' \subseteq Sent /\ toServer' \in Seq(Command) /\ Lockstep
    BY <1>1, TakeIs, WhoAsks DEF OpenInv
  <1>3. Sent \subseteq LateCommand  BY <1>2, Vocabulary
  <1>4. rcpts \in Nat  BY <1>1, NRcptAssumption DEF TypeOK
  <1>5. server # "greet"  BY <1>2 DEF Lockstep, Late
  <1>6. server = "data" => state \in {"BODY", "QUIT"}  BY <1>2 DEF Pipeline, Late
  <1> QED  BY <1>1, <1>2, <1>3, <1>4, <1>5, <1>6

LEMMA RcptToKept == SInv /\ RcptTo => SInv'
PROOF
  <1> SUFFICES ASSUME SInv, RcptTo PROVE SInv'  OBVIOUS
  <1> DEFINE c == "RCPT TO"
  <1>0. Take(c) /\ c \in LateCommand  BY DEF RcptTo, LateCommand
  <1>1. /\ TypeOK /\ OpenInv /\ Alive /\ ~Ended /\ server # "none" /\ server # "greet"
        /\ state \in Late /\ Pipeline /\ DataMode /\ c \in Sent /\ rcpts \in Nat
        /\ Sent' \subseteq Sent /\ Sent \subseteq LateCommand
        /\ toServer' \in Seq(Command)
        /\ server = "data" => state \in {"BODY", "QUIT"}
    BY <1>0, LateTake
  <1>c. c # "DATA" /\ c # "message"  OBVIOUS
  <1>2. UNCHANGED <<fsmVars, tlsVars, clientVars, server, secure, loggedIn, accepted,
                    misread, faults>>
    BY DEF RcptTo
  <1>3. PICK r \in {R(250, "2.1.5"), R(550, "error")} : Say(<<r>>)  BY ZenonT(60) DEF RcptTo
  <1> HIDE DEF c
  <1>4. r \in Reply /\ r.code # 220  BY <1>3 DEF R, Reply
  <1>5. /\ toClient' \in Seq(Reply)
        /\ \A i \in 1..Len(toClient') : toClient'[i].code # 220
    BY <1>1, <1>3, <1>4, OneReplyAdded
  <1>6. Recipients  BY DEF RcptTo, Recipients
  <1>7. DataMode'
    <2>1. server # "data" /\ ~NoRecipient /\ ~misread
      BY <1>1 DEF c, DataMode, NoRecipient
    <2>2. state = "BODY" => "DATA" \in Sent'
      BY <1>0, <1>1, <1>c, <2>1, SentTail DEF DataMode
    <2>3. ASSUME NEW i \in 1..Len(toServer'), toServer'[i] = "message"
          PROVE  \E j \in 1..Len(toServer') : j < i /\ toServer'[j] = "DATA"
      <3>1. /\ Len(toServer) \in Nat \ {0} /\ toServer[1] = c
            /\ Len(toServer') = Len(toServer) - 1 /\ toServer'[i] = toServer[i + 1]
        BY <1>0, <1>1, TakeIs
      <3>2. i + 1 \in 1..Len(toServer) /\ i + 1 > 1
        <4>1. Len(toServer) \in Nat /\ Len(toServer') = Len(toServer) - 1  BY <3>1
        <4> QED  BY <4>1
      <3>3. PICK j \in 1..Len(toServer) : j < i + 1 /\ toServer[j] = "DATA"
        BY <1>1, <2>1, <2>3, <3>1, <3>2 DEF DataMode
      <3>4. j # 1  BY <1>c, <3>1, <3>3
      <3>5. j - 1 \in 1..Len(toServer') /\ toServer'[j - 1] = "DATA"
        BY <1>0, <1>1, <3>3, <3>4, SentTail
      <3>6. j - 1 < i  BY <3>3
      <3> QED  BY <3>5, <3>6
    <2>4. server' = server /\ state' = state /\ misread' = misread  BY <1>2 DEF fsmVars
    <2> QED  BY <2>1, <2>2, <2>3, <2>4 DEF DataMode
  <1>8. OpenInv' /\ OverInv'
    BY <1>0, <1>1, <1>2, <1>5, <1>6, <1>7, LateAnswer DEF Ended
  <1>9. rcpts' \in 0..NRcpt
    <2>1. 1 + rcpts <= NRcpt  BY <1>0, <1>1, <1>6, OrderedTail DEF c
    <2>2. CASE rcpts' = rcpts  BY <1>1, <2>2 DEF TypeOK
    <2>3. CASE rcpts' = rcpts + 1  
      <3>1. rcpts \in Nat /\ NRcpt \in Nat /\ 1 + rcpts <= NRcpt
        BY <1>1, <2>1, NRcptAssumption
      <3> QED  BY <2>3, <3>1
    <2> QED  BY <1>6, <2>2, <2>3 DEF Recipients
  <1>10. TypeOK'
    BY <1>1, <1>2, <1>5, <1>9 DEF TypeOK, fsmVars, tlsVars, clientVars
  <1> QED  BY <1>8, <1>10 DEF SInv

LEMMA DataKept == SInv /\ Data => SInv'
PROOF
  <1> SUFFICES ASSUME SInv, Data PROVE SInv'  OBVIOUS
  <1> DEFINE c == "DATA"
  <1>0. Take(c) /\ c \in LateCommand  BY DEF Data, LateCommand
  <1>1. /\ TypeOK /\ OpenInv /\ Alive /\ ~Ended /\ server # "none" /\ server # "greet"
        /\ state \in Late /\ Pipeline /\ DataMode /\ c \in Sent /\ rcpts \in Nat
        /\ Sent' \subseteq Sent /\ Sent \subseteq LateCommand
        /\ toServer' \in Seq(Command)
        /\ server = "data" => state \in {"BODY", "QUIT"}
    BY <1>0, LateTake
  <1>2. UNCHANGED <<fsmVars, tlsVars, clientVars, secure, rcpts, loggedIn, accepted,
                    misread, faults>>
    BY DEF Data
  <1>3. PICK r \in {R(354, "Go"), R(554, "error")} : Say(<<r>>)  BY DEF Data
  <1>4. r \in Reply /\ r.code # 220  BY <1>3 DEF R, Reply
  <1>5. /\ toClient' \in Seq(Reply)
        /\ \A i \in 1..Len(toClient') : toClient'[i].code # 220
    BY <1>1, <1>3, <1>4, OneReplyAdded
  <1>6. Recipients  BY <1>2 DEF Recipients
  <1>7. Sent' \subseteq {"message", "QUIT"}
    <2>1. \A d \in Sent' : Follows(c, d)  BY <1>0, <1>1, <1>6, OrderedTail
    <2> QED  BY <1>1, <2>1 DEF Follows, LateCommand
  <1>8. server' = IF rcpts > 0 THEN "data" ELSE server  BY DEF Data
  <1>9. state \in {"BODY", "QUIT"}  BY <1>1 DEF Pipeline, Late
  <1>10. DataMode'
    <2>1. server # "data"  BY <1>1 DEF DataMode
    <2>2. state' = state /\ misread' = misread /\ rcpts' = rcpts  BY <1>2 DEF fsmVars
    <2>3. misread => state = "QUIT" /\ rcpts = 0  BY <1>1 DEF DataMode, NoRecipient
    <2>4. CASE rcpts > 0  BY <1>7, <1>8, <2>2, <2>3, <2>4 DEF DataMode
    <2>5. CASE rcpts = 0
      <3>1. NoRecipient'  BY <1>7, <2>2, <2>5 DEF NoRecipient
      <3>2. server' # "data"  BY <1>8, <2>1, <2>5
      <3> QED  BY <3>1, <3>2, <2>2, <2>3 DEF DataMode
    <2> QED  BY <1>1, <2>4, <2>5
  <1>11. server' \notin {"none", "greet", "closed", "reset", "dropped"}
    BY <1>1, <1>8 DEF Ended
  <1>12. OpenInv' /\ OverInv'
    BY <1>0, <1>2, <1>5, <1>6, <1>9, <1>10, <1>11, LateAnswer
  <1>13. TypeOK'
    BY <1>1, <1>2, <1>5, <1>8 DEF TypeOK, fsmVars, tlsVars, clientVars
  <1> QED  BY <1>12, <1>13 DEF SInv

LEMMA MessageKept == SInv /\ Message => SInv'
PROOF
  <1> SUFFICES ASSUME SInv, Message PROVE SInv'  OBVIOUS
  <1> DEFINE c == "message"
  <1>0. Take(c) /\ c \in LateCommand  BY DEF Message, LateCommand
  <1>1. /\ TypeOK /\ OpenInv /\ Alive /\ ~Ended /\ server # "none" /\ server # "greet"
        /\ state \in Late /\ Pipeline /\ DataMode /\ c \in Sent /\ rcpts \in Nat
        /\ Sent' \subseteq Sent /\ Sent \subseteq LateCommand
        /\ toServer' \in Seq(Command)
        /\ server = "data" => state \in {"BODY", "QUIT"}
    BY <1>0, LateTake
  <1>2. UNCHANGED <<fsmVars, tlsVars, clientVars, secure, rcpts, loggedIn, faults>>
    BY DEF Message
  <1>3. state = "QUIT"  BY <1>1 DEF Pipeline, Late
  <1>4. Recipients  BY <1>2 DEF Recipients
  <1>5. Sent' \cap {"RCPT TO", "DATA", "message"} = {}
    <2>1. \A d \in Sent' : Follows(c, d)  BY <1>0, <1>1, <1>4, OrderedTail
    <2> QED  BY <2>1 DEF Follows
  <1>6. \A i \in 1..Len(toServer') : toServer'[i] # "message"  BY <1>5 DEF Sent
  <1>7. CASE server = "data"
    <2>1. /\ misread' = misread /\ server' = "authed"
          /\ accepted' \in {accepted, accepted + 1}
      BY <1>7 DEF Message
    <2>2. PICK r \in {R(250, "2.0.0"), R(554, "error")} : Say(<<r>>)
      BY <1>7 DEF Message
    <2>3. r \in Reply /\ r.code # 220  BY <2>2 DEF R, Reply
    <2>4. /\ toClient' \in Seq(Reply)
          /\ \A i \in 1..Len(toClient') : toClient'[i].code # 220
      BY <1>1, <2>2, <2>3, OneReplyAdded
    <2>5. DataMode'
      <3>1. state' = state /\ rcpts' = rcpts  BY <1>2 DEF fsmVars
      <3>2. misread => NoRecipient'  BY <1>1, <3>1 DEF DataMode, NoRecipient
      <3> QED  BY <1>3, <1>6, <2>1, <3>1, <3>2 DEF DataMode
    <2>6. server' \notin {"none", "greet", "closed", "reset", "dropped", "data"}  BY <2>1
    <2>7. OpenInv' /\ OverInv'
      BY <1>0, <1>2, <1>4, <2>4, <2>5, <2>6, LateAnswer
    <2>8. accepted' \in Nat  BY <1>1, <2>1 DEF TypeOK
    <2>9. TypeOK'
      BY <1>1, <1>2, <2>1, <2>4, <2>8 DEF TypeOK, fsmVars, tlsVars, clientVars
    <2> QED  BY <2>7, <2>9 DEF SInv
  <1>8. CASE server # "data"
    <2> DEFINE lines == [i \in 1..BodyLines |-> R(500, "error")]
    <2>1. /\ misread' = TRUE /\ server' = server /\ accepted' = accepted
          /\ toClient' = toClient \o lines
      BY <1>8 DEF Message, Say
    <2>2. lines \in Seq(Reply) /\ \A i \in 1..Len(lines) : lines[i].code # 220
      <3>1. BodyLines \in Nat  BY BodyLinesAssumption
      <3>2. R(500, "error") \in Reply /\ R(500, "error").code # 220  BY DEF R, Reply
      <3>3. lines \in [1..BodyLines -> Reply]  BY <3>2
      <3>4. lines \in Seq(Reply) /\ Len(lines) = BodyLines  BY <3>1, <3>3
      <3> QED  BY <3>2, <3>4
    <2>3. toClient \in Seq(Reply) /\ \A i \in 1..Len(toClient) : toClient[i].code # 220
      BY <1>1 DEF TypeOK, Pipeline
    <2> HIDE DEF lines
    <2>4. /\ toClient' \in Seq(Reply)
          /\ \A i \in 1..Len(toClient') : toClient'[i].code # 220
      BY <2>1, <2>2, <2>3, RepliesAdded
    <2>5. NoRecipient
      <3>1. Len(toServer) \in Nat \ {0} /\ toServer[1] = "message"
        BY <1>0, <1>1, TakeIs
      <3>2. 1 \in 1..Len(toServer) /\ \A j \in 1..Len(toServer) : ~(j < 1)  BY <3>1
      <3> QED  BY <1>1, <1>8, <3>1, <3>2 DEF DataMode
    <2>6. DataMode'
      <3>1. state' = state /\ rcpts' = rcpts  BY <1>2 DEF fsmVars
      <3>2. NoRecipient'  BY <1>1, <2>5, <3>1 DEF NoRecipient
      <3> QED  BY <1>3, <1>6, <1>8, <2>1, <3>1, <3>2 DEF DataMode
    <2>7. server' \notin {"none", "greet", "closed", "reset", "dropped", "data"}
      BY <1>1, <1>8, <2>1 DEF Ended
    <2>8. OpenInv' /\ OverInv'
      BY <1>0, <1>2, <1>4, <2>4, <2>6, <2>7, LateAnswer
    <2>9. TypeOK'
      BY <1>1, <1>2, <2>1, <2>4 DEF TypeOK, fsmVars, tlsVars, clientVars
    <2> QED  BY <2>8, <2>9 DEF SInv
  <1> QED  BY <1>7, <1>8

(* Once the server has closed or lost the connection.                      *)
LEMMA ClosedKept ==
    ASSUME SInv, Ended', misread' = misread, rcpts' = rcpts, TypeOK'
    PROVE  SInv'
PROOF BY OverKept DEF SInv, OpenInv

LEMMA QuitKept == SInv /\ Quit => SInv'
PROOF
  <1> SUFFICES ASSUME SInv, Quit PROVE SInv'  OBVIOUS
  <1> DEFINE c == "QUIT"
  <1>0. Take(c) /\ c \in LateCommand  BY DEF Quit, LateCommand
  <1>1. TypeOK /\ Alive /\ ~Ended /\ state \in Late /\ toServer' \in Seq(Command)
    BY <1>0, LateTake
  <1>2. UNCHANGED <<fsmVars, tlsVars, clientVars, secure, rcpts, loggedIn, accepted,
                    misread, faults>> /\ server' \in {"closed", "reset"}
    BY DEF Quit
  <1> DEFINE r == R(221, "2.0.0")
  <1>3. r \in Reply /\ r.code # 220 /\ Say(<<r>>)  BY DEF R, Reply, Quit
  <1> HIDE DEF r
  <1>4. toClient' \in Seq(Reply)  BY <1>1, <1>3, OneReplyAdded
  <1>5. TypeOK'  BY <1>1, <1>2, <1>4 DEF TypeOK, fsmVars, tlsVars, clientVars
  <1>6. Ended' /\ misread' = misread /\ rcpts' = rcpts  BY <1>2 DEF Ended
  <1> QED  BY <1>5, <1>6, ClosedKept

LEMMA IdleTimeoutKept == SInv /\ IdleTimeout => SInv'
PROOF
  <1> SUFFICES ASSUME SInv, IdleTimeout PROVE SInv'  OBVIOUS
  <1>1. UNCHANGED <<fsmVars, tlsVars, clientVars, toServer, secure, rcpts, loggedIn,
                    accepted, misread, faults>> /\ server' = "closed"
    BY DEF IdleTimeout
  <1> DEFINE r == R(421, "error")
  <1>2. r \in Reply  BY DEF R, Reply
  <1>3. toClient' = <<>> \o <<r>>  BY DEF IdleTimeout, Say
  <1> HIDE DEF r
  <1>4. toClient' \in Seq(Reply)  BY <1>2, <1>3, OneReply
  <1>5. TypeOK'  BY <1>1, <1>4 DEF SInv, TypeOK, fsmVars, tlsVars, clientVars
  <1> QED  BY <1>1, <1>5, ClosedKept DEF Ended

LEMMA DropKept == SInv /\ Drop => SInv'
PROOF
  <1> SUFFICES ASSUME SInv, Drop PROVE SInv'  OBVIOUS
  <1>1. UNCHANGED <<fsmVars, tlsVars, clientVars, netVars, secure, rcpts, loggedIn,
                    accepted, misread, faults>> /\ server' = "dropped"
    BY DEF Drop
  <1>2. TypeOK'  BY <1>1 DEF SInv, TypeOK, fsmVars, tlsVars, clientVars, netVars
  <1> QED  BY <1>1, <1>2, ClosedKept DEF Ended

LEMMA ServerKept == SInv /\ (Server \/ IdleTimeout \/ Drop) => SInv'
PROOF BY BannerKept, EhloKept, EarlyAnswersKept, RcptToKept, DataKept, MessageKept,
         QuitKept, IdleTimeoutKept, DropKept DEF Server

-----------------------------------------------------------------------------
(* The client's steps other than a read.                                   *)

LEMMA StartKept == SInv /\ Start => SInv'
PROOF
  <1> SUFFICES ASSUME SInv, Start PROVE SInv'  OBVIOUS
  <1>1. UNCHANGED <<fsmVars, tlsVars, client, reactor, netVars, secure, rcpts,
                    loggedIn, accepted, misread, faults>>
        /\ available' = TRUE /\ handler' = TRUE /\ server' = "greet" /\ server = "none"
    BY DEF Start
  <1>2. TypeOK'  BY <1>1 DEF SInv, TypeOK, fsmVars, tlsVars, netVars
  <1>3. Alive /\ ~Ended /\ Lockstep /\ Reachable /\ Pipeline /\ DataMode
    BY <1>1 DEF SInv, OpenInv, OverInv, Ended
  <1>4. Alive' /\ ~Ended'  BY <1>1, <1>3 DEF Alive, Ended
  <1>5. state = "GREETING" /\ toServer = <<>> /\ toClient = <<>>
    BY <1>1, <1>3 DEF Lockstep, InGreeting
  <1>6. Lockstep'
    BY <1>1, <1>5 DEF Lockstep, InGreeting, fsmVars, netVars
  <1>7. Reachable'  BY <1>1, <1>3, <1>5 DEF Reachable, fsmVars, tlsVars
  <1>8. Pipeline'  BY <1>1, <1>3, <1>5 DEF Pipeline, Late, fsmVars
  <1>9. DataMode'
    BY <1>1, <1>3, <1>5 DEF DataMode, NoRecipient, Sent, fsmVars, netVars
  <1> QED  BY <1>2, <1>4, <1>6, <1>7, <1>8, <1>9 DEF SInv, OpenInv, OverInv

LEMMA ReadEofKept == SInv /\ ReadEof => SInv'
PROOF
  <1> SUFFICES ASSUME SInv, ReadEof PROVE SInv'  OBVIOUS
  <1>1. TypeOK'  BY DEF SInv, TypeOK, ReadEof, fsmVars, tlsVars, netVars, serverVars
  <1>2. Ended' /\ misread' = misread /\ rcpts' = rcpts  BY DEF ReadEof, Ended, serverVars
  <1> QED  BY <1>1, <1>2, ClosedKept

LEMMA StopKept == SInv /\ Stop => SInv'
PROOF
  <1> SUFFICES ASSUME SInv, Stop PROVE SInv'  OBVIOUS
  <1>1. TypeOK'  BY DEF SInv, TypeOK, Stop, fsmVars, tlsVars, netVars, serverVars
  <1>2. Ended  BY DEF SInv, OpenInv, Stop, Alive, Reachable
  <1>3. Ended' /\ misread' = misread /\ rcpts' = rcpts
    BY <1>2 DEF Stop, Ended, serverVars
  <1> QED  BY <1>1, <1>3, ClosedKept

LEMMA ReleaseClientKept == SInv /\ ReleaseClient => SInv'
PROOF
  <1> SUFFICES ASSUME SInv, ReleaseClient PROVE SInv'  OBVIOUS
  <1>1. TypeOK'
    BY ZenonT(60) DEF SInv, TypeOK, ReleaseClient, fsmVars, tlsVars, netVars, serverVars
  <1>2. CASE Ended
    <2>1. Ended' /\ misread' = misread /\ rcpts' = rcpts
      BY <1>2 DEF ReleaseClient, Ended, serverVars
    <2> QED  BY <1>1, <2>1, ClosedKept
  <1>3. CASE ~Ended
    <2>1. UNCHANGED <<fsmVars, tlsVars, available, handler, netVars, serverVars>>
          /\ client' = FALSE /\ reactor' = "idle" /\ reactor = "ending"
      BY DEF ReleaseClient
    <2>2. Lockstep /\ Reachable /\ Pipeline /\ DataMode
      BY <1>3, <2>1 DEF SInv, OpenInv, Alive
    <2>3. Alive' /\ ~Ended'  BY <1>3, <2>1 DEF Alive, Ended, serverVars
    <2>a. /\ state' = state /\ stage' = stage /\ server' = server /\ rcpts' = rcpts
          /\ toServer' = toServer /\ toClient' = toClient /\ misread' = misread
      BY <2>1 DEF fsmVars, netVars, serverVars
    <2>b. InGreeting' <=> InGreeting  BY <2>a DEF InGreeting
    <2>c. InHelo' <=> InHelo  BY <2>a DEF InHelo
    <2>d. InMail' <=> InMail  BY <2>a DEF InMail, Quiet, Asked, Told
    <2>e. InRcpt' <=> InRcpt  BY <2>a DEF InRcpt, Quiet, Asked, Told
    <2>4. Lockstep'  BY <2>2, <2>a, <2>b, <2>c, <2>d, <2>e DEF Lockstep
    <2>5. Reachable'  BY <2>1, <2>2 DEF Reachable, fsmVars, tlsVars
    <2>6. Pipeline'
      <3>1. Sent' = Sent  BY <2>a DEF Sent
      <3>2. Ordered' <=> Ordered  BY <2>a DEF Ordered
      <3> QED  BY <2>2, <2>a, <3>1, <3>2 DEF Pipeline
    <2>7. DataMode'
      BY <2>2, <2>a DEF DataMode, Sent, NoRecipient
    <2> QED  BY <1>1, <2>3, <2>4, <2>5, <2>6, <2>7 DEF SInv, OpenInv, OverInv
  <1> QED  BY <1>2, <1>3

-----------------------------------------------------------------------------
(* The client reads.                                                       *)

Typed(a) == a.cmds \in Seq(Command) /\ a.state \in States /\ a.stage \in AuthSteps

LEMMA AnswerTyped ==
    ASSUME TypeOK, NEW rep, NEW chunk
    PROVE  Typed(onRx(rep, chunk))
PROOF
  <1>1. state \in States /\ stage \in AuthSteps  BY DEF TypeOK
  <1>2. ASSUME NEW s, NEW cs \in Seq(Command), NEW to \in States, NEW sg \in AuthSteps
        PROVE  Typed(Answer(s, cs, to, sg))
    BY DEF Answer, Typed
  <1>7. <<>> \in Seq(Command)  OBVIOUS
  <1>3. \A st \in States : Typed(Ignore(st))  BY <1>1, <1>2, <1>7 DEF Ignore
  <1>i. "AUTH_INIT" \in AuthSteps  BY DEF AuthSteps
  <1>4. ASSUME NEW cs \in Seq(Command), NEW to \in States
        PROVE  Typed(Goto(cs, to))
    BY <1>i, <1>2 DEF Goto
  <1>5. ASSUME NEW cs \in Seq(Command), NEW to \in States, NEW sg \in AuthSteps
        PROVE  Typed(Remain(cs, to, sg))
    BY <1>2 DEF Remain
  <1>6. \A cmd \in Command : <<cmd>> \in Seq(Command)  OBVIOUS
  <1>8. [i \in 1..NRcpt |-> "RCPT TO"] \in Seq(Command)
    BY NRcptAssumption DEF Command
  <1> HIDE DEF Typed
  <1>9. Typed(GREETING_onResponse(rep))
    BY <1>3, <1>4, <1>6 DEF GREETING_onResponse, Command, States
  <1>10. Typed(HELO_onResponse(rep, chunk))
    <2>1. "HELO" \in States /\ "MAIL" \in States /\ <<"STARTTLS">> \in Seq(Command)
      BY <1>6 DEF States, Command
    <2>2. Typed(Answer("TLS_NOT_SUPPORTED", <<>>, "HELO", stage))
      BY <1>1, <1>2, <1>7, <2>1
    <2>3. Typed(Ignore("HELO")) /\ Typed(Goto(<<"STARTTLS">>, "MAIL"))
      BY <1>3, <1>4, <2>1
    <2> QED  BY <2>2, <2>3, Zenon DEF HELO_onResponse
  <1>11. Typed(MAIL_onResponse(rep))
    <2>1. Typed(MAIL_onCommand(rep))
      <3>1. /\ <<"AUTH LOGIN">> \in Seq(Command) /\ <<"username">> \in Seq(Command)
            /\ <<"password">> \in Seq(Command) /\ <<"MAIL FROM">> \in Seq(Command)
            /\ <<"RSET">> \in Seq(Command)
        BY <1>6 DEF Command
      <3>2. /\ "MAIL" \in States /\ "RCPT" \in States
            /\ "AUTH_INIT" \in AuthSteps /\ "AUTH_USRNAME" \in AuthSteps
            /\ "AUTH_PASSWORD" \in AuthSteps /\ "AUTH_SUCCESS" \in AuthSteps
        BY DEF States, AuthSteps
      <3>3. CASE stage = "AUTH_INIT"  BY <1>5, <3>1, <3>2, <3>3 DEF MAIL_onCommand
      <3>4. CASE stage = "AUTH_USRNAME"
        BY <1>5, <1>7, <3>1, <3>2, <3>4 DEF MAIL_onCommand
      <3>5. CASE stage = "AUTH_PASSWORD"
        BY <1>5, <1>7, <3>1, <3>2, <3>5 DEF MAIL_onCommand
      <3>6. CASE stage = "AUTH_SUCCESS"
        BY <1>2, <1>4, <3>1, <3>2, <3>6 DEF MAIL_onCommand
      <3> QED  BY <1>1, <3>3, <3>4, <3>5, <3>6 DEF AuthSteps
    <2> QED  BY <1>3, <2>1 DEF MAIL_onResponse, States
  <1>12. Typed(RCPT_onResponse(rep))
    BY <1>3, <1>4, <1>8 DEF RCPT_onResponse, States
  <1>13. Typed(DATA_onResponse(rep))
    BY <1>3, <1>4, <1>6 DEF DATA_onResponse, States, Command
  <1>14. Typed(BODY_onResponse(rep))
    BY <1>3, <1>4, <1>6 DEF BODY_onResponse, States, Command
  <1>15. Typed(QUIT_onResponse(rep))
    <2>1. "QUIT" \in States /\ <<"QUIT">> \in Seq(Command)
      BY <1>6 DEF States, Command
    <2>2. /\ Typed(Ignore("QUIT")) /\ Typed(Remain(<<>>, "QUIT", stage))
          /\ Typed(Remain(<<"QUIT">>, "QUIT", stage))
      BY <1>1, <1>3, <1>5, <1>7, <2>1
    <2>3. \/ QUIT_onResponse(rep) = Ignore("QUIT")
          \/ QUIT_onResponse(rep) = Remain(<<>>, "QUIT", stage)
          \/ QUIT_onResponse(rep) = Remain(<<"QUIT">>, "QUIT", stage)
      BY Zenon DEF QUIT_onResponse
    <2> QED  BY <2>2, <2>3
  <1>16. CASE state = "GREETING"  BY <1>9, <1>16 DEF onRx
  <1>17. CASE state = "HELO"  BY <1>10, <1>17 DEF onRx
  <1>18. CASE state = "MAIL"  BY <1>11, <1>18 DEF onRx
  <1>19. CASE state = "RCPT"  BY <1>12, <1>19 DEF onRx
  <1>20. CASE state = "DATA"  BY <1>13, <1>20 DEF onRx
  <1>21. CASE state = "BODY"  BY <1>14, <1>21 DEF onRx
  <1>22. CASE state = "QUIT"  BY <1>15, <1>22 DEF onRx
  <1> QED  BY <1>1, <1>16, <1>17, <1>18, <1>19, <1>20, <1>21, <1>22 DEF States

(* An answer that does not lead to another state names the current one.    *)
Stays(a) == a.status = "GOTO_NEXT_STATE" \/ a.state = state

LEMMA AnswerStays ==
    ASSUME TypeOK, NEW rep, NEW chunk
    PROVE  Stays(onRx(rep, chunk))
PROOF
  <1>1. state \in States /\ stage \in AuthSteps  BY DEF TypeOK
  <1>2. \A cs, to : Stays(Goto(cs, to))  BY DEF Stays, Goto, Answer
  <1>3. Stays(Ignore(state))  BY DEF Stays, Ignore, Answer
  <1>4. \A cs, sg : Stays(Remain(cs, state, sg))  BY DEF Stays, Remain, Answer
  <1>5. \A s, cs, sg : Stays(Answer(s, cs, state, sg))  BY DEF Stays, Answer
  <1>6. CASE state = "GREETING"
    BY <1>2, <1>3, <1>6 DEF onRx, GREETING_onResponse
  <1>7. CASE state = "HELO"
    <2>1. \/ HELO_onResponse(rep, chunk) = Ignore("HELO")
          \/ HELO_onResponse(rep, chunk) = Goto(<<"STARTTLS">>, "MAIL")
          \/ HELO_onResponse(rep, chunk) = Answer("TLS_NOT_SUPPORTED", <<>>, "HELO", stage)
      BY Zenon DEF HELO_onResponse
    <2>2. Stays(HELO_onResponse(rep, chunk))  BY <1>2, <1>3, <1>5, <1>7, <2>1
    <2> QED  BY <1>7, <2>2 DEF onRx
  <1>8. CASE state = "MAIL"
    <2>1. Stays(MAIL_onCommand(rep))
      <3>1. CASE stage = "AUTH_INIT"  BY <1>4, <1>8, <3>1 DEF MAIL_onCommand
      <3>2. CASE stage = "AUTH_USRNAME"  BY <1>4, <1>8, <3>2, Zenon DEF MAIL_onCommand
      <3>3. CASE stage = "AUTH_PASSWORD"  BY <1>4, <1>8, <3>3, Zenon DEF MAIL_onCommand
      <3>4. CASE stage = "AUTH_SUCCESS"
        BY <1>2, <1>5, <1>8, <3>4 DEF MAIL_onCommand
      <3> QED  BY <1>1, <3>1, <3>2, <3>3, <3>4 DEF AuthSteps
    <2> QED  BY <1>3, <1>8, <2>1 DEF onRx, MAIL_onResponse
  <1>9. CASE state = "RCPT"
    BY <1>2, <1>3, <1>9, Zenon DEF onRx, RCPT_onResponse
  <1>10. CASE state = "DATA"
    BY <1>2, <1>3, <1>10 DEF onRx, DATA_onResponse
  <1>11. CASE state = "BODY"
    BY <1>2, <1>3, <1>11 DEF onRx, BODY_onResponse
  <1>12. CASE state = "QUIT"
    <2>1. \/ QUIT_onResponse(rep) = Ignore("QUIT")
          \/ QUIT_onResponse(rep) = Remain(<<>>, "QUIT", stage)
          \/ QUIT_onResponse(rep) = Remain(<<"QUIT">>, "QUIT", stage)
      BY Zenon DEF QUIT_onResponse
    <2> QED  BY <1>3, <1>4, <1>12, <2>1 DEF onRx
  <1> QED  BY <1>1, <1>6, <1>7, <1>8, <1>9, <1>10, <1>11, <1>12 DEF States

(* What is left after a read of k replies.                                 *)
LEMMA Rest ==
    ASSUME TypeOK, NEW k, Reads(k)
    PROVE  /\ k \in 1..Len(toClient) /\ Len(toClient) \in Nat \ {0}
           /\ toClient' \in Seq(Reply) /\ Len(toClient') = Len(toClient) - k
           /\ \A i \in 1..Len(toClient') :
                 i + k \in 1..Len(toClient) /\ toClient'[i] = toClient[i + k]
           /\ \A r : toClient = <<r>> => toClient' = <<>> /\ k = 1
           /\ reactor = "idle" /\ Alive
           /\ UNCHANGED <<handler, client, rcpts, loggedIn, accepted, misread, faults>>
PROOF
  <1>1. /\ k \in 1..Len(toClient) /\ toClient' = SubSeq(toClient, k + 1, Len(toClient))
        /\ reactor = "idle"
    BY DEF Reads
  <1>2. toClient \in Seq(Reply) /\ Len(toClient) \in Nat  BY DEF TypeOK
  <1>3. /\ k + 1 \in Int /\ Len(toClient) \in Int
        /\ \A i \in (k + 1)..Len(toClient) : toClient[i] \in Reply
    BY <1>1, <1>2
  <1>4. /\ toClient' \in Seq(Reply)
        /\ Len(toClient') = IF k + 1 <= Len(toClient) THEN Len(toClient) - (k + 1) + 1 ELSE 0
        /\ \A i \in 1..(Len(toClient) - (k + 1) + 1) : toClient'[i] = toClient[(k + 1) + i - 1]
    BY <1>1, <1>3, SubSeqProperties
  <1>5. Len(toClient') = Len(toClient) - k  BY <1>1, <1>2, <1>4
  <1>6. ASSUME NEW i \in 1..Len(toClient')
        PROVE  i + k \in 1..Len(toClient) /\ toClient'[i] = toClient[i + k]
    <2>1. i \in 1..(Len(toClient) - (k + 1) + 1) /\ (k + 1) + i - 1 = i + k
      BY <1>1, <1>2, <1>5
    <2> QED  BY <1>1, <1>2, <1>4, <1>5, <2>1
  <1>7. ASSUME NEW r, toClient = <<r>> PROVE toClient' = <<>> /\ k = 1
    <2>1. Len(toClient) = 1  BY <1>7
    <2>2. k = 1 /\ Len(toClient') = 0  BY <1>1, <1>5, <2>1
    <2> QED  BY <1>4, <2>2
  <1>8. UNCHANGED <<handler, client, rcpts, loggedIn, accepted, misread, faults>>
    BY DEF Reads
  <1> QED  BY <1>1, <1>2, <1>4, <1>5, <1>6, <1>7, <1>8 DEF Alive

(* A reply that is answered: what the client does about it.                *)
Ends(rep, a) ==
    rep.code = 220 /\ a.status \notin {"GOTO_NEXT_STATE", "REMAIN_IN_SAME_STATE"}
Answered(rep, a) ==
    /\ state' = (IF a.status = "GOTO_NEXT_STATE" THEN a.state ELSE state)
    /\ stage' = a.stage
    /\ toServer' = toServer \o a.cmds
    /\ a.cmds # <<>> => IF tlsUp' THEN ssl' = "up" ELSE client /\ available
    /\ rep # TlsReady => UNCHANGED <<tlsVars, server>>
    /\ rep = TlsReady => tlsUp' = TRUE /\ server' \in {"helo", "dropped"}
                         /\ (ssl' = "up" <=> server' = "helo")
    /\ Ends(rep, a) => available' = FALSE /\ reactor' = "ending"
    /\ ~Ends(rep, a) => available' = available /\ reactor' = "idle"

(* The reply may be the last the client reads, without harm...             *)
ReadOver == (reactor' \in {"crashed", "stuck"} \/ Ended') /\ OverInv'

LEMMA ReadTyped ==
    ASSUME TypeOK, NEW k, Reads(k)
    PROVE  TypeOK'
PROOF
  <1>1. /\ toClient' \in Seq(Reply)
        /\ UNCHANGED <<handler, client, rcpts, loggedIn, accepted, misread, faults>>
    BY Rest
  <1>2. CASE tlsUp /\ ssl # "up"
    <2>1. UNCHANGED <<fsmVars, tlsVars, available, toServer, server, secure>>
          /\ reactor' = "crashed"
      BY <1>2 DEF Reads
    <2> QED  BY <1>1, <2>1 DEF TypeOK, fsmVars, tlsVars
  <1>3. CASE ~(tlsUp /\ ssl # "up")
    <2>1. PICK rep, a : /\ Typed(a)
                        /\ Respond(rep, a)
      <3>1. PICK rep \in Chunk(k) : Respond(rep, onRx(rep, Chunk(k)))
        BY <1>3, Zenon DEF Reads
      <3> QED  BY <3>1, AnswerTyped
    <2>2. /\ state' \in {a.state, state} /\ stage' \in {a.stage, stage}
          /\ toServer' \in {toServer, toServer \o a.cmds}
          /\ available' \in {available, FALSE}
          /\ reactor' \in {reactor, "crashed", "stuck", "ending"}
      BY <2>1, ZenonT(60) DEF Respond, Written
    <2>3. state' \in States /\ stage' \in AuthSteps  BY <2>1, <2>2 DEF Typed, TypeOK
    <2>4. toServer' \in Seq(Command)
      <3>1. toServer \o a.cmds \in Seq(Command)  BY <2>1 DEF Typed, TypeOK
      <3> QED  BY <2>2, <3>1 DEF TypeOK
    <2>5. /\ tlsUp' \in BOOLEAN /\ ssl' \in {"none", "up", "freed"} /\ secure' \in BOOLEAN
          /\ server' \in {"helo", "dropped", "reset", server} /\ (ssl' = "up" => tlsUp')
      <3>1. CASE \E ok \in HandshakeOutcome : Tls_start(ok)
        <4>1. PICK ok : Tls_start(ok)  BY <3>1
        <4>2. tlsUp' = TRUE /\ ssl' \in {"up", "freed"} /\ server' \in {"helo", "dropped"}
          BY <4>1 DEF Tls_start
        <4>3. secure' \in BOOLEAN  BY <4>1 DEF TypeOK, Tls_start
        <4> QED  BY <4>2, <4>3
      <3>2. CASE UNCHANGED <<tlsVars, secure>> /\ server' \in {server, "reset"}
        BY <3>2 DEF TypeOK, tlsVars
      <3>3. \/ \E ok \in HandshakeOutcome : Tls_start(ok)
            \/ UNCHANGED <<tlsVars, secure>> /\ server' \in {server, "reset"}
        BY <2>1, Zenon DEF Respond
      <3> QED  BY <3>1, <3>2, <3>3
    <2>6. available' \in BOOLEAN /\ reactor' \in {"idle", "closing", "ending", "stuck", "crashed"}
      BY <2>2 DEF TypeOK
    <2> QED  BY <1>1, <2>3, <2>4, <2>5, <2>6 DEF TypeOK
  <1> QED  BY <1>2, <1>3

LEMMA ReadGives ==
    ASSUME SInv, NEW k, Reads(k), ~Ended
    PROVE  ReadOver \/ \E j \in 1..k : Answered(toClient[j], onRx(toClient[j], Chunk(k)))
PROOF
  <1>0. TypeOK  BY DEF SInv
  <1>1. /\ reactor = "idle" /\ Alive /\ Len(toClient) \in Nat \ {0} /\ k \in 1..Len(toClient)
        /\ client' = client /\ rcpts' = rcpts /\ misread' = misread
    BY <1>0, Rest
  <1>2. Lockstep /\ Reachable  BY <1>1 DEF SInv, OpenInv
  <1>3. server # "none"
    <2>1. ASSUME server = "none" PROVE toClient = <<>>
      BY <1>2, <2>1 DEF Lockstep, InGreeting
    <2> QED  BY <1>1, <2>1
  <1>4. CASE tlsUp /\ ssl # "up"
    <2>1. reactor' = "crashed" /\ toServer' = toServer /\ server' = server
      BY <1>4 DEF Reads
    <2>2. OverInv'  BY <1>1, <1>3, <2>1, OverKept
    <2> QED  BY <2>1, <2>2 DEF ReadOver
  <1>5. CASE ~(tlsUp /\ ssl # "up")
    <2>1. PICK j \in 1..k : Respond(toClient[j], onRx(toClient[j], Chunk(k)))
      BY <1>5, Zenon DEF Reads, Chunk
    <2>2. PICK rep, a : rep = toClient[j] /\ a = onRx(rep, Chunk(k))  OBVIOUS
    <2>3. Respond(rep, a) /\ Typed(a) /\ Stays(a)
      BY <1>0, <2>1, <2>2, AnswerTyped, AnswerStays
    <2>4. rep # TlsReady => UNCHANGED <<tlsVars, server>>
      BY <2>3 DEF TlsReady, Respond, Ended
    <2>5. rep = TlsReady => /\ tlsUp' = TRUE /\ server' \in {"helo", "dropped"}
                            /\ (ssl' = "up" <=> server' = "helo")
      <3>1. SUFFICES ASSUME rep = TlsReady
                     PROVE  /\ tlsUp' = TRUE /\ server' \in {"helo", "dropped"}
                            /\ (ssl' = "up" <=> server' = "helo")
        OBVIOUS
      <3>2. PICK ok : Tls_start(ok)  BY <2>3, <3>1 DEF TlsReady, Respond
      <3> QED  BY <3>2 DEF Tls_start
    <2>6. CASE /\ MayFail(a.cmds)
               /\ reactor' \in IF tlsUp' THEN {"crashed", "stuck"} ELSE {"crashed"}
               /\ stage' = IF a.status = "GOTO_NEXT_STATE" THEN stage ELSE a.stage
               /\ UNCHANGED <<state, toServer, available>>
      <3>1. Ended' \/ server' = server
        <4>1. rep = TlsReady => server' # "helo"
          BY <2>5, <2>6 DEF MayFail, Ended
        <4> QED  BY <2>4, <2>5, <4>1 DEF Ended
      <3>2. OverInv'  BY <1>1, <1>3, <2>6, <3>1, OverKept
      <3>3. reactor' \in {"crashed", "stuck"}  BY <2>6
      <3> QED  BY <3>2, <3>3 DEF ReadOver
    <2>7. CASE /\ MayReturn(a.cmds)
               /\ state' = a.state /\ stage' = a.stage
               /\ toServer' = Written(a.cmds)
               /\ IF rep.code = 220
                     /\ a.status \notin {"GOTO_NEXT_STATE", "REMAIN_IN_SAME_STATE"}
                  THEN available' = FALSE /\ reactor' = "ending"
                  ELSE UNCHANGED <<available, reactor>>
      <3>1. client => available  BY <1>1, <1>2, <1>3 DEF Reachable
      <3>2. toServer' = toServer \o a.cmds
        <4>1. CASE a.cmds = <<>>
          <5>1. toServer \o <<>> = toServer  BY <1>0 DEF TypeOK
          <5> QED  BY <2>7, <4>1, <5>1 DEF Written
        <4>2. CASE a.cmds # <<>>
          <5>1. Sends(a.cmds) /\ server \notin Gone
            BY <2>7, <3>1, <4>2 DEF Ended, Sends, MayReturn
          <5> QED  BY <2>7, <5>1 DEF Written
        <4> QED  BY <4>1, <4>2
      <3>3. a.cmds # <<>> => IF tlsUp' THEN ssl' = "up" ELSE client /\ available
        BY <2>7, <3>1 DEF MayReturn
      <3>4. /\ Ends(rep, a) => available' = FALSE /\ reactor' = "ending"
            /\ ~Ends(rep, a) => available' = available /\ reactor' = "idle"
        BY <1>1, <2>7, Zenon DEF Ends
      <3>5. state' = (IF a.status = "GOTO_NEXT_STATE" THEN a.state ELSE state)
            /\ stage' = a.stage
        BY <2>3, <2>7 DEF Stays
      <3>6. Answered(rep, a)  BY <2>4, <2>5, <3>2, <3>3, <3>4, <3>5 DEF Answered
      <3> QED  BY <2>2, <3>6
    <2> QED  BY <2>3, <2>6, <2>7, Zenon DEF Respond
  <1> QED  BY <1>4, <1>5

(* ...or the session goes on: rep is the reply looked at, a the answer.    *)
GoesOn(k, rep, a) ==
    /\ SInv /\ Reads(k) /\ ~Ended
    /\ rep \in Chunk(k) /\ a = onRx(rep, Chunk(k)) /\ Answered(rep, a)

LEMMA Now ==
    ASSUME NEW k, NEW rep, NEW a, GoesOn(k, rep, a)
    PROVE  /\ TypeOK /\ Alive /\ ~Ended /\ reactor = "idle" /\ server # "none"
           /\ Lockstep /\ Reachable /\ Pipeline /\ DataMode
           /\ client' = client /\ rcpts' = rcpts /\ misread' = misread
           /\ rep \in Reply /\ \E i \in 1..Len(toClient) : rep = toClient[i]
           /\ toClient # <<>> /\ rcpts \in Nat
           /\ \A r : toClient = <<r>> => rep = r /\ toClient' = <<>>
PROOF
  <1>1. TypeOK /\ Reads(k) /\ rep \in Chunk(k) /\ ~Ended  BY DEF GoesOn, SInv
  <1>2. /\ k \in 1..Len(toClient) /\ Len(toClient) \in Nat \ {0} /\ reactor = "idle" /\ Alive
        /\ client' = client /\ rcpts' = rcpts /\ misread' = misread
        /\ \A r : toClient = <<r>> => toClient' = <<>> /\ k = 1
    BY <1>1, Rest
  <1>3. PICK i \in 1..k : rep = toClient[i]  BY <1>1 DEF Chunk
  <1>4. i \in 1..Len(toClient) /\ rep \in Reply
    BY <1>1, <1>2, <1>3 DEF TypeOK
  <1>5. toClient # <<>>  BY <1>2
  <1>6. Lockstep /\ Reachable /\ Pipeline /\ DataMode
    BY <1>1, <1>2 DEF GoesOn, SInv, OpenInv
  <1>7. server # "none"  BY <1>5, <1>6 DEF Lockstep, InGreeting
  <1>8. ASSUME NEW r, toClient = <<r>> PROVE rep = r /\ toClient' = <<>>
    <2>1. k = 1 /\ toClient[1] = r /\ toClient' = <<>>  BY <1>2, <1>8
    <2>2. i = 1  BY <1>3, <2>1
    <2> QED  BY <1>3, <2>1, <2>2
  <1>9. rcpts \in Nat  BY <1>1, NRcptAssumption DEF TypeOK
  <1> QED  BY <1>1, <1>2, <1>3, <1>4, <1>5, <1>6, <1>7, <1>8, <1>9

LEMMA ReadyIs220 == TlsReady.code = 220 /\ TlsReady.text = "2.0.0" /\ Banner220.code = 220
                    /\ Banner220 # TlsReady
PROOF BY DEF TlsReady, Banner220, R

(* Up to the reply to MAIL FROM only the lockstep is new.                  *)
LEMMA EarlyRead ==
    ASSUME NEW k, NEW rep, NEW a, GoesOn(k, rep, a),
           state \notin Late, state' \notin Late, Lockstep',
           \A i \in 1..Len(toServer') : toServer'[i] # "message",
           rep = TlsReady => state \notin {"GREETING", "HELO"} /\ a.cmds # <<>>,
           state' \in {"GREETING", "HELO"} => state \in {"GREETING", "HELO"},
           state' \notin {"GREETING", "HELO"} =>
                ~Ends(rep, a) /\ (state \notin {"GREETING", "HELO"} \/ a.cmds # <<>>)
    PROVE  OpenInv' /\ OverInv'
PROOF
  <1>0. Answered(rep, a)  BY DEF GoesOn
  <1>1. /\ TypeOK /\ Alive /\ ~Ended /\ reactor = "idle" /\ server # "none"
        /\ Lockstep /\ Reachable /\ Pipeline /\ DataMode
        /\ client' = client /\ rcpts' = rcpts /\ misread' = misread
    BY Now
  <1>2. server' = server \/ server' = "helo"
    <2>1. CASE rep = TlsReady
      <3>1. a.cmds # <<>>  BY <2>1
      <3>2. ssl' = "up"  BY <1>0, <2>1, <3>1 DEF Answered
      <3> QED  BY <1>0, <2>1, <3>2 DEF Answered
    <2>2. CASE rep # TlsReady  BY <1>0, <2>2 DEF Answered
    <2> QED  BY <2>1, <2>2
  <1>3. reactor' \in {"idle", "ending"}  BY <1>0 DEF Answered
  <1>4. Alive' /\ ~Ended'  BY <1>1, <1>2, <1>3 DEF Alive, Ended
  <1>5. state \in {"GREETING", "HELO"} => ssl' # "up"
    BY <1>0, <1>1 DEF Answered, Reachable, tlsVars
  <1>6. client => available  BY <1>1 DEF Reachable
  <1>7. state' \notin {"GREETING", "HELO"} => reactor' = "idle" /\ client' /\ available'
    <2> SUFFICES ASSUME state' \notin {"GREETING", "HELO"}
                 PROVE  reactor' = "idle" /\ client' /\ available'
      OBVIOUS
    <2>1. reactor' = "idle" /\ available' = available  BY <1>0 DEF Answered
    <2>2. client
      <3>1. CASE state \notin {"GREETING", "HELO"}  BY <1>1, <3>1 DEF Reachable
      <3>2. CASE state \in {"GREETING", "HELO"}
        <4>1. a.cmds # <<>> /\ rep # TlsReady /\ ssl' # "up"  BY <1>5, <3>2
        <4> QED  BY <1>0, <4>1 DEF Answered
      <3> QED  BY <3>1, <3>2
    <2> QED  BY <1>1, <1>6, <2>1, <2>2
  <1>8. reactor' = "idle" /\ client' => available'
    <2>1. CASE Ends(rep, a)
      <3>1. reactor' = "ending"  BY <1>0, <2>1 DEF Answered
      <3> QED  BY <3>1
    <2>2. CASE ~Ends(rep, a)
      <3>1. available' = available  BY <1>0, <2>2 DEF Answered
      <3> QED  BY <1>1, <1>6, <3>1, Zenon
    <2> QED  BY <2>1, <2>2
  <1>9. Reachable'  BY <1>3, <1>5, <1>7, <1>8 DEF Reachable
  <1>10. Pipeline'
    <2>1. rcpts' = 0 /\ server' # "data"  BY <1>1, <1>2 DEF Pipeline, Late
    <2> QED  BY <2>1 DEF Pipeline, Late
  <1>11. DataMode'
    <2>1. server' # "data" /\ state' # "BODY"  BY <1>1, <1>2 DEF Pipeline, Late
    <2>2. ~misread'  BY <1>1 DEF DataMode, Late
    <2> QED  BY <2>1, <2>2 DEF DataMode
  <1>12. server' # "none"  BY <1>1, <1>2
  <1> QED  BY <1>4, <1>9, <1>10, <1>11 DEF OpenInv, OverInv

LEMMA GreetingRead ==
    ASSUME NEW k, NEW rep, NEW a, GoesOn(k, rep, a), state = "GREETING"
    PROVE  OpenInv' /\ OverInv'
PROOF
  <1>0. Answered(rep, a) /\ Reads(k)  BY DEF GoesOn
  <1>1. /\ TypeOK /\ Lockstep /\ toClient # <<>>
        /\ \E i \in 1..Len(toClient) : rep = toClient[i]
    BY Now
  <1>2. /\ toServer = <<>> /\ server = "ready"
        /\ \A i \in 1..Len(toClient) : toClient[i] = Banner220
    BY <1>1 DEF Lockstep, InGreeting
  <1>3. rep = Banner220 /\ rep # TlsReady /\ rep.code = 220  BY <1>1, <1>2, ReadyIs220
  <1>4. a = Goto(<<"EHLO">>, "HELO")
    BY <1>3 DEF GoesOn, onRx, GREETING_onResponse
  <1>5. a.status = "GOTO_NEXT_STATE" /\ a.cmds = <<"EHLO">> /\ a.state = "HELO"
    BY <1>4 DEF Goto, Answer
  <1>6. state' = "HELO" /\ toServer' = <<"EHLO">> /\ server' = "ready"
    BY <1>0, <1>2, <1>3, <1>5 DEF Answered
  <1>7. \A i \in 1..Len(toClient') : toClient'[i] = Banner220
    BY <1>0, <1>1, <1>2, Rest
  <1>8. Lockstep'  BY <1>6, <1>7 DEF Lockstep, InHelo
  <1>9. \A i \in 1..Len(toServer') : toServer'[i] # "message"  BY <1>6
  <1>10. state \notin Late /\ state' \notin Late  BY <1>6 DEF Late
  <1> QED  BY <1>3, <1>6, <1>8, <1>9, <1>10, EarlyRead

LEMMA HeloRead ==
    ASSUME NEW k, NEW rep, NEW a, GoesOn(k, rep, a), state = "HELO"
    PROVE  OpenInv' /\ OverInv'
PROOF
  <1>0. Answered(rep, a) /\ Reads(k)  BY DEF GoesOn
  <1>1. /\ TypeOK /\ Lockstep /\ toClient # <<>>
        /\ \E i \in 1..Len(toClient) : rep = toClient[i]
    BY Now
  <1>2. /\ k \in 1..Len(toClient) /\ Len(toClient) \in Nat \ {0}
        /\ Len(toClient') = Len(toClient) - k
        /\ \A i \in 1..Len(toClient') :
              i + k \in 1..Len(toClient) /\ toClient'[i] = toClient[i + k]
        /\ toClient' \in Seq(Reply)
    BY <1>0, <1>1, Rest
  <1>3. InHelo  BY <1>1 DEF Lockstep
  <1>4. a = HELO_onResponse(rep, Chunk(k))  BY DEF GoesOn, onRx
  <1>5. rep \in {Banner220, Size, CanStartTls}  BY <1>1, <1>3 DEF InHelo
  <1>6. rep # TlsReady  BY <1>5 DEF Banner220, Size, CanStartTls, TlsReady, R
  <1>7. server' = server  BY <1>0, <1>6 DEF Answered
  <1>8. state \notin Late  BY DEF Late
  <1>9. ASSUME a.cmds = <<>>, a.status # "GOTO_NEXT_STATE"
        PROVE  OpenInv' /\ OverInv'
    <2>1. state' = "HELO" /\ toServer' = toServer \o <<>>
      BY <1>0, <1>9 DEF Answered
    <2>2. toServer' = toServer  BY <1>1, <2>1 DEF TypeOK
    <2>3. InHelo'
      <3>1. CASE /\ toServer = <<"EHLO">> /\ server = "ready"
                 /\ \A i \in 1..Len(toClient) : toClient[i] = Banner220
        BY <1>2, <1>7, <2>2, <3>1 DEF InHelo
      <3>2. CASE /\ toServer = <<>> /\ server = "helo"
                 /\ \A i \in 1..Len(toClient) :
                       \/ toClient[i] \in {Banner220, Size}
                       \/ toClient[i] = CanStartTls /\ i = Len(toClient)
        <4> HIDE DEF Banner220, Size, CanStartTls
        <4>1. ASSUME NEW i \in 1..Len(toClient')
              PROVE  \/ toClient'[i] \in {Banner220, Size}
                     \/ toClient'[i] = CanStartTls /\ i = Len(toClient')
          <5>1. i + k = Len(toClient) => i = Len(toClient')  BY <1>2
          <5> QED  BY <1>2, <3>2, <5>1
        <4> QED  BY <1>7, <2>2, <3>2, <4>1 DEF InHelo
      <3> QED  BY <1>3, <3>1, <3>2 DEF InHelo
    <2>4. server \notin {"none", "greet"}  BY <1>3 DEF InHelo
    <2>5. Lockstep'  BY <1>7, <2>1, <2>3, <2>4 DEF Lockstep
    <2>6. toServer' \in {<<>>, <<"EHLO">>}  BY <1>3, <2>2 DEF InHelo
    <2>7. \A i \in 1..Len(toServer') : toServer'[i] # "message"
      <3>1. CASE toServer' = <<>>  BY <3>1
      <3>2. CASE toServer' = <<"EHLO">>  BY <3>2
      <3> QED  BY <2>6, <3>1, <3>2
    <2>8. state' \notin Late  BY <2>1 DEF Late
    <2> QED  BY <1>6, <1>8, <2>1, <2>5, <2>7, <2>8, EarlyRead
  <1>10. CASE rep.code # 250
    <2>1. a = Ignore("HELO")  BY <1>4, <1>10 DEF HELO_onResponse
    <2> QED  BY <1>9, <2>1 DEF Ignore, Answer
  <1>11. CASE rep.code = 250 /\ ~\E r \in Chunk(k) : r.text = "STARTTLS"
    <2>1. a = Answer("TLS_NOT_SUPPORTED", <<>>, "HELO", stage)
      BY <1>4, <1>11 DEF HELO_onResponse
    <2> QED  BY <1>9, <2>1 DEF Answer
  <1>12. CASE rep.code = 250 /\ \E r \in Chunk(k) : r.text = "STARTTLS"
    <2>1. a = Goto(<<"STARTTLS">>, "MAIL")  BY <1>4, <1>12 DEF HELO_onResponse
    <2>2. /\ a.status = "GOTO_NEXT_STATE" /\ a.cmds = <<"STARTTLS">> /\ a.state = "MAIL"
          /\ a.stage = "AUTH_INIT"
      BY <2>1 DEF Goto, Answer
    <2>3. PICK i \in 1..k : toClient[i].text = "STARTTLS"  BY <1>12 DEF Chunk
    <2>4. i \in 1..Len(toClient)  BY <1>2
    <2>5. toClient[i] \notin {Banner220, Size}  BY <2>3 DEF Banner220, Size, R
    <2>6. toServer = <<>> /\ server = "helo" /\ i = Len(toClient)
      BY <1>3, <2>4, <2>5 DEF InHelo
    <2>7. Len(toClient') = 0  BY <1>2, <2>6
    <2>8. toClient' = <<>>  BY <1>2, <2>7
    <2>9. state' = "MAIL" /\ stage' = "AUTH_INIT" /\ toServer' = <<"STARTTLS">>
      BY <1>0, <2>2, <2>6 DEF Answered
    <2>10. Asked("STARTTLS")'  BY <2>8, <2>9 DEF Asked
    <2>11. Lockstep'  BY <1>7, <2>6, <2>9, <2>10 DEF Lockstep, InMail
    <2>12. \A n \in 1..Len(toServer') : toServer'[n] # "message"  BY <2>9
    <2>13. state' \notin Late /\ ~Ends(rep, a) /\ a.cmds # <<>>
      BY <2>2, <2>9 DEF Late, Ends
    <2> QED  BY <1>6, <1>8, <2>9, <2>11, <2>12, <2>13, EarlyRead
  <1> QED  BY <1>10, <1>11, <1>12

(* MAIL: the login, once TLS is up.                                        *)
LEMMA MailRead ==
    ASSUME NEW k, NEW rep, NEW a, GoesOn(k, rep, a), state = "MAIL"
    PROVE  OpenInv' /\ OverInv'
PROOF
  <1>0. Answered(rep, a)  BY DEF GoesOn
  <1>1. /\ TypeOK /\ Lockstep /\ toClient # <<>> /\ server # "none"
        /\ \A r : toClient = <<r>> => rep = r /\ toClient' = <<>>
    BY Now
  <1>2. InMail /\ server \notin {"none", "greet"}  BY <1>1 DEF Lockstep
  <1>3. \A c : ~Asked(c)  BY <1>1 DEF Asked
  <1>4. ~Quiet  BY <1>1 DEF Quiet
  <1>5. \A r : Told(r) => rep = r /\ toServer = <<>> /\ toClient' = <<>>
    BY <1>1 DEF Told
  <1>6. state \notin Late  BY DEF Late
  <1>7. a = IF rep.code = 535 THEN Ignore("MAIL") ELSE MAIL_onCommand(rep)
    BY DEF GoesOn, onRx, MAIL_onResponse
  (* What is left to show of each answer: one command and its state.       *)
  <1>8. ASSUME NEW c \in Command \ {"message"}, a.cmds = <<c>>, ~Ends(rep, a),
               state' \in {"MAIL", "RCPT"}, toServer = <<>>, toClient' = <<>>,
               Asked(c)' => (state' = "MAIL" => InMail') /\ (state' = "RCPT" => InRcpt')
        PROVE  OpenInv' /\ OverInv'
    <2>1. toServer' = <<c>>  BY <1>0, <1>8, OneReply DEF Answered
    <2>2. Asked(c)'  BY <1>8, <2>1 DEF Asked
    <2>3. server' \notin {"none", "greet"}  BY <1>0, <1>2 DEF Answered
    <2>4. Lockstep'  BY <1>8, <2>2, <2>3 DEF Lockstep
    <2>5. \A n \in 1..Len(toServer') : toServer'[n] # "message"  BY <1>8, <2>1
    <2>6. state' \notin Late /\ a.cmds # <<>>  BY <1>8 DEF Late
    <2> QED  BY <1>6, <1>8, <2>4, <2>5, <2>6, EarlyRead
  <1>9. ASSUME a.cmds = <<>>, ~Ends(rep, a), rep # TlsReady, state' = "MAIL",
               toServer = <<>>, toClient' = <<>>
        PROVE  OpenInv' /\ OverInv'
    <2>1. toServer' = <<>>  BY <1>0, <1>9 DEF Answered
    <2>2. Quiet'  BY <1>9, <2>1 DEF Quiet
    <2>3. server' \notin {"none", "greet"}  BY <1>0, <1>2 DEF Answered
    <2>4. stage' \in AuthSteps  BY <1>1, ReadTyped DEF GoesOn, TypeOK
    <2>5. Lockstep'  BY <1>9, <2>2, <2>3, <2>4 DEF Lockstep, InMail, AuthSteps
    <2>6. \A n \in 1..Len(toServer') : toServer'[n] # "message"  BY <2>1
    <2>7. state' \notin Late  BY <1>9 DEF Late
    <2> QED  BY <1>6, <1>9, <2>5, <2>6, <2>7, EarlyRead
  <1>10. CASE stage = "AUTH_INIT"
    <2>1. rep \in {R(454, "error"), R(250, "2.0.0"), TlsReady} /\ toServer = <<>> /\ toClient' = <<>>
      BY <1>2, <1>3, <1>4, <1>5, <1>10 DEF InMail
    <2>2. rep.code # 535  BY <2>1 DEF R, TlsReady
    <2>3. a = Remain(<<"AUTH LOGIN">>, "MAIL", "AUTH_USRNAME")
      BY <1>7, <1>10, <2>2 DEF MAIL_onCommand
    <2>4. /\ a.cmds = <<"AUTH LOGIN">> /\ a.status = "REMAIN_IN_SAME_STATE"
          /\ a.stage = "AUTH_USRNAME"
      BY <2>3 DEF Remain, Answer
    <2>5. ~Ends(rep, a) /\ state' = "MAIL" /\ stage' = "AUTH_USRNAME"
      BY <1>0, <2>4 DEF Ends, Answered
    <2>6. Asked("AUTH LOGIN")' => InMail'  BY <2>5 DEF InMail
    <2> QED  BY <1>8, <2>1, <2>4, <2>5, <2>6 DEF Command
  <1>11. CASE stage = "AUTH_USRNAME"
    <2>1. /\ \/ rep = R(530, "error")
             \/ rep = R(334, "Username:") /\ server = "user"
          /\ toServer = <<>> /\ toClient' = <<>>
      <3>1. /\ ~Asked("AUTH LOGIN")
            /\ \/ Quiet \/ Asked("AUTH LOGIN") \/ Told(R(530, "error"))
               \/ Told(R(334, "Username:")) /\ server = "user"
        BY <1>2, <1>3, <1>11 DEF InMail
      <3>2. CASE Told(R(530, "error"))
        <4>1. rep = R(530, "error") /\ toServer = <<>> /\ toClient' = <<>>  BY <1>5, <3>2
        <4> QED  BY <4>1
      <3>3. CASE Told(R(334, "Username:")) /\ server = "user"
        <4>1. rep = R(334, "Username:") /\ toServer = <<>> /\ toClient' = <<>>  BY <1>5, <3>3
        <4> QED  BY <3>3, <4>1
      <3> QED  BY <1>4, <3>1, <3>2, <3>3
    <2>2. rep.code # 535 /\ rep # TlsReady  BY <2>1 DEF R, TlsReady
    <2>3. CASE rep = R(530, "error")
      <3>1. a = Remain(<<>>, "MAIL", stage)
        BY <1>7, <1>11, <2>2, <2>3 DEF MAIL_onCommand, R
      <3>2. a.cmds = <<>> /\ a.status = "REMAIN_IN_SAME_STATE"
        BY <3>1 DEF Remain, Answer
      <3>3. ~Ends(rep, a) /\ state' = "MAIL"  BY <1>0, <3>2 DEF Ends, Answered
      <3> QED  BY <1>9, <2>1, <2>2, <3>2, <3>3
    <2>4. CASE rep = R(334, "Username:") /\ server = "user"
      <3>1. a = Remain(<<"username">>, "MAIL", "AUTH_PASSWORD")
        BY <1>7, <1>11, <2>2, <2>4 DEF MAIL_onCommand
      <3>2. a.cmds = <<"username">> /\ a.status = "REMAIN_IN_SAME_STATE"
            /\ a.stage = "AUTH_PASSWORD"
        BY <3>1 DEF Remain, Answer
      <3>3. ~Ends(rep, a) /\ state' = "MAIL" /\ stage' = "AUTH_PASSWORD" /\ server' = "user"
        BY <1>0, <2>2, <2>4, <3>2 DEF Ends, Answered
      <3>4. Asked("username")' => InMail'  BY <3>3 DEF InMail
      <3> QED  BY <1>8, <2>1, <3>2, <3>3, <3>4 DEF Command
    <2> QED  BY <2>1, <2>3, <2>4
  <1>12. CASE stage = "AUTH_PASSWORD"
    <2>1. /\ rep = R(334, "Password:") /\ server = "pass"
          /\ toServer = <<>> /\ toClient' = <<>>
      BY <1>2, <1>3, <1>4, <1>5, <1>12 DEF InMail
    <2>2. rep.code # 535 /\ rep # TlsReady  BY <2>1 DEF R, TlsReady
    <2>3. a = Remain(<<"password">>, "MAIL", "AUTH_SUCCESS")
      BY <1>7, <1>12, <2>1, <2>2 DEF MAIL_onCommand
    <2>4. a.cmds = <<"password">> /\ a.status = "REMAIN_IN_SAME_STATE"
          /\ a.stage = "AUTH_SUCCESS"
      BY <2>3 DEF Remain, Answer
    <2>5. ~Ends(rep, a) /\ state' = "MAIL" /\ stage' = "AUTH_SUCCESS" /\ server' = "pass"
      BY <1>0, <2>1, <2>2, <2>4 DEF Ends, Answered
    <2>6. Asked("password")' => InMail'  BY <2>5 DEF InMail
    <2> QED  BY <1>8, <2>1, <2>4, <2>5, <2>6 DEF Command
  <1>13. CASE stage = "AUTH_SUCCESS"
    <2>1. /\ rep \in {R(235, "2.7.0"), R(535, "error"), R(454, "error")}
          /\ toServer = <<>> /\ toClient' = <<>>
      BY <1>2, <1>3, <1>4, <1>5, <1>13 DEF InMail
    <2>2. CASE rep = R(235, "2.7.0")
      <3>0. rep.code # 535  BY <2>2 DEF R
      <3>1. a = Goto(<<"MAIL FROM">>, "RCPT")
        BY <1>7, <1>13, <2>2, <3>0 DEF MAIL_onCommand
      <3>2. a.cmds = <<"MAIL FROM">> /\ a.status = "GOTO_NEXT_STATE" /\ a.state = "RCPT"
        BY <3>1 DEF Goto, Answer
      <3>3. ~Ends(rep, a) /\ state' = "RCPT"  BY <1>0, <3>2 DEF Ends, Answered
      <3>4. Asked("MAIL FROM")' => InRcpt'  BY DEF InRcpt
      <3> QED  BY <1>8, <2>1, <3>2, <3>3, <3>4 DEF Command
    <2>3. CASE rep = R(535, "error")
      <3>1. a = Ignore("MAIL")  BY <1>7, <2>3 DEF R
      <3>2. a.cmds = <<>> /\ a.status = "OK"  BY <3>1 DEF Ignore, Answer
      <3>3. rep.code # 220 /\ rep # TlsReady  BY <2>3 DEF R, TlsReady
      <3>4. ~Ends(rep, a) /\ state' = "MAIL"  BY <1>0, <3>2, <3>3 DEF Ends, Answered
      <3> QED  BY <1>9, <2>1, <3>2, <3>3, <3>4
    <2>4. CASE rep = R(454, "error")
      <3>1. rep.code = 454 /\ rep # R(235, "2.7.0")  BY <2>4 DEF R
      <3>2. a = Answer("INCORRECT_LOGIN_CREDENTIALS", <<"RSET">>, "MAIL", "AUTH_INIT")
        BY <1>7, <1>13, <3>1 DEF MAIL_onCommand
      <3>3. a.cmds = <<"RSET">> /\ a.status = "INCORRECT_LOGIN_CREDENTIALS" /\ a.stage = "AUTH_INIT"
        BY <3>2 DEF Answer
      <3>4. ~Ends(rep, a) /\ state' = "MAIL" /\ stage' = "AUTH_INIT"
        BY <1>0, <3>1, <3>3 DEF Ends, Answered
      <3>5. Asked("RSET")' => InMail'  BY <3>4 DEF InMail
      <3> QED  BY <1>8, <2>1, <3>3, <3>4, <3>5 DEF Command
    <2> QED  BY <2>1, <2>2, <2>3, <2>4
  <1> QED  BY <1>1, <1>10, <1>11, <1>12, <1>13 DEF TypeOK, AuthSteps

-----------------------------------------------------------------------------
(* The client reads replies to pipelined commands.                         *)

(* RCPT: one RCPT TO for each recipient.                                   *)
LEMMA RcptRead ==
    ASSUME NEW k, NEW rep, NEW a, GoesOn(k, rep, a), state = "RCPT"
    PROVE  OpenInv' /\ OverInv'
PROOF
  <1>0. Answered(rep, a)  BY DEF GoesOn
  <1>1. /\ TypeOK /\ Alive /\ ~Ended /\ reactor = "idle" /\ server # "none"
        /\ Lockstep /\ Reachable /\ Pipeline /\ DataMode /\ toClient # <<>>
        /\ client' = client /\ rcpts' = rcpts /\ misread' = misread
        /\ \A r : toClient = <<r>> => rep = r /\ toClient' = <<>>
    BY Now
  <1>2. rep \in {R(250, "2.1.0"), R(530, "error")} /\ toServer = <<>> /\ toClient' = <<>>
    BY <1>1, ZenonT(60) DEF Lockstep, InRcpt, Quiet, Asked, Told
  <1>3. rep # TlsReady /\ rep.code # 535 /\ rep.code # 220
        /\ ~(rep.code = 250 /\ rep.text # "2.1.0")
    BY <1>2 DEF TlsReady, R
  <1> DEFINE all == [i \in 1..NRcpt |-> "RCPT TO"]
  <1>4. a = Goto(all, "DATA")  BY <1>3 DEF GoesOn, onRx, RCPT_onResponse
  <1>5. NRcpt \in Nat  BY NRcptAssumption
  <1>a. all \in Seq(Command)  BY <1>5 DEF Command
  <1>b. Len(all) = NRcpt  BY <1>5
  <1>6. all \in Seq(Command) /\ Len(all) = NRcpt  BY <1>a, <1>b
  <1>7. \A i \in 1..NRcpt : all[i] = "RCPT TO"  OBVIOUS
  <1> HIDE DEF all
  <1>8. a.cmds = all /\ a.status = "GOTO_NEXT_STATE" /\ a.state = "DATA"
    BY <1>4 DEF Goto, Answer
  <1>9. toServer' = all
    <2>1. <<>> \o all = all  BY <1>6
    <2> QED  BY <1>0, <1>2, <1>8, <2>1 DEF Answered
  <1>10. state' = "DATA" /\ server' = server /\ reactor' = "idle" /\ available' = available
    BY <1>0, <1>3, <1>8 DEF Answered, Ends
  <1>11. client /\ available  BY <1>1 DEF Reachable
  <1>12. Alive' /\ ~Ended'  BY <1>1, <1>10 DEF Alive, Ended
  <1>13. server \notin {"none", "greet", "data"}  BY <1>1 DEF Lockstep, Pipeline
  <1>14. Lockstep'  BY <1>10, <1>13 DEF Lockstep
  <1>15. Reachable'  BY <1>1, <1>10, <1>11, Zenon DEF Reachable
  <1>16. Sent' \subseteq {"RCPT TO"}
    <2>1. \A i \in 1..Len(toServer') : toServer'[i] = "RCPT TO"  BY <1>6, <1>7, <1>9
    <2> QED  BY <2>1 DEF Sent
  <1>17. rcpts = 0 /\ rcpts' = 0  BY <1>1 DEF Pipeline, Late
  <1>18. Ordered'
    <2>1. \A i \in 1..Len(toServer') : toServer'[i] = "RCPT TO"  BY <1>6, <1>7, <1>9
    <2>2. \A i, j \in 1..Len(toServer') : i < j => Follows(toServer'[i], toServer'[j])
      BY <2>1 DEF Follows
    <2>3. \A i \in 1..Len(toServer') : i + rcpts' <= NRcpt
      <3>1. \A i \in 1..NRcpt : i + 0 <= NRcpt  BY <1>5
      <3> QED  BY <1>6, <1>9, <1>17, <3>1
    <2> QED  BY <2>2, <2>3 DEF Ordered
  <1>19. Pipeline'
    <2>1. \A i \in 1..Len(toClient') : toClient'[i].code # 220
      <3>1. Len(toClient') = 0  BY <1>2
      <3> QED  BY <3>1
    <2>2. state' \in Late /\ server' # "data"  BY <1>10, <1>13 DEF Late
    <2> QED  BY <1>10, <1>16, <1>18, <2>1, <2>2, Zenon DEF Pipeline
  <1>20. DataMode'
    <2>1. \A i \in 1..Len(toServer') : toServer'[i] # "message"  BY <1>16 DEF Sent
    <2>2. ~misread'  BY <1>1 DEF DataMode
    <2> QED  BY <1>10, <1>13, <2>1, <2>2 DEF DataMode
  <1> QED  BY <1>12, <1>14, <1>15, <1>19, <1>20 DEF OpenInv, OverInv

(* In the later states a reply only adds to the queue.                     *)
LEMMA LateRead ==
    ASSUME NEW k, NEW rep, NEW a, GoesOn(k, rep, a), state \in Late
    PROVE  /\ TypeOK /\ Pipeline /\ DataMode /\ Ordered /\ Sent \subseteq LateCommand
           /\ rcpts' = rcpts /\ misread' = misread /\ rep.code # 220
           /\ state' = (IF a.status = "GOTO_NEXT_STATE" THEN a.state ELSE state)
           /\ toServer' = toServer \o a.cmds /\ server' = server
           /\ state' \in Late /\ Pipeline' /\ DataMode' => OpenInv' /\ OverInv'
           /\ \A i \in 1..Len(toClient') : toClient'[i].code # 220
PROOF
  <1>0. Answered(rep, a)  BY DEF GoesOn
  <1>1. /\ TypeOK /\ Alive /\ ~Ended /\ reactor = "idle" /\ server # "none"
        /\ Lockstep /\ Reachable /\ Pipeline /\ DataMode
        /\ client' = client /\ rcpts' = rcpts /\ misread' = misread
        /\ \E i \in 1..Len(toClient) : rep = toClient[i]
    BY Now
  <1>2. \A i \in 1..Len(toClient) : toClient[i].code # 220
    BY <1>1 DEF Pipeline
  <1>3. rep.code # 220 /\ rep # TlsReady  BY <1>1, <1>2, ReadyIs220
  <1>4. ~Ends(rep, a)  BY <1>3 DEF Ends
  <1>5. /\ state' = (IF a.status = "GOTO_NEXT_STATE" THEN a.state ELSE state)
        /\ toServer' = toServer \o a.cmds /\ server' = server
        /\ available' = available /\ reactor' = "idle"
    BY <1>0, <1>3, <1>4 DEF Answered
  <1>6. Ordered  BY <1>1 DEF Pipeline
  <1>7. Sent \subseteq LateCommand  BY <1>1, Vocabulary
  <1>8. \A i \in 1..Len(toClient') : toClient'[i].code # 220
    <2>1. TypeOK /\ Reads(k)  BY <1>1 DEF GoesOn
    <2>2. \A i \in 1..Len(toClient') :
             i + k \in 1..Len(toClient) /\ toClient'[i] = toClient[i + k]
      BY <2>1, Rest
    <2> QED  BY <1>2, <2>2
  <1>9. ASSUME state' \in Late, Pipeline', DataMode' PROVE OpenInv' /\ OverInv'
    <2>1. Alive' /\ ~Ended'  BY <1>1, <1>5 DEF Alive, Ended
    <2>2. client /\ available  BY <1>1 DEF Reachable, Late
    <2>3. Reachable'
      <3>1. state' \notin {"GREETING", "HELO"}  BY <1>9 DEF Late
      <3> QED  BY <1>1, <1>5, <2>2, <3>1, Zenon DEF Reachable
    <2>4. server \notin {"none", "greet"}  BY <1>1 DEF Lockstep, Late
    <2>5. Lockstep'  BY <1>5, <1>9, <2>4 DEF Lockstep, Late
    <2> QED  BY <1>9, <2>1, <2>3, <2>5 DEF OpenInv, OverInv
  <1> QED  BY <1>1, <1>3, <1>5, <1>6, <1>7, <1>8, <1>9

LEMMA SameQueue ==
    ASSUME NEW k, NEW rep, NEW a, GoesOn(k, rep, a), state \in Late,
           a.cmds = <<>>, a.status # "GOTO_NEXT_STATE"
    PROVE  OpenInv' /\ OverInv'
PROOF
  <1>1. /\ TypeOK /\ Pipeline /\ DataMode /\ Ordered
        /\ rcpts' = rcpts /\ misread' = misread /\ state' = state /\ server' = server
        /\ toServer' = toServer \o <<>>
        /\ state' \in Late /\ Pipeline' /\ DataMode' => OpenInv' /\ OverInv'
        /\ \A i \in 1..Len(toClient') : toClient'[i].code # 220
    <2>a. TypeOK /\ Pipeline /\ DataMode /\ Ordered  BY LateRead
    <2>b. rcpts' = rcpts /\ misread' = misread /\ server' = server  BY LateRead
    <2>c. state' \in Late /\ Pipeline' /\ DataMode' => OpenInv' /\ OverInv'  BY LateRead
    <2>d. \A i \in 1..Len(toClient') : toClient'[i].code # 220  BY LateRead
    <2>2. state' = state  BY LateRead
    <2>3. toServer' = toServer \o <<>>
      <3>1. toServer' = toServer \o a.cmds  BY LateRead
      <3> QED  BY <3>1
    <2> QED  BY <2>a, <2>b, <2>c, <2>d, <2>2, <2>3, Zenon
  <1>2. toServer' = toServer  BY <1>1 DEF TypeOK
  <1>3. Sent' = Sent  BY <1>2 DEF Sent
  <1>4. Ordered'  BY <1>1, <1>2 DEF Ordered
  <1>5. Pipeline'  BY <1>1, <1>3, <1>4 DEF Pipeline
  <1>6. DataMode'  BY <1>1, <1>2, <1>3, ZenonT(60) DEF DataMode, NoRecipient
  <1> QED  BY <1>1, <1>5, <1>6

LEMMA AppendOne ==
    ASSUME NEW S, NEW s \in Seq(S), NEW c \in S
    PROVE  LET t == s \o <<c>>
           IN  /\ Len(s) \in Nat /\ Len(t) = Len(s) + 1 /\ t[Len(t)] = c
               /\ \A i \in 1..Len(s) : t[i] = s[i] /\ i \in 1..Len(t) /\ i < Len(t)
               /\ \A i \in 1..Len(t) : i \in 1..Len(s) \/ i = Len(t)
               /\ Len(t) \in 1..Len(t)
               /\ \A i, j \in 1..Len(t) : i < j => i \in 1..Len(s)
PROOF
  <1> DEFINE t == s \o <<c>>
  <1>1. <<c>> \in Seq(S) /\ Len(<<c>>) = 1 /\ <<c>>[1] = c  OBVIOUS
  <1>2. /\ Len(s) \in Nat /\ Len(t) = Len(s) + 1
        /\ \A i \in 1..Len(s) + 1 :
              t[i] = IF i <= Len(s) THEN s[i] ELSE <<c>>[i - Len(s)]
    BY <1>1, ConcatProperties
  <1> HIDE DEF t
  <1>3. t[Len(t)] = c
    <2>1. Len(t) \in 1..Len(s) + 1 /\ ~(Len(t) <= Len(s)) /\ Len(t) - Len(s) = 1
      BY <1>2
    <2> QED  BY <1>1, <1>2, <2>1
  <1>4. /\ Len(s) \in Nat /\ Len(t) = Len(s) + 1 /\ t[Len(t)] = c
        /\ \A i \in 1..Len(s) : t[i] = s[i] /\ i \in 1..Len(t) /\ i < Len(t)
        /\ \A i \in 1..Len(t) : i \in 1..Len(s) \/ i = Len(t)
        /\ Len(t) \in 1..Len(t)
        /\ \A i, j \in 1..Len(t) : i < j => i \in 1..Len(s)
    BY <1>2, <1>3
  <1> QED  BY <1>4 DEF t

LEMMA Appended ==
    ASSUME TypeOK, Ordered, rcpts' = rcpts, NEW c \in Command, c # "RCPT TO",
           toServer' = toServer \o <<c>>, \A d \in Sent : Follows(d, c)
    PROVE  /\ Ordered' /\ Sent' = Sent \cup {c}
           /\ Len(toServer) \in Nat /\ Len(toServer') = Len(toServer) + 1
           /\ toServer'[Len(toServer')] = c
           /\ \A i \in 1..Len(toServer) :
                 toServer'[i] = toServer[i] /\ i \in 1..Len(toServer') /\ i < Len(toServer')
           /\ \A i \in 1..Len(toServer') : i \in 1..Len(toServer) \/ i = Len(toServer')
PROOF
  <1>1. toServer \in Seq(Command)  BY DEF TypeOK
  <1>2. /\ Len(toServer) \in Nat /\ Len(toServer') = Len(toServer) + 1
        /\ toServer'[Len(toServer')] = c
        /\ \A i \in 1..Len(toServer) :
              toServer'[i] = toServer[i] /\ i \in 1..Len(toServer') /\ i < Len(toServer')
        /\ \A i \in 1..Len(toServer') : i \in 1..Len(toServer) \/ i = Len(toServer')
        /\ Len(toServer') \in 1..Len(toServer')
        /\ \A i, j \in 1..Len(toServer') : i < j => i \in 1..Len(toServer)
    <2> DEFINE t == toServer \o <<c>>
    <2>1. /\ Len(toServer) \in Nat /\ Len(t) = Len(toServer) + 1 /\ t[Len(t)] = c
          /\ \A i \in 1..Len(toServer) : t[i] = toServer[i] /\ i \in 1..Len(t) /\ i < Len(t)
          /\ \A i \in 1..Len(t) : i \in 1..Len(toServer) \/ i = Len(t)
          /\ Len(t) \in 1..Len(t)
          /\ \A i, j \in 1..Len(t) : i < j => i \in 1..Len(toServer)
      BY <1>1, AppendOne, Zenon
    <2>2. toServer' = t  OBVIOUS
    <2> HIDE DEF t
    <2> QED  BY <2>1, <2>2, Zenon
  <1>3. \A i \in 1..Len(toServer) : toServer'[i] = toServer[i]  BY <1>2
  <1>4. toServer'[Len(toServer')] = c  BY <1>2
  <1>5. \A i \in 1..Len(toServer') : i \in 1..Len(toServer) \/ i = Len(toServer')
    BY <1>2
  <1>6. \A i \in 1..Len(toServer) : i \in 1..Len(toServer')  BY <1>2
  <1>7. Sent' = Sent \cup {c}
    BY <1>2, <1>3, <1>4, <1>5, <1>6, Zenon DEF Sent
  <1>8. Ordered'
    <2>1. ASSUME NEW i \in 1..Len(toServer'), NEW j \in 1..Len(toServer'), i < j
          PROVE  Follows(toServer'[i], toServer'[j])
      <3>1. i \in 1..Len(toServer)  BY <1>2, <2>1
      <3>2. CASE j \in 1..Len(toServer)
        BY <1>3, <2>1, <3>1, <3>2 DEF Ordered
      <3>3. CASE j = Len(toServer')
        <4>1. toServer[i] \in Sent  BY <3>1 DEF Sent
        <4> QED  BY <1>3, <1>4, <3>1, <3>3, <4>1
      <3> QED  BY <1>5, <3>2, <3>3
    <2>2. ASSUME NEW i \in 1..Len(toServer'), toServer'[i] = "RCPT TO"
          PROVE  i + rcpts' <= NRcpt
      <3>1. i # Len(toServer')  BY <1>4, <2>2
      <3>2. i \in 1..Len(toServer)  BY <1>5, <3>1
      <3>3. toServer[i] = "RCPT TO"  BY <1>3, <2>2, <3>2
      <3> QED  BY <3>2, <3>3 DEF Ordered
    <2> QED  BY <2>1, <2>2 DEF Ordered
  <1> QED  BY <1>2, <1>3, <1>4, <1>7, <1>8

(* One more command in the queue.                                          *)
LEMMA OneMore ==
    ASSUME NEW k, NEW rep, NEW a, GoesOn(k, rep, a), state \in Late,
           NEW c \in LateCommand \ {"RCPT TO"}, a.cmds = <<c>>, \A d \in Sent : Follows(d, c)
    PROVE  /\ Pipeline /\ DataMode /\ Sent \subseteq LateCommand
           /\ rcpts' = rcpts /\ misread' = misread /\ server' = server
           /\ Ordered' /\ Sent' = Sent \cup {c}
           /\ toServer'[Len(toServer')] = c
           /\ \A i \in 1..Len(toServer) :
                 toServer'[i] = toServer[i] /\ i \in 1..Len(toServer') /\ i < Len(toServer')
           /\ \A i \in 1..Len(toServer') : i \in 1..Len(toServer) \/ i = Len(toServer')
           /\ (/\ state' \in Late /\ DataMode'
               /\ state' = "DATA" => Sent' \subseteq {"RCPT TO"}
               /\ state' = "BODY" => Sent' \subseteq {"RCPT TO", "DATA"}
               /\ state' \notin {"BODY", "QUIT"} => server' # "data")
              => OpenInv' /\ OverInv'
PROOF
  <1>1. TypeOK /\ Pipeline /\ DataMode /\ Ordered /\ Sent \subseteq LateCommand  BY LateRead
  <1>2. rcpts' = rcpts /\ misread' = misread /\ server' = server  BY LateRead
  <1>3. state' \in Late /\ Pipeline' /\ DataMode' => OpenInv' /\ OverInv'  BY LateRead
  <1>4. \A i \in 1..Len(toClient') : toClient'[i].code # 220  BY LateRead
  <1>5. toServer' = toServer \o <<c>>
    <2>1. toServer' = toServer \o a.cmds  BY LateRead
    <2> QED  BY <2>1
  <1>c. c \in Command /\ c # "RCPT TO"  BY DEF LateCommand, Command
  <1>6. Ordered' /\ Sent' = Sent \cup {c}  BY <1>1, <1>2, <1>5, <1>c, Appended
  <1>7. toServer'[Len(toServer')] = c  BY <1>1, <1>2, <1>5, <1>c, Appended
  <1>8. \A i \in 1..Len(toServer) :
            toServer'[i] = toServer[i] /\ i \in 1..Len(toServer') /\ i < Len(toServer')
    BY <1>1, <1>2, <1>5, <1>c, Appended
  <1>9. \A i \in 1..Len(toServer') : i \in 1..Len(toServer) \/ i = Len(toServer')
    BY <1>1, <1>2, <1>5, <1>c, Appended
  <1>10. ASSUME state' \in Late, DataMode',
                state' = "DATA" => Sent' \subseteq {"RCPT TO"},
                state' = "BODY" => Sent' \subseteq {"RCPT TO", "DATA"},
                state' \notin {"BODY", "QUIT"} => server' # "data"
         PROVE  OpenInv' /\ OverInv'
    <2>2. state' = "QUIT" => Sent' \subseteq {"RCPT TO", "DATA", "message", "QUIT"}
      BY <1>1, <1>6 DEF LateCommand
    <2>3. Pipeline'
      BY <1>4, <1>6, <1>10, <2>2, Zenon DEF Pipeline
    <2> QED  BY <1>3, <1>10, <2>3
  <1> QED  BY <1>1, <1>2, <1>6, <1>7, <1>8, <1>9, <1>10

LEMMA DataRead ==
    ASSUME NEW k, NEW rep, NEW a, GoesOn(k, rep, a), state = "DATA"
    PROVE  OpenInv' /\ OverInv'
PROOF
  <1>1. state \in Late  BY DEF Late
  <1>2. a = IF rep.code = 535 THEN Ignore("DATA") ELSE Goto(<<"DATA">>, "BODY")
    BY DEF GoesOn, onRx, DATA_onResponse
  <1>3. CASE rep.code = 535
    <2>1. a.cmds = <<>> /\ a.status = "OK"  BY <1>2, <1>3 DEF Ignore, Answer
    <2> QED  BY <1>1, <2>1, SameQueue
  <1>4. CASE rep.code # 535
    <2> DEFINE c == "DATA"
    <2>1. a.cmds = <<c>> /\ a.status = "GOTO_NEXT_STATE" /\ a.state = "BODY"
      BY <1>2, <1>4 DEF Goto, Answer
    <2>2. state' = "BODY"
      <3>1. state' = (IF a.status = "GOTO_NEXT_STATE" THEN a.state ELSE state)
        BY <1>1, LateRead
      <3> QED  BY <2>1, <3>1
    <2>3. Pipeline /\ DataMode  BY <1>1, LateRead
    <2>4. Sent \subseteq {"RCPT TO"} /\ server # "data" /\ ~misread
      BY <2>3 DEF Pipeline, DataMode
    <2>5. \A d \in Sent : Follows(d, c)  BY <2>4 DEF Follows
    <2>6. c \in LateCommand \ {"RCPT TO"}  BY DEF LateCommand
    <2> HIDE DEF c
    <2>7. Sent' = Sent \cup {c} /\ server' = server /\ misread' = misread
      BY <1>1, <2>1, <2>5, <2>6, OneMore
    <2>8. DataMode'
      <3>1. \A i \in 1..Len(toServer') : toServer'[i] # "message"
        BY <2>4, <2>7 DEF Sent, c
      <3> QED  BY <2>2, <2>4, <2>7, <3>1 DEF DataMode, c
    <2>9. Sent' \subseteq {"RCPT TO", "DATA"} /\ state' \in Late
      BY <2>2, <2>4, <2>7 DEF c, Late
    <2> QED  BY <1>1, <2>1, <2>2, <2>5, <2>6, <2>8, <2>9, OneMore
  <1> QED  BY <1>3, <1>4

LEMMA BodyRead ==
    ASSUME NEW k, NEW rep, NEW a, GoesOn(k, rep, a), state = "BODY"
    PROVE  OpenInv' /\ OverInv'
PROOF
  <1>1. state \in Late  BY DEF Late
  <1>2. a = IF rep.code = 535 THEN Ignore("BODY") ELSE Goto(<<"message">>, "QUIT")
    BY DEF GoesOn, onRx, BODY_onResponse
  <1>3. CASE rep.code = 535
    <2>1. a.cmds = <<>> /\ a.status = "OK"  BY <1>2, <1>3 DEF Ignore, Answer
    <2> QED  BY <1>1, <2>1, SameQueue
  <1>4. CASE rep.code # 535
    <2> DEFINE c == "message"
    <2>1. a.cmds = <<c>> /\ a.status = "GOTO_NEXT_STATE" /\ a.state = "QUIT"
      BY <1>2, <1>4 DEF Goto, Answer
    <2>2. state' = "QUIT"
      <3>1. state' = (IF a.status = "GOTO_NEXT_STATE" THEN a.state ELSE state)
        BY <1>1, LateRead
      <3> QED  BY <2>1, <3>1
    <2>3. Pipeline /\ DataMode  BY <1>1, LateRead
    <2>4. Sent \subseteq {"RCPT TO", "DATA"} /\ ~misread
      BY <2>3 DEF Pipeline, DataMode
    <2>5. \A d \in Sent : Follows(d, c)  BY <2>4 DEF Follows
    <2>6. c \in LateCommand \ {"RCPT TO"}  BY DEF LateCommand
    <2> HIDE DEF c
    <2>7. Sent' = Sent \cup {c} /\ server' = server /\ misread' = misread /\ rcpts' = rcpts
      BY <1>1, <2>1, <2>5, <2>6, OneMore
    <2>8. \A i \in 1..Len(toServer) :
             toServer'[i] = toServer[i] /\ i \in 1..Len(toServer') /\ i < Len(toServer')
      BY <1>1, <2>1, <2>5, <2>6, OneMore
    <2>9. \A i \in 1..Len(toServer') : i \in 1..Len(toServer) \/ i = Len(toServer')
      BY <1>1, <2>1, <2>5, <2>6, OneMore
    <2>10. DataMode'
      <3>1. server' = "data" => Sent' \subseteq {"message", "QUIT"}
        BY <2>3, <2>7 DEF DataMode, c
      <3>2. ASSUME NEW i \in 1..Len(toServer'), toServer'[i] = "message"
            PROVE  \/ server' = "data"
                   \/ \E j \in 1..Len(toServer') : j < i /\ toServer'[j] = "DATA"
                   \/ NoRecipient'
        <4>1. i \notin 1..Len(toServer)
          <5>1. ASSUME i \in 1..Len(toServer) PROVE "message" \in Sent
            BY <2>8, <3>2, <5>1 DEF Sent
          <5> QED  BY <2>4, <5>1
        <4>2. i = Len(toServer')  BY <2>9, <4>1
        <4>3. CASE server = "data"  BY <2>7, <4>3
        <4>4. CASE "DATA" \in Sent
          <5>1. PICK j \in 1..Len(toServer) : toServer[j] = "DATA"  BY <4>4 DEF Sent
          <5> QED  BY <2>8, <4>2, <5>1
        <4>5. CASE NoRecipient
          <5>1. NoRecipient'  BY <2>7, <4>5 DEF NoRecipient, c
          <5> QED  BY <5>1
        <4> QED  BY <2>3, <4>3, <4>4, <4>5 DEF DataMode
      <3> QED  BY <2>2, <2>4, <2>7, <3>1, <3>2 DEF DataMode
    <2>11. state' \in Late  BY <2>2 DEF Late
    <2> QED  BY <1>1, <2>1, <2>2, <2>5, <2>6, <2>10, <2>11, OneMore
  <1> QED  BY <1>3, <1>4

LEMMA QuitRead ==
    ASSUME NEW k, NEW rep, NEW a, GoesOn(k, rep, a), state = "QUIT"
    PROVE  OpenInv' /\ OverInv'
PROOF
  <1>1. state \in Late  BY DEF Late
  <1>2. a = QUIT_onResponse(rep)  BY DEF GoesOn, onRx
  <1>3. \/ a = Ignore("QUIT") \/ a = Remain(<<>>, "QUIT", stage)
        \/ a = Remain(<<"QUIT">>, "QUIT", stage)
    BY <1>2, Zenon DEF QUIT_onResponse
  <1>4. CASE a = Ignore("QUIT")
    <2>1. a.cmds = <<>> /\ a.status = "OK"  BY <1>4 DEF Ignore, Answer
    <2> QED  BY <1>1, <2>1, SameQueue
  <1>5. CASE a = Remain(<<>>, "QUIT", stage)
    <2>1. a.cmds = <<>> /\ a.status = "REMAIN_IN_SAME_STATE"  BY <1>5 DEF Remain, Answer
    <2> QED  BY <1>1, <2>1, SameQueue
  <1>6. CASE a = Remain(<<"QUIT">>, "QUIT", stage)
    <2> DEFINE c == "QUIT"
    <2>1. a.cmds = <<c>> /\ a.status = "REMAIN_IN_SAME_STATE"
      BY <1>6 DEF Remain, Answer
    <2>2. state' = "QUIT"
      <3>1. state' = (IF a.status = "GOTO_NEXT_STATE" THEN a.state ELSE state)
        BY <1>1, LateRead
      <3> QED  BY <2>1, <3>1
    <2>3. DataMode  BY <1>1, LateRead
    <2>4. \A d \in Sent : Follows(d, c)  BY DEF Follows
    <2>5. c \in LateCommand \ {"RCPT TO"} /\ c # "message"  BY DEF LateCommand
    <2> HIDE DEF c
    <2>6. Sent' = Sent \cup {c} /\ server' = server /\ misread' = misread /\ rcpts' = rcpts
      BY <1>1, <2>1, <2>4, <2>5, OneMore
    <2>7. \A i \in 1..Len(toServer) :
             toServer'[i] = toServer[i] /\ i \in 1..Len(toServer') /\ i < Len(toServer')
      BY <1>1, <2>1, <2>4, <2>5, OneMore
    <2>8. \A i \in 1..Len(toServer') : i \in 1..Len(toServer) \/ i = Len(toServer')
      BY <1>1, <2>1, <2>4, <2>5, OneMore
    <2>9. toServer'[Len(toServer')] = c  BY <1>1, <2>1, <2>4, <2>5, OneMore
    <2>10. NoRecipient => NoRecipient'  BY <2>6 DEF NoRecipient, c
    <2>11. DataMode'
      <3>1. server' = "data" => Sent' \subseteq {"message", "QUIT"}
        BY <2>3, <2>6 DEF DataMode, c
      <3>2. ASSUME NEW i \in 1..Len(toServer'), toServer'[i] = "message"
            PROVE  \/ server' = "data"
                   \/ \E j \in 1..Len(toServer') : j < i /\ toServer'[j] = "DATA"
                   \/ NoRecipient'
        <4>1. i \in 1..Len(toServer) /\ toServer[i] = "message"
          BY <2>5, <2>7, <2>8, <2>9, <3>2
        <4>2. \/ server = "data" \/ NoRecipient
              \/ \E j \in 1..Len(toServer) : j < i /\ toServer[j] = "DATA"
          BY <2>3, <4>1 DEF DataMode
        <4>3. CASE \E j \in 1..Len(toServer) : j < i /\ toServer[j] = "DATA"
          BY <2>7, <4>3
        <4> QED  BY <2>6, <2>10, <4>2, <4>3
      <3>3. misread' => NoRecipient'  BY <2>3, <2>6, <2>10, Zenon DEF DataMode
      <3> QED  BY <2>2, <3>1, <3>2, <3>3 DEF DataMode
    <2>12. state' \in Late  BY <2>2 DEF Late
    <2> QED  BY <1>1, <2>1, <2>2, <2>4, <2>5, <2>11, <2>12, OneMore
  <1> QED  BY <1>3, <1>4, <1>5, <1>6

LEMMA ReadKept == SInv /\ (\E k \in 1..Len(toClient) : Reads(k)) => SInv'
PROOF
  <1> SUFFICES ASSUME SInv, NEW k \in 1..Len(toClient), Reads(k) PROVE SInv'  OBVIOUS
  <1>1. TypeOK'  BY ReadTyped DEF SInv
  <1>2. CASE Ended
    <2>1. misread' = misread /\ rcpts' = rcpts  BY Rest DEF SInv
    <2>2. Ended'
      <3>1. HandshakeOutcome = {FALSE}  BY <1>2 DEF HandshakeOutcome, Ended
      <3>2. \/ server' \in {server, "reset"}
            \/ \E ok \in HandshakeOutcome : Tls_start(ok)
        BY Zenon DEF Reads, Respond
      <3>3. server' \in {server, "reset"} \/ Tls_start(FALSE)  BY <3>1, <3>2
      <3> QED  BY <1>2, <3>3 DEF Tls_start, Ended
    <2> QED  BY <1>1, <2>1, <2>2, ClosedKept
  <1>3. CASE ~Ended
    <2>1. CASE ReadOver
      BY <1>1, <2>1 DEF ReadOver, SInv, OpenInv, Alive
    <2>2. CASE \E j \in 1..k : Answered(toClient[j], onRx(toClient[j], Chunk(k)))
      <3>1. PICK j \in 1..k : Answered(toClient[j], onRx(toClient[j], Chunk(k)))
        BY <2>2
      <3>2. PICK rep, a : rep = toClient[j] /\ a = onRx(rep, Chunk(k))
        OBVIOUS
      <3>3. rep \in Chunk(k)  BY <3>2 DEF Chunk
      <3>4. GoesOn(k, rep, a)  BY <1>3, <3>1, <3>2, <3>3 DEF GoesOn
      <3>5. OpenInv' /\ OverInv'
        <4>1. state \in States  BY DEF SInv, TypeOK
        <4> QED
          BY <3>4, <4>1, GreetingRead, HeloRead, MailRead, RcptRead, DataRead, BodyRead,
             QuitRead DEF States
      <3> QED  BY <1>1, <3>5 DEF SInv
    <2> QED  BY <1>3, <2>1, <2>2, ReadGives
  <1> QED  BY <1>2, <1>3

-----------------------------------------------------------------------------
(* The theorems.                                                           *)

LEMMA InitHolds == Init => SInv
PROOF
  <1> SUFFICES ASSUME Init PROVE SInv  OBVIOUS
  <1>1. tlsUp \in BOOLEAN  BY Zenon DEF Init
  <1>2. TypeOK
    <2>1. /\ state = "GREETING" /\ stage = "AUTH_INIT" /\ faults \in FaultSets /\ ssl = "none"
          /\ available = FALSE /\ handler = FALSE /\ client = TRUE /\ reactor = "idle"
          /\ toServer = <<>> /\ toClient = <<>> /\ server = "none" /\ secure = FALSE
          /\ rcpts = 0 /\ loggedIn = FALSE /\ accepted = 0 /\ misread = FALSE
      BY Zenon DEF Init
    <2>2. state \in States /\ stage \in AuthSteps  BY <2>1 DEF States, AuthSteps
    <2>3. rcpts \in 0..NRcpt /\ accepted \in Nat  BY <2>1, NRcptAssumption
    <2>4. toServer \in Seq(Command) /\ toClient \in Seq(Reply)  BY <2>1
    <2> QED  BY <1>1, <2>1, <2>2, <2>3, <2>4 DEF TypeOK
  <1>3. Lockstep /\ Reachable  BY DEF Init, Lockstep, InGreeting, Reachable
  <1>4. Len(toServer) = 0 /\ Len(toClient) = 0  BY DEF Init
  <1>5. Pipeline  BY DEF Init, Pipeline, Late
  <1>6. DataMode  BY <1>4 DEF Init, DataMode
  <1>7. Alive /\ ~Ended  BY DEF Init, Alive, Ended
  <1> QED  BY <1>2, <1>3, <1>5, <1>6, <1>7 DEF SInv, OpenInv, OverInv

LEMMA StepKept == SInv /\ [WholeNext]_vars => SInv'
PROOF
  <1> SUFFICES ASSUME SInv, [WholeNext]_vars PROVE SInv'  OBVIOUS
  <1>1. CASE Server \/ IdleTimeout \/ Drop  BY <1>1, ServerKept
  <1>2. CASE WholeStep
    BY <1>2, StartKept, ReadKept, ReadEofKept, StopKept, ReleaseClientKept DEF WholeStep
  <1>3. CASE UNCHANGED vars
    <2>1. /\ state' = state /\ stage' = stage /\ tlsUp' = tlsUp /\ ssl' = ssl
          /\ available' = available /\ handler' = handler /\ client' = client
          /\ reactor' = reactor /\ toServer' = toServer /\ toClient' = toClient
          /\ server' = server /\ secure' = secure /\ rcpts' = rcpts
          /\ loggedIn' = loggedIn /\ accepted' = accepted /\ misread' = misread
          /\ faults' = faults
      BY <1>3 DEF vars, fsmVars, tlsVars, clientVars, netVars, serverVars
    <2>2. TypeOK'  BY <2>1 DEF SInv, TypeOK
    <2>3. /\ (Alive' <=> Alive) /\ (Ended' <=> Ended)
      BY <2>1 DEF Alive, Ended
    <2>4. Lockstep => Lockstep'
      <3>1. /\ (InGreeting => InGreeting') /\ (InHelo => InHelo')
        BY <2>1 DEF InGreeting, InHelo
      <3>a. /\ stage' = stage /\ server' = server
            /\ toServer' = toServer /\ toClient' = toClient
        BY <2>1
      <3>2. InMail' <=> InMail  BY <3>a DEF InMail, Quiet, Asked, Told
      <3>3. InRcpt' <=> InRcpt  BY <3>a DEF InRcpt, Quiet, Asked, Told
      <3> QED  BY <2>1, <3>1, <3>2, <3>3 DEF Lockstep
    <2>5. Reachable => Reachable'  BY <2>1 DEF Reachable
    <2>6. Sent' = Sent /\ (Ordered => Ordered')  BY <2>1 DEF Sent, Ordered
    <2>7. Pipeline => Pipeline'  BY <2>1, <2>6 DEF Pipeline
    <2>8. DataMode => DataMode'  BY <2>1, <2>6 DEF DataMode, NoRecipient
    <2>9. SecretsAnswerChallenges => SecretsAnswerChallenges'
      BY <2>1 DEF SecretsAnswerChallenges, Queued, ServerOpen
    <2>10. NeverMisread => NeverMisread'  BY <2>1 DEF NeverMisread
    <2> QED  BY <2>1, <2>2, <2>3, <2>4, <2>5, <2>7, <2>8, <2>9, <2>10
             DEF SInv, OpenInv, OverInv
  <1> QED  BY <1>1, <1>2, <1>3 DEF WholeNext

LEMMA FaultsStay == [Next]_vars => faults' = faults
PROOF
  <1> SUFFICES ASSUME [Next]_vars PROVE faults' = faults  OBVIOUS
  <1>1. CASE Server
    <2>1. CASE Banner \/ Ehlo \/ StartTls \/ AuthLogin \/ Username \/ Password
      BY <2>1 DEF Banner, Ehlo, StartTls, AuthLogin, Username, Password
    <2>2. CASE Rset \/ MailFrom \/ RcptTo \/ Data \/ Message \/ Quit
      BY <2>2 DEF Rset, MailFrom, RcptTo, Data, Message, Quit, serverVars
    <2> QED  BY <1>1, <2>1, <2>2 DEF Server
  <1>2. CASE ClientStep
    <2>1. \A k : Read(k) => faults' = faults  BY Zenon DEF Read
    <2> QED  BY <1>2, <2>1 DEF ClientStep, Start, ReadEof, Stop, ReleaseClient, serverVars
  <1>3. CASE IdleTimeout \/ Drop \/ UNCHANGED vars
    BY <1>3 DEF IdleTimeout, Drop, vars, serverVars
  <1> QED  BY <1>1, <1>2, <1>3 DEF Next

(* The server's lines are whole, and so is what a read leaves.             *)
LEMMA WholeSaid ==
    ASSUME TypeOK, Whole, NEW replies, Say(replies), replies \in Seq(Reply),
           \A i \in 1..Len(replies) : replies[i].text \notin Fragment
    PROVE  Whole'
PROOF
  <1>1. /\ toClient \in Seq(Reply) /\ toClient' = toClient \o replies
    BY DEF TypeOK, Say
  <1>2. /\ Len(toClient') = Len(toClient) + Len(replies)
        /\ \A i \in 1..Len(toClient) + Len(replies) : toClient'[i] =
              IF i <= Len(toClient) THEN toClient[i] ELSE replies[i - Len(toClient)]
    BY <1>1, ConcatProperties
  <1>3. Len(toClient) \in Nat /\ Len(replies) \in Nat  BY <1>1
  <1>4. ASSUME NEW i \in 1..Len(toClient') PROVE toClient'[i].text \notin Fragment
    <2>1. CASE i <= Len(toClient)  BY <1>2, <1>3, <2>1 DEF Whole
    <2>2. CASE ~(i <= Len(toClient))
      <3>1. i - Len(toClient) \in 1..Len(replies)  BY <1>2, <1>3, <2>2
      <3> QED  BY <1>2, <1>3, <2>2, <3>1
    <2> QED  BY <2>1, <2>2
  <1> QED  BY <1>4 DEF Whole

Line == {r \in Reply : r.text \notin Fragment}

LEMMA LineSaid ==
    ASSUME TypeOK, Whole, NEW r \in Line, Say(<<r>>)
    PROVE  Whole'
PROOF
  <1>1. <<r>> \in Seq(Reply) /\ \A i \in 1..Len(<<r>>) : <<r>>[i].text \notin Fragment
    BY DEF Line
  <1> QED  BY <1>1, WholeSaid

LEMMA WholeKept ==
    ASSUME TypeOK, Whole, [WholeNext]_vars
    PROVE  Whole'
PROOF
  <1>1. ASSUME NEW x \in {220, 221, 235, 250, 334, 354, 421, 454, 500, 530, 535, 550, 554},
               NEW y \in {"banner", "SIZE", "STARTTLS", "Username:", "Password:", "error",
                          "2.0.0", "2.1.0", "2.1.5", "2.7.0", "Go"}
        PROVE  R(x, y) \in Line
    BY DEF R, Reply, Line, Fragment
  <1>2. CASE UNCHANGED toClient  BY <1>2 DEF Whole
  <1>3. CASE Banner
    <2>1. CASE Say(<<R(220, "banner")>>)  BY <1>1, <2>1, LineSaid
    <2>2. CASE Say(<<R(220, "banner"), R(220, "banner")>>)
      <3>1. R(220, "banner") \in Line  BY <1>1
      <3> HIDE DEF R
      <3>2. PICK r \in Line : Say(<<r, r>>)  BY <2>2, <3>1
      <3>3. /\ <<r, r>> \in Seq(Reply)
            /\ \A i \in 1..Len(<<r, r>>) : <<r, r>>[i].text \notin Fragment
        BY DEF Line
      <3> QED  BY <3>2, <3>3, WholeSaid
    <2> QED  BY <1>3, <2>1, <2>2 DEF Banner
  <1>4. CASE Ehlo
    <2>1. CASE Say(<<R(250, "SIZE")>>)  BY <1>1, <2>1, LineSaid
    <2>2. CASE Say(<<R(250, "SIZE"), R(250, "STARTTLS")>>)
      <3>1. R(250, "SIZE") \in Line /\ R(250, "STARTTLS") \in Line  BY <1>1
      <3>2. PICK r \in Line, q \in Line : Say(<<r, q>>)  BY <2>2, <3>1
      <3>3. /\ <<r, q>> \in Seq(Reply)
            /\ \A i \in 1..Len(<<r, q>>) : <<r, q>>[i].text \notin Fragment
        BY DEF Line
      <3> QED  BY <3>2, <3>3, WholeSaid
    <2> QED  BY <1>4, <2>1, <2>2 DEF Ehlo
  <1>5. CASE \E r \in Line : Say(<<r>>)  BY <1>5, LineSaid
  <1>6. CASE StartTls \/ AuthLogin \/ Username \/ Password \/ Rset \/ MailFrom \/ RcptTo
             \/ Data \/ Quit \/ IdleTimeout
    <2>1. CASE StartTls \/ Username \/ Quit
      <3>1. \/ Say(<<R(220, "2.0.0")>>) \/ Say(<<R(454, "error")>>)
            \/ Say(<<R(334, "Password:")>>) \/ Say(<<R(221, "2.0.0")>>)
        BY <2>1, ZenonT(60) DEF StartTls, Username, Quit
      <3> QED  BY <1>1, <1>5, <3>1
    <2>2. CASE AuthLogin \/ Rset \/ IdleTimeout
      <3>1. \/ Say(<<R(334, "Username:")>>) \/ Say(<<R(530, "error")>>)
            \/ Say(<<R(250, "2.0.0")>>) \/ Say(<<R(421, "error")>>)
        BY <2>2, ZenonT(60) DEF AuthLogin, Rset, IdleTimeout
      <3> QED  BY <1>1, <1>5, <3>1
    <2>3. CASE Password \/ MailFrom
      <3>1. \/ Say(<<R(235, "2.7.0")>>) \/ Say(<<R(535, "error")>>)
            \/ Say(<<R(454, "error")>>) \/ Say(<<R(250, "2.1.0")>>)
            \/ Say(<<R(530, "error")>>)
        BY <2>3, ZenonT(60) DEF Password, MailFrom
      <3> QED  BY <1>1, <1>5, <3>1
    <2>4. CASE RcptTo \/ Data
      <3>1. \/ Say(<<R(250, "2.1.5")>>) \/ Say(<<R(550, "error")>>)
            \/ Say(<<R(354, "Go")>>) \/ Say(<<R(554, "error")>>)
        BY <2>4, ZenonT(60) DEF RcptTo, Data
      <3> QED  BY <1>1, <1>5, <3>1
    <2> QED  BY <1>6, <2>1, <2>2, <2>3, <2>4
  <1>7. CASE Message
    <2>1. CASE server = "data"
      <3>1. Say(<<R(250, "2.0.0")>>) \/ Say(<<R(554, "error")>>)  BY <1>7, <2>1 DEF Message
      <3> QED  BY <1>1, <1>5, <3>1
    <2>2. CASE server # "data"
      <3> DEFINE lines == [i \in 1..BodyLines |-> R(500, "error")]
      <3>1. Say(lines)  BY <1>7, <2>2 DEF Message
      <3>2. R(500, "error") \in Line  BY <1>1
      <3>3. BodyLines \in Nat  BY BodyLinesAssumption
      <3>4. lines \in Seq(Reply) /\ Len(lines) = BodyLines  BY <3>2, <3>3 DEF Line
      <3>5. \A i \in 1..Len(lines) : lines[i].text \notin Fragment
        BY <3>2, <3>4 DEF Line
      <3> QED  BY <3>1, <3>4, <3>5, WholeSaid
    <2> QED  BY <2>1, <2>2
  <1>8. ASSUME NEW k \in 1..Len(toClient), Reads(k) PROVE Whole'
    BY <1>8, Rest DEF Whole
  <1>9. CASE Start \/ ReadEof \/ Stop \/ ReleaseClient \/ Drop \/ UNCHANGED vars
    <2>1. UNCHANGED netVars
      BY <1>9, Zenon DEF Start, ReadEof, Stop, ReleaseClient, Drop, vars
    <2> QED  BY <1>2, <2>1 DEF netVars
  <1> QED  BY <1>3, <1>4, <1>6, <1>7, <1>8, <1>9, Zenon DEF WholeNext, WholeStep, Server

WholeInv == NoCuts => Whole /\ SInv

LEMMA Inductive == Spec => []WholeInv
PROOF
  <1>1. Init => WholeInv
    <2>1. Init => Whole  BY DEF Init, Whole
    <2> QED  BY <2>1, InitHolds DEF WholeInv
  <1>2. WholeInv /\ [Next]_vars => WholeInv'
    <2> SUFFICES ASSUME WholeInv, [Next]_vars, NoCuts' PROVE Whole' /\ SInv'
      BY DEF WholeInv
    <2>1. NoCuts /\ Whole /\ SInv  BY FaultsStay DEF NoCuts, May, WholeInv
    <2>2. [WholeNext]_vars  BY <2>1, NextWhole DEF SInv
    <2> QED  BY <2>1, <2>2, WholeKept, StepKept DEF SInv
  <1> QED  BY <1>1, <1>2, PTL DEF Spec

(* Type correctness of a session, for all numbers of recipients, lengths   *)
(* of the message and fault sets, as long as no line is cut.               *)
THEOREM SessionTyped == Spec => [](~May("midLine") => TypeOK)
PROOF
  <1>1. WholeInv => (~May("midLine") => TypeOK)  BY DEF WholeInv, NoCuts, SInv
  <1> QED  BY <1>1, Inductive, PTL

(* The user name and the password reach an open server only as answers to  *)
(* its challenges: up to the login client and server are in lockstep, so   *)
(* that a reply answers the last command however the reads take the lines, *)
(* as long as no line is cut.                                              *)
THEOREM SecretsOnlyToChallenges == Spec => [](~May("midLine") => SecretsAnswerChallenges)
PROOF
  <1>1. WholeInv => (~May("midLine") => SecretsAnswerChallenges)
    BY SafeNow DEF WholeInv, NoCuts
  <1> QED  BY <1>1, Inductive, PTL

(* The server never takes the message for commands while it has accepted a *)
(* recipient: every RCPT TO precedes the DATA and the DATA the message,    *)
(* however early the replies let the client go on, as long as none is cut. *)
THEOREM ContentIsContent == Spec => [](~May("midLine") => NeverMisread)
PROOF
  <1>1. WholeInv => (~May("midLine") => NeverMisread)
    BY SafeNow DEF WholeInv, NoCuts
  <1> QED  BY <1>1, Inductive, PTL

-----------------------------------------------------------------------------
(* With a server that keeps to the protocol (faults \subseteq Polite) no   *)
(* read crashes or hangs.  Before TLS the session has but one course; then *)
(* nothing that is under way can touch the TLS stream any more.            *)

Secured == Command \ {"STARTTLS"}
Later == {r \in Reply : r.code # 220}

BeforeTls ==
    /\ ~tlsUp /\ ssl = "none" /\ ~secure /\ reactor = "idle"
    /\ server # "none" => available
    /\ \/ state = "GREETING" /\ server \in {"none", "greet"} /\ Quiet
       \/ state = "GREETING" /\ server = "ready" /\ Told(Banner220)
       \/ state = "HELO" /\ server = "ready" /\ Asked("EHLO")
       \/ /\ state = "HELO" /\ server = "helo" /\ toServer = <<>>
          /\ toClient = <<Size, CanStartTls>> \/ toClient = <<CanStartTls>>
       \/ state = "MAIL" /\ stage = "AUTH_INIT" /\ server = "helo" /\ Asked("STARTTLS")
       \/ state = "MAIL" /\ stage = "AUTH_INIT" /\ server = "handshake" /\ Told(TlsReady)
InTls ==
    /\ tlsUp /\ ssl = "up" /\ secure
    /\ reactor \in {"idle", "closing"} \/ (server = "reset" /\ ~Alive)
    /\ state \notin {"GREETING", "HELO"}
    /\ server \notin {"none", "greet", "handshake", "dropped"}
    /\ toServer \in Seq(Secured) /\ toClient \in Seq(Later)
PoliteInv == faults \subseteq Polite => client /\ (BeforeTls \/ InTls)

(* A session without anything to lose yet.                                 *)
Fresh == state \in {"GREETING", "HELO", "MAIL"} /\ Alive /\ ~Ended

Calm(k, rep, a) ==
    /\ rep \in Chunk(k) /\ a = onRx(rep, Chunk(k))
    /\ state' = (IF a.status = "GOTO_NEXT_STATE" THEN a.state ELSE state)
    /\ stage' = a.stage /\ available' = available /\ reactor' = reactor
    /\ tlsUp' \/ available => toServer' = toServer \o a.cmds
    /\ a.cmds = <<>> => toServer' = toServer
    /\ rep = TlsReady => tlsUp' = TRUE /\ ssl' = "up" /\ server' = "helo" /\ secure' = TRUE
    /\ rep # TlsReady => UNCHANGED <<tlsVars, server, secure>>

LEMMA CalmRead ==
    ASSUME TypeOK, NEW k, Reads(k), client, ~(tlsUp /\ ssl # "up"), ~Ended,
           \A rep \in Chunk(k) : rep = TlsReady => HandshakeOutcome = {TRUE},
           \A rep \in Chunk(k) : ~Ends(rep, onRx(rep, Chunk(k)))
    PROVE  \E rep, a : Calm(k, rep, a)
PROOF
  <1>1. PICK r \in Chunk(k) : Respond(r, onRx(r, Chunk(k)))  BY Zenon DEF Reads
  <1>2. PICK rep, a : rep = r /\ a = onRx(r, Chunk(k))  OBVIOUS
  <1>3. /\ rep \in Chunk(k) /\ a = onRx(rep, Chunk(k)) /\ Respond(rep, a)
        /\ Typed(a) /\ Stays(a) /\ ~Ends(rep, a)
        /\ rep = TlsReady => HandshakeOutcome = {TRUE}
    BY <1>1, <1>2, AnswerTyped, AnswerStays
  <1>4. rep = TlsReady => tlsUp' = TRUE /\ ssl' = "up" /\ server' = "helo" /\ secure' = TRUE
    <2>1. SUFFICES ASSUME rep = TlsReady
                   PROVE  tlsUp' = TRUE /\ ssl' = "up" /\ server' = "helo" /\ secure' = TRUE
      OBVIOUS
    <2>2. PICK ok \in HandshakeOutcome : Tls_start(ok)  BY <1>3, <2>1 DEF Respond, TlsReady
    <2>3. ok = TRUE  BY <1>3, <2>1, <2>2
    <2> QED  BY <2>2, <2>3 DEF Tls_start
  <1>5. rep # TlsReady => UNCHANGED <<tlsVars, server, secure>>
    BY <1>3 DEF Respond, TlsReady, Ended
  <1>6. IF tlsUp' THEN ssl' = "up" ELSE client
    BY <1>4, <1>5 DEF tlsVars
  <1>7. ~MayFail(a.cmds)  BY <1>6 DEF MayFail, Ended
  <1>8. /\ state' = a.state /\ stage' = a.stage /\ toServer' = Written(a.cmds)
        /\ IF rep.code = 220
              /\ a.status \notin {"GOTO_NEXT_STATE", "REMAIN_IN_SAME_STATE"}
           THEN available' = FALSE /\ reactor' = "ending"
           ELSE UNCHANGED <<available, reactor>>
    BY <1>3, <1>7, Zenon DEF Respond
  <1>9. available' = available /\ reactor' = reactor  BY <1>3, <1>8 DEF Ends
  <1>10. tlsUp' \/ available => toServer' = toServer \o a.cmds
    <2>1. toServer \o <<>> = toServer  BY DEF TypeOK
    <2>2. CASE a.cmds = <<>>  BY <1>8, <2>1, <2>2 DEF Written
    <2>3. CASE a.cmds # <<>>  BY <1>6, <1>8, <2>3 DEF Written, Sends, Ended
    <2> QED  BY <2>2, <2>3
  <1>11. a.cmds = <<>> => toServer' = toServer  BY <1>8 DEF Written, Sends
  <1>12. state' = (IF a.status = "GOTO_NEXT_STATE" THEN a.state ELSE state)
    BY <1>3, <1>8 DEF Stays
  <1> QED  BY <1>3, <1>4, <1>5, <1>8, <1>9, <1>10, <1>11, <1>12 DEF Calm

(* Once in MAIL the client never asks for TLS again.                       *)
LEMMA AnswerSecured ==
    ASSUME TypeOK, state \notin {"GREETING", "HELO"}, NEW rep, NEW chunk
    PROVE  LET a == onRx(rep, chunk)
           IN  a.cmds \in Seq(Secured) /\ a.state \notin {"GREETING", "HELO"}
PROOF
  <1> DEFINE Fine(a) == a.cmds \in Seq(Secured) /\ a.state \notin {"GREETING", "HELO"}
  <1>1. state \in {"MAIL", "RCPT", "DATA", "BODY", "QUIT"} /\ stage \in AuthSteps
    BY DEF TypeOK, States
  <1> DEFINE St == {"MAIL", "RCPT", "DATA", "BODY", "QUIT"}
  <1>2. ASSUME NEW s, NEW cs \in Seq(Secured), NEW to \in St, NEW sg
        PROVE  Fine(Answer(s, cs, to, sg))
    BY DEF Answer
  <1>3. <<>> \in Seq(Secured)  OBVIOUS
  <1>4. \A st \in St : Fine(Ignore(st))  BY <1>2, <1>3 DEF Ignore
  <1>5. \A cs \in Seq(Secured), to \in St : Fine(Goto(cs, to))  BY <1>2 DEF Goto
  <1>6. \A cs \in Seq(Secured), to \in St : \A sg : Fine(Remain(cs, to, sg))  BY <1>2 DEF Remain
  <1>7. \A cmd \in Secured : <<cmd>> \in Seq(Secured)  OBVIOUS
  <1>8. [i \in 1..NRcpt |-> "RCPT TO"] \in Seq(Secured)
    BY NRcptAssumption DEF Secured, Command
  <1>9. /\ <<"AUTH LOGIN">> \in Seq(Secured) /\ <<"username">> \in Seq(Secured)
        /\ <<"password">> \in Seq(Secured) /\ <<"MAIL FROM">> \in Seq(Secured)
        /\ <<"RSET">> \in Seq(Secured) /\ <<"DATA">> \in Seq(Secured)
        /\ <<"message">> \in Seq(Secured) /\ <<"QUIT">> \in Seq(Secured)
    BY <1>7 DEF Secured, Command
  <1>10. "MAIL" \in St /\ "RCPT" \in St /\ "DATA" \in St /\ "BODY" \in St /\ "QUIT" \in St
    OBVIOUS
  <1> HIDE DEF Fine, St
  <1>11. Fine(MAIL_onResponse(rep))
    <2>1. Fine(MAIL_onCommand(rep))
      <3>1. CASE stage = "AUTH_INIT"  BY <1>6, <1>9, <1>10, <3>1 DEF MAIL_onCommand
      <3>2. CASE stage = "AUTH_USRNAME"
        BY <1>3, <1>6, <1>9, <1>10, <3>2 DEF MAIL_onCommand
      <3>3. CASE stage = "AUTH_PASSWORD"
        BY <1>3, <1>6, <1>9, <1>10, <3>3 DEF MAIL_onCommand
      <3>4. CASE stage = "AUTH_SUCCESS"
        BY <1>2, <1>5, <1>9, <1>10, <3>4 DEF MAIL_onCommand
      <3> QED  BY <1>1, <3>1, <3>2, <3>3, <3>4 DEF AuthSteps
    <2> QED  BY <1>4, <1>10, <2>1 DEF MAIL_onResponse
  <1>12. Fine(RCPT_onResponse(rep))
    <2> DEFINE all == [i \in 1..NRcpt |-> "RCPT TO"]
    <2>1. all \in Seq(Secured)  BY <1>8
    <2>2. RCPT_onResponse(rep) = Ignore("RCPT") \/ RCPT_onResponse(rep) = Goto(all, "DATA")
      BY DEF RCPT_onResponse
    <2> HIDE DEF all
    <2>3. Fine(Ignore("RCPT")) /\ Fine(Goto(all, "DATA"))  BY <1>4, <1>5, <1>10, <2>1
    <2> QED  BY <2>2, <2>3
  <1>13. Fine(DATA_onResponse(rep))  BY <1>4, <1>5, <1>9, <1>10 DEF DATA_onResponse
  <1>14. Fine(BODY_onResponse(rep))  BY <1>4, <1>5, <1>9, <1>10 DEF BODY_onResponse
  <1>15. Fine(QUIT_onResponse(rep))
    <2>1. /\ Fine(Ignore("QUIT")) /\ Fine(Remain(<<>>, "QUIT", stage))
          /\ Fine(Remain(<<"QUIT">>, "QUIT", stage))
      BY <1>3, <1>4, <1>6, <1>9, <1>10
    <2>2. \/ QUIT_onResponse(rep) = Ignore("QUIT")
          \/ QUIT_onResponse(rep) = Remain(<<>>, "QUIT", stage)
          \/ QUIT_onResponse(rep) = Remain(<<"QUIT">>, "QUIT", stage)
      BY Zenon DEF QUIT_onResponse
    <2> QED  BY <2>1, <2>2
  <1>16. Fine(onRx(rep, chunk))
    <2>1. CASE state = "MAIL"  BY <1>11, <2>1 DEF onRx
    <2>2. CASE state = "RCPT"  BY <1>12, <2>2 DEF onRx
    <2>3. CASE state = "DATA"  BY <1>13, <2>3 DEF onRx
    <2>4. CASE state = "BODY"  BY <1>14, <2>4 DEF onRx
    <2>5. CASE state = "QUIT"  BY <1>15, <2>5 DEF onRx
    <2> QED  BY <1>1, <2>1, <2>2, <2>3, <2>4, <2>5
  <1> QED  BY <1>16 DEF Fine

LEMMA InTlsRead ==
    ASSUME SInv, InTls, client, NEW k, Reads(k)
    PROVE  InTls' /\ client'
PROOF
  <1>0. TypeOK  BY DEF SInv
  <1>1. /\ k \in 1..Len(toClient) /\ toClient' = SubSeq(toClient, k + 1, Len(toClient))
        /\ client' = client
    BY DEF Reads
  <1>2. toClient \in Seq(Later) /\ toServer \in Seq(Secured)  BY DEF InTls
  <1>3. toClient' \in Seq(Later)
    <2>1. /\ k + 1 \in Int /\ Len(toClient) \in Int
          /\ \A i \in (k + 1)..Len(toClient) : toClient[i] \in Later
      BY <1>1, <1>2
    <2> QED  BY <1>1, <2>1, SubSeqProperties
  <1>4. \A rep \in Chunk(k) : rep.code # 220
    <2>1. \A i \in 1..k : toClient[i] \in Later  BY <1>1, <1>2
    <2> QED  BY <2>1 DEF Chunk, Later
  <1>5. \A rep \in Chunk(k) : rep # TlsReady /\ ~Ends(rep, onRx(rep, Chunk(k)))
    BY <1>4, ReadyIs220 DEF Ends
  <1>6. PICK rep, a : /\ rep \in Chunk(k) /\ a = onRx(rep, Chunk(k)) /\ Respond(rep, a)
    <2>1. PICK r \in Chunk(k) : Respond(r, onRx(r, Chunk(k)))
      BY Zenon DEF Reads, InTls
    <2> QED  BY <2>1
  <1>7. UNCHANGED <<tlsVars, secure>>
        /\ server' = IF Sends(a.cmds) /\ server = "closed" THEN "reset" ELSE server
    BY <1>5, <1>6, Zenon DEF Respond, TlsReady
  <1>8. a.cmds \in Seq(Secured) /\ a.state \notin {"GREETING", "HELO"} /\ ~Ends(rep, a)
    BY <1>0, <1>5, <1>6, AnswerSecured DEF InTls
  <1>9. tlsUp' /\ ssl' = "up" /\ secure'  BY <1>7 DEF InTls, tlsVars
  <1>10. CASE /\ MayFail(a.cmds)
              /\ reactor' \in IF tlsUp' THEN {"crashed", "stuck"} ELSE {"crashed"}
              /\ UNCHANGED <<state, toServer, available>>
    <2>1. server = "reset" /\ server' = "reset"
      BY <1>7, <1>9, <1>10 DEF MayFail, InTls
    <2>2. ~Alive'  BY <1>10 DEF Alive
    <2>3. state' \notin {"GREETING", "HELO"} /\ toServer' \in Seq(Secured)
      BY <1>2, <1>10 DEF InTls
    <2> QED  BY <1>1, <1>3, <1>9, <2>1, <2>2, <2>3 DEF InTls
  <1>11. CASE state' = a.state /\ toServer' = Written(a.cmds) /\ reactor' = reactor
    <2>1. toServer' \in Seq(Secured)
      <3>1. toServer \o a.cmds \in Seq(Secured)  BY <1>2, <1>8, ConcatProperties
      <3> QED  BY <1>2, <1>11, <3>1 DEF Written
    <2>2. server' \notin {"none", "greet", "handshake", "dropped"}
      BY <1>7 DEF InTls
    <2>3. reactor' = "idle"  BY <1>0, <1>11, Rest
    <2> QED  BY <1>1, <1>3, <1>8, <1>9, <1>11, <2>1, <2>2, <2>3 DEF InTls
  <1>12. \/ /\ MayFail(a.cmds)
            /\ reactor' \in IF tlsUp' THEN {"crashed", "stuck"} ELSE {"crashed"}
            /\ UNCHANGED <<state, toServer, available>>
         \/ /\ state' = a.state /\ toServer' = Written(a.cmds)
            /\ (Ends(rep, a) \/ reactor' = reactor)
    BY <1>6, Zenon DEF Respond, Ends
  <1> QED  BY <1>8, <1>10, <1>11, <1>12

LEMMA BeforeTlsRead ==
    ASSUME SInv, BeforeTls, faults \subseteq Polite, client, NEW k, Reads(k)
    PROVE  (BeforeTls \/ (InTls /\ Fresh))' /\ client'
PROOF
  <1>0. TypeOK /\ ~(tlsUp /\ ssl # "up") /\ ~tlsUp /\ client' = client
    BY DEF SInv, BeforeTls, Reads
  <1>1. /\ k \in 1..Len(toClient) /\ Len(toClient) \in Nat \ {0}
        /\ Len(toClient') = Len(toClient) - k /\ toClient' \in Seq(Reply)
        /\ \A i \in 1..Len(toClient') :
              i + k \in 1..Len(toClient) /\ toClient'[i] = toClient[i + k]
        /\ \A r : toClient = <<r>> => toClient' = <<>> /\ k = 1
    BY <1>0, Rest
  <1>2. toClient # <<>>  BY <1>1
  <1>3. ASSUME NEW r, toClient = <<r>> PROVE Chunk(k) = {r} /\ toClient' = <<>>
    <2>1. k = 1 /\ toClient' = <<>> /\ toClient[1] = r  BY <1>1, <1>3
    <2> QED  BY <2>1 DEF Chunk
  <1>4. /\ TlsReady # Banner220 /\ TlsReady # Size /\ TlsReady # CanStartTls
        /\ Size.code = 250 /\ CanStartTls.code = 250 /\ CanStartTls.text = "STARTTLS"
        /\ Size.text # "STARTTLS" /\ Banner220.code = 220
    BY DEF TlsReady, Banner220, Size, CanStartTls, R
  <1> HIDE DEF TlsReady, Banner220, Size, CanStartTls
  <1>5. CASE state = "GREETING" /\ server = "ready" /\ Told(Banner220)
    <2>1. Chunk(k) = {Banner220} /\ toClient' = <<>> /\ toServer = <<>> /\ available
      BY <1>3, <1>5 DEF Told, BeforeTls
    <2>2. onRx(Banner220, Chunk(k)) = Goto(<<"EHLO">>, "HELO")
      BY <1>4, <1>5 DEF onRx, GREETING_onResponse
    <2>3. onRx(Banner220, Chunk(k)).status = "GOTO_NEXT_STATE"
      BY <2>2 DEF Goto, Answer
    <2>4. PICK rep, a : Calm(k, rep, a)
      <3>1. \A rep \in Chunk(k) : rep = TlsReady => HandshakeOutcome = {TRUE}
        BY <1>4, <2>1
      <3>2. ~Ends(Banner220, onRx(Banner220, Chunk(k)))  BY <2>3 DEF Ends
      <3>3. \A rep \in Chunk(k) : ~Ends(rep, onRx(rep, Chunk(k)))  BY <2>1, <3>2
      <3> QED  BY <1>0, <1>5, <3>1, <3>3, CalmRead DEF Ended
    <2>5. rep = Banner220 /\ a = Goto(<<"EHLO">>, "HELO")  BY <2>1, <2>2, <2>4 DEF Calm
    <2>6. a.cmds = <<"EHLO">> /\ a.status = "GOTO_NEXT_STATE" /\ a.state = "HELO"
      BY <2>5 DEF Goto, Answer
    <2>7. toServer' = <<"EHLO">> /\ state' = "HELO" /\ UNCHANGED <<tlsVars, server, secure>>
          /\ reactor' = reactor /\ available' = available
      <3>1. state' = "HELO"  BY <2>4, <2>6 DEF Calm
      <3>2. rep # TlsReady  BY <1>4, <2>5
      <3>3. toServer' = toServer \o a.cmds  BY <2>1, <2>4, <3>2 DEF Calm
      <3>4. toServer' = <<"EHLO">>  BY <2>1, <2>6, <3>3
      <3>5. UNCHANGED <<tlsVars, server, secure>> /\ reactor' = reactor
            /\ available' = available
        BY <2>4, <3>2 DEF Calm
      <3> QED  BY <3>1, <3>4, <3>5
    <2>8. Asked("EHLO")'  BY <2>1, <2>7 DEF Asked
    <2>9. BeforeTls'  BY <1>5, <2>1, <2>7, <2>8 DEF BeforeTls, tlsVars
    <2> QED  BY <1>0, <2>9
  <1>6. CASE /\ state = "HELO" /\ server = "helo" /\ toServer = <<>>
             /\ toClient = <<Size, CanStartTls>> \/ toClient = <<CanStartTls>>
    <2>1. Chunk(k) \subseteq {Size, CanStartTls} /\ available
      <3>1. \A i \in 1..k : i \in 1..Len(toClient)  BY <1>1
      <3>2. \A i \in 1..Len(toClient) : toClient[i] \in {Size, CanStartTls}
        <4>1. CASE toClient = <<CanStartTls>>  BY <4>1
        <4>2. CASE toClient = <<Size, CanStartTls>>
          <5>1. Len(toClient) = 2 /\ toClient[1] = Size /\ toClient[2] = CanStartTls
            BY <4>2
          <5> QED  BY <5>1
        <4> QED  BY <1>6, <4>1, <4>2
      <3> QED  BY <1>6, <3>1, <3>2 DEF Chunk, BeforeTls
    <2>2. PICK rep, a : Calm(k, rep, a)
      <3>1. \A rep \in Chunk(k) : rep.code # 220 /\ rep # TlsReady  BY <1>4, <2>1
      <3>2. \A rep \in Chunk(k) : ~Ends(rep, onRx(rep, Chunk(k)))  BY <3>1 DEF Ends
      <3> QED  BY <1>0, <1>6, <3>1, <3>2, CalmRead DEF Ended
    <2>3. rep \in {Size, CanStartTls} /\ a = HELO_onResponse(rep, Chunk(k))
      BY <1>6, <2>1, <2>2 DEF Calm, onRx
    <2>4. rep.code = 250 /\ rep # TlsReady  BY <1>4, <2>3
    <2>5. UNCHANGED <<tlsVars, server, secure>> /\ reactor' = reactor /\ available' = available
      BY <2>2, <2>4 DEF Calm
    <2>6. CASE \E r \in Chunk(k) : r.text = "STARTTLS"
      <3>1. a = Goto(<<"STARTTLS">>, "MAIL")  BY <2>3, <2>4, <2>6 DEF HELO_onResponse
      <3>2. /\ a.cmds = <<"STARTTLS">> /\ a.status = "GOTO_NEXT_STATE" /\ a.state = "MAIL"
            /\ a.stage = "AUTH_INIT"
        BY <3>1 DEF Goto, Answer
      <3>3. toClient' = <<>>
        <4>1. CASE toClient = <<CanStartTls>>  BY <1>3, <4>1
        <4>2. CASE toClient = <<Size, CanStartTls>>
          <5>1. Len(toClient) = 2 /\ toClient[1] = Size  BY <4>2
          <5>2. PICK i \in 1..k : toClient[i].text = "STARTTLS"  BY <2>6 DEF Chunk
          <5>3. i # 1  BY <1>4, <5>1, <5>2
          <5>4. k = 2  BY <1>1, <5>1, <5>2, <5>3
          <5>5. Len(toClient') = 0  BY <1>1, <5>1, <5>4
          <5> QED  BY <1>1, <5>5
        <4> QED  BY <1>6, <4>1, <4>2
      <3>4. toServer' = <<"STARTTLS">> /\ state' = "MAIL" /\ stage' = "AUTH_INIT"
        BY <1>6, <2>1, <2>2, <3>2 DEF Calm
      <3>5. Asked("STARTTLS")'  BY <3>3, <3>4 DEF Asked
      <3>6. BeforeTls'  BY <1>6, <2>1, <2>5, <3>4, <3>5 DEF BeforeTls, tlsVars
      <3> QED  BY <1>0, <3>6
    <2>7. CASE ~\E r \in Chunk(k) : r.text = "STARTTLS"
      <3>1. a = Answer("TLS_NOT_SUPPORTED", <<>>, "HELO", stage)
        BY <2>3, <2>4, <2>7 DEF HELO_onResponse
      <3>2. a.cmds = <<>> /\ a.status = "TLS_NOT_SUPPORTED"  BY <3>1 DEF Answer
      <3>3. toServer' = <<>> /\ state' = "HELO"  BY <1>6, <2>2, <3>2 DEF Calm
      <3>4. toClient' = <<CanStartTls>>
        <4>1. toClient # <<CanStartTls>>
          <5>1. ASSUME toClient = <<CanStartTls>> PROVE FALSE
            BY <1>3, <1>4, <2>7, <5>1
          <5> QED  BY <5>1
        <4>2. toClient = <<Size, CanStartTls>>  BY <1>6, <4>1
        <4>3. Len(toClient) = 2 /\ toClient[2] = CanStartTls  BY <4>2
        <4>4. k # 2
          <5>1. ASSUME k = 2 PROVE CanStartTls \in Chunk(k)
            BY <4>3, <5>1 DEF Chunk
          <5> QED  BY <1>4, <2>7, <5>1
        <4>5. k = 1 /\ Len(toClient') = 1  BY <1>1, <4>3, <4>4
        <4>6. toClient'[1] = CanStartTls  BY <1>1, <4>3, <4>5
        <4> QED  BY <1>1, <4>5, <4>6
      <3>5. BeforeTls'  BY <1>6, <2>1, <2>5, <3>3, <3>4 DEF BeforeTls, tlsVars
      <3> QED  BY <1>0, <3>5
    <2> QED  BY <2>6, <2>7
  <1>7. CASE state = "MAIL" /\ stage = "AUTH_INIT" /\ server = "handshake" /\ Told(TlsReady)
    <2>1. Chunk(k) = {TlsReady} /\ toClient' = <<>> /\ toServer = <<>> /\ available
      BY <1>3, <1>7 DEF Told, BeforeTls
    <2>2. HandshakeOutcome = {TRUE}  BY <1>7, <2>1 DEF HandshakeOutcome, May, Polite
    <2>3. TlsReady.code # 535  BY DEF TlsReady, R
    <2>4. onRx(TlsReady, Chunk(k)) = Remain(<<"AUTH LOGIN">>, "MAIL", "AUTH_USRNAME")
      BY <1>7, <2>3 DEF onRx, MAIL_onResponse, MAIL_onCommand
    <2>5. Remain(<<"AUTH LOGIN">>, "MAIL", "AUTH_USRNAME").status = "REMAIN_IN_SAME_STATE"
      BY DEF Remain, Answer
    <2>6. PICK rep, a : Calm(k, rep, a)
      <3>1. ~Ends(TlsReady, Remain(<<"AUTH LOGIN">>, "MAIL", "AUTH_USRNAME"))
        BY <2>5 DEF Ends
      <3>2. \A rep \in Chunk(k) : ~Ends(rep, onRx(rep, Chunk(k)))  BY <2>1, <2>4, <3>1
      <3> QED  BY <1>0, <1>7, <2>2, <3>2, CalmRead DEF Ended
    <2>7. rep = TlsReady /\ a = Remain(<<"AUTH LOGIN">>, "MAIL", "AUTH_USRNAME")
      BY <2>1, <2>4, <2>6 DEF Calm
    <2>8. a.cmds = <<"AUTH LOGIN">> /\ a.status = "REMAIN_IN_SAME_STATE"
      BY <2>7 DEF Remain, Answer
    <2>9. /\ toServer' = <<"AUTH LOGIN">> /\ state' = "MAIL" /\ tlsUp' = TRUE /\ ssl' = "up"
          /\ server' = "helo" /\ secure' = TRUE /\ reactor' = reactor
      <3>1. state' = "MAIL" /\ reactor' = reactor  BY <1>7, <2>6, <2>8 DEF Calm
      <3>2. tlsUp' = TRUE /\ ssl' = "up" /\ server' = "helo" /\ secure' = TRUE
        BY <2>6, <2>7 DEF Calm
      <3>4. toServer' = toServer \o a.cmds  BY <2>1, <2>6 DEF Calm
      <3>5. toServer = <<>> /\ a.cmds = <<"AUTH LOGIN">>  BY <2>1, <2>8
      <3>6. toServer' = <<>> \o <<"AUTH LOGIN">>  BY <3>4, <3>5, Zenon
      <3>7. \A c : <<>> \o <<c>> = <<c>>  BY OneReply
      <3>8. toServer' = <<"AUTH LOGIN">>  BY <3>6, <3>7, Zenon
      <3> QED  BY <3>1, <3>2, <3>8
    <2>10. toServer' \in Seq(Secured) /\ toClient' \in Seq(Later)
      <3>1. "AUTH LOGIN" \in Secured  BY DEF Secured, Command
      <3>2. \A cmd \in Secured : <<cmd>> \in Seq(Secured)  OBVIOUS
      <3>3. <<"AUTH LOGIN">> \in Seq(Secured)  BY <3>1, <3>2, Zenon
      <3>4. <<>> \in Seq(Later)  OBVIOUS
      <3> QED  BY <2>1, <2>9, <3>3, <3>4, Zenon
    <2>11. InTls'  BY <2>9, <2>10 DEF InTls, BeforeTls
    <2>12. Fresh'  BY <2>9 DEF Fresh, BeforeTls, Alive, Ended
    <2> QED  BY <1>0, <2>11, <2>12
  <1> QED  BY <1>2, <1>5, <1>6, <1>7 DEF BeforeTls, Quiet, Asked

LEMMA BeforeTlsServer ==
    ASSUME SInv, BeforeTls, faults \subseteq Polite, client, Server \/ IdleTimeout \/ Drop
    PROVE  BeforeTls' /\ client'
PROOF
  <1>0. TypeOK  BY DEF SInv
  <1>1. ~May("splitBanner") /\ ~May("noStartTls") /\ ~May("tlsRefused") /\ ~May("drop")
    BY DEF May, Polite
  <1>2. ASSUME NEW c, Take(c)
        PROVE  /\ toServer' = <<>>
               /\ \/ c = "EHLO" /\ state = "HELO" /\ Asked("EHLO")
                  \/ /\ c = "STARTTLS" /\ state = "MAIL" /\ stage = "AUTH_INIT"
                     /\ server = "helo" /\ Asked("STARTTLS")
    <2>1. toServer # <<>> /\ \A d : toServer = <<d>> => c = d /\ toServer' = <<>>
      BY <1>0, <1>2, TakeIs DEF Take
    <2> QED  BY <2>1 DEF BeforeTls, Quiet, Told, Asked
  <1>3. CASE Banner
    <2>1. /\ server = "greet" /\ server' = "ready" /\ Say(<<Banner220>>)
          /\ UNCHANGED <<fsmVars, tlsVars, clientVars, toServer, secure>>
      BY <1>1, <1>3 DEF Banner, Banner220
    <2>2. state = "GREETING" /\ toServer = <<>> /\ toClient = <<>>
      BY <2>1 DEF BeforeTls, Quiet
    <2>3. toClient' = <<Banner220>>  BY <2>1, <2>2, OneReply DEF Say
    <2>4. Told(Banner220)'  BY <2>1, <2>2, <2>3 DEF Told
    <2>5. BeforeTls'
      BY <2>1, <2>2, <2>4 DEF BeforeTls, fsmVars, tlsVars, clientVars
    <2> QED  BY <2>1, <2>5 DEF clientVars
  <1>4. CASE Ehlo
    <2>1. /\ Take("EHLO") /\ server' = "helo" /\ Say(<<Size, CanStartTls>>)
          /\ UNCHANGED <<fsmVars, tlsVars, clientVars, secure>>
      BY <1>1, <1>4 DEF Ehlo, Size, CanStartTls
    <2>2. toServer' = <<>> /\ state = "HELO" /\ toClient = <<>> /\ server # "none"
      BY <1>2, <2>1 DEF Asked, Take, ServerOpen
    <2>3. toClient' = <<Size, CanStartTls>>
      <3> HIDE DEF Size, CanStartTls
      <3>1. toClient' = <<>> \o <<Size, CanStartTls>>  BY <2>1, <2>2 DEF Say
      <3> QED  BY <3>1
    <2>4. BeforeTls'
      BY <2>1, <2>2, <2>3 DEF BeforeTls, fsmVars, tlsVars, clientVars
    <2> QED  BY <2>1, <2>4 DEF clientVars
  <1>5. CASE StartTls
    <2>1. /\ Take("STARTTLS") /\ server' = "handshake" /\ Say(<<TlsReady>>)
          /\ UNCHANGED <<fsmVars, tlsVars, clientVars, secure>>
      BY <1>1, <1>5 DEF StartTls, TlsReady
    <2>2. /\ toServer' = <<>> /\ state = "MAIL" /\ stage = "AUTH_INIT"
          /\ toClient = <<>> /\ server # "none"
      BY <1>2, <2>1 DEF Asked, Take
    <2>3. toClient' = <<TlsReady>>  BY <2>1, <2>2, OneReply DEF Say
    <2>4. Told(TlsReady)'  BY <2>2, <2>3 DEF Told
    <2>5. BeforeTls'
      BY <2>1, <2>2, <2>4 DEF BeforeTls, fsmVars, tlsVars, clientVars
    <2> QED  BY <2>1, <2>5 DEF clientVars
  <1>6. CASE \/ AuthLogin \/ Username \/ Password \/ Rset \/ MailFrom \/ RcptTo \/ Data
             \/ Message \/ Quit
    <2>1. PICK c \in {"AUTH LOGIN", "username", "password", "RSET", "MAIL FROM", "RCPT TO",
                      "DATA", "message", "QUIT"} : Take(c)
      BY <1>6 DEF AuthLogin, Username, Password, Rset, MailFrom, RcptTo, Data, Message, Quit
    <2> QED  BY <1>2, <2>1
  <1>7. CASE IdleTimeout
    <2>1. Quiet /\ server \notin {"none", "greet", "handshake"}
      BY <1>7 DEF IdleTimeout, Quiet, ServerOpen
    <2>2. (\A c : ~Asked(c)) /\ (\A r : ~Told(r))  BY <2>1 DEF Quiet, Asked, Told
    <2>3. toClient # <<Size, CanStartTls>> /\ toClient # <<CanStartTls>>
      BY <2>1 DEF Quiet
    <2> QED  BY <2>1, <2>2, <2>3 DEF BeforeTls
  <1>8. CASE Drop
    <2>1. server = "handshake" /\ toServer # <<>>  BY <1>1, <1>8 DEF Drop
    <2> QED  BY <2>1 DEF BeforeTls, Quiet, Told, Asked
  <1> QED  BY <1>3, <1>4, <1>5, <1>6, <1>7, <1>8 DEF Server

LEMMA InTlsTake ==
    ASSUME InTls, NEW c, Take(c), UNCHANGED <<fsmVars, tlsVars, clientVars, secure>>,
           NEW r \in Later, Say(<<r>>),
           server' \notin {"none", "greet", "handshake", "dropped"}
    PROVE  InTls' /\ client' = client
PROOF
  <1>1. toServer \in Seq(Secured) /\ toServer # <<>>  BY DEF InTls, Take
  <1>2. toServer' \in Seq(Secured)  BY <1>1, HeadTailProperties DEF Take
  <1>3. toClient' \in Seq(Later)
    <2>1. <<r>> \in Seq(Later) /\ toClient \in Seq(Later)  BY DEF InTls
    <2> QED  BY <2>1, ConcatProperties DEF Say
  <1> QED  BY <1>2, <1>3 DEF InTls, Take, fsmVars, tlsVars, clientVars

LEMMA InTlsServer ==
    ASSUME SInv, InTls, faults \subseteq Polite, client, Server \/ IdleTimeout \/ Drop
    PROVE  InTls' /\ client'
PROOF
  <1>0. /\ TypeOK /\ server \notin {"none", "greet", "handshake", "dropped"}
    BY DEF SInv, InTls
  <1>1. \A x, y : R(x, y).code = x  BY DEF R
  <1>2. ASSUME NEW x \in {235, 250, 334, 354, 421, 454, 500, 530, 535, 550, 554},
               NEW y \in {"SIZE", "STARTTLS", "Username:", "Password:", "error",
                          "2.0.0", "2.1.0", "2.1.5", "2.7.0", "Go"}
        PROVE  R(x, y) \in Later
    BY DEF R, Reply, Later
  <1>3. R(221, "2.0.0") \in Later  BY DEF R, Reply, Later
  <1>4. CASE Banner  BY <1>0, <1>4 DEF Banner
  <1>5. CASE Ehlo
    <2>1. FALSE
      <3>1. Take("EHLO")  BY <1>5 DEF Ehlo
      <3>2. Lockstep /\ Alive /\ ~Ended /\ state = "HELO"
        BY <1>0, <3>1, TakeIs, WhoAsks DEF SInv, OpenInv
      <3> QED  BY <3>2 DEF InTls
    <2> QED  BY <2>1
  <1>6. CASE StartTls
    <2>1. toServer \in Seq(Secured) /\ toServer # <<>> /\ Head(toServer) = "STARTTLS"
      BY <1>6 DEF InTls, StartTls, Take
    <2>2. Head(toServer) \in Secured  BY <2>1, HeadTailProperties
    <2> QED  BY <2>1, <2>2 DEF Secured
  <1>7. CASE AuthLogin
    <2>1. PICK r \in {R(334, "Username:"), R(530, "error")} :
             Say(<<r>>) /\ server' \in {"user", server}
      BY <1>7, ZenonT(60) DEF AuthLogin
    <2>2. r \in Later  BY <1>2, <2>1
    <2> QED  BY <1>0, <1>7, <2>1, <2>2, InTlsTake, ZenonT(60) DEF AuthLogin
  <1>8. CASE Username
    <2>1. R(334, "Password:") \in Later  BY <1>2
    <2> QED  BY <1>0, <1>8, <2>1, InTlsTake DEF Username
  <1>9. CASE Password
    <2>1. PICK r \in {R(235, "2.7.0"), R(535, "error"), R(454, "error")} :
             Say(<<r>>) /\ server' \in {"authed", "helo"}
      BY <1>9 DEF Password
    <2>2. r \in Later  BY <1>2, <2>1
    <2> QED  BY <1>9, <2>1, <2>2, InTlsTake, ZenonT(60) DEF Password
  <1>10. CASE Rset
    <2>1. R(250, "2.0.0") \in Later  BY <1>2
    <2> QED  BY <1>0, <1>10, <2>1, InTlsTake DEF Rset, serverVars
  <1>11. CASE MailFrom
    <2>1. PICK r \in {R(250, "2.1.0"), R(530, "error")} :
             Say(<<r>>) /\ server' \in {"mail", server}
      BY <1>11, ZenonT(60) DEF MailFrom
    <2>2. r \in Later  BY <1>2, <2>1
    <2>3. Take("MAIL FROM") /\ UNCHANGED <<fsmVars, tlsVars, clientVars, secure>>
      BY <1>11 DEF MailFrom
    <2>4. server' \notin {"none", "greet", "handshake", "dropped"}  BY <1>0, <2>1
    <2> QED  BY <2>1, <2>2, <2>3, <2>4, InTlsTake
  <1>12. CASE RcptTo
    <2>1. PICK r \in {R(250, "2.1.5"), R(550, "error")} : Say(<<r>>)
      BY <1>12, ZenonT(60) DEF RcptTo
    <2>2. r \in Later  BY <1>2, <2>1
    <2> QED  BY <1>0, <1>12, <2>1, <2>2, InTlsTake, ZenonT(60) DEF RcptTo
  <1>13. CASE Data
    <2>1. PICK r \in {R(354, "Go"), R(554, "error")} :
             Say(<<r>>) /\ server' \in {"data", server}
      BY <1>13 DEF Data
    <2>2. r \in Later  BY <1>2, <2>1
    <2> QED  BY <1>0, <1>13, <2>1, <2>2, InTlsTake, ZenonT(60) DEF Data
  <1>14. CASE Message
    <2>1. CASE server = "data"
      <3>1. PICK r \in {R(250, "2.0.0"), R(554, "error")} : Say(<<r>>) /\ server' = "authed"
        BY <1>14, <2>1 DEF Message
      <3>2. r \in Later  BY <1>2, <3>1
      <3> QED  BY <1>14, <3>1, <3>2, InTlsTake DEF Message
    <2>2. CASE server # "data"
      <3> DEFINE lines == [i \in 1..BodyLines |-> R(500, "error")]
      <3>1. server' = server /\ toClient' = toClient \o lines /\ Take("message")
            /\ UNCHANGED <<fsmVars, tlsVars, clientVars, secure>>
        BY <1>14, <2>2 DEF Message, Say
      <3>2. R(500, "error") \in Later  BY <1>2
      <3>3. lines \in Seq(Later)
        <4>1. BodyLines \in Nat /\ lines \in [1..BodyLines -> Later]
          BY <3>2, BodyLinesAssumption
        <4> QED  BY <4>1
      <3> HIDE DEF lines
      <3>4. toClient' \in Seq(Later)  BY <3>1, <3>3, ConcatProperties DEF InTls
      <3>5. toServer' \in Seq(Secured)
        <4>1. toServer \in Seq(Secured) /\ toServer # <<>> /\ toServer' = Tail(toServer)
          BY <3>1 DEF InTls, Take
        <4> QED  BY <4>1, HeadTailProperties
      <3> QED  BY <3>1, <3>4, <3>5 DEF InTls, Take, fsmVars, tlsVars, clientVars
    <2> QED  BY <2>1, <2>2
  <1>15. CASE Quit
    <2>1. server' \in {"closed", "reset"}  BY <1>15 DEF Quit
    <2> QED  BY <1>3, <1>15, <2>1, InTlsTake, ZenonT(60) DEF Quit
  <1>16. CASE IdleTimeout
    <2>1. /\ Say(<<R(421, "error")>>) /\ server' = "closed"
          /\ UNCHANGED <<fsmVars, tlsVars, clientVars, toServer, secure>>
      BY <1>16 DEF IdleTimeout
    <2>2. R(421, "error") \in Later  BY <1>2
    <2>3. toClient' \in Seq(Later)
      <3>1. <<R(421, "error")>> \in Seq(Later) /\ toClient \in Seq(Later)
        BY <2>2 DEF InTls
      <3> QED  BY <2>1, <3>1, ConcatProperties DEF Say
    <2> QED  BY <1>16, <2>1, <2>3 DEF InTls, IdleTimeout, fsmVars, tlsVars, clientVars
  <1>17. CASE Drop  BY <1>0, <1>17 DEF Drop, May, Polite
  <1> QED
    BY <1>4, <1>5, <1>6, <1>7, <1>8, <1>9, <1>10, <1>11, <1>12, <1>13, <1>14, <1>15,
       <1>16, <1>17 DEF Server

LEMMA PoliteKept == SInv /\ PoliteInv /\ [WholeNext]_vars => PoliteInv'
PROOF
  <1> SUFFICES ASSUME SInv, PoliteInv, [WholeNext]_vars, faults' \subseteq Polite
               PROVE  client' /\ (BeforeTls' \/ InTls')
    BY DEF PoliteInv
  <1>0. faults' = faults
    <2>1. CASE Server
      <3>1. CASE \/ Banner \/ Ehlo \/ StartTls \/ AuthLogin \/ Username \/ Password
        BY <3>1 DEF Banner, Ehlo, StartTls, AuthLogin, Username, Password
      <3>2. CASE \/ Rset \/ MailFrom \/ RcptTo \/ Data \/ Message \/ Quit
        BY <3>2 DEF Rset, MailFrom, RcptTo, Data, Message, Quit, serverVars
      <3> QED  BY <2>1, <3>1, <3>2 DEF Server
    <2>2. CASE WholeStep
      <3>1. \A k : Reads(k) => faults' = faults  BY Zenon DEF Reads
      <3> QED  BY <2>2, <3>1 DEF WholeStep, Start, ReadEof, Stop, ReleaseClient, serverVars
    <2>3. CASE IdleTimeout \/ Drop \/ UNCHANGED vars
      BY <2>3 DEF IdleTimeout, Drop, vars, serverVars
    <2> QED  BY <2>1, <2>2, <2>3 DEF WholeNext
  <1>1. faults \subseteq Polite /\ client /\ (BeforeTls \/ InTls)
    BY <1>0 DEF PoliteInv
  <1>2. CASE Server \/ IdleTimeout \/ Drop
    BY <1>1, <1>2, BeforeTlsServer, InTlsServer
  <1>3. CASE Start
    <2>1. /\ server = "none" /\ server' = "greet" /\ available' = TRUE
          /\ UNCHANGED <<fsmVars, tlsVars, client, reactor, netVars, secure>>
      BY <1>3 DEF Start
    <2>2. BeforeTls /\ state = "GREETING" /\ Quiet
      BY <1>1, <2>1 DEF InTls, BeforeTls
    <2>3. BeforeTls'
      BY <2>1, <2>2 DEF BeforeTls, Quiet, fsmVars, tlsVars, netVars
    <2> QED  BY <1>1, <2>1, <2>3
  <1>4. CASE \E k \in 1..Len(toClient) : Reads(k)
    <2>1. PICK k : Reads(k)  BY <1>4
    <2> QED  BY <1>1, <2>1, BeforeTlsRead, InTlsRead
  <1>5. CASE ReadEof
    <2>1. InTls  BY <1>1, <1>5 DEF ReadEof, BeforeTls
    <2>2. /\ reactor' = "closing"
          /\ UNCHANGED <<fsmVars, tlsVars, handler, client, netVars, serverVars>>
      BY <1>5, <2>1 DEF ReadEof, InTls
    <2>3. InTls'  BY <2>1, <2>2 DEF InTls, fsmVars, tlsVars, netVars, serverVars
    <2> QED  BY <1>1, <2>2, <2>3
  <1>6. CASE Stop
    <2>1. InTls  BY <1>1, <1>6 DEF Stop, BeforeTls
    <2>2. /\ reactor' = "idle"
          /\ UNCHANGED <<fsmVars, tlsVars, client, netVars, serverVars>>
      BY <1>6 DEF Stop
    <2>3. InTls'  BY <2>1, <2>2 DEF InTls, fsmVars, tlsVars, netVars, serverVars
    <2> QED  BY <1>1, <2>2, <2>3
  <1>7. CASE ReleaseClient  BY <1>1, <1>7 DEF ReleaseClient, BeforeTls, InTls, Alive
  <1>8. CASE UNCHANGED vars
    <2>1. /\ state' = state /\ stage' = stage /\ tlsUp' = tlsUp /\ ssl' = ssl
          /\ available' = available /\ client' = client /\ reactor' = reactor
          /\ toServer' = toServer /\ toClient' = toClient
          /\ server' = server /\ secure' = secure
      BY <1>8 DEF vars, fsmVars, tlsVars, clientVars, netVars, serverVars
    <2>2. InTls => InTls'  BY <2>1 DEF InTls, Alive
    <2>3. BeforeTls' <=> BeforeTls
      BY <2>1, ZenonT(60) DEF BeforeTls, Quiet, Told, Asked, Banner220, TlsReady, Size, CanStartTls, R
    <2> QED  BY <1>1, <2>1, <2>2, <2>3
  <1> QED  BY <1>2, <1>3, <1>4, <1>5, <1>6, <1>7, <1>8 DEF WholeNext, WholeStep

LEMMA PoliteInit == Init => PoliteInv
PROOF
  <1>1. ASSUME Init, faults \subseteq Polite PROVE client /\ BeforeTls
    <2>1. ~May("uninit")  BY <1>1 DEF May, Polite
    <2>2. tlsUp = FALSE  BY <1>1, <2>1 DEF Init
    <2> QED  BY <1>1, <2>2 DEF Init, BeforeTls, Quiet
  <1> QED  BY <1>1 DEF PoliteInv

-----------------------------------------------------------------------------
(* The session implements MailTransfer.  What a step must not do is hand   *)
(* over the message before the login or after the transaction has been     *)
(* given up, also while the client still reads replies of a connection     *)
(* that is gone: NoStray says what these can be, StillOpen that a client   *)
(* beyond the greeting has not been given up.                              *)

PreLogin == {"GREETING", "HELO"}
LoginFirst ==
    /\ state \in {"RCPT"} \cup Late => loggedIn
    /\ server = "none" => ~loggedIn
    /\ accepted > 0 => state = "QUIT"
NoStray ==
    /\ state \in PreLogin =>
          \A i \in 1..Len(toClient) : toClient[i].text = "STARTTLS" => i = Len(toClient)
    /\ state = "MAIL" =>
          \A i \in 1..Len(toClient) :
             /\ i = Len(toClient)
             /\ stage = "AUTH_SUCCESS" => toClient[i].code # 220
             /\ toClient[i].code = 235 => loggedIn
StillOpen ==
    /\ reactor = "idle" /\ handler /\ client => available
    /\ state \notin PreLogin => client /\ reactor # "ending"
    /\ state \in PreLogin => ssl # "up"
TransferInv == LoginFirst /\ (Alive => NoStray /\ StillOpen)

Target(a) == IF a.status = "GOTO_NEXT_STATE" THEN a.state ELSE state

LEMMA Fields ==
    \A cs, st, sg :
      /\ Goto(cs, st).status = "GOTO_NEXT_STATE" /\ Goto(cs, st).state = st
      /\ Ignore(st).status = "OK" /\ Remain(cs, st, sg).status = "REMAIN_IN_SAME_STATE"
PROOF BY DEF Goto, Ignore, Remain, Answer

(* Where the answer a to the reply rep leads, and when it ends the         *)
(* transaction.                                                            *)
Leads(rep, chunk, a) ==
    /\ state = "GREETING" => Target(a) \in PreLogin
    /\ state = "HELO" =>
          \/ Target(a) = "HELO"
          \/ /\ Target(a) = "MAIL" /\ a.cmds # <<>> /\ ~Ends(rep, a) /\ rep.code = 250
             /\ \E r \in chunk : r.text = "STARTTLS"
    /\ state = "MAIL" =>
          /\ Target(a) = "MAIL" \/ (Target(a) = "RCPT" /\ rep.code = 235)
          /\ Ends(rep, a) => stage = "AUTH_SUCCESS" /\ rep.code = 220
    /\ state = "RCPT" => Target(a) \in {"RCPT", "DATA"} /\ ~Ends(rep, a)
    /\ state = "DATA" => Target(a) \in {"DATA", "BODY"} /\ ~Ends(rep, a)
    /\ state = "BODY" => Target(a) \in {"BODY", "QUIT"} /\ ~Ends(rep, a)
    /\ state = "QUIT" => Target(a) = "QUIT" /\ ~Ends(rep, a)

LEMMA WhereTo ==
    ASSUME TypeOK, NEW rep, NEW chunk
    PROVE  Leads(rep, chunk, onRx(rep, chunk))
PROOF
  <1> USE DEF Target, Leads
  <1> DEFINE a == onRx(rep, chunk)
  <1>0. state \in States /\ stage \in AuthSteps  BY DEF TypeOK
  <1> SUFFICES Leads(rep, chunk, a)  OBVIOUS
  <1>1. CASE state = "GREETING"
    BY <1>1 DEF onRx, GREETING_onResponse, Goto, Ignore, Answer, PreLogin
  <1>2. CASE state = "HELO"
    <2>1. CASE rep.code = 250 /\ \E r \in chunk : r.text = "STARTTLS"
      <3>1. a = Goto(<<"STARTTLS">>, "MAIL")
        BY <1>2, <2>1 DEF onRx, HELO_onResponse
      <3>2. Target(a) = "MAIL" /\ a.cmds = <<"STARTTLS">> /\ a.status = "GOTO_NEXT_STATE"
        BY <3>1 DEF Goto, Answer
      <3> QED  BY <1>2, <2>1, <3>2 DEF Ends
    <2>2. CASE ~(rep.code = 250 /\ \E r \in chunk : r.text = "STARTTLS")
      <3>1. a.status # "GOTO_NEXT_STATE"
        BY <1>2, <2>2 DEF onRx, HELO_onResponse, Ignore, Answer
      <3> QED  BY <1>2, <3>1
    <2> QED  BY <2>1, <2>2
  <1>3. CASE state = "MAIL"
    <2>0. stage \in AuthSteps  BY DEF TypeOK
    <2>1. a = MAIL_onResponse(rep)  BY <1>3 DEF onRx
    <2>2. CASE rep.code = 535
      BY <1>3, <2>1, <2>2 DEF MAIL_onResponse, Ignore, Answer, Ends
    <2>3. CASE rep.code # 535
      <3>1. a = MAIL_onCommand(rep)  BY <2>1, <2>3 DEF MAIL_onResponse
      <3>2. CASE stage # "AUTH_SUCCESS"
        <4>1. \E cs, sg : a = Remain(cs, "MAIL", sg)
          <5>1. CASE stage = "AUTH_INIT"  BY <3>1, <5>1 DEF MAIL_onCommand
          <5>2. CASE stage = "AUTH_USRNAME"  BY <3>1, <5>2, Zenon DEF MAIL_onCommand
          <5>3. CASE stage = "AUTH_PASSWORD"  BY <3>1, <5>3, Zenon DEF MAIL_onCommand
          <5> QED  BY <2>0, <3>2, <5>1, <5>2, <5>3 DEF AuthSteps
        <4>2. a.status = "REMAIN_IN_SAME_STATE"  BY <4>1 DEF Remain, Answer
        <4> QED  BY <1>3, <4>2 DEF Ends
      <3>3. CASE stage = "AUTH_SUCCESS" /\ rep = R(235, "2.7.0")
        <4>1. a = Goto(<<"MAIL FROM">>, "RCPT")  BY <3>1, <3>3 DEF MAIL_onCommand
        <4>2. a.status = "GOTO_NEXT_STATE" /\ a.state = "RCPT"
          <5> HIDE DEF a
          <5> QED  BY <4>1, Fields, Zenon
        <4>3. rep.code = 235  BY <3>3 DEF R
        <4> QED  BY <1>3, <4>2, <4>3 DEF Ends
      <3>4. CASE stage = "AUTH_SUCCESS" /\ rep # R(235, "2.7.0")
        <4>1. a.status = "INCORRECT_LOGIN_CREDENTIALS"
          BY <3>1, <3>4 DEF MAIL_onCommand, Answer
        <4> QED  BY <1>3, <3>4, <4>1 DEF Ends
      <3> QED  BY <3>2, <3>3, <3>4
    <2> QED  BY <2>2, <2>3
  <1>4. CASE state = "RCPT"
    <2>1. \/ a = Ignore("RCPT") /\ rep.code # 220
          \/ a = Goto([i \in 1..NRcpt |-> "RCPT TO"], "DATA")
      <3>1. a = RCPT_onResponse(rep)  BY <1>4 DEF onRx
      <3>2. CASE rep.code = 535 \/ (rep.code = 250 /\ rep.text # "2.1.0")
        <4>1. a = Ignore("RCPT")  BY <3>1, <3>2, Zenon DEF RCPT_onResponse
        <4>2. rep.code # 220  BY <3>2
        <4> QED  BY <4>1, <4>2, Zenon
      <3>3. CASE ~(rep.code = 535 \/ (rep.code = 250 /\ rep.text # "2.1.0"))
        BY <3>1, <3>3, Zenon DEF RCPT_onResponse
      <3> QED  BY <3>2, <3>3
    <2>2. \/ a.status = "OK" /\ rep.code # 220
          \/ a.status = "GOTO_NEXT_STATE" /\ a.state = "DATA"
      <3> HIDE DEF a
      <3>1. CASE a = Ignore("RCPT") /\ rep.code # 220  BY <3>1, Fields, Zenon
      <3>2. ASSUME NEW cs, a = Goto(cs, "DATA")
            PROVE  a.status = "GOTO_NEXT_STATE" /\ a.state = "DATA"
        BY <3>2, Fields, Zenon
      <3> QED  BY <2>1, <3>1, <3>2
    <2> QED  BY <1>4, <2>2 DEF Ends
  <1>5. CASE state = "DATA"
    BY <1>5 DEF onRx, DATA_onResponse, Goto, Ignore, Answer, Ends
  <1>6. CASE state = "BODY"
    BY <1>6 DEF onRx, BODY_onResponse, Goto, Ignore, Answer, Ends
  <1>7. CASE state = "QUIT"
    <2>1. \/ a = Ignore("QUIT") /\ rep.code # 220
          \/ a = Remain(<<>>, "QUIT", stage)
          \/ a = Remain(<<"QUIT">>, "QUIT", stage)
      BY <1>7 DEF onRx, QUIT_onResponse
    <2> QED  BY <1>7, <2>1 DEF Ignore, Remain, Answer, Ends
  <1> QED  BY <1>0, <1>1, <1>2, <1>3, <1>4, <1>5, <1>6, <1>7 DEF States

(* A read: a crash or a write that does not return, or the reply rep is    *)
(* answered with a.                                                        *)
ReadFails ==
    /\ reactor' \in {"crashed", "stuck"} /\ UNCHANGED <<state, available>>
    /\ server' \in {server, "helo"} \cup Gone
ReadAnswers(k, rep, a) ==
    /\ rep \in Chunk(k) /\ a = onRx(rep, Chunk(k))
    /\ state' = Target(a) /\ stage' = a.stage
    /\ ssl' = "up" => ssl = "up" \/ (server = "handshake" /\ rep = TlsReady)
    /\ server' \in {server, "helo"} \cup Gone /\ (Ended => Ended')
    /\ rep # TlsReady => server' = server \/ (Ended /\ Ended')
    /\ server = "dropped" => server' = server
    /\ toServer' \in {toServer, toServer \o a.cmds}
    /\ a.cmds # <<>> => IF tlsUp' THEN ssl' = "up" ELSE client
    /\ Ends(rep, a) => available' = FALSE /\ reactor' = "ending"
    /\ ~Ends(rep, a) => available' = available /\ reactor' = "idle"

LEMMA ReadIs ==
    ASSUME TypeOK, NEW k, Reads(k)
    PROVE  ReadFails \/ \E rep, a : rep \in Reply /\ ReadAnswers(k, rep, a)
PROOF
  <1>1. CASE tlsUp /\ ssl # "up"
    BY <1>1 DEF Reads, ReadFails, fsmVars
  <1>2. CASE ~(tlsUp /\ ssl # "up")
    <2>1. PICK j \in 1..k : Respond(toClient[j], onRx(toClient[j], Chunk(k)))
      BY <1>2, Zenon DEF Reads, Chunk
    <2>2. PICK rep, a : rep = toClient[j] /\ a = onRx(rep, Chunk(k))  OBVIOUS
    <2>3. /\ rep \in Reply /\ rep \in Chunk(k) /\ a = onRx(rep, Chunk(k)) /\ reactor = "idle"
          /\ Respond(rep, a) /\ Stays(a)
      <3>1. j \in 1..Len(toClient) /\ reactor = "idle"  BY Rest
      <3> QED  BY <2>1, <2>2, <3>1, AnswerStays DEF TypeOK, Chunk
    <2>4. /\ ssl' = "up" => ssl = "up" \/ (server = "handshake" /\ rep = TlsReady)
          /\ server' \in {server, "helo"} \cup Gone /\ (Ended => Ended')
          /\ rep # TlsReady => server' = server \/ (Ended /\ Ended')
          /\ server = "dropped" => server' = server
      <3>1. CASE rep = TlsReady
        <4>1. PICK ok \in HandshakeOutcome : Tls_start(ok)
          BY <2>3, <3>1 DEF Respond, TlsReady
        <4>2. server # "handshake" => ok = FALSE  BY <4>1 DEF HandshakeOutcome
        <4>3. (ssl' = "up" => ok) /\ server' \in {"helo", "dropped"}
              /\ (~ok => server' = "dropped")
          BY <4>1 DEF Tls_start
        <4> QED  BY <3>1, <4>2, <4>3 DEF Ended
      <3>2. CASE rep # TlsReady
        <4>1. UNCHANGED tlsVars
              /\ server' = IF Sends(a.cmds) /\ server = "closed" THEN "reset" ELSE server
          BY <2>3, <3>2, Zenon DEF Respond, TlsReady
        <4> QED  BY <3>2, <4>1 DEF tlsVars, Ended
      <3> QED  BY <3>1, <3>2
    <2>5. CASE /\ MayFail(a.cmds)
               /\ reactor' \in IF tlsUp' THEN {"crashed", "stuck"} ELSE {"crashed"}
               /\ UNCHANGED <<state, available>>
      BY <2>4, <2>5 DEF ReadFails
    <2>6. CASE /\ MayReturn(a.cmds)
               /\ state' = a.state /\ stage' = a.stage
               /\ toServer' = Written(a.cmds)
               /\ IF rep.code = 220
                     /\ a.status \notin {"GOTO_NEXT_STATE", "REMAIN_IN_SAME_STATE"}
                  THEN available' = FALSE /\ reactor' = "ending"
                  ELSE UNCHANGED <<available, reactor>>
      <3>1. state' = Target(a) /\ stage' = a.stage  BY <2>3, <2>6 DEF Stays, Target
      <3>2. toServer' \in {toServer, toServer \o a.cmds}  BY <2>6 DEF Written
      <3>3. a.cmds # <<>> => IF tlsUp' THEN ssl' = "up" ELSE client
        BY <2>6 DEF MayReturn
      <3>4. /\ Ends(rep, a) => available' = FALSE /\ reactor' = "ending"
            /\ ~Ends(rep, a) => available' = available /\ reactor' = "idle"
        BY <2>3, <2>6, Zenon DEF Ends
      <3>5. ReadAnswers(k, rep, a)
        BY <2>3, <2>4, <3>1, <3>2, <3>3, <3>4 DEF ReadAnswers
      <3> QED  BY <2>3, <3>5
    <2> QED  BY <2>3, <2>5, <2>6, Zenon DEF Respond
  <1> QED  BY <1>1, <1>2

(* While the session is open its lockstep tells what has been said.        *)
Tidy ==
    /\ state \in PreLogin =>
          /\ ssl # "up" /\ server # "handshake"
          /\ \A i \in 1..Len(toClient) : toClient[i].text = "STARTTLS" => i = Len(toClient)
    /\ state = "MAIL" =>
          \A i \in 1..Len(toClient) :
             i = Len(toClient) /\ (stage = "AUTH_SUCCESS" => toClient[i].code # 220)

LEMMA LockstepHelps == SInv /\ Alive /\ ~Ended => Tidy
PROOF
  <1> SUFFICES ASSUME SInv, Alive, ~Ended PROVE Tidy  OBVIOUS
  <1>1. TypeOK /\ Lockstep /\ Reachable  BY DEF SInv, OpenInv
  <1>2. ASSUME state \in PreLogin, NEW i \in 1..Len(toClient), toClient[i].text = "STARTTLS"
        PROVE  i = Len(toClient)
    <2>1. CASE state = "GREETING"
      BY <1>1, <1>2, <2>1 DEF Lockstep, InGreeting, Banner220, R
    <2>2. CASE state = "HELO"
      BY <1>1, <1>2, <2>2 DEF Lockstep, InHelo, Banner220, Size, R
    <2> QED  BY <1>2, <2>1, <2>2 DEF PreLogin
  <1>3. ASSUME state = "MAIL", NEW i \in 1..Len(toClient)
        PROVE  i = Len(toClient) /\ (stage = "AUTH_SUCCESS" => toClient[i].code # 220)
    <2>1. toClient # <<>>  BY <1>3
    <2>2. \E r : toClient = <<r>>
      <3>1. \E r : Told(r)
        <4>1. InMail /\ stage \in AuthSteps  BY <1>1, <1>3 DEF Lockstep, TypeOK
        <4>2. ~Quiet /\ \A c : ~Asked(c)  BY <2>1 DEF Quiet, Asked
        <4> HIDE DEF Asked, Told, Quiet
        <4>3. CASE stage = "AUTH_INIT"  BY <4>1, <4>2, <4>3 DEF InMail
        <4>4. CASE stage = "AUTH_USRNAME"  BY <4>1, <4>2, <4>4, ZenonT(60) DEF InMail
        <4>5. CASE stage = "AUTH_PASSWORD"  BY <4>1, <4>2, <4>5 DEF InMail
        <4>6. CASE stage = "AUTH_SUCCESS"  BY <4>1, <4>2, <4>6 DEF InMail
        <4> QED  BY <4>1, <4>3, <4>4, <4>5, <4>6 DEF AuthSteps
      <3> QED  BY <3>1 DEF Told
    <2>3. Len(toClient) = 1 /\ i = 1  BY <1>3, <2>2
    <2>4. stage = "AUTH_SUCCESS" => toClient[1].code # 220
      BY <1>1, <1>3, <2>1 DEF Lockstep, InMail, Quiet, Asked, Told, R
    <2> QED  BY <2>3, <2>4
  <1>4. state \in PreLogin => ssl # "up" /\ server # "handshake"
    BY <1>1 DEF Reachable, PreLogin, Lockstep, InGreeting, InHelo
  <1> QED  BY <1>2, <1>3, <1>4 DEF Tidy

LEMMA TidyNext == (SInv /\ Alive /\ ~Ended => Tidy)'
PROOF BY LockstepHelps, PTL

-----------------------------------------------------------------------------
(* TransferInv is kept.                                                    *)

LEMMA LoginKept ==
    ASSUME SInv, TransferInv, WholeNext
    PROVE  LoginFirst'
PROOF
  <1> USE DEF Late
  <1>0. TypeOK /\ LoginFirst  BY DEF SInv, TransferInv
  <1>1. CASE UNCHANGED <<state, loggedIn, accepted, server>>
    BY <1>0, <1>1 DEF LoginFirst
  <1>2. ASSUME NEW k \in 1..Len(toClient), Reads(k) PROVE LoginFirst'
    <2>1. UNCHANGED <<loggedIn, accepted>> /\ Alive  BY <1>0, <1>2, Rest
    <2>2. CASE ReadFails
      BY <1>0, <2>1, <2>2 DEF LoginFirst, ReadFails
    <2>3. CASE \E rep, a : rep \in Reply /\ ReadAnswers(k, rep, a)
      <3>1. PICK rep, a : rep \in Reply /\ ReadAnswers(k, rep, a)  BY <2>3
      <3>2. Leads(rep, Chunk(k), a) /\ state' = Target(a) /\ server' \in {server, "helo"} \cup Gone
        BY <1>0, <3>1, WhereTo DEF ReadAnswers
      <3>3. state \in States  BY <1>0 DEF TypeOK
      <3>4. state' \in {"RCPT"} \cup Late => loggedIn
        <4>1. CASE state = "MAIL"
          <5>1. CASE state' = "MAIL"  BY <5>1
          <5>2. CASE state' # "MAIL"
            <6>1. rep.code = 235  BY <3>2, <4>1, <5>2 DEF Leads
            <6>2. PICK i \in 1..k : rep = toClient[i]  BY <3>1 DEF ReadAnswers, Chunk
            <6>3. i \in 1..Len(toClient)
              BY <1>0, <1>2, <6>2, Rest
            <6> QED  BY <2>1, <4>1, <6>1, <6>2, <6>3 DEF TransferInv, NoStray
          <5> QED  BY <5>1, <5>2
        <4>2. CASE state \in PreLogin
          BY <3>2, <4>2 DEF Leads, PreLogin
        <4> QED  BY <1>0, <3>3, <4>1, <4>2 DEF LoginFirst, States, PreLogin
      <3>5. state = "QUIT" => state' = "QUIT"  BY <3>2 DEF Leads
      <3>6. server' = "none" => server = "none"  BY <3>2
      <3> QED  BY <1>0, <2>1, <3>4, <3>5, <3>6 DEF LoginFirst
    <2> QED  BY <1>0, <1>2, <2>2, <2>3, ReadIs
  <1>3. CASE Start
    BY <1>0, <1>3 DEF LoginFirst, Start, fsmVars
  <1>4. CASE ReadEof \/ Stop \/ ReleaseClient
    BY <1>1, <1>4, Zenon DEF ReadEof, Stop, ReleaseClient, fsmVars, serverVars
  <1>5. CASE Password
    <2>1. server' # "none" /\ state' = state /\ accepted' = accepted /\ (loggedIn => loggedIn')
      BY <1>5 DEF Password, fsmVars
    <2> QED  BY <1>0, <2>1 DEF LoginFirst
  <1>6. CASE Message
    <2>1. Take("message") /\ "message" \in LateCommand  BY <1>6 DEF Message, LateCommand
    <2>2. state \in Late /\ Pipeline /\ "message" \in Sent /\ server # "none"
      BY <2>1, LateTake
    <2>3. state = "QUIT"  BY <2>2 DEF Pipeline
    <2>4. state' = state /\ loggedIn' = loggedIn /\ server' \in {server, "authed"}
      BY <1>6 DEF Message, fsmVars
    <2> QED  BY <1>0, <2>2, <2>3, <2>4 DEF LoginFirst
  <1>7. CASE Banner \/ Ehlo \/ StartTls \/ AuthLogin \/ Username \/ Rset \/ MailFrom
             \/ RcptTo \/ Data \/ Quit \/ IdleTimeout \/ Drop
    <2>1. UNCHANGED <<state, loggedIn, accepted>> /\ (server' = server \/ server' # "none")
      <3>1. UNCHANGED fsmVars /\ UNCHANGED <<loggedIn, accepted>>
        BY <1>7, Zenon DEF Banner, Ehlo, StartTls, AuthLogin, Username, Rset, MailFrom, RcptTo,
              Data, Quit, IdleTimeout, Drop, serverVars
      <3>2. server' = server \/ server' # "none"
        BY <1>7 DEF Banner, Ehlo, StartTls, AuthLogin, Username, Rset, MailFrom, RcptTo,
              Data, Quit, IdleTimeout, Drop, serverVars
      <3> QED  BY <3>1, <3>2 DEF fsmVars
    <2> QED  BY <1>0, <2>1 DEF LoginFirst
  <1> QED  BY <1>2, <1>3, <1>4, <1>5, <1>6, <1>7 DEF WholeNext, WholeStep, Server

(* What a read leaves.                                                     *)
LEMMA RestOfStray ==
    ASSUME SInv, NoStray, NEW k, Reads(k), NEW rep, NEW a, ReadAnswers(k, rep, a)
    PROVE  NoStray'
PROOF
  <1>1. /\ TypeOK /\ Leads(rep, Chunk(k), a) /\ state' = Target(a) /\ rep \in Chunk(k)
        /\ state \in States
    BY WhereTo DEF SInv, TypeOK, ReadAnswers
  <1>2. /\ k \in 1..Len(toClient) /\ Len(toClient) \in Nat \ {0}
        /\ toClient' \in Seq(Reply) /\ Len(toClient') = Len(toClient) - k
        /\ \A i \in 1..Len(toClient') :
              i + k \in 1..Len(toClient) /\ toClient'[i] = toClient[i + k]
        /\ loggedIn' = loggedIn
    BY <1>1, Rest
  <1>3. state' \in PreLogin => state \in PreLogin
    BY <1>1 DEF Leads, PreLogin, States
  <1>4. ASSUME state' \in PreLogin, NEW i \in 1..Len(toClient'), toClient'[i].text = "STARTTLS"
        PROVE  i = Len(toClient')
    <2>1. i + k = Len(toClient)  BY <1>2, <1>3, <1>4 DEF NoStray
    <2>2. i \in Int /\ k \in Int /\ Len(toClient') = Len(toClient) - k  BY <1>2
    <2> QED  BY <2>1, <2>2
  <1>5. ASSUME state' = "MAIL" PROVE Len(toClient') = 0
    <2>1. state \in {"HELO", "MAIL"}  BY <1>1, <1>5 DEF Leads, PreLogin, States
    <2>2. CASE state = "MAIL"
      <3>1. \A i \in 1..Len(toClient) : i = Len(toClient)  BY <2>2 DEF NoStray
      <3> QED  BY <1>2, <3>1
    <2>3. CASE state = "HELO"
      <3>1. \E r \in Chunk(k) : r.text = "STARTTLS"  BY <1>1, <1>5, <2>3 DEF Leads
      <3>2. PICK i \in 1..k : toClient[i].text = "STARTTLS"  BY <3>1 DEF Chunk
      <3>3. i = Len(toClient)
        <4>1. i \in 1..Len(toClient)  BY <1>2
        <4> QED  BY <2>3, <3>2, <4>1 DEF NoStray, PreLogin
      <3> QED  BY <1>2, <3>3
    <2> QED  BY <2>1, <2>2, <2>3
  <1> QED  BY <1>4, <1>5 DEF NoStray

(* What the server says before it accepts the login.                       *)
Refusals == {R(220, "2.0.0"), R(454, "error"), R(334, "Username:"), R(530, "error"),
             R(334, "Password:"), R(535, "error"), R(250, "2.0.0")}

LEMMA OtherCodes ==
    /\ \A r \in Refusals : r.code # 235
    /\ R(220, "2.0.0") \in Refusals /\ R(454, "error") \in Refusals
    /\ R(334, "Username:") \in Refusals /\ R(530, "error") \in Refusals
    /\ R(334, "Password:") \in Refusals /\ R(535, "error") \in Refusals
    /\ R(250, "2.0.0") \in Refusals
PROOF
  <1>1. \A r \in Refusals : r.code # 235  BY DEF Refusals, R
  <1> QED  BY <1>1 DEF Refusals

EarlyCommand == {"STARTTLS", "AUTH LOGIN", "username", "password", "RSET"}

LEMMA EarlyIsNotLate == \A c \in EarlyCommand : c \notin LateCommand \cup {"EHLO"}
PROOF BY Zenon DEF EarlyCommand, LateCommand

LEMMA StrayKept ==
    ASSUME SInv, TransferInv, WholeNext, Alive, Alive', SInv'
    PROVE  NoStray'
PROOF
  <1>0. TypeOK /\ NoStray  BY DEF SInv, TransferInv
  <1>1. CASE UNCHANGED <<state, stage, toClient, loggedIn>>
    BY <1>0, <1>1 DEF NoStray
  <1>2. ASSUME NEW k \in 1..Len(toClient), Reads(k) PROVE NoStray'
    <2>1. ~ReadFails  BY DEF Alive, ReadFails
    <2> QED  BY <1>0, <1>2, <2>1, ReadIs, RestOfStray
  <1>3. CASE Start \/ ReadEof \/ Stop \/ ReleaseClient \/ Drop
    <2>1. UNCHANGED fsmVars /\ UNCHANGED netVars /\ loggedIn' = loggedIn
      BY <1>3, Zenon DEF Start, ReadEof, Stop, ReleaseClient, Drop, serverVars
    <2> QED  BY <1>1, <2>1 DEF fsmVars, netVars
  <1>4. CASE IdleTimeout
    <2>1. UNCHANGED fsmVars /\ toClient' = <<R(421, "error")>>
      <3>1. toClient = <<>> /\ toClient' = toClient \o <<R(421, "error")>> /\ UNCHANGED fsmVars
        BY <1>4 DEF IdleTimeout, Say
      <3> QED  BY <3>1
    <2>2. Len(toClient') = 1 /\ toClient'[1] = R(421, "error")  BY <2>1
    <2>3. toClient'[1].code = 421 /\ toClient'[1].text = "error"  BY <2>2 DEF R
    <2> QED  BY <2>2, <2>3 DEF NoStray
  <1>5. CASE Quit
    <2>1. Take("QUIT") /\ "QUIT" \in LateCommand  BY <1>5 DEF Quit, LateCommand
    <2>2. state \in Late /\ state' = state  BY <1>5, <2>1, LateTake DEF Quit, fsmVars
    <2> QED  BY <2>2 DEF Late, NoStray, PreLogin
  <1>6. CASE Banner \/ Ehlo \/ StartTls \/ AuthLogin \/ Username \/ Password \/ Rset
             \/ MailFrom \/ RcptTo \/ Data \/ Message
    <2>1. ~Ended'
      <3>1. ~Ended  BY <1>6 DEF Ended, Take, ServerOpen, Banner, Ehlo, StartTls, AuthLogin, Username,
                      Password, Rset, MailFrom, RcptTo, Data, Message
      <3>2. server' = server \/ server' \notin {"closed", "reset", "dropped"}
        BY <1>6, ZenonT(60) DEF Banner, Ehlo, StartTls, AuthLogin, Username, Password, Rset, MailFrom,
              RcptTo, Data, Message, serverVars
      <3> QED  BY <3>1, <3>2 DEF Ended
    <2>2. Tidy'  BY <2>1, TidyNext
    <2>3. ASSUME state' = "MAIL", NEW i \in 1..Len(toClient'), toClient'[i].code = 235
          PROVE  loggedIn'
      <3>1. state = "MAIL"
        BY <1>6, <2>3, Zenon DEF Banner, Ehlo, StartTls, AuthLogin, Username, Password, Rset,
              MailFrom, RcptTo, Data, Message, fsmVars
      <3>2. ASSUME NEW r, toClient' = <<r>> PROVE r.code = 235
        <4>1. i = 1  BY <2>3, <3>2
        <4> QED  BY <2>3, <3>2, <4>1
      <3>3. CASE StartTls \/ AuthLogin \/ Username \/ Password \/ Rset
        <4>1. PICK cmd \in EarlyCommand : Take(cmd)
          BY <3>3, Zenon DEF StartTls, AuthLogin, Username, Password, Rset, EarlyCommand
        <4>2. toClient = <<>>  BY <1>0, <4>1, EarlyIsNotLate, WhoAsks DEF SInv
        <4>3. ASSUME ~loggedIn' PROVE \E r \in Refusals : toClient' = toClient \o <<r>>
          <5>1. CASE Password
            <6>1. \/ toClient' = toClient \o <<R(535, "error")>>
                  \/ toClient' = toClient \o <<R(454, "error")>>
              BY <4>3, <5>1, Zenon DEF Password, Say
            <6> QED  BY <6>1, OtherCodes, ZenonT(60)
          <5>2. CASE StartTls
            <6>1. \/ toClient' = toClient \o <<R(220, "2.0.0")>>
                  \/ toClient' = toClient \o <<R(454, "error")>>
              BY <5>2, Zenon DEF StartTls, Say
            <6> QED  BY <6>1, OtherCodes, ZenonT(60)
          <5>3. CASE AuthLogin
            <6>1. \/ toClient' = toClient \o <<R(334, "Username:")>>
                  \/ toClient' = toClient \o <<R(530, "error")>>
              BY <5>3, Zenon DEF AuthLogin, Say
            <6> QED  BY <6>1, OtherCodes, ZenonT(60)
          <5>4. CASE Username \/ Rset
            <6>1. \/ toClient' = toClient \o <<R(334, "Password:")>>
                  \/ toClient' = toClient \o <<R(250, "2.0.0")>>
              BY <5>4, Zenon DEF Username, Rset, Say
            <6> QED  BY <6>1, OtherCodes, ZenonT(60)
          <5> QED  BY <3>3, <5>1, <5>2, <5>3, <5>4
        <4>4. \A r \in Refusals : r.code # 235  BY OtherCodes
        <4>5. CASE loggedIn'  BY <4>5
        <4>6. CASE ~loggedIn'
          <5>1. PICK r \in Refusals : toClient' = <<r>>  BY <4>2, <4>3, <4>6
          <5>2. r.code = 235  BY <3>2, <5>1
          <5>3. r.code # 235  BY <4>4
          <5> QED  BY <5>2, <5>3
        <4> QED  BY <4>5, <4>6
      <3>4. CASE Banner \/ Ehlo \/ MailFrom \/ RcptTo \/ Data \/ Message
        <4>1. CASE Banner
          BY <3>1, <4>1 DEF Banner, SInv, OpenInv, Lockstep, Ended
        <4>2. CASE Ehlo
          BY <1>0, <3>1, <4>2, WhoAsks DEF Ehlo, SInv
        <4>3. CASE MailFrom
          BY <1>0, <3>1, <4>3, WhoAsks DEF MailFrom, SInv
        <4>4. CASE RcptTo \/ Data \/ Message
          <5>1. PICK c \in LateCommand : Take(c)
            BY <4>4 DEF RcptTo, Data, Message, LateCommand
          <5> QED  BY <3>1, <5>1, LateTake DEF Late
        <4> QED  BY <3>4, <4>1, <4>2, <4>3, <4>4
      <3> QED  BY <1>6, <3>3, <3>4
    <2> QED  BY <2>2, <2>3 DEF NoStray, Tidy
  <1> QED  BY <1>2, <1>3, <1>4, <1>5, <1>6 DEF WholeNext, WholeStep, Server

LEMMA OpenKept ==
    ASSUME SInv, TransferInv, WholeNext, Alive, Alive'
    PROVE  StillOpen'
PROOF
  <1>0. TypeOK /\ NoStray /\ StillOpen /\ state \in States
    BY DEF SInv, TransferInv, TypeOK
  <1>1. CASE UNCHANGED fsmVars /\ UNCHANGED tlsVars /\ UNCHANGED clientVars
    BY <1>0, <1>1 DEF StillOpen, fsmVars, tlsVars, clientVars
  <1>2. ASSUME NEW k \in 1..Len(toClient), Reads(k) PROVE StillOpen'
    <2>1. ~ReadFails  BY DEF Alive, ReadFails
    <2>2. PICK rep, a : rep \in Reply /\ ReadAnswers(k, rep, a)
      BY <1>0, <1>2, <2>1, ReadIs
    <2>3. /\ Leads(rep, Chunk(k), a) /\ state' = Target(a) /\ rep \in Chunk(k)
          /\ a.cmds # <<>> => IF tlsUp' THEN ssl' = "up" ELSE client
          /\ Ends(rep, a) => available' = FALSE /\ reactor' = "ending"
          /\ ~Ends(rep, a) => available' = available /\ reactor' = "idle"
          /\ ssl' = "up" => ssl = "up" \/ (server = "handshake" /\ rep = TlsReady)
      BY <1>0, <2>1, <2>2, WhereTo DEF ReadAnswers
    <2>4. reactor = "idle" /\ handler' = handler /\ client' = client /\ k \in 1..Len(toClient)
          /\ Len(toClient) \in Nat
      BY <1>0, <1>2, Rest
    <2>5. reactor' = "idle" /\ handler' /\ client' => available'
      <3>1. CASE Ends(rep, a)  BY <2>3, <3>1
      <3>2. CASE ~Ends(rep, a)
        <4>1. handler /\ client => available  BY <1>0, <2>4 DEF StillOpen
        <4>2. available' = available  BY <2>3, <3>2
        <4>3. handler' = handler /\ client' = client  BY <2>4
        <4> QED  BY <4>1, <4>2, <4>3, Zenon
      <3> QED  BY <3>1, <3>2
    <2>6. state \in PreLogin => ssl' # "up"
      <3>1. state \in PreLogin => ssl # "up" /\ server # "handshake"
        <4>1. CASE Ended  BY <1>0, <4>1 DEF Ended, StillOpen
        <4>2. CASE ~Ended  BY <4>2, LockstepHelps DEF Tidy
        <4> QED  BY <4>1, <4>2
      <3> QED  BY <2>3, <3>1
    <2>7. state' \in PreLogin => state \in PreLogin
      BY <1>0, <2>3 DEF Leads, PreLogin, States
    <2>8. ASSUME state' \notin PreLogin PROVE client' /\ reactor' # "ending"
      <3>1. CASE state = "HELO"
        <4>1. state' = "MAIL" /\ a.cmds # <<>> /\ ~Ends(rep, a)
          BY <2>3, <2>8, <3>1 DEF Leads, PreLogin
        <4>2. ssl' # "up"  BY <2>6, <3>1 DEF PreLogin
        <4>3. client  BY <2>3, <4>1, <4>2
        <4> QED  BY <2>3, <2>4, <4>1, <4>3
      <3>2. CASE state = "MAIL"
        <4>1. ~Ends(rep, a)
          <5>1. PICK i \in 1..k : rep = toClient[i]  BY <2>3 DEF Chunk
          <5>2. i \in 1..Len(toClient)  BY <2>4, <5>1
          <5>3. stage = "AUTH_SUCCESS" => rep.code # 220
            BY <1>0, <3>2, <5>1, <5>2 DEF NoStray
          <5> QED  BY <2>3, <3>2, <5>3 DEF Leads
        <4>2. client  BY <1>0, <3>2 DEF StillOpen, PreLogin
        <4> QED  BY <2>3, <2>4, <4>1, <4>2
      <3>3. CASE state \in {"RCPT", "DATA", "BODY", "QUIT"}
        <4>1. ~Ends(rep, a)  BY <2>3, <3>3 DEF Leads
        <4>2. client  BY <1>0, <3>3 DEF StillOpen, PreLogin
        <4> QED  BY <2>3, <2>4, <4>1, <4>2
      <3>4. state # "GREETING"  BY <2>3, <2>8 DEF Leads
      <3> QED  BY <1>0, <3>1, <3>2, <3>3, <3>4 DEF States
    <2> QED  BY <2>5, <2>6, <2>7, <2>8 DEF StillOpen
  <1>3. CASE Start
    BY <1>0, <1>3 DEF Start, StillOpen, fsmVars, tlsVars
  <1>4. CASE ReadEof
    BY <1>0, <1>4 DEF ReadEof, StillOpen, fsmVars, tlsVars, Alive
  <1>5. CASE Stop
    BY <1>0, <1>5 DEF Stop, StillOpen, fsmVars, tlsVars
  <1>6. CASE ReleaseClient
    BY <1>0, <1>6 DEF ReleaseClient, StillOpen, fsmVars, tlsVars
  <1>7. CASE Server \/ IdleTimeout \/ Drop
    <2>1. UNCHANGED fsmVars /\ UNCHANGED tlsVars /\ UNCHANGED clientVars
      BY <1>7, Zenon DEF Server, Banner, Ehlo, StartTls, AuthLogin, Username, Password, Rset,
            MailFrom, RcptTo, Data, Message, Quit, IdleTimeout, Drop
    <2> QED  BY <1>1, <2>1
  <1> QED  BY <1>2, <1>3, <1>4, <1>5, <1>6, <1>7 DEF WholeNext, WholeStep

(* Nothing revives a reactor thread that has crashed or hangs.             *)
LEMMA NotRevived ==
    ASSUME SInv, WholeNext, ~Alive
    PROVE  ~Alive'
PROOF
  <1>1. reactor \in {"stuck", "crashed"}  BY DEF Alive
  <1>2. reactor' = reactor
    <2>1. CASE WholeStep
      BY <1>1, <2>1 DEF WholeStep, Start, Reads, ReadEof, Stop, ReleaseClient
    <2>2. CASE Server \/ IdleTimeout \/ Drop
      BY <2>2 DEF Server, Take, Banner, Ehlo, StartTls, AuthLogin, Username, Password, Rset,
            MailFrom, RcptTo, Data, Message, Quit, IdleTimeout, Drop
    <2> QED  BY <2>1, <2>2 DEF WholeNext
  <1> QED  BY <1>2 DEF Alive

LEMMA TransferInvInit == Init => TransferInv
PROOF
  <1> SUFFICES ASSUME Init PROVE TransferInv  OBVIOUS
  <1>1. state = "GREETING" /\ toClient = <<>> /\ accepted = 0 /\ ~loggedIn /\ ~handler /\ client
        /\ reactor = "idle" /\ ssl = "none"
    BY DEF Init
  <1>2. LoginFirst  BY <1>1 DEF LoginFirst, Late
  <1>3. NoStray  BY <1>1 DEF NoStray
  <1>4. StillOpen  BY <1>1 DEF StillOpen, PreLogin
  <1> QED  BY <1>2, <1>3, <1>4 DEF TransferInv

LEMMA TransferInvKept == SInv /\ TransferInv /\ [WholeNext]_vars /\ SInv' => TransferInv'
PROOF
  <1> SUFFICES ASSUME SInv, TransferInv, [WholeNext]_vars, SInv' PROVE TransferInv'  OBVIOUS
  <1>1. CASE WholeNext
    <2>1. LoginFirst'  BY <1>1, LoginKept
    <2>2. Alive' => NoStray' /\ StillOpen'
      BY <1>1, NotRevived, StrayKept, OpenKept
    <2> QED  BY <2>1, <2>2 DEF TransferInv
  <1>2. CASE UNCHANGED vars
    <2>1. UNCHANGED <<state, stage, ssl, available, handler, client, reactor, toClient, server,
                      loggedIn, accepted>>
      BY <1>2, Zenon DEF vars, fsmVars, tlsVars, clientVars, netVars, serverVars
    <2>2. LoginFirst'  BY <2>1 DEF TransferInv, LoginFirst
    <2>3. Alive' => Alive /\ NoStray' /\ StillOpen'
      BY <2>1 DEF TransferInv, Alive, NoStray, StillOpen
    <2> QED  BY <2>2, <2>3 DEF TransferInv
  <1> QED  BY <1>1, <1>2

-----------------------------------------------------------------------------
(* Every step of the session is one of MailTransfer or none.               *)

LEMMA TransferInit == Init => Transfer!Init
PROOF BY DEF Init, Transfer!Init, Progress

LEMMA ReadTransfers ==
    ASSUME SInv, TransferInv, NEW k, Reads(k)
    PROVE  Transfer!Submit \/ Transfer!End \/ UNCHANGED <<Progress, available>>
PROOF
  <1>0. TypeOK /\ LoginFirst /\ state \in States  BY DEF SInv, TransferInv, TypeOK
  <1>1. /\ loggedIn' = loggedIn /\ accepted' = accepted /\ reactor = "idle" /\ Alive
        /\ Len(toClient) # 0 /\ handler
    BY <1>0, Rest DEF Reads
  <1>2. CASE ReadFails
    BY <1>1, <1>2 DEF Progress, ReadFails
  <1>3. ASSUME NEW rep, NEW a, ReadAnswers(k, rep, a)
        PROVE  Transfer!Submit \/ Transfer!End \/ UNCHANGED <<Progress, available>>
    <2>1. /\ Leads(rep, Chunk(k), a) /\ state' = Target(a)
          /\ available' = available \/ (Ends(rep, a) /\ available' = FALSE)
      BY <1>0, <1>3, WhereTo DEF ReadAnswers
    <2>2. CASE state = "BODY" /\ state' = "QUIT"
      <3>1. available' = available  BY <2>1, <2>2 DEF Leads
      <3>2. loggedIn /\ ~(accepted > 0)  BY <1>0, <2>2 DEF LoginFirst, Late
      <3>3. available
        <4>1. StillOpen  BY <1>1 DEF TransferInv
        <4> QED  BY <1>1, <2>2, <4>1 DEF StillOpen, PreLogin
      <3>4. Progress = "login" /\ Progress' = "submitted"
        BY <1>1, <2>2, <3>2 DEF Progress
      <3> QED  BY <3>1, <3>3, <3>4 DEF Transfer!Submit
    <2>3. CASE ~(state = "BODY" /\ state' = "QUIT")
      <3>1. state' = "QUIT" <=> state = "QUIT"
        BY <1>0, <2>1, <2>3 DEF Leads, States, PreLogin
      <3>2. Progress' = Progress  BY <1>1, <3>1 DEF Progress
      <3>3. CASE available' = available  BY <3>2, <3>3
      <3>4. CASE available' # available
        <4>1. available /\ available' = FALSE
          BY <1>0, <2>1, <3>4 DEF TypeOK
        <4> QED  BY <3>2, <4>1 DEF Transfer!End
      <3> QED  BY <3>3, <3>4
    <2> QED  BY <2>2, <2>3
  <1> QED  BY <1>0, <1>2, <1>3, ReadIs

LEMMA TransferStep ==
    SInv /\ TransferInv /\ [WholeNext]_vars => [Transfer!Next]_(Transfer!vars)
PROOF
  <1> SUFFICES ASSUME SInv, TransferInv, [WholeNext]_vars
               PROVE  Transfer!Next \/ UNCHANGED <<Progress, available>>
    BY DEF Transfer!vars
  <1>0. TypeOK /\ LoginFirst /\ OpenInv /\ available \in BOOLEAN
    BY DEF SInv, TransferInv, TypeOK
  <1>1. CASE UNCHANGED <<state, loggedIn, accepted, available>>
    BY <1>1 DEF Progress
  <1>2. ASSUME NEW k \in 1..Len(toClient), Reads(k)
        PROVE  Transfer!Next \/ UNCHANGED <<Progress, available>>
    BY <1>2, ReadTransfers DEF Transfer!Next
  <1>3. CASE Start
    <2>1. ~loggedIn /\ ~(accepted > 0) /\ state = "GREETING"
      <3>1. server = "none"  BY <1>3 DEF Start
      <3>2. state = "GREETING"
        BY <3>1 DEF SInv, OpenInv, OverInv, Lockstep
      <3> QED  BY <1>0, <3>1, <3>2 DEF LoginFirst
    <2>2. UNCHANGED fsmVars /\ UNCHANGED <<loggedIn, accepted>> /\ ~available /\ available' = TRUE
      BY <1>3 DEF Start
    <2>3. Progress = "unsent" /\ Progress' = Progress
      BY <2>1, <2>2 DEF Progress, fsmVars
    <2>4. Transfer!Begin  BY <1>0, <2>2, <2>3 DEF Transfer!Begin
    <2> QED  BY <2>4 DEF Transfer!Next
  <1>4. CASE ReadEof \/ Stop \/ ReleaseClient
    <2>1. UNCHANGED fsmVars /\ UNCHANGED serverVars
      BY <1>4 DEF ReadEof, Stop, ReleaseClient
    <2>2. available' \in {available, FALSE}
      BY <1>4 DEF ReadEof, Stop, ReleaseClient
    <2>3. Progress' = Progress  BY <2>1 DEF Progress, fsmVars, serverVars
    <2>4. CASE available' = available  BY <2>3, <2>4
    <2>5. CASE available' # available
      <3>1. available /\ available' = FALSE  BY <1>0, <2>2, <2>5
      <3>2. Transfer!End  BY <2>3, <3>1 DEF Transfer!End
      <3> QED  BY <3>2 DEF Transfer!Next
    <2> QED  BY <2>4, <2>5
  <1>5. CASE Password
    <2>1. state' = state /\ accepted' = accepted /\ available' = available
          /\ (loggedIn' = TRUE \/ loggedIn' = loggedIn) /\ Take("password")
      BY <1>5 DEF Password, fsmVars, clientVars
    <2>2. state = "MAIL"  BY <1>0, <2>1, WhoAsks DEF LateCommand
    <2>3. ~(accepted > 0)  BY <1>0, <2>2 DEF LoginFirst
    <2>4. CASE loggedIn' = loggedIn  BY <2>1, <2>4 DEF Progress
    <2>5. CASE loggedIn' # loggedIn
      <3>1. ~loggedIn /\ loggedIn'  BY <1>0, <2>1, <2>5 DEF TypeOK
      <3>2. Progress = "unsent" /\ Progress' = "login"
        BY <2>1, <2>2, <2>3, <3>1 DEF Progress
      <3>3. Transfer!Login  BY <2>1, <3>2 DEF Transfer!Login
      <3> QED  BY <3>3 DEF Transfer!Next
    <2> QED  BY <2>4, <2>5
  <1>6. CASE Message
    <2>1. /\ Take("message") /\ "message" \in LateCommand /\ state' = state
          /\ loggedIn' = loggedIn /\ available' = available
          /\ accepted' \in {accepted, accepted + 1}
      BY <1>6 DEF Message, LateCommand, fsmVars, clientVars
    <2>2. state = "QUIT"
      <3>1. state \in Late /\ Pipeline /\ "message" \in Sent  BY <2>1, LateTake
      <3> QED  BY <3>1 DEF Pipeline, Late
    <2>3. accepted \in Nat  BY <1>0 DEF TypeOK
    <2>4. CASE accepted' = accepted \/ accepted > 0
      BY <2>1, <2>2, <2>3, <2>4 DEF Progress
    <2>5. CASE accepted' # accepted /\ ~(accepted > 0)
      <3>1. Progress = "submitted" /\ Progress' = "delivered"
        BY <2>1, <2>2, <2>3, <2>5 DEF Progress
      <3>2. Transfer!Deliver  BY <2>1, <3>1 DEF Transfer!Deliver
      <3> QED  BY <3>2 DEF Transfer!Next
    <2> QED  BY <2>4, <2>5
  <1>7. CASE Banner \/ Ehlo \/ StartTls \/ AuthLogin \/ Username \/ Rset \/ MailFrom
             \/ RcptTo \/ Data \/ Quit \/ IdleTimeout \/ Drop
    <2>1. UNCHANGED fsmVars /\ UNCHANGED <<loggedIn, accepted>> /\ UNCHANGED clientVars
      BY <1>7, Zenon DEF Banner, Ehlo, StartTls, AuthLogin, Username, Rset, MailFrom, RcptTo,
            Data, Quit, IdleTimeout, Drop, serverVars
    <2> QED  BY <1>1, <2>1 DEF fsmVars, clientVars
  <1>8. CASE UNCHANGED vars
    BY <1>1, <1>8 DEF vars, fsmVars, clientVars, serverVars
  <1> QED  BY <1>2, <1>3, <1>4, <1>5, <1>6, <1>7, <1>8 DEF WholeNext, WholeStep, Server

(* A session is a mail transfer, whatever the server does: the sender logs *)
(* in, then hands over the message, then it is delivered, in this order    *)
(* and at most once, and nothing is handed over after the transaction has  *)
(* ended (Client::stop or endEmailTransaction) - also where the connection *)
(* broke in between and the client still reads what had arrived.  The      *)
(* lines of the server arrive whole.                                       *)
THEOREM SessionIsTransfer == Spec /\ ~May("midLine") => TransferSpec
PROOF
  <1> DEFINE Inv == NoCuts /\ Whole /\ SInv /\ TransferInv
  <1>1. Init /\ NoCuts => Inv
    <2>1. Init => Whole  BY DEF Init, Whole
    <2> QED  BY <2>1, InitHolds, TransferInvInit
  <1>2. Inv /\ [Next]_vars => Inv' /\ [WholeNext]_vars
    <2> SUFFICES ASSUME Inv, [Next]_vars PROVE Inv' /\ [WholeNext]_vars  OBVIOUS
    <2>1. NoCuts'  BY FaultsStay DEF NoCuts, May
    <2>2. [WholeNext]_vars  BY NextWhole DEF SInv
    <2>3. Whole' /\ SInv'  BY <2>2, WholeKept, StepKept DEF SInv
    <2> QED  BY <2>1, <2>2, <2>3, TransferInvKept
  <1>3. Inv /\ [WholeNext]_vars => [Transfer!Next]_(Transfer!vars)  BY TransferStep
  <1>4. ~May("midLine") => NoCuts  BY DEF NoCuts
  <1> HIDE DEF Inv
  <1> QED  BY <1>1, <1>2, <1>3, <1>4, TransferInit, PTL
           DEF Spec, TransferSpec, Transfer!Spec

-----------------------------------------------------------------------------
(* With a polite server that rejects no recipient the client never writes  *)
(* to a connection that has been reset.  A write in QUIT answers a reply   *)
(* that Asks for one; such replies, and the commands that will get one,    *)
(* are pending.  There are never more than two of them, so that when the   *)
(* server takes the first QUIT at most one write is left to come, and      *)
(* none if a second QUIT made the server reset the connection.             *)

Patient == Polite \ {"rcptRejected"}

Asks(r) == r.code # 221 /\ ~(r.code = 250 /\ r.text # "2.0.0")
Asking == {i \in 1..Len(toClient) : Asks(toClient[i])}
Ask == {"DATA", "message", "QUIT"}
Unanswered == {i \in 1..Len(toServer) : toServer[i] \in Ask}
Pending == Asking \cup {-i : i \in Unanswered}

AtMostOne(S) == \A x, y \in S : x = y
AtMostTwo(S) == \A x, y, z \in S : x = y \/ y = z \/ x = z
Few(st, S) == /\ st = "DATA" => S = {}
              /\ st = "BODY" => AtMostOne(S)
              /\ st = "QUIT" => AtMostTwo(S)

Granted ==
    /\ rcpts > 0 \/ "RCPT TO" \in Sent \/ (state = "DATA" /\ Quiet)
    /\ "RCPT TO" \in Sent => server = "mail"
PatientOpen ==
    /\ state = "RCPT" /\ toClient # <<>> => server = "mail"
    /\ state \in Late => Granted /\ Few(state, Pending)
PatientOver ==
    /\ server = "closed" => AtMostOne(Asking) /\ (state # "QUIT" => Len(toClient) <= 1)
    /\ server = "reset" => Asking = {} /\ (state # "QUIT" => toClient = <<>>)
Patience == Alive /\ (~Ended => PatientOpen) /\ PatientOver
PatientInv == faults \subseteq Patient => Patience

-----------------------------------------------------------------------------
(* How many: T has no more members than S, or one more.                    *)

Injects(T, S) == \E f \in [T -> S] : \A x, y \in T : f[x] = f[y] => x = y

LEMMA InjectsFew ==
    ASSUME NEW S, NEW T, Injects(T, S)
    PROVE  /\ S = {} => T = {}
           /\ AtMostOne(S) => AtMostOne(T)
           /\ AtMostTwo(S) => AtMostTwo(T)
PROOF
  <1>1. PICK f \in [T -> S] : \A x, y \in T : f[x] = f[y] => x = y  BY DEF Injects
  <1>2. \A x \in T : f[x] \in S  OBVIOUS
  <1>3. S = {} => T = {}  BY <1>2
  <1>4. AtMostOne(S) => AtMostOne(T)  BY <1>1, <1>2 DEF AtMostOne
  <1>5. AtMostTwo(S) => AtMostTwo(T)  BY <1>1, <1>2 DEF AtMostTwo
  <1> QED  BY <1>3, <1>4, <1>5

LEMMA OneMoreFew ==
    ASSUME NEW S, NEW T, NEW z, Injects(T \ {z}, S)
    PROVE  (S = {} => AtMostOne(T)) /\ (AtMostOne(S) => AtMostTwo(T))
PROOF
  <1>1. S = {} => AtMostOne(T)
    <2>1. S = {} => T \ {z} = {}  BY InjectsFew
    <2> QED  BY <2>1 DEF AtMostOne
  <1>2. AtMostOne(S) => AtMostTwo(T)
    <2>1. AtMostOne(S) => AtMostOne(T \ {z})  BY InjectsFew
    <2> QED  BY <2>1 DEF AtMostOne, AtMostTwo
  <1> QED  BY <1>1, <1>2

LEMMA InjectsBy ==
    ASSUME NEW S, NEW T, NEW f \in [T -> S], \A x, y \in T : f[x] = f[y] => x = y
    PROVE  Injects(T, S)
PROOF BY DEF Injects

(* A command is answered: it was pending, or its reply asks for nothing.   *)
LEMMA TakeCounts ==
    ASSUME TypeOK, NEW c, Take(c), NEW r \in Reply, Say(<<r>>), Asks(r) => c \in Ask
    PROVE  /\ Injects(Pending', Pending)
           /\ ~Asks(r) => Asking' = Asking
PROOF
  <1>1. /\ Len(toServer) \in Nat \ {0} /\ toServer[1] = c
        /\ toServer' \in Seq(Command) /\ Len(toServer') = Len(toServer) - 1
        /\ \A i \in 1..Len(toServer') : toServer'[i] = toServer[i + 1]
    BY TakeIs
  <1> DEFINE n == Len(toClient)
  <1>2. /\ n \in Nat /\ Len(toClient') = n + 1 /\ toClient'[n + 1] = r
        /\ \A i \in 1..n : toClient'[i] = toClient[i]
        /\ \A i \in 1..Len(toClient') : i \in 1..n \/ i = n + 1
    <2>1. toClient \in Seq(Reply) /\ toClient' = toClient \o <<r>>  BY DEF TypeOK, Say
    <2> DEFINE t == toClient \o <<r>>
    <2>2. /\ n \in Nat /\ Len(t) = n + 1 /\ t[Len(t)] = r
          /\ \A i \in 1..n : t[i] = toClient[i] /\ i \in 1..Len(t) /\ i < Len(t)
          /\ \A i \in 1..Len(t) : i \in 1..n \/ i = Len(t)
          /\ Len(t) \in 1..Len(t)
          /\ \A i, j \in 1..Len(t) : i < j => i \in 1..n
      BY <2>1, AppendOne, Zenon
    <2>3. toClient' = t  BY <2>1
    <2> HIDE DEF t, n
    <2>4. Len(toClient') = n + 1 /\ toClient'[Len(toClient')] = r  BY <2>2, <2>3, Zenon
    <2>5. \A i \in 1..n : toClient'[i] = toClient[i]  BY <2>2, <2>3, Zenon
    <2>6. \A i \in 1..Len(toClient') : i \in 1..n \/ i = Len(toClient')  BY <2>2, <2>3, Zenon
    <2>7. n \in Nat  BY <2>2
    <2> QED  BY <2>4, <2>5, <2>6, <2>7
  <1> HIDE DEF n
  <1>3. Asking = {i \in 1..n : Asks(toClient[i])} /\ Asking \subseteq Nat \ {0}
    BY <1>2 DEF Asking, n
  <1>4. \A i \in Asking' : i \in Asking \/ (i = n + 1 /\ Asks(r))
    BY <1>2, <1>3 DEF Asking
  <1>5. \A i \in Unanswered' : i \in Nat /\ i + 1 \in Unanswered
    <2> SUFFICES ASSUME NEW i \in Unanswered' PROVE i \in Nat /\ i + 1 \in Unanswered
      OBVIOUS
    <2>1. i \in 1..Len(toServer') /\ toServer'[i] \in Ask  BY DEF Unanswered
    <2>2. i + 1 \in 1..Len(toServer)  BY <1>1, <2>1
    <2> QED  BY <1>1, <2>1, <2>2 DEF Unanswered
  <1>6. c \in Ask => 1 \in Unanswered  BY <1>1 DEF Unanswered
  <1>7. Pending' = Asking' \cup {-i : i \in Unanswered'}  BY DEF Pending
  <1> DEFINE g(x) == IF x = n + 1 THEN -1 ELSE IF x > 0 THEN x ELSE x - 1
             f == [x \in Pending' |-> g(x)]
  <1>8. \A x \in Pending' :
           \/ x \in Asking /\ x \in Nat \ {0} /\ x <= n
           \/ x = n + 1 /\ c \in Ask
           \/ x \in Int /\ x <= 0 /\ -(x - 1) \in Unanswered
    <2> SUFFICES ASSUME NEW x \in Pending'
                 PROVE  \/ x \in Asking /\ x \in Nat \ {0} /\ x <= n
                        \/ x = n + 1 /\ c \in Ask
                        \/ x \in Int /\ x <= 0 /\ -(x - 1) \in Unanswered
      OBVIOUS
    <2>1. CASE x \in Asking'  BY <1>2, <1>3, <1>4, <2>1
    <2>2. CASE \E i \in Unanswered' : x = -i
      <3>1. PICK i \in Unanswered' : x = -i  BY <2>2
      <3>2. i \in Nat /\ i + 1 \in Unanswered  BY <1>5
      <3>3. -(x - 1) = i + 1  BY <3>1, <3>2
      <3> QED  BY <3>1, <3>2, <3>3
    <2> QED  BY <1>7, <2>1, <2>2
  <1>9. \A x \in Pending' : g(x) \in Pending
    <2> SUFFICES ASSUME NEW x \in Pending' PROVE g(x) \in Pending  OBVIOUS
    <2>1. CASE x \in Asking /\ x \in Nat \ {0} /\ x <= n
      <3>1. g(x) = x  BY <1>2, <2>1
      <3> QED  BY <2>1, <3>1 DEF Pending
    <2>2. CASE x = n + 1 /\ c \in Ask
      <3>1. g(x) = -1  BY <2>2
      <3> QED  BY <1>6, <2>2, <3>1 DEF Pending
    <2>3. CASE x \in Int /\ x <= 0 /\ -(x - 1) \in Unanswered
      <3>1. g(x) = x - 1 /\ x - 1 = -(-(x - 1))  BY <1>2, <2>3
      <3>2. PICK j : j = -(x - 1)  OBVIOUS
      <3>3. g(x) = -j /\ j \in Unanswered  BY <2>3, <3>1, <3>2
      <3> QED  BY <3>3 DEF Pending
    <2> QED  BY <1>8, <2>1, <2>2, <2>3
  <1>10. \A x, y \in Pending' : g(x) = g(y) => x = y
    <2>1. \A x \in Pending' : x \in Int  BY <1>2, <1>8
    <2>2. \A x \in Pending' : x > 0 \/ -(x - 1) # 1 \/ x = 0  BY <2>1
    <2>3. \A x \in Pending' : x # 0
      <3>1. \A i \in Unanswered' : i # 0  BY DEF Unanswered
      <3>2. \A i \in Asking' : i # 0  BY DEF Asking
      <3> QED  BY <1>5, <1>7, <3>1, <3>2
    <2> QED  BY <1>2, <2>1, <2>3
  <1> HIDE DEF g
  <1>11. f \in [Pending' -> Pending] /\ \A x, y \in Pending' : f[x] = f[y] => x = y
    BY <1>9, <1>10
  <1> HIDE DEF f
  <1>12. Injects(Pending', Pending)  BY <1>11, InjectsBy
  <1>13. ~Asks(r) => Asking' = Asking
    <2>1. \A i \in 1..n : i \in 1..Len(toClient')  BY <1>2
    <2>2. \A i \in Asking : i \in Asking'  BY <1>2, <1>3, <2>1 DEF Asking
    <2> QED  BY <1>4, <2>2
  <1> QED  BY <1>12, <1>13

(* The client reads k replies and writes at most one command: a write that *)
(* answers a reply that asks for one adds nothing.                         *)
LEMMA ReadCounts ==
    ASSUME TypeOK, NEW k, Reads(k), NEW new \in Nat \ {0}, new \notin Unanswered,
           \A i \in Unanswered' : i \in Unanswered \/ i = new,
           NEW T, T \subseteq Pending', NEW p \in 1..k, -new \in T => p \in Asking
    PROVE  Injects(T, Pending)
PROOF
  <1>1. k \in 1..Len(toClient) /\ Len(toClient) \in Nat \ {0}
        /\ \A i \in 1..Len(toClient') :
              i + k \in 1..Len(toClient) /\ toClient'[i] = toClient[i + k]
    BY Rest
  <1>2. k \in Nat \ {0} /\ p \in Nat \ {0} /\ p <= k /\ Len(toServer) \in Nat
    BY <1>1 DEF TypeOK
  <1>3. \A i \in Asking' : i \in Nat \ {0} /\ i + k \in Asking
    BY <1>1 DEF Asking, TypeOK
  <1>4. \A i \in Unanswered : i \in Nat \ {0}  BY <1>2 DEF Unanswered
  <1>5. Pending' = Asking' \cup {-i : i \in Unanswered'}  BY DEF Pending
  <1> DEFINE g(x) == IF x = -new THEN p ELSE IF x > 0 THEN x + k ELSE x
             f == [x \in T |-> g(x)]
  <1>6. \A x \in T :
           \/ x \in Nat \ {0} /\ x + k \in Asking
           \/ x = -new /\ p \in Asking
           \/ x \in Int /\ x < 0 /\ x # -new /\ x \in Pending
    <2> SUFFICES ASSUME NEW x \in T
                 PROVE  \/ x \in Nat \ {0} /\ x + k \in Asking
                        \/ x = -new /\ p \in Asking
                        \/ x \in Int /\ x < 0 /\ x # -new /\ x \in Pending
      OBVIOUS
    <2>1. CASE x \in Asking'  BY <1>3, <2>1
    <2>2. CASE \E i \in Unanswered' : x = -i
      <3>1. PICK i \in Unanswered' : x = -i  BY <2>2
      <3>2. CASE i = new  BY <3>1, <3>2
      <3>3. CASE i # new
        <4>1. i \in Unanswered /\ i \in Nat \ {0}  BY <1>4, <3>3
        <4>2. x \in Pending  BY <3>1, <4>1 DEF Pending
        <4> QED  BY <3>1, <3>3, <4>1, <4>2
      <3> QED  BY <3>2, <3>3
    <2> QED  BY <1>5, <2>1, <2>2
  <1>7. \A x \in T : g(x) \in Pending
    <2> SUFFICES ASSUME NEW x \in T PROVE g(x) \in Pending  OBVIOUS
    <2>1. CASE x \in Nat \ {0} /\ x + k \in Asking  BY <2>1 DEF Pending
    <2>2. CASE x = -new /\ p \in Asking  BY <2>2 DEF Pending
    <2>3. CASE x \in Int /\ x < 0 /\ x # -new /\ x \in Pending  BY <2>3
    <2> QED  BY <1>6, <2>1, <2>2, <2>3
  <1>8. \A x, y \in T : g(x) = g(y) => x = y
    <2>1. \A x \in T : x \in Int /\ x # 0  BY <1>6
    <2> QED  BY <1>2, <2>1
  <1> HIDE DEF g
  <1>9. f \in [T -> Pending] /\ \A x, y \in T : f[x] = f[y] => x = y
    BY <1>7, <1>8
  <1> HIDE DEF f
  <1> QED  BY <1>9, InjectsBy

LEMMA ReadsOnly ==
    ASSUME TypeOK, NEW k, Reads(k), toServer' = toServer
    PROVE  Injects(Pending', Pending)
PROOF
  <1>1. k \in Nat \ {0} /\ Len(toServer) \in Nat  BY Rest DEF TypeOK
  <1> DEFINE new == Len(toServer) + 1
  <1>2. new \in Nat \ {0} /\ new \notin Unanswered /\ 1 \in 1..k
    BY <1>1 DEF Unanswered
  <1>3. Unanswered' = Unanswered  BY DEF Unanswered
  <1>4. -new \notin Pending'
    <2>1. \A i \in Asking' : i \in Nat  BY Rest DEF Asking
    <2>2. \A i \in Unanswered' : i # new /\ i \in Nat  BY <1>2, <1>3 DEF Unanswered
    <2> QED  BY <1>2, <2>1, <2>2 DEF Pending
  <1> HIDE DEF new
  <1> QED  BY <1>2, <1>3, <1>4, ReadCounts

LEMMA ReadsAndWrites ==
    ASSUME TypeOK, NEW k, Reads(k), NEW c \in Command, toServer' = toServer \o <<c>>
    PROVE  /\ \E z : Injects(Pending' \ {z}, Pending)
           /\ \A p \in 1..k : Asks(toClient[p]) => Injects(Pending', Pending)
PROOF
  <1>1. k \in 1..Len(toClient) /\ Len(toServer) \in Nat /\ toServer \in Seq(Command)
    BY Rest DEF TypeOK
  <1> DEFINE new == Len(toServer) + 1
  <1>2. new \in Nat \ {0} /\ new \notin Unanswered /\ 1 \in 1..k
    <2>1. k \in Nat \ {0}  BY <1>1, Rest
    <2> QED  BY <1>1, <2>1 DEF Unanswered
  <1>3. \A i \in Unanswered' : i \in Unanswered \/ i = new
    <2> DEFINE t == toServer \o <<c>>
    <2>1. /\ Len(toServer) \in Nat /\ Len(t) = Len(toServer) + 1 /\ t[Len(t)] = c
          /\ \A i \in 1..Len(toServer) : t[i] = toServer[i] /\ i \in 1..Len(t) /\ i < Len(t)
          /\ \A i \in 1..Len(t) : i \in 1..Len(toServer) \/ i = Len(t)
          /\ Len(t) \in 1..Len(t)
          /\ \A i, j \in 1..Len(t) : i < j => i \in 1..Len(toServer)
      BY <1>1, AppendOne, Zenon
    <2>2. toServer' = t  OBVIOUS
    <2> HIDE DEF t
    <2>3. /\ Len(toServer') = new
          /\ \A i \in 1..Len(toServer) : toServer'[i] = toServer[i]
          /\ \A i \in 1..Len(toServer') : i \in 1..Len(toServer) \/ i = Len(toServer')
      BY <2>1, <2>2
    <2> QED  BY <2>3 DEF Unanswered
  <1> HIDE DEF new
  <1>4. Injects(Pending' \ {-new}, Pending)  BY <1>2, <1>3, ReadCounts
  <1>5. ASSUME NEW p \in 1..k, Asks(toClient[p]) PROVE Injects(Pending', Pending)
    <2>1. p \in 1..Len(toClient)  BY <1>1, Rest
    <2>2. p \in Asking  BY <1>5, <2>1 DEF Asking
    <2> QED  BY <1>2, <1>3, <2>2, ReadCounts
  <1> QED  BY <1>4, <1>5

-----------------------------------------------------------------------------
(* A read in TLS.                                                          *)

Responds(k, j, a) ==
    /\ j \in 1..k /\ a = onRx(toClient[j], Chunk(k))
    /\ state' = Target(a) /\ reactor' = reactor
    /\ toServer' = (IF Ended THEN toServer ELSE toServer \o a.cmds)
    /\ server' = (IF a.cmds # <<>> /\ server = "closed" THEN "reset" ELSE server)

LEMMA InTlsResponds ==
    ASSUME SInv, InTls, client, NEW k, Reads(k),
           server = "reset" => \A j \in 1..k : onRx(toClient[j], Chunk(k)).cmds = <<>>
    PROVE  \E j, a : Responds(k, j, a)
PROOF
  <1>0. TypeOK  BY DEF SInv
  <1>1. k \in 1..Len(toClient) /\ toClient \in Seq(Later)  BY DEF Reads, InTls
  <1>2. \A j \in 1..k : toClient[j].code # 220
    <2>1. \A i \in 1..k : toClient[i] \in Later  BY <1>1
    <2> QED  BY <2>1 DEF Later
  <1>3. PICK j \in 1..k : Respond(toClient[j], onRx(toClient[j], Chunk(k)))
    BY Zenon DEF Reads, InTls, Chunk
  <1>4. PICK rep, a : rep = toClient[j] /\ a = onRx(rep, Chunk(k))  OBVIOUS
  <1>5. rep.code # 220 /\ rep # TlsReady /\ Respond(rep, a) /\ Stays(a)
        /\ (server = "reset" => a.cmds = <<>>)
    BY <1>0, <1>2, <1>3, <1>4, ReadyIs220, AnswerStays
  <1>6. UNCHANGED <<tlsVars, secure>>
        /\ server' = (IF Sends(a.cmds) /\ server = "closed" THEN "reset" ELSE server)
    BY <1>5, Zenon DEF Respond, TlsReady
  <1>7. tlsUp' /\ ssl' = "up" /\ server # "dropped"  BY <1>6 DEF InTls, tlsVars
  <1>8. Sends(a.cmds) <=> a.cmds # <<>>  BY <1>7 DEF Sends
  <1>9. ~MayFail(a.cmds)  BY <1>5, <1>7, <1>8 DEF MayFail
  <1>10. state' = a.state /\ toServer' = Written(a.cmds) /\ reactor' = reactor
    BY <1>5, <1>9, Zenon DEF Respond
  <1>11. state' = Target(a)  BY <1>5, <1>10 DEF Stays, Target
  <1>12. toServer' = (IF Ended THEN toServer ELSE toServer \o a.cmds)
    <2>1. toServer \o <<>> = toServer  BY <1>0 DEF TypeOK
    <2>2. CASE a.cmds = <<>>  BY <1>8, <1>10, <2>1, <2>2 DEF Written
    <2>3. CASE a.cmds # <<>>  BY <1>8, <1>10, <2>3 DEF Written, Ended
    <2> QED  BY <2>2, <2>3
  <1>13. server' = (IF a.cmds # <<>> /\ server = "closed" THEN "reset" ELSE server)
    BY <1>6, <1>8
  <1>14. Responds(k, j, a)  BY <1>4, <1>10, <1>11, <1>12, <1>13 DEF Responds
  <1> QED  BY <1>14

LEMMA SentAppend ==
    ASSUME toServer \in Seq(Command), NEW c \in Command, toServer' = toServer \o <<c>>
    PROVE  Sent' = Sent \cup {c}
PROOF
  <1> DEFINE t == toServer \o <<c>>
  <1>1. /\ Len(toServer) \in Nat /\ Len(t) = Len(toServer) + 1 /\ t[Len(t)] = c
        /\ \A i \in 1..Len(toServer) : t[i] = toServer[i] /\ i \in 1..Len(t) /\ i < Len(t)
        /\ \A i \in 1..Len(t) : i \in 1..Len(toServer) \/ i = Len(t)
        /\ Len(t) \in 1..Len(t)
        /\ \A i, j \in 1..Len(t) : i < j => i \in 1..Len(toServer)
    BY AppendOne, Zenon
  <1>2. toServer' = t  OBVIOUS
  <1> HIDE DEF t
  <1> QED  BY <1>1, <1>2, Zenon DEF Sent

(* What the answer to rep writes in the later states.                      *)
Writes(rep, a) ==
    \/ a.cmds = <<>> /\ Target(a) = state
    \/ state = "DATA" /\ a.cmds = <<"DATA">> /\ Target(a) = "BODY"
    \/ state = "BODY" /\ a.cmds = <<"message">> /\ Target(a) = "QUIT"
    \/ state = "QUIT" /\ a.cmds = <<"QUIT">> /\ Target(a) = "QUIT" /\ Asks(rep)

LEMMA LateWrites ==
    ASSUME state \in Late, NEW rep, NEW chunk
    PROVE  Writes(rep, onRx(rep, chunk))
PROOF
  <1> DEFINE a == onRx(rep, chunk)
  <1>1. \A cs, to : /\ Goto(cs, to).cmds = cs /\ Goto(cs, to).state = to
                    /\ Goto(cs, to).status = "GOTO_NEXT_STATE"
    BY DEF Goto, Answer
  <1>2. Ignore(state).cmds = <<>> /\ Ignore(state).status = "OK"  BY DEF Ignore, Answer
  <1>3. \A cs, st, sg : /\ Remain(cs, st, sg).cmds = cs
                        /\ Remain(cs, st, sg).status = "REMAIN_IN_SAME_STATE"
    BY DEF Remain, Answer
  <1>4. CASE state = "DATA"
    <2>1. a = Ignore(state) \/ a = Goto(<<"DATA">>, "BODY")
      BY <1>4 DEF onRx, DATA_onResponse
    <2> HIDE DEF a
    <2>2. CASE a = Ignore(state)
      <3>1. a.cmds = <<>> /\ a.status = "OK"  BY <1>2, <2>2
      <3> QED  BY <3>1 DEF Writes, Target, a
    <2>3. CASE a = Goto(<<"DATA">>, "BODY")
      <3>1. a.cmds = <<"DATA">> /\ a.state = "BODY" /\ a.status = "GOTO_NEXT_STATE"
        BY <1>1, <2>3
      <3> QED  BY <1>4, <3>1 DEF Writes, Target, a
    <2> QED  BY <2>1, <2>2, <2>3
  <1>5. CASE state = "BODY"
    <2>1. a = Ignore(state) \/ a = Goto(<<"message">>, "QUIT")
      BY <1>5 DEF onRx, BODY_onResponse
    <2> HIDE DEF a
    <2>2. CASE a = Ignore(state)
      <3>1. a.cmds = <<>> /\ a.status = "OK"  BY <1>2, <2>2
      <3> QED  BY <3>1 DEF Writes, Target, a
    <2>3. CASE a = Goto(<<"message">>, "QUIT")
      <3>1. a.cmds = <<"message">> /\ a.state = "QUIT" /\ a.status = "GOTO_NEXT_STATE"
        BY <1>1, <2>3
      <3> QED  BY <1>5, <3>1 DEF Writes, Target, a
    <2> QED  BY <2>1, <2>2, <2>3
  <1>6. CASE state = "QUIT"
    <2>1. a = QUIT_onResponse(rep)  BY <1>6 DEF onRx
    <2>2. \/ a = Ignore(state) \/ a = Remain(<<>>, "QUIT", stage)
          \/ a = Remain(<<"QUIT">>, "QUIT", stage) /\ Asks(rep)
      <3>1. CASE rep.code = 250 /\ rep.text # "2.0.0"
        BY <1>6, <2>1, <3>1, Zenon DEF QUIT_onResponse
      <3>2. CASE rep.code = 221 /\ rep.text # "2.0.0"
        BY <1>6, <2>1, <3>2 DEF QUIT_onResponse
      <3>3. CASE rep.code = 221 /\ rep.text = "2.0.0"
        BY <1>6, <2>1, <3>3 DEF QUIT_onResponse
      <3>4. CASE rep.code # 221 /\ ~(rep.code = 250 /\ rep.text # "2.0.0")
        BY <1>6, <2>1, <3>4 DEF QUIT_onResponse, Asks
      <3> QED  BY <3>1, <3>2, <3>3, <3>4
    <2> HIDE DEF a
    <2>3. CASE a = Ignore(state)
      <3>1. a.cmds = <<>> /\ a.status = "OK"  BY <1>2, <2>3
      <3> QED  BY <3>1 DEF Writes, Target, a
    <2>4. CASE a = Remain(<<>>, "QUIT", stage)
      <3>1. a.cmds = <<>> /\ a.status = "REMAIN_IN_SAME_STATE"  BY <1>3, <2>4
      <3> QED  BY <3>1 DEF Writes, Target, a
    <2>5. CASE a = Remain(<<"QUIT">>, "QUIT", stage) /\ Asks(rep)
      <3>1. a.cmds = <<"QUIT">> /\ a.status = "REMAIN_IN_SAME_STATE"  BY <1>3, <2>5
      <3> QED  BY <1>6, <2>5, <3>1 DEF Writes, Target, a
    <2> QED  BY <2>2, <2>3, <2>4, <2>5
  <1> QED  BY <1>4, <1>5, <1>6 DEF Late

(* The server is gone: at most one more write, and none after a reset.     *)
LEMMA OverRead ==
    ASSUME SInv, InTls, client, Patience, NEW k, Reads(k), Ended
    PROVE  Patience'
PROOF
  <1>0. TypeOK  BY DEF SInv
  <1>1. /\ k \in 1..Len(toClient) /\ Len(toClient) \in Nat \ {0} /\ reactor = "idle"
        /\ toClient' \in Seq(Reply) /\ Len(toClient') = Len(toClient) - k
        /\ \A i \in 1..Len(toClient') :
              i + k \in 1..Len(toClient) /\ toClient'[i] = toClient[i + k]
    BY <1>0, Rest
  <1>2. server \in {"closed", "reset"} /\ PatientOver  BY DEF InTls, Ended, Patience
  <1>3. \A x \in Asking' : x \in Nat \ {0} /\ x + k \in Asking
    BY <1>1 DEF Asking
  <1>4. \A j \in 1..k : Asks(toClient[j]) => j \in Asking
    BY <1>1 DEF Asking
  <1>5. ASSUME state = "QUIT", NEW j \in 1..k
        PROVE  Writes(toClient[j], onRx(toClient[j], Chunk(k)))
    BY <1>5, LateWrites DEF Late
  <1>6. CASE server = "reset"
    <2>1. Asking = {} /\ state = "QUIT"
      <3>1. toClient # <<>>  BY <1>1
      <3> QED  BY <1>2, <1>6, <3>1 DEF PatientOver
    <2>2. \A j \in 1..k : onRx(toClient[j], Chunk(k)).cmds = <<>>
      BY <1>4, <1>5, <2>1 DEF Writes
    <2>3. PICK j, a : Responds(k, j, a)  BY <2>2, InTlsResponds
    <2>4. a.cmds = <<>> /\ Target(a) = "QUIT"
      BY <1>5, <2>1, <2>2, <2>3 DEF Responds, Writes
    <2>5. state' = "QUIT" /\ server' = "reset" /\ reactor' = "idle"
      BY <1>1, <1>6, <2>3, <2>4 DEF Responds
    <2>6. Asking' = {}  BY <1>3, <2>1
    <2> QED  BY <2>5, <2>6 DEF Patience, PatientOver, Alive, Ended
  <1>7. CASE server = "closed"
    <2>1. PICK j, a : Responds(k, j, a)  BY <1>7, InTlsResponds
    <2>2. /\ j \in 1..k /\ a = onRx(toClient[j], Chunk(k)) /\ reactor' = "idle"
          /\ state' = Target(a) /\ server' = (IF a.cmds # <<>> THEN "reset" ELSE "closed")
      BY <1>1, <1>7, <2>1 DEF Responds
    <2>3. CASE state = "QUIT"
      <3>1. Writes(toClient[j], a)  BY <1>5, <2>2, <2>3
      <3>2. state' = "QUIT"  BY <2>2, <2>3, <3>1 DEF Writes
      <3>3. AtMostOne(Asking')
        BY <1>1, <1>2, <1>3, <1>7 DEF PatientOver, AtMostOne
      <3>4. a.cmds # <<>> => Asking' = {}
        <4>1. SUFFICES ASSUME a.cmds # <<>>, NEW x \in Asking' PROVE FALSE  OBVIOUS
        <4>2. j \in Asking  BY <1>4, <2>2, <2>3, <3>1, <4>1 DEF Writes
        <4>3. x + k = j /\ x \in Nat \ {0}
          BY <1>2, <1>3, <1>7, <4>2 DEF PatientOver, AtMostOne
        <4> QED  BY <1>1, <2>2, <4>3
      <3> QED  BY <2>2, <3>2, <3>3, <3>4 DEF Patience, PatientOver, Alive, Ended
    <2>4. CASE state # "QUIT"
      <3>1. Len(toClient) = 1  BY <1>1, <1>2, <1>7, <2>4 DEF PatientOver
      <3>2. Len(toClient') = 0  BY <1>1, <3>1
      <3>3. toClient' = <<>> /\ Asking' = {}  BY <1>1, <3>2 DEF Asking
      <3>4. Len(toClient') <= 1 /\ AtMostOne(Asking')  BY <3>2, <3>3 DEF AtMostOne
      <3> QED  BY <2>2, <3>3, <3>4 DEF Patience, PatientOver, Alive, Ended
    <2> QED  BY <2>3, <2>4
  <1> QED  BY <1>2, <1>6, <1>7

(* The connection is open.                                                 *)
LEMMA OpenRead ==
    ASSUME SInv, InTls, client, Patience, NEW k, Reads(k), ~Ended
    PROVE  Patience'
PROOF
  <1>0. TypeOK /\ Alive  BY DEF SInv, Patience
  <1>1. /\ k \in 1..Len(toClient) /\ Len(toClient) \in Nat \ {0} /\ reactor = "idle"
        /\ toClient' \in Seq(Reply) /\ Len(toClient') = Len(toClient) - k
        /\ rcpts' = rcpts /\ toClient # <<>>
        /\ \A r : toClient = <<r>> => toClient' = <<>>
    BY <1>0, Rest
  <1>2. PICK j, a : Responds(k, j, a)  BY InTlsResponds DEF Ended
  <1>3. /\ j \in 1..k /\ a = onRx(toClient[j], Chunk(k)) /\ reactor' = "idle"
        /\ state' = Target(a) /\ toServer' = toServer \o a.cmds /\ server' = server
    BY <1>1, <1>2 DEF Responds, Ended
  <1>4. Alive' /\ PatientOver' /\ ~Ended'
    BY <1>3 DEF Alive, PatientOver, Ended
  <1>5. Lockstep /\ Pipeline  BY <1>0 DEF SInv, OpenInv
  <1>6. SUFFICES PatientOpen'  BY <1>4 DEF Patience
  <1>7. PatientOpen  BY DEF Patience
  <1>8. Leads(toClient[j], Chunk(k), a)  BY <1>0, <1>3, WhereTo
  <1>9. CASE state = "MAIL"
    <2>1. state' \in {"MAIL", "RCPT"}  BY <1>3, <1>8, <1>9 DEF Leads
    <2>2. toClient' = <<>>
      <3>1. \A i \in 1..Len(toClient) : i = Len(toClient)
        BY <1>0, <1>9, LockstepHelps DEF Tidy
      <3>2. 1 \in 1..Len(toClient)  BY <1>1
      <3>3. Len(toClient) = 1  BY <3>1, <3>2
      <3>4. Len(toClient') = 0  BY <1>1, <3>3
      <3> QED  BY <1>1, <3>4
    <2> QED  BY <2>1, <2>2 DEF PatientOpen, Late
  <1>10. CASE state = "RCPT"
    <2>1. toServer = <<>> /\ toClient' = <<>>
      BY <1>1, <1>5, <1>10 DEF Lockstep, InRcpt, Quiet, Asked, Told
    <2>2. server = "mail"  BY <1>1, <1>7, <1>10 DEF PatientOpen
    <2>3. CASE state' = "RCPT"  BY <2>1, <2>3 DEF PatientOpen, Late
    <2>4. CASE state' = "DATA"
      <3> DEFINE all == [i \in 1..NRcpt |-> "RCPT TO"]
      <3>1. a = Goto(all, "DATA")
        <4>1. a = RCPT_onResponse(toClient[j])  BY <1>3, <1>10 DEF onRx
        <4>2. a = Ignore("RCPT") \/ a = Goto(all, "DATA")  BY <4>1 DEF RCPT_onResponse
        <4>3. a = Ignore("RCPT") => Target(a) = "RCPT"
          BY <1>10 DEF Ignore, Answer, Target
        <4> QED  BY <1>3, <2>4, <4>2, <4>3
      <3>2. a.cmds = all  BY <3>1 DEF Goto, Answer
      <3>3. all \in Seq(Command) /\ Len(all) = NRcpt /\ \A i \in 1..NRcpt : all[i] = "RCPT TO"
        BY NRcptAssumption DEF Command
      <3> HIDE DEF all
      <3>4. toServer' = all
        <4>1. toServer' = <<>> \o all  BY <1>3, <2>1, <3>2
        <4>2. all \in Seq(Command)  BY <3>3
        <4>3. \A q \in Seq(Command) : <<>> \o q = q  OBVIOUS
        <4> QED  BY <4>1, <4>2, <4>3, Zenon
      <3>5. Pending' = {}
        <4>1. Asking' = {}  BY <2>1 DEF Asking
        <4>2. Unanswered' = {}  BY <3>3, <3>4 DEF Unanswered, Ask
        <4> QED  BY <4>1, <4>2 DEF Pending
      <3>6. "RCPT TO" \in Sent' \/ Quiet'
        <4>1. CASE NRcpt = 0  BY <2>1, <3>3, <3>4, <4>1 DEF Quiet
        <4>2. CASE NRcpt # 0
          <5>1. 1 \in 1..NRcpt  BY <4>2, NRcptAssumption
          <5> QED  BY <3>3, <3>4, <5>1 DEF Sent
        <4> QED  BY <4>1, <4>2
      <3>7. Granted'  BY <1>3, <2>2, <2>4, <3>6 DEF Granted
      <3> QED  BY <2>4, <3>5, <3>7 DEF PatientOpen, Few
    <2> QED  BY <1>3, <1>8, <1>10, <2>3, <2>4 DEF Leads
  <1>11. CASE state \in Late
    <2>1. Writes(toClient[j], a)  BY <1>3, <1>11, LateWrites
    <2>2. Granted /\ Few(state, Pending)  BY <1>7, <1>11 DEF PatientOpen
    <2>3. state' \in Late  BY <1>3, <1>11, <2>1 DEF Writes, Late
    <2>4. CASE a.cmds = <<>> /\ Target(a) = state
      <3>1. toServer' = toServer /\ state' = state
        <4>1. toServer \o <<>> = toServer  BY <1>0 DEF TypeOK
        <4> QED  BY <1>3, <2>4, <4>1
      <3>2. Injects(Pending', Pending)  BY <1>0, <3>1, ReadsOnly
      <3>3. Few(state', Pending')  BY <2>2, <3>1, <3>2, InjectsFew DEF Few
      <3>4. Granted'  BY <1>1, <1>3, <2>2, <3>1 DEF Granted, Sent, Quiet
      <3> QED  BY <2>3, <3>3, <3>4 DEF PatientOpen, Late
    <2>5. ASSUME NEW c \in Ask, a.cmds = <<c>>, Few(state', Pending') PROVE PatientOpen'
      <3>1. c \in Command /\ c # "RCPT TO" /\ toServer \in Seq(Command)
        BY <1>0 DEF Ask, Command, TypeOK
      <3>2. toServer' = toServer \o <<c>>  BY <1>3, <2>5
      <3>3. Sent' = Sent \cup {c}
        <4>1. Ordered  BY <1>5, <1>11 DEF Pipeline
        <4>2. Sent \subseteq LateCommand  BY <1>5, <1>11, Vocabulary
        <4> QED  BY <3>1, <3>2, SentAppend
      <3>4. Granted'  BY <1>1, <1>3, <2>2, <3>1, <3>3 DEF Granted, Quiet
      <3> QED  BY <2>3, <2>5, <3>4 DEF PatientOpen, Late
    <2>6. ASSUME NEW c \in Ask, a.cmds = <<c>>
          PROVE  /\ \E z : Injects(Pending' \ {z}, Pending)
                 /\ Asks(toClient[j]) => Injects(Pending', Pending)
      <3>1. c \in Command  BY DEF Ask, Command
      <3>2. toServer' = toServer \o <<c>>  BY <1>3, <2>6
      <3> QED  BY <1>0, <1>3, <3>1, <3>2, ReadsAndWrites
    <2>7. "DATA" \in Ask /\ "message" \in Ask /\ "QUIT" \in Ask  BY DEF Ask
    <2>8. CASE state = "DATA" /\ a.cmds = <<"DATA">> /\ Target(a) = "BODY"
      <3>1. Pending = {} /\ state' = "BODY"  BY <1>3, <2>2, <2>8 DEF Few
      <3>2. AtMostOne(Pending')  BY <2>6, <2>7, <2>8, <3>1, OneMoreFew
      <3>3. Few(state', Pending')  BY <3>1, <3>2 DEF Few
      <3> QED  BY <2>5, <2>7, <2>8, <3>3
    <2>9. CASE state = "BODY" /\ a.cmds = <<"message">> /\ Target(a) = "QUIT"
      <3>1. AtMostOne(Pending) /\ state' = "QUIT"  BY <1>3, <2>2, <2>9 DEF Few
      <3>2. AtMostTwo(Pending')  BY <2>6, <2>7, <2>9, <3>1, OneMoreFew
      <3>3. Few(state', Pending')  BY <3>1, <3>2 DEF Few
      <3> QED  BY <2>5, <2>7, <2>9, <3>3
    <2>10. CASE /\ state = "QUIT" /\ a.cmds = <<"QUIT">> /\ Target(a) = "QUIT"
                /\ Asks(toClient[j])
      <3>1. AtMostTwo(Pending) /\ state' = "QUIT"  BY <1>3, <2>2, <2>10 DEF Few
      <3>2. AtMostTwo(Pending')  BY <2>6, <2>7, <2>10, <3>1, InjectsFew
      <3>3. Few(state', Pending')  BY <3>1, <3>2 DEF Few
      <3> QED  BY <2>5, <2>7, <2>10, <3>3
    <2> QED  BY <2>1, <2>4, <2>8, <2>9, <2>10 DEF Writes
  <1> QED  BY <1>0, <1>9, <1>10, <1>11 DEF InTls, TypeOK, States, Late

-----------------------------------------------------------------------------
(* The server answers.                                                     *)

LEMMA EarlyPatience ==
    ASSUME SInv, Patience, NEW c, Take(c), c \notin LateCommand \cup {"MAIL FROM"},
           UNCHANGED <<fsmVars, clientVars>>, server' \notin Gone
    PROVE  Patience'
PROOF
  <1>1. TypeOK /\ OpenInv /\ Alive  BY DEF SInv, Patience
  <1>2. c \in Command  BY <1>1, TakeIs
  <1>3. state \in {"HELO", "MAIL"}
    BY <1>1, <1>2, WhoAsks DEF Command, LateCommand
  <1>4. state' \in {"HELO", "MAIL"} /\ Alive'  BY <1>1, <1>3 DEF fsmVars, clientVars, Alive
  <1> QED  BY <1>4 DEF Patience, PatientOpen, PatientOver, Late

LEMMA LatePatience ==
    ASSUME SInv, Patience, NEW c, Take(c), c \in LateCommand,
           NEW r \in Reply, Say(<<r>>), Asks(r) => c \in Ask,
           UNCHANGED <<fsmVars, clientVars>>, server' \notin Gone, Granted'
    PROVE  Patience'
PROOF
  <1>1. TypeOK /\ ~Ended /\ state \in Late /\ state' = state /\ Alive'
    BY LateTake DEF fsmVars, clientVars, Patience, Alive
  <1>2. Few(state, Pending)  BY <1>1 DEF Patience, PatientOpen
  <1>3. Injects(Pending', Pending)  BY <1>1, TakeCounts
  <1>4. Few(state', Pending')  BY <1>1, <1>2, <1>3, InjectsFew DEF Few
  <1> QED  BY <1>1, <1>4 DEF Patience, PatientOpen, PatientOver, Late

LEMMA PatientServer ==
    ASSUME SInv, InTls, LoginFirst, Patience, faults \subseteq Patient, Server
    PROVE  Patience'
PROOF
  <1>0. /\ TypeOK /\ OpenInv /\ server \notin {"none", "greet", "handshake", "dropped"}
        /\ ~May("rcptRejected")
    BY DEF SInv, InTls, Patient, May
  <1>1. CASE Banner  BY <1>0, <1>1 DEF Banner
  <1>2. ASSUME NEW c, Take(c) PROVE server \notin Gone
    BY <1>2 DEF Take, ServerOpen
  <1>3. CASE Ehlo \/ StartTls \/ AuthLogin \/ Username \/ Password \/ Rset
    <2>1. PICK c \in {"EHLO", "STARTTLS", "AUTH LOGIN", "username", "password", "RSET"} :
             Take(c)
      BY <1>3 DEF Ehlo, StartTls, AuthLogin, Username, Password, Rset
    <2>2. c \notin LateCommand \cup {"MAIL FROM"}  BY DEF LateCommand
    <2>3. server' \in {server, "helo", "handshake", "user", "pass", "authed"}
          /\ UNCHANGED <<fsmVars, clientVars>>
      <3>1. CASE Ehlo  BY <3>1, Zenon DEF Ehlo
      <3>2. CASE StartTls  BY <3>2, Zenon DEF StartTls
      <3>3. CASE AuthLogin  BY <3>3, Zenon DEF AuthLogin
      <3>4. CASE Username  BY <3>4, Zenon DEF Username
      <3>5. CASE Password  BY <3>5, Zenon DEF Password
      <3>6. CASE Rset  BY <3>6, Zenon DEF Rset, serverVars
      <3> QED  BY <1>3, <3>1, <3>2, <3>3, <3>4, <3>5, <3>6
    <2>4. server' \notin Gone  BY <1>2, <2>1, <2>3
    <2> QED  BY <2>1, <2>2, <2>3, <2>4, EarlyPatience
  <1>4. CASE MailFrom
    <2>1. PICK c : c = "MAIL FROM"  OBVIOUS
    <2>2. Take(c) /\ UNCHANGED <<fsmVars, clientVars>>
          /\ (loggedIn => server' = "mail")
      BY <1>4, <2>1, Zenon DEF MailFrom
    <2>3. state = "RCPT"  BY <1>0, <2>1, <2>2, WhoAsks
    <2>4. server' = "mail"  BY <2>2, <2>3 DEF LoginFirst
    <2>5. state' = "RCPT" /\ Alive'  BY <2>2, <2>3 DEF fsmVars, clientVars, Alive, Patience
    <2> QED  BY <2>4, <2>5 DEF Patience, PatientOpen, PatientOver, Late
  <1>5. ASSUME NEW c \in LateCommand, Take(c)
        PROVE  /\ Granted /\ (state = "QUIT" => AtMostTwo(Pending)) /\ Pipeline
               /\ c \in Sent /\ DataMode /\ rcpts \in Nat /\ Alive /\ state \in Late
               /\ Sent' \subseteq Sent /\ \A d \in Sent : d = c \/ d \in Sent'
    <2>1. /\ TypeOK /\ ~Ended /\ state \in Late /\ c \in Sent /\ DataMode /\ rcpts \in Nat
          /\ Sent' \subseteq Sent /\ Alive /\ Pipeline
      BY <1>5, LateTake
    <2>2. Granted /\ Few(state, Pending)  BY <2>1 DEF Patience, PatientOpen
    <2>3. \A d \in Sent : d = c \/ d \in Sent'  BY <1>5, <2>1, SentTail
    <2> QED  BY <2>1, <2>2, <2>3 DEF Few
  <1>r. /\ R(250, "2.1.5") \in Reply /\ ~Asks(R(250, "2.1.5"))
        /\ R(354, "Go") \in Reply /\ R(250, "2.0.0") \in Reply /\ R(554, "error") \in Reply
        /\ R(221, "2.0.0") \in Reply /\ ~Asks(R(221, "2.0.0"))
    BY DEF R, Reply, Asks
  <1>6. CASE RcptTo
    <2>1. PICK c : c = "RCPT TO"  OBVIOUS
    <2>2. Take(c) /\ c \in LateCommand  BY <1>6, <2>1 DEF RcptTo, LateCommand
    <2>3. Granted /\ c \in Sent /\ rcpts \in Nat  BY <1>5, <2>2
    <2>4. server = "mail"  BY <2>1, <2>3 DEF Granted
    <2>5. /\ Say(<<R(250, "2.1.5")>>) /\ rcpts' = rcpts + 1 /\ server' = server
          /\ UNCHANGED <<fsmVars, clientVars>>
      BY <1>0, <1>6, <2>4, Zenon DEF RcptTo
    <2>6. Granted'
      <3>1. rcpts' > 0 /\ server' = "mail"  BY <2>3, <2>4, <2>5
      <3> QED  BY <3>1, Zenon DEF Granted
    <2> QED  BY <1>r, <2>2, <2>4, <2>5, <2>6, LatePatience
  <1>7. CASE Data
    <2>1. PICK c : c = "DATA"  OBVIOUS
    <2>2. Take(c) /\ c \in LateCommand /\ c \in Ask
      BY <1>7, <2>1 DEF Data, LateCommand, Ask
    <2>3. /\ Granted /\ c \in Sent /\ rcpts \in Nat /\ Pipeline /\ state \in Late
          /\ \A d \in Sent : d = c \/ d \in Sent'
      BY <1>5, <2>2
    <2>4. UNCHANGED <<fsmVars, clientVars, rcpts>>  BY <1>7 DEF Data
    <2>5. \A d \in Sent' : Follows(c, d)
      BY <2>2, <2>3, <2>4, OrderedTail DEF Recipients
    <2>6. "RCPT TO" \notin Sent'  BY <2>1, <2>5, Zenon DEF Follows
    <2>7. "RCPT TO" \notin Sent  BY <2>1, <2>3, <2>6, Zenon
    <2>8. state # "DATA"  BY <2>1, <2>3 DEF Pipeline
    <2>9. rcpts > 0  BY <2>3, <2>7, <2>8 DEF Granted
    <2>10. Say(<<R(354, "Go")>>) /\ server' = "data"  BY <1>7, <2>9 DEF Data
    <2>11. Granted'  BY <2>4, <2>6, <2>9 DEF Granted
    <2> QED  BY <1>r, <2>2, <2>4, <2>10, <2>11, LatePatience
  <1>8. CASE Message
    <2>1. PICK c : c = "message"  OBVIOUS
    <2>2. Take(c) /\ c \in LateCommand /\ c \in Ask
      BY <1>8, <2>1 DEF Message, LateCommand, Ask
    <2>3. /\ Granted /\ c \in Sent /\ rcpts \in Nat /\ Pipeline /\ state \in Late /\ DataMode
          /\ Sent' \subseteq Sent
      BY <1>5, <2>2
    <2>4. UNCHANGED <<fsmVars, clientVars, rcpts>>  BY <1>8 DEF Message
    <2>5. state = "QUIT"  BY <2>1, <2>3 DEF Pipeline, Late
    <2>6. server = "data"
      <3>1. Len(toServer) \in Nat \ {0} /\ toServer[1] = "message"
        BY <1>0, <2>1, <2>2, TakeIs
      <3>2. 1 \in 1..Len(toServer) /\ \A j \in 1..Len(toServer) : ~(j < 1)  BY <3>1
      <3>3. server = "data" \/ NoRecipient  BY <2>3, <3>1, <3>2 DEF DataMode
      <3>4. rcpts = 0 => ~(rcpts > 0)  OBVIOUS
      <3>5. state # "DATA"  BY <2>5
      <3> QED  BY <2>3, <3>3, <3>4, <3>5, Zenon DEF Granted, NoRecipient
    <2>7. PICK r \in {R(250, "2.0.0"), R(554, "error")} : Say(<<r>>)
      BY <1>8, <2>6 DEF Message
    <2>8. server' = "authed"  BY <1>8, <2>6 DEF Message
    <2>9. "RCPT TO" \notin Sent /\ rcpts > 0
      BY <2>3, <2>5, <2>6 DEF Granted, DataMode
    <2>10. Granted'  BY <2>3, <2>4, <2>9 DEF Granted
    <2>11. r \in Reply  BY <1>r, <2>7
    <2> QED  BY <2>2, <2>4, <2>7, <2>8, <2>10, <2>11, LatePatience
  <1>9. CASE Quit
    <2>1. PICK c : c = "QUIT"  OBVIOUS
    <2>2. Take(c) /\ c \in LateCommand /\ c \in Ask /\ Say(<<R(221, "2.0.0")>>)
      BY <1>9, <2>1 DEF Quit, LateCommand, Ask
    <2>3. /\ (state = "QUIT" => AtMostTwo(Pending)) /\ c \in Sent /\ Pipeline /\ Alive
          /\ state \in Late
      BY <1>5, <2>2
    <2>4. /\ UNCHANGED <<fsmVars, clientVars, rcpts>>
          /\ server' = IF toServer' = <<>> THEN "closed" ELSE "reset"
      BY <1>9 DEF Quit
    <2>5. state = "QUIT" /\ AtMostTwo(Pending)  BY <2>1, <2>3 DEF Pipeline, Late
    <2>6. Asking' = Asking  BY <1>0, <1>r, <2>2, TakeCounts
    <2>7. /\ Len(toServer) \in Nat \ {0} /\ toServer[1] = "QUIT"
          /\ toServer' \in Seq(Command) /\ Len(toServer') = Len(toServer) - 1
          /\ \A i \in 1..Len(toServer') : toServer'[i] = toServer[i + 1]
      BY <1>0, <2>1, <2>2, TakeIs
    <2>8. 1 \in Unanswered  BY <2>7 DEF Unanswered, Ask
    <2>9. -1 \in Pending  BY <2>8 DEF Pending
    <2>10. \A x \in Asking : x \in Pending /\ x # -1 /\ x # -2
      BY DEF Pending, Asking
    <2>11. AtMostOne(Asking)  BY <2>5, <2>9, <2>10 DEF AtMostOne, AtMostTwo
    <2>12. CASE toServer' = <<>>
      BY <2>3, <2>4, <2>5, <2>6, <2>11, <2>12
         DEF Patience, PatientOver, Alive, Ended, fsmVars, clientVars
    <2>13. CASE toServer' # <<>>
      <3>1. 1 \in 1..Len(toServer') /\ 2 \in 1..Len(toServer)  BY <2>7, <2>13
      <3>2. toServer[2] \in Sent'  BY <2>7, <3>1 DEF Sent
      <3>3. \A d \in Sent' : Follows(c, d)
        BY <2>2, <2>3, <2>4, OrderedTail DEF Recipients
      <3>4. toServer[2] = "QUIT"
        <4>1. toServer[2] \in LateCommand
          BY <2>3, <3>1, Vocabulary DEF Sent
        <4>2. Follows("QUIT", toServer[2])  BY <2>1, <3>2, <3>3
        <4> QED  BY <4>1, <4>2 DEF Follows, LateCommand
      <3>5. 2 \in Unanswered  BY <3>1, <3>4 DEF Unanswered, Ask
      <3>6. -2 \in Pending  BY <3>5 DEF Pending
      <3>7. Asking = {}  BY <2>5, <2>9, <2>10, <3>6 DEF AtMostTwo
      <3> QED  BY <2>3, <2>4, <2>5, <2>6, <2>13, <3>7
               DEF Patience, PatientOver, Alive, Ended, fsmVars, clientVars
    <2> QED  BY <2>12, <2>13
  <1> QED  BY <1>1, <1>3, <1>4, <1>6, <1>7, <1>8, <1>9 DEF Server

(* Before TLS, and right after the handshake, there is nothing to count.   *)
LEMMA FreshPatience == Fresh => Patience
PROOF BY DEF Fresh, Patience, PatientOpen, PatientOver, Late, Ended

LEMMA FreshPatienceNext == (Fresh => Patience)'
PROOF BY FreshPatience, PTL

LEMMA SamePatience ==
    ASSUME Patience, Alive', UNCHANGED <<fsmVars, netVars, serverVars>>
    PROVE  Patience'
PROOF
  <1>1. /\ state' = state /\ toServer' = toServer /\ toClient' = toClient
        /\ server' = server /\ rcpts' = rcpts
    BY DEF fsmVars, netVars, serverVars
  <1>2. Ended' = Ended /\ Sent' = Sent /\ Asking' = Asking /\ Unanswered' = Unanswered
    BY <1>1 DEF Ended, Sent, Asking, Unanswered
  <1>3. Pending' = Pending  BY <1>2 DEF Pending
  <1>4. Granted' = Granted  BY <1>1, <1>2 DEF Granted, Quiet
  <1> QED  BY <1>1, <1>2, <1>3, <1>4 DEF Patience, PatientOpen, PatientOver

LEMMA PatientKept ==
    ASSUME SInv, LoginFirst, PoliteInv, PatientInv, [WholeNext]_vars, faults' = faults
    PROVE  PatientInv'
PROOF
  <1> SUFFICES ASSUME faults' \subseteq Patient PROVE Patience'  BY DEF PatientInv
  <1>1. faults \subseteq Patient /\ faults \subseteq Polite  BY DEF Patient
  <1>2. client /\ Patience /\ (BeforeTls \/ InTls)
    BY <1>1 DEF PatientInv, PoliteInv
  <1>3. CASE BeforeTls
    <2>1. BeforeTls' => Fresh'  BY DEF BeforeTls, Fresh, Alive, Ended
    <2>2. CASE \E k \in 1..Len(toClient) : Reads(k)
      <3>1. PICK k : Reads(k)  BY <2>2
      <3>2. Fresh'  BY <1>1, <1>2, <1>3, <2>1, <3>1, BeforeTlsRead
      <3> QED  BY <3>2, FreshPatienceNext
    <2>3. CASE Server \/ IdleTimeout \/ Drop
      <3>1. Fresh'  BY <1>1, <1>2, <1>3, <2>1, <2>3, BeforeTlsServer
      <3> QED  BY <3>1, FreshPatienceNext
    <2>4. CASE Start
      <3>1. Fresh'  BY <1>3, <2>4 DEF Start, BeforeTls, Fresh, Alive, Ended, fsmVars
      <3> QED  BY <3>1, FreshPatienceNext
    <2>5. CASE ReadEof \/ Stop \/ ReleaseClient
      BY <1>3, <2>5 DEF ReadEof, Stop, ReleaseClient, BeforeTls
    <2>6. CASE UNCHANGED vars
      <3>1. /\ Alive' /\ UNCHANGED <<fsmVars, netVars, serverVars>>
        BY <1>2, <2>6 DEF Alive, Patience, vars, clientVars
      <3> QED  BY <1>2, <3>1, SamePatience
    <2> QED  BY <2>2, <2>3, <2>4, <2>5, <2>6 DEF WholeNext, WholeStep
  <1>4. CASE InTls
    <2>1. CASE Start  BY <1>4, <2>1 DEF Start, InTls
    <2>2. ASSUME NEW k, Reads(k) PROVE Patience'
      BY <1>2, <1>4, <2>2, OverRead, OpenRead
    <2>3. CASE ReadEof
      <3>1. /\ Alive' /\ UNCHANGED <<fsmVars, netVars, serverVars>>
        BY <1>4, <2>3 DEF ReadEof, InTls, Alive
      <3> QED  BY <1>2, <3>1, SamePatience
    <2>4. CASE Stop
      <3>1. /\ Alive' /\ UNCHANGED <<fsmVars, netVars, serverVars>>
        BY <2>4 DEF Stop, Alive
      <3> QED  BY <1>2, <3>1, SamePatience
    <2>5. CASE ReleaseClient  BY <1>2, <1>4, <2>5 DEF ReleaseClient, InTls, Patience, Alive
    <2>6. CASE Server  BY <1>1, <1>2, <1>4, <2>6, PatientServer
    <2>7. CASE IdleTimeout
      <3>1. /\ Alive /\ server' = "closed" /\ toClient' = <<>> \o <<R(421, "error")>>
            /\ UNCHANGED clientVars
        BY <2>7 DEF IdleTimeout, Say
      <3>2. Len(toClient') = 1  BY <3>1, OneReply
      <3>3. AtMostOne(Asking')  BY <3>2 DEF AtMostOne, Asking
      <3>4. Alive'  BY <3>1 DEF clientVars, Alive
      <3> QED  BY <3>1, <3>2, <3>3, <3>4 DEF Patience, PatientOver, Ended
    <2>8. CASE Drop
      <3>1. ~May("drop")  BY <1>1 DEF Polite, May
      <3> QED  BY <1>4, <2>8, <3>1 DEF Drop, InTls
    <2>9. CASE UNCHANGED vars
      <3>1. /\ Alive' /\ UNCHANGED <<fsmVars, netVars, serverVars>>
        BY <1>2, <2>9 DEF Alive, Patience, vars, clientVars
      <3> QED  BY <1>2, <3>1, SamePatience
    <2> QED  BY <2>1, <2>2, <2>3, <2>4, <2>5, <2>6, <2>7, <2>8, <2>9
             DEF WholeNext, WholeStep
  <1> QED  BY <1>2, <1>3, <1>4

(* With a server that keeps to the protocol client and server agree on     *)
(* TLS, and handle_input returns; but where the server rejects recipients  *)
(* the client may be writing to a connection the server has reset.         *)
THEOREM PoliteSessionsReturn == Spec => []AlwaysReturns
PROOF
  <1> DEFINE Inv == /\ NoCuts => Whole /\ SInv /\ TransferInv
                    /\ PoliteInv /\ PatientInv
  <1>1. Init => Inv
    <2>1. Init => Whole  BY DEF Init, Whole
    <2>2. Init => Fresh  BY DEF Init, Fresh, Alive, Ended
    <2> QED  BY <2>1, <2>2, InitHolds, TransferInvInit, PoliteInit, FreshPatience DEF PatientInv
  <1>2. Inv /\ [Next]_vars => Inv'
    <2> SUFFICES ASSUME Inv, [Next]_vars PROVE Inv'  OBVIOUS
    <2>1. faults' = faults  BY FaultsStay
    <2>2. CASE NoCuts
      <3>1. [WholeNext]_vars  BY <2>2, NextWhole DEF SInv
      <3>2. Whole' /\ SInv'  BY <2>2, <3>1, WholeKept, StepKept DEF SInv
      <3>3. TransferInv'  BY <2>2, <3>1, <3>2, TransferInvKept
      <3>4. PoliteInv'  BY <2>2, <3>1, PoliteKept
      <3>5. PatientInv'  BY <2>1, <2>2, <3>1, PatientKept DEF TransferInv
      <3> QED  BY <3>2, <3>3, <3>4, <3>5
    <2>3. CASE ~NoCuts
      <3>1. ~NoCuts' /\ ~(faults' \subseteq Polite) /\ ~(faults' \subseteq Patient)
        BY <2>1, <2>3 DEF NoCuts, May, Polite, Patient
      <3> QED  BY <3>1 DEF PoliteInv, PatientInv
    <2> QED  BY <2>2, <2>3
  <1>3. Inv => AlwaysReturns
    <2> SUFFICES ASSUME PoliteInv, PatientInv, faults \subseteq Polite
                 PROVE  TlsAgrees /\ (Alive \/ (server = "reset" /\ May("rcptRejected")))
      BY DEF AlwaysReturns
    <2>1. BeforeTls => Alive /\ TlsAgrees  BY DEF BeforeTls, Alive, TlsAgrees
    <2>2. InTls => TlsAgrees /\ (Alive \/ server = "reset")
      BY DEF InTls, Alive, TlsAgrees
    <2>3. ~May("rcptRejected") => Alive
      <3>1. ~May("rcptRejected") => faults \subseteq Patient  BY DEF May, Patient
      <3> QED  BY <3>1 DEF PatientInv, Patience
    <2> QED  BY <2>1, <2>2, <2>3 DEF PoliteInv
  <1> HIDE DEF Inv
  <1> QED  BY <1>1, <1>2, <1>3, PTL DEF Spec

=============================================================================
