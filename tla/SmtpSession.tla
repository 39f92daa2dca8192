---------------------------- MODULE SmtpSession ----------------------------
(***************************************************************************)
(* One e-mail session of granada's SMTP client (SMTP::Client, SMTP::User,  *)
(* SMTP::Tls and the state machine of emailservice_fsm.cc) with the SMTP   *)
(* server, as the reactor runs it: every chunk of input is one call of     *)
(* Client::handle_input.  The threads around it are in MailTransaction.    *)
(*                                                                         *)
(* A command or a line of a reply is one message of a FIFO channel; a read *)
(* takes any non-empty prefix of what has arrived, because TCP may split   *)
(* or join lines, and with the fault "midLine" it may end inside a line.   *)
(* A line is its code and its first word ("text"), all parseSmtpCommand    *)
(* keeps of it.                                                            *)
(*                                                                         *)
(* The server is not part of the repository: it answers each command as    *)
(* the client's state machine expects it, or in one of the ways faults     *)
(* allows.  A first write to a connection the server closed is lost and    *)
(* makes its host reset the connection; what a later one meets is in Read. *)
(***************************************************************************)
EXTENDS Integers, Sequences

CONSTANTS
    NRcpt,      \* length of Account::m_to_email
    BodyLines,  \* lines of the message, when the server takes it for commands
    FaultSets   \* what may go wrong in a session: one of these sets of faults

(* What the server may do other than the expected; "uninit": m_isTlsUP,    *)
(* which no constructor sets, holds anything; "connect", a refused         *)
(* connection, and "lateGreeting", one that takes longer than the worker   *)
(* to wait for it, are for MailTransaction.  "midLine": TCP delivers a     *)
(* line in two parts, which is the network's doing and not the server's.   *)
Polite == {"badCredentials", "rcptRejected", "contentRejected", "idle"}
FaultName == Polite \cup
    {"uninit", "connect", "lateGreeting", "splitBanner", "noStartTls", "tlsRefused",
     "handshake", "plainAuth", "authTemporary", "drop",
     "midLine"}

ASSUME NRcptAssumption     == NRcpt \in Nat
ASSUME BodyLinesAssumption == BodyLines \in Nat \ {0}
ASSUME FaultsAssumption    == FaultSets \subseteq SUBSET FaultName

VARIABLES
    state,      \* the active alternative of User::m_fsm
    stage,      \* m_authStage of MAIL
    tlsUp,      \* Tls::m_isTlsUP
    ssl,        \* Tls::m_ssl: not created, connected, freed
    available,  \* Client::m_mailServiceAvailable
    handler,    \* the Client is registered with the reactor for READ
    client,     \* User::m_client still points to the Client
    reactor,    \* control point of the reactor thread
    toServer, toClient,     \* the two directions of the connection
    server,     \* state of the server
    secure,     \* the server's end of the connection is TLS
    rcpts,      \* recipients the server accepted
    loggedIn,   \* the server accepted the credentials
    accepted,   \* messages the server accepted for delivery
    misread,    \* the server took (a part of) a message for commands
    faults      \* what may go wrong in this session

fsmVars    == <<state, stage>>
tlsVars    == <<tlsUp, ssl>>
clientVars == <<available, handler, client, reactor>>
netVars    == <<toServer, toClient>>
serverVars == <<server, secure, rcpts, loggedIn, accepted, misread, faults>>
vars == <<fsmVars, tlsVars, clientVars, netVars, serverVars>>

May(fault) == fault \in faults

States == {"GREETING", "HELO", "MAIL", "RCPT", "DATA", "BODY", "QUIT"}
AuthSteps == {"AUTH_INIT", "AUTH_USRNAME", "AUTH_PASSWORD", "AUTH_SUCCESS"}
Command == {"EHLO", "STARTTLS", "AUTH LOGIN", "username", "password", "RSET",
            "MAIL FROM", "RCPT TO", "DATA", "message", "QUIT"}
(* What a line or a part of one is parsed to.  The parts have no code of   *)
(* the protocol: code 0 stands for any other number.                       *)
Fragment == {"nothing", "throws", "glued"}
Reply == [code : {0, 220, 221, 235, 250, 334, 354, 421, 454, 500, 530, 535, 550, 554},
          text : {"banner", "SIZE", "STARTTLS", "Username:", "Password:", "error",
                  "2.0.0", "2.1.0", "2.1.5", "2.7.0", "Go", "part", "junk"} \cup Fragment]
R(c, t) == [code |-> c, text |-> t]

TypeOK ==
    /\ state \in States /\ stage \in AuthSteps
    /\ tlsUp \in BOOLEAN /\ ssl \in {"none", "up", "freed"}
    /\ available \in BOOLEAN /\ handler \in BOOLEAN /\ client \in BOOLEAN
    /\ reactor \in {"idle", "closing", "ending", "stuck", "crashed"}
    /\ toServer \in Seq(Command) /\ toClient \in Seq(Reply)
    /\ server \in {"none", "greet", "ready", "helo", "handshake", "user", "pass",
                   "authed", "mail", "data", "closed", "reset", "dropped"}
    /\ secure \in BOOLEAN /\ loggedIn \in BOOLEAN /\ misread \in BOOLEAN
    /\ rcpts \in 0..NRcpt /\ accepted \in Nat /\ faults \in FaultSets
    /\ ssl = "up" => tlsUp

Init ==
    /\ state = "GREETING" /\ stage = "AUTH_INIT"
    /\ faults \in FaultSets
    /\ tlsUp \in (IF May("uninit") THEN BOOLEAN ELSE {FALSE}) /\ ssl = "none"
    /\ available = FALSE /\ handler = FALSE /\ client = TRUE /\ reactor = "idle"
    /\ toServer = <<>> /\ toClient = <<>>
    /\ server = "none" /\ secure = FALSE /\ rcpts = 0
    /\ loggedIn = FALSE /\ accepted = 0 /\ misread = FALSE

-----------------------------------------------------------------------------
(* The state machine: what onResponse of each state answers to a reply.    *)

Answer(status, cmds, to, sg) ==
    [status |-> status, cmds |-> cmds, state |-> to, stage |-> sg]
Ignore(st) == Answer("OK", <<>>, st, stage)
Goto(cmds, to) == Answer("GOTO_NEXT_STATE", cmds, to, "AUTH_INIT")
Remain(cmds, st, sg) == Answer("REMAIN_IN_SAME_STATE", cmds, st, sg)

GREETING_onResponse(rep) ==
    IF rep.code = 220 THEN Goto(<<"EHLO">>, "HELO") ELSE Ignore("GREETING")

(* The capabilities of one chunk are searched, not of the whole reply.     *)
HELO_onResponse(rep, chunk) ==
    IF rep.code # 250 THEN Ignore("HELO")
    ELSE IF \E r \in chunk : r.text = "STARTTLS" THEN Goto(<<"STARTTLS">>, "MAIL")
    ELSE Answer("TLS_NOT_SUPPORTED", <<>>, "HELO", stage)

MAIL_onCommand_AnyReply(rep) ==                                   \* mutant
    CASE stage = "AUTH_INIT" -> Remain(<<"AUTH LOGIN">>, "MAIL", "AUTH_USRNAME")
      [] stage = "AUTH_USRNAME" -> Remain(<<"username">>, "MAIL", "AUTH_PASSWORD")
      [] stage = "AUTH_PASSWORD" -> Remain(<<"password">>, "MAIL", "AUTH_SUCCESS")
      [] stage = "AUTH_SUCCESS" -> Goto(<<"MAIL FROM">>, "RCPT")
MAIL_onCommand(rep) ==
    CASE stage = "AUTH_INIT" -> Remain(<<"AUTH LOGIN">>, "MAIL", "AUTH_USRNAME")
      [] stage = "AUTH_USRNAME" ->
            IF rep = R(334, "Username:")
            THEN Remain(<<"username">>, "MAIL", "AUTH_PASSWORD")
            ELSE Remain(<<>>, "MAIL", stage)
      [] stage = "AUTH_PASSWORD" ->
            IF rep = R(334, "Password:")
            THEN Remain(<<"password">>, "MAIL", "AUTH_SUCCESS")
            ELSE Remain(<<>>, "MAIL", stage)
      [] stage = "AUTH_SUCCESS" ->
            IF rep = R(235, "2.7.0")
            THEN Goto(<<"MAIL FROM">>, "RCPT")
            ELSE Answer("INCORRECT_LOGIN_CREDENTIALS", <<"RSET">>, "MAIL", "AUTH_INIT")
MAIL_onResponse(rep) == IF rep.code = 535 THEN Ignore("MAIL") ELSE MAIL_onCommand(rep)

RCPT_onResponse_SkipData(rep) ==                                  \* mutant
    IF rep.code = 535 THEN Ignore("RCPT")
    ELSE Goto([i \in 1..NRcpt |-> "RCPT TO"], "BODY")
RCPT_onResponse_Stay(rep) ==                                      \* mutant
    IF rep.code = 535 THEN Ignore("RCPT")
    ELSE Goto([i \in 1..NRcpt |-> "RCPT TO"], "RCPT")
RCPT_onResponse(rep) ==
    IF rep.code = 535 \/ (rep.code = 250 /\ rep.text # "2.1.0") THEN Ignore("RCPT")
    ELSE Goto([i \in 1..NRcpt |-> "RCPT TO"], "DATA")

DATA_onResponse_WrongText(rep) ==                                 \* mutant
    IF rep.code = 535 \/ (rep.code = 250 /\ rep.text # "2.1.0")
    THEN Ignore("DATA") ELSE Goto(<<"DATA">>, "BODY")
DATA_onResponse(rep) ==
    IF rep.code = 535 THEN Ignore("DATA") ELSE Goto(<<"DATA">>, "BODY")

BODY_onResponse_Stay(rep) ==                                      \* mutant
    IF rep.code = 535 THEN Ignore("BODY") ELSE Goto(<<"message">>, "BODY")
BODY_onResponse(rep) ==
    IF rep.code = 535 THEN Ignore("BODY") ELSE Goto(<<"message">>, "QUIT")

QUIT_onResponse(rep) ==
    CASE rep.code = 250 /\ rep.text # "2.0.0" -> Ignore("QUIT")
      [] rep.code = 221 /\ rep.text # "2.0.0" -> Ignore("QUIT")
      [] rep.code = 221 /\ rep.text = "2.0.0" -> Remain(<<>>, "QUIT", stage)
      [] OTHER -> Remain(<<"QUIT">>, "QUIT", stage)

onRx(rep, chunk) ==
    CASE state = "GREETING" -> GREETING_onResponse(rep)
      [] state = "HELO" -> HELO_onResponse(rep, chunk)
      [] state = "MAIL" -> MAIL_onResponse(rep)
      [] state = "RCPT" -> RCPT_onResponse(rep)
      [] state = "DATA" -> DATA_onResponse(rep)
      [] state = "BODY" -> BODY_onResponse(rep)
      [] state = "QUIT" -> QUIT_onResponse(rep)

-----------------------------------------------------------------------------
(* SMTP::Client and SMTP::User.                                            *)

Alive == reactor \notin {"stuck", "crashed"}
Gone == {"closed", "reset", "dropped"}     \* the server, in one of these states
ServerOpen == server \notin Gone \cup {"none"}

(* Client::start: connect, register, available.                            *)
Start ==
    /\ server = "none" /\ ~available
    /\ available' = TRUE /\ handler' = TRUE /\ server' = "greet"
    /\ UNCHANGED <<fsmVars, tlsVars, client, reactor, netVars, secure, rcpts,
                   loggedIn, accepted, misread, faults>>

(* Tls::start: after a failed SSL_connect the SSL is freed, and the flag   *)
(* is set to true all the same.  Text in either direction of the stream    *)
(* makes the handshake fail.                                               *)
Tls_start(ok) ==
    /\ tlsUp' = TRUE
    /\ ssl' = IF ok THEN "up" ELSE "freed"
    /\ IF ok THEN server' = "helo" /\ secure' = TRUE
             ELSE server' = "dropped" /\ UNCHANGED secure
HandshakeOutcome ==
    IF server # "handshake" \/ toServer # <<>> \/ toClient' # <<>> THEN {FALSE}
    ELSE IF May("handshake") THEN {TRUE, FALSE} ELSE {TRUE}

(* parseSmtpCommand looks at every chunk alone.  A line that is cut in its *)
(* code yields no reply, and its rest one with a wrong number or, without  *)
(* any digit, the exception of stoi; one that is cut in or behind its      *)
(* first word yields a reply.  The rest then throws, is a reply with some  *)
(* number, is a word that spoils the number of the next line, or is no     *)
(* more than the end of the line.  A line is cut at most once.             *)
Rests == {R(0, t) : t \in Fragment \cup {"junk"}}
Cuts(line) ==
    {<<R(0, "nothing"), R(0, line.text)>>, <<R(0, "nothing"), R(0, "throws")>>}
        \cup ({R(line.code, "part"), line} \X Rests)

(* What a read of k lines, the last one perhaps in part, takes and leaves. *)
Chunks(k) ==
    LET before == SubSeq(toClient, 1, k - 1)
        after == SubSeq(toClient, k + 1, Len(toClient))
    IN {<<SubSeq(toClient, 1, k), after>>} \cup
       {<<Append(before, cut[1]), <<cut[2]>> \o after>> :
            cut \in IF May("midLine") /\ toClient[k].code # 0 THEN Cuts(toClient[k]) ELSE {}}

Replies(chunk) ==
    {IF i > 1 /\ chunk[i - 1].text = "glued" THEN R(0, chunk[i].text) ELSE chunk[i] :
        i \in {n \in 1..Len(chunk) : chunk[n].text \notin Fragment}}
Throws(chunk) == \E i \in 1..Len(chunk) : chunk[i].text = "throws"
MayThrow(chunk) == Throws(chunk) \/ (chunk[1].text = "glued" /\ Len(chunk) > 1)

(* Over TLS Tls::write, else Client::tx, which sends while available.      *)
Sends(cmds) == cmds # <<>> /\ IF tlsUp' THEN ssl' = "up" ELSE client /\ available
Written(cmds) == IF Sends(cmds) /\ server \notin Gone THEN toServer \o cmds ELSE toServer

(* Writing to an SSL that is not connected crashes, or Tls::write loops    *)
(* for ever; a plain write through the released m_client crashes.  On a    *)
(* connection that was reset or is broken a write raises SIGPIPE, which    *)
(* nothing handles; if it does not, Tls::write tries for ever.             *)
MayFail(cmds) ==
    \/ cmds # <<>> /\ IF tlsUp' THEN ssl' # "up" ELSE ~client
    \/ Sends(cmds) /\ server \in {"reset", "dropped"}
MayReturn(cmds) == cmds # <<>> => IF tlsUp' THEN ssl' = "up" ELSE client

(* The end of User::rx: rep is the reply that is looked at, a the answer   *)
(* of the state machine.  A reply 220 that the state machine does not      *)
(* expect ends the transaction.                                            *)
Respond(rep, a) ==
    /\ IF rep = R(220, "2.0.0")
       THEN \E ok \in HandshakeOutcome : Tls_start(ok)
       ELSE /\ UNCHANGED <<tlsVars, secure>>
            /\ server' = IF Sends(a.cmds) /\ server = "closed" THEN "reset" ELSE server
    /\ \/ /\ MayFail(a.cmds)
          /\ reactor' \in IF tlsUp' THEN {"crashed", "stuck"} ELSE {"crashed"}
          /\ stage' = IF a.status = "GOTO_NEXT_STATE" THEN stage ELSE a.stage
          /\ UNCHANGED <<state, toServer, available>>
       \/ /\ MayReturn(a.cmds)
          /\ state' = a.state /\ stage' = a.stage
          /\ toServer' = Written(a.cmds)
          /\ IF rep.code = 220 /\ a.status \notin {"GOTO_NEXT_STATE", "REMAIN_IN_SAME_STATE"}
             THEN available' = FALSE /\ reactor' = "ending"
             ELSE UNCHANGED <<available, reactor>>

(* User::rx with a chunk: any reply of it may be the one getSmtpStatusCode *)
(* returns; without any, it reads the first element of an empty map.       *)
rx(chunk) ==
    \/ /\ MayThrow(chunk) \/ Replies(chunk) = {}
       /\ reactor' = "crashed"
       /\ UNCHANGED <<fsmVars, tlsVars, available, toServer, server, secure>>
    \/ /\ ~Throws(chunk)
       /\ \E rep \in Replies(chunk) : Respond(rep, onRx(rep, Replies(chunk)))

(* Client::handle_input with data.  Reading from an SSL that is not        *)
(* connected crashes.                                                      *)
Read(k) ==
    /\ reactor = "idle" /\ handler /\ k \in 1..Len(toClient)
    /\ \E chunk \in Chunks(k) :
         /\ toClient' = chunk[2]
         /\ IF tlsUp /\ ssl # "up"
            THEN /\ reactor' = "crashed"
                 /\ UNCHANGED <<fsmVars, tlsVars, available, toServer, server, secure>>
            ELSE rx(chunk[1])
    /\ UNCHANGED <<handler, client, rcpts, loggedIn, accepted, misread, faults>>

(* Client::handle_input at the end of the stream.  Over TLS a clean close  *)
(* is 0 and ends the session; a dropped connection may also be -1, which   *)
(* goes to rx as an empty string, as the end of a plain stream does:       *)
(* getSmtpStatusCode then reads the first element of an empty map.         *)
ReadEof_Rx ==                                                     \* mutant
    /\ reactor = "idle" /\ handler /\ toClient = <<>> /\ server \in Gone
    /\ reactor' = "crashed" /\ UNCHANGED available
    /\ UNCHANGED <<fsmVars, tlsVars, handler, client, netVars, serverVars>>
ReadEof_Ignored ==                                                \* mutant
    /\ reactor = "idle" /\ handler /\ toClient = <<>> /\ server \in Gone
    /\ UNCHANGED vars
ReadEof ==
    /\ reactor = "idle" /\ handler /\ toClient = <<>> /\ server \in Gone
    /\ \/ /\ tlsUp /\ ssl = "up"
          /\ available' = FALSE /\ reactor' = "closing"
       \/ /\ ~(tlsUp /\ ssl = "up") \/ server = "dropped"
          /\ reactor' = "crashed" /\ UNCHANGED available
    /\ UNCHANGED <<fsmVars, tlsVars, handler, client, netVars, serverVars>>

(* Client::stop.                                                           *)
Stop ==
    /\ reactor = "closing"
    /\ handler' = FALSE /\ available' = FALSE /\ reactor' = "idle"
    /\ UNCHANGED <<fsmVars, tlsVars, client, netVars, serverVars>>

(* The rest of endEmailTransaction: the pointer is given up, the Client    *)
(* stays registered.                                                       *)
ReleaseClient ==
    /\ reactor = "ending"
    /\ client' = FALSE /\ reactor' = "idle"
    /\ UNCHANGED <<fsmVars, tlsVars, available, handler, netVars, serverVars>>

-----------------------------------------------------------------------------
(* The server.                                                             *)

Say(replies) == toClient' = toClient \o replies
Take(c) ==
    /\ Alive /\ ServerOpen /\ server # "handshake"
    /\ toServer # <<>> /\ Head(toServer) = c
    /\ toServer' = Tail(toServer)

Banner ==
    /\ Alive /\ server = "greet" /\ server' = "ready"
    /\ \/ Say(<<R(220, "banner")>>)
       \/ May("splitBanner") /\ Say(<<R(220, "banner"), R(220, "banner")>>)
    /\ UNCHANGED <<fsmVars, tlsVars, clientVars, toServer, secure, rcpts, loggedIn,
                   accepted, misread, faults>>

Ehlo ==
    /\ Take("EHLO") /\ server' = "helo"
    /\ \/ Say(<<R(250, "SIZE"), R(250, "STARTTLS")>>)
       \/ May("noStartTls") /\ Say(<<R(250, "SIZE")>>)
    /\ UNCHANGED <<fsmVars, tlsVars, clientVars, secure, rcpts, loggedIn, accepted,
                   misread, faults>>

StartTls ==
    /\ Take("STARTTLS")
    /\ \/ Say(<<R(220, "2.0.0")>>) /\ server' = "handshake"
       \/ May("tlsRefused") /\ Say(<<R(454, "error")>>) /\ UNCHANGED server
    /\ UNCHANGED <<fsmVars, tlsVars, clientVars, secure, rcpts, loggedIn, accepted,
                   misread, faults>>

AuthLogin ==
    /\ Take("AUTH LOGIN")
    /\ \/ (secure \/ May("plainAuth")) /\ Say(<<R(334, "Username:")>>) /\ server' = "user"
       \/ ~secure /\ Say(<<R(530, "error")>>) /\ UNCHANGED server
    /\ UNCHANGED <<fsmVars, tlsVars, clientVars, secure, rcpts, loggedIn, accepted,
                   misread, faults>>

Username ==
    /\ Take("username") /\ Say(<<R(334, "Password:")>>) /\ server' = "pass"
    /\ UNCHANGED <<fsmVars, tlsVars, clientVars, secure, rcpts, loggedIn, accepted,
                   misread, faults>>

Password ==
    /\ Take("password")
    /\ \/ Say(<<R(235, "2.7.0")>>) /\ server' = "authed" /\ loggedIn' = TRUE
       \/ May("badCredentials") /\ Say(<<R(535, "error")>>) /\ server' = "helo"
          /\ UNCHANGED loggedIn
       \/ May("authTemporary") /\ Say(<<R(454, "error")>>) /\ server' = "helo"
          /\ UNCHANGED loggedIn
    /\ UNCHANGED <<fsmVars, tlsVars, clientVars, secure, rcpts, accepted, misread, faults>>

Rset ==
    /\ Take("RSET") /\ Say(<<R(250, "2.0.0")>>)
    /\ UNCHANGED <<fsmVars, tlsVars, clientVars, serverVars>>

MailFrom ==
    /\ Take("MAIL FROM")
    /\ IF loggedIn THEN Say(<<R(250, "2.1.0")>>) /\ server' = "mail"
                   ELSE Say(<<R(530, "error")>>) /\ UNCHANGED server
    /\ UNCHANGED <<fsmVars, tlsVars, clientVars, secure, rcpts, loggedIn, accepted,
                   misread, faults>>

RcptTo ==
    /\ Take("RCPT TO")
    /\ \/ server = "mail" /\ Say(<<R(250, "2.1.5")>>) /\ rcpts' = rcpts + 1
       \/ (server # "mail" \/ May("rcptRejected"))
          /\ Say(<<R(550, "error")>>) /\ UNCHANGED rcpts
    /\ UNCHANGED <<fsmVars, tlsVars, clientVars, server, secure, loggedIn, accepted,
                   misread, faults>>

Data ==
    /\ Take("DATA")
    /\ IF rcpts > 0 THEN Say(<<R(354, "Go")>>) /\ server' = "data"
                    ELSE Say(<<R(554, "error")>>) /\ UNCHANGED server
    /\ UNCHANGED <<fsmVars, tlsVars, clientVars, secure, rcpts, loggedIn, accepted,
                   misread, faults>>

(* In data mode the message; otherwise every line of it is a command.      *)
Message ==
    /\ Take("message")
    /\ \/ /\ server = "data" /\ server' = "authed"
          /\ Say(<<R(250, "2.0.0")>>) /\ accepted' = accepted + 1
          /\ UNCHANGED misread
       \/ /\ server = "data" /\ server' = "authed" /\ May("contentRejected")
          /\ Say(<<R(554, "error")>>) /\ UNCHANGED <<accepted, misread>>
       \/ /\ server # "data" /\ misread' = TRUE
          /\ Say([i \in 1..BodyLines |-> R(500, "error")])
          /\ UNCHANGED <<accepted, server>>
    /\ UNCHANGED <<fsmVars, tlsVars, clientVars, secure, rcpts, loggedIn, faults>>

(* A close that leaves commands unread resets the connection.              *)
Quit ==
    /\ Take("QUIT") /\ Say(<<R(221, "2.0.0")>>)
    /\ server' = IF toServer' = <<>> THEN "closed" ELSE "reset"
    /\ UNCHANGED <<fsmVars, tlsVars, clientVars, secure, rcpts, loggedIn, accepted,
                   misread, faults>>

(* A server gives up a client that says nothing more: it closes the        *)
(* session...                                                              *)
IdleTimeout ==
    /\ May("idle") /\ Alive /\ ServerOpen /\ server \notin {"greet", "handshake"}
    /\ toServer = <<>> /\ toClient = <<>>
    /\ Say(<<R(421, "error")>>) /\ server' = "closed"
    /\ UNCHANGED <<fsmVars, tlsVars, clientVars, toServer, secure, rcpts, loggedIn,
                   accepted, misread, faults>>

(* ...or the connection breaks, or it gets text for a handshake.           *)
Drop ==
    /\ Alive /\ ServerOpen
    /\ May("drop") \/ (server = "handshake" /\ toServer # <<>>)
    /\ server' = "dropped"
    /\ UNCHANGED <<fsmVars, tlsVars, clientVars, netVars, secure, rcpts, loggedIn,
                   accepted, misread, faults>>

Server ==
    \/ Banner \/ Ehlo \/ StartTls \/ AuthLogin \/ Username \/ Password \/ Rset
    \/ MailFrom \/ RcptTo \/ Data \/ Message \/ Quit

ClientStep == Start \/ (\E k \in 1..Len(toClient) : Read(k)) \/ ReadEof \/ Stop \/ ReleaseClient

Next == ClientStep \/ Server \/ IdleTimeout \/ Drop

Spec == Init /\ [][Next]_vars

(* The reactor reads what has arrived and the server answers.              *)
FairSpec == Spec /\ WF_vars(ClientStep) /\ WF_vars(Server) /\ WF_vars(IdleTimeout)

-----------------------------------------------------------------------------
(* Properties.                                                             *)

Queued(c) == \E i \in 1..Len(toServer) : toServer[i] = c

(* The user name and the password are answers to the server's challenges,  *)
(* however the replies are cut, joined or repeated: a server never gets    *)
(* them where it would take them for anything else.                        *)
SecretsAnswerChallenges ==
    ServerOpen => /\ Queued("username") => server = "user"
                  /\ Queued("password") => server = "pass"

(* The server reads the message as the content of the mail, never as       *)
(* commands, although with several recipients the client sends it before   *)
(* the server's "354": unless the server accepted no recipient.            *)
NeverMisread == misread => rcpts = 0

(* The client and the server agree on whether the connection is in TLS.    *)
TlsAgrees == tlsUp <=> (ssl = "up" /\ secure)

(* With a polite server no reply makes the client read or write what it    *)
(* must not, and the flag and the two ends of the connection agree on TLS: *)
(* handle_input returns, also when the server rejects the login or the     *)
(* content or gives up an idle client.  The one exception: to a server     *)
(* that rejects recipients the client may say QUIT several times, and      *)
(* writing to the connection that server has reset fails.  (Any other      *)
(* server, or a network that cuts a line, may crash the client or leave it *)
(* in Tls::write: README, section 5.)                                      *)
AlwaysReturns ==
    faults \subseteq Polite =>
        TlsAgrees /\ (Alive \/ (server = "reset" /\ May("rcptRejected")))

(* The transaction as a whole (MailTransfer).                              *)
Progress ==
    IF accepted > 0 THEN "delivered"
    ELSE IF state = "QUIT" THEN "submitted"
    ELSE IF loggedIn THEN "login" ELSE "unsent"
Transfer == INSTANCE MailTransfer WITH progress <- Progress, open <- available
TransferSpec == Transfer!Spec

(* With a server that accepts everything the mail is delivered, for any    *)
(* number of recipients, however reads split or join the lines of its      *)
(* replies, as long as none ends inside a line: that is the fault          *)
(* "midLine", which may crash the client.  (With several recipients the    *)
(* session may then stay open: a "250 2.0.0" that is read together with an *)
(* older reply is overlooked, no QUIT follows, and the worker waits for    *)
(* the server.)                                                            *)
MailDelivered == faults = {} => <>(accepted = 1)

(* The worker that waits for the session does not wait for ever, if the    *)
(* server closes a session in which nothing happens (the client has no     *)
(* timer of its own): m_mailServiceAvailable becomes false, and with a     *)
(* polite server without a crash.  Spinning names the faults after which   *)
(* the reactor thread may stay in Tls::write, and those that make the      *)
(* client log in again and again.                                          *)
Spinning == {"handshake", "rcptRejected", "drop", "midLine", "authTemporary"}
SessionEnds ==
    (available /\ May("idle") /\ faults \cap Spinning = {})
        ~> (~available \/ (reactor = "crashed" /\ ~(faults \subseteq Polite)))

=============================================================================
