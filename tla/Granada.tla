------------------------------ MODULE Granada ------------------------------
(***************************************************************************)
(* The server while it sends e-mails.  A worker that processes             *)
(* POST /api/v1/email starts an SMTP client on the one reactor of the      *)
(* process and waits in User::startEmailTransaction until the session is   *)
(* over; the session (SmtpSession, MailTransaction) makes progress only    *)
(* when the reactor thread dispatches it.  Client::start also registers    *)
(* the Client for SIGINT and SIGTERM, in place of the WebServer.           *)
(*                                                                         *)
(* The session is abstracted to its being over some time.  The descriptor  *)
(* of its stream is not one of Fd.                                         *)
(***************************************************************************)
EXTENDS WebServer

CONSTANT MaxMails   \* bound: mails the workers send
ASSUME MaxMailsAssumption == MaxMails \in Nat

Server == 0         \* owner of the signals; a worker stands for its last Client

VARIABLES
    mail,       \* how far the mail of each worker is
    mailsLeft,  \* mails that will still be started at most
    owner,      \* who is registered for SIGINT and SIGTERM
    lost        \* signals that a Client got

mailVars == <<mail, mailsLeft, owner, lost>>
gvars == <<vars, mailVars>>

GTypeOK ==
    /\ mail \in [Worker -> {"none", "starting", "registered", "session", "over"}]
    /\ mailsLeft \in 0..MaxMails
    /\ owner \in Worker \cup {Server}
    /\ lost \in 0..MaxSignals
    /\ signals + lost <= MaxSignals
    /\ \A w \in Worker : mail[w] # "none" => wstate[w] = "busy"
    /\ \A w \in Worker : mail[w] = "session" => owner # Server

GInit ==
    /\ Init
    /\ mail = [w \in Worker |-> "none"]
    /\ mailsLeft \in 0..MaxMails
    /\ owner = Server /\ lost = 0

-----------------------------------------------------------------------------
(* The worker in handle_email_POST.                                        *)

StartMail(w) ==
    /\ Alive /\ wstate[w] = "busy" /\ mail[w] = "none" /\ mailsLeft > 0
    /\ mail' = [mail EXCEPT ![w] = "starting"]
    /\ mailsLeft' = mailsLeft - 1
    /\ UNCHANGED <<vars, owner, lost>>

(* Without a connection m_mailServiceAvailable stays false, and            *)
(* startEmailTransaction goes through.                                     *)
ConnectFails(w) ==
    /\ Alive /\ mail[w] = "starting"
    /\ mail' = [mail EXCEPT ![w] = "over"]
    /\ UNCHANGED <<vars, mailsLeft, owner, lost>>

(* register_handler takes the reactor's token, which the reactor thread    *)
(* holds throughout handle_events and hands over between two of them: not  *)
(* while a handler runs.                                                   *)
RegisterHandler(w) ==
    /\ Alive /\ mail[w] = "starting"
    /\ master \in {"loop", "exited"} /\ frames = <<>>
    /\ mail' = [mail EXCEPT ![w] = "registered"]
    /\ UNCHANGED <<vars, mailsLeft, owner, lost>>

RegisterSignals_Not(w) ==                                         \* mutant
    /\ Alive /\ mail[w] = "registered"
    /\ mail' = [mail EXCEPT ![w] = "session"]
    /\ UNCHANGED <<vars, mailsLeft, owner, lost>>
RegisterSignals(w) ==
    /\ Alive /\ mail[w] = "registered"
    /\ mail' = [mail EXCEPT ![w] = "session"]
    /\ owner' = w
    /\ UNCHANGED <<vars, mailsLeft, lost>>

MailReturn(w) ==
    /\ Alive /\ mail[w] = "over"
    /\ mail' = [mail EXCEPT ![w] = "none"]
    /\ UNCHANGED <<vars, mailsLeft, owner, lost>>

-----------------------------------------------------------------------------
(* The reactor thread.                                                     *)

(* The last dispatch of the session.  stop() removes its handler, not the  *)
(* registration of the signals.                                            *)
Stop_KeepFlag(w) == mail[w] = "session" /\ UNCHANGED mail          \* mutant
Stop(w) == mail[w] = "session" /\ mail' = [mail EXCEPT ![w] = "over"]

SessionOver(w) ==
    /\ Dispatching /\ Stop(w)
    /\ UNCHANGED <<vars, mailsLeft, owner, lost>>

(* Client::handle_signal, in the reactor thread wherever it waits: the     *)
(* handler of the session is removed, if it is still there, and            *)
(* handle_close ends the mail.                                             *)
Delivered(s) ==
    /\ signals + lost < MaxSignals
    /\ master \in {"loop", "put", "close"}
    /\ \A i \in 1..Len(frames) : frames[i].sig # s

ClientSignal(s) ==
    /\ Delivered(s) /\ owner # Server
    /\ lost' = lost + 1
    /\ mail' = IF mail[owner] = "session" THEN [mail EXCEPT ![owner] = "over"] ELSE mail
    /\ UNCHANGED <<vars, mailsLeft, owner>>

ServerSignal(s) ==
    /\ Delivered(s) /\ owner = Server /\ Signal(s)
    /\ UNCHANGED mailVars

Mail(w) ==
    \/ StartMail(w) \/ ConnectFails(w) \/ RegisterHandler(w)
    \/ RegisterSignals(w) \/ MailReturn(w) \/ SessionOver(w)

(* A worker in a mail does nothing else.                                   *)
Serving(w) == mail[w] = "none" /\ WorkerStep(w) /\ UNCHANGED mailVars

GNext ==
    \/ Reactor /\ UNCHANGED mailVars
    \/ \E w \in Worker : Serving(w) \/ Mail(w)
    \/ \E s \in SigNum : ServerSignal(s) \/ ClientSignal(s)
    \/ \E c \in Conn : (SendRequest(c) \/ Hangup(c)) /\ UNCHANGED mailVars
    \/ (IdleTick \/ Terminated) /\ UNCHANGED mailVars

GSpec == GInit /\ [][GNext]_gvars

(* As for WebServer; and a session ends when the reactor thread keeps      *)
(* dispatching it (SmtpSession: the server gives up idle clients).         *)
GFairSpec ==
    /\ GSpec
    /\ \A f \in Fd :
          /\ WF_gvars(ReadRequest(f) /\ UNCHANGED mailVars)
          /\ WF_gvars(ReadEof(f) /\ UNCHANGED mailVars)
    /\ \A t \in TimerId : WF_gvars(Expire(t) /\ UNCHANGED mailVars)
    /\ WF_gvars((SpawnWorker \/ StartLoop \/ PutRequest \/ CloseAgain \/ SignalAcquire
                 \/ SignalPut \/ SignalFinish \/ LoopExit \/ Destroy)
                /\ UNCHANGED mailVars)
    /\ \A w \in Worker :
          /\ WF_gvars(mail[w] = "none"
                      /\ (WorkerStart(w) \/ TakeRequest(w) \/ TakePCSig(w)
                          \/ CloseFile(w) \/ Respond(w) \/ Acknowledge(w))
                      /\ UNCHANGED mailVars)
          /\ WF_gvars(RegisterHandler(w)) /\ WF_gvars(RegisterSignals(w))
          /\ WF_gvars(SessionOver(w)) /\ WF_gvars(MailReturn(w))

-----------------------------------------------------------------------------
(* Properties.                                                             *)

(* Mails change nothing in what the server does otherwise: seen without    *)
(* them the process is a WebServer, and has its safety properties.         *)
ServerSpec == Spec

(* What the reactor thread waits for inside a handler: room in the queue   *)
(* of worker w, or the token w was given with its MB_PCSIG.                *)
WaitsFor(w) ==
    \/ /\ frames = <<>> /\ master = "put"
       /\ putting.worker = w /\ ~Deactivated(w) /\ ~HasRoom(w)
    \/ frames # <<>> /\ Top.holding /\ Top.next = w /\ ~Deactivated(w) /\ ~HasRoom(w)
    \/ frames # <<>> /\ ~Top.holding /\ Top.next <= NWorkers /\ WorkerHolds(w)

(* ...while w waits for the reactor thread: to register its client, or to  *)
(* run its session.  Neither goes on (unless a signal ends the mail).      *)
WaitsForMail == \E w \in Worker : mail[w] \in {"starting", "session"} /\ WaitsFor(w)

(* A handler of the reactor thread returns (after a first signal); the one *)
(* case in which it does not is that circle: a putq on the full queue of a *)
(* worker that sends a mail, or a shutdown that has told a worker to stop  *)
(* whose mail is not over.  Then no client is served any more.             *)
InHandler == master \in {"put", "close"} \/ frames # <<>>
HandlerReturns == InHandler ~> (~InHandler \/ []WaitsForMail)

(* A worker that sends a mail gets free again, unless the process ends or  *)
(* the reactor thread is in that circle, be it with another worker.        *)
MailReturns ==
    \A w \in Worker :
        (mail[w] # "none") ~> (mail[w] = "none" \/ master = "gone" \/ []WaitsForMail)

(* The server subscribes to SIGINT and SIGTERM: such a signal starts its   *)
(* shutdown.                                                               *)
SignalReachesServer == [][lost' = lost]_gvars

=============================================================================
