-------------------------- MODULE MailTransaction --------------------------
(***************************************************************************)
(* The three threads of one e-mail transaction: the worker in              *)
(* User::startEmailTransaction, the Client's own thread (svc and main) and *)
(* the reactor thread, which runs the session of SmtpSession.  They share  *)
(* m_mailServiceAvailable, m_semaphore (a unique_ptr to a semaphore with   *)
(* initial count 1), m_client and the state machine, none of them locked.  *)
(*                                                                         *)
(* The reactor belongs to the thread that runs the web server:             *)
(* handle_events of the Client's thread waits for the reactor's token,     *)
(* that is until no handler runs, and returns.                             *)
(***************************************************************************)
EXTENDS SmtpSession

VARIABLES
    worker,     \* control point of the worker
    thread,     \* control point of the Client's thread
    sem,        \* count of the semaphore
    semPtr      \* m_semaphore still points to it

threadVars == <<worker, thread, sem, semPtr>>
txVars == <<vars, threadVars>>

TxTypeOK ==
    /\ TypeOK
    /\ worker \in {"start", "connected", "open", "acquire", "reset", "spin", "done"}
    /\ thread \in {"none", "svc", "check", "events", "exited"}
    /\ sem \in 0..2 /\ semPtr \in BOOLEAN

TxInit ==
    /\ Init
    /\ worker = "start" /\ thread = "none" /\ sem = 1 /\ semPtr = TRUE

Running == reactor # "crashed"
Crash ==
    /\ reactor' = "crashed"
    /\ UNCHANGED <<fsmVars, tlsVars, available, handler, client, netVars,
                   serverVars, threadVars>>

-----------------------------------------------------------------------------
(* The worker: Client::start, which registers the handler before it sets   *)
(* the flag and spawns the thread...                                       *)

Connect ==
    /\ Running /\ worker = "start"
    /\ handler' = TRUE /\ server' = "greet" /\ worker' = "connected"
    /\ UNCHANGED <<fsmVars, tlsVars, available, client, reactor, netVars, secure,
                   rcpts, loggedIn, accepted, misread, faults, thread, sem, semPtr>>

ConnectFails ==
    /\ Running /\ worker = "start" /\ May("connect")
    /\ available' = FALSE /\ worker' = "acquire"
    /\ UNCHANGED <<fsmVars, tlsVars, handler, client, reactor, netVars, serverVars,
                   thread, sem, semPtr>>

SetAvailable ==
    /\ Running /\ worker = "connected"
    /\ available' = TRUE /\ worker' = "open"
    /\ UNCHANGED <<fsmVars, tlsVars, handler, client, reactor, netVars, serverVars,
                   thread, sem, semPtr>>

Open ==
    /\ Running /\ worker = "open"
    /\ thread' = "svc" /\ worker' = "acquire"
    /\ UNCHANGED <<vars, sem, semPtr>>

(* ...then startEmailTransaction: acquire (the initial count lets it pass  *)
(* at once), set_state(GREETING()), and a loop on the flag.                *)
Acquire ==
    /\ Running /\ worker = "acquire" /\ client /\ semPtr /\ sem > 0
    /\ sem' = sem - 1 /\ worker' = "reset"
    /\ UNCHANGED <<vars, thread, semPtr>>

SetGreeting ==
    /\ Running /\ worker = "reset"
    /\ state' = "GREETING" /\ worker' = "spin"
    /\ UNCHANGED <<stage, tlsVars, clientVars, netVars, serverVars, thread, sem,
                   semPtr>>

(* The loop ends and the User is destroyed; its Client is not.             *)
Return ==
    /\ Running /\ worker = "spin" /\ client /\ ~available
    /\ worker' = "done"
    /\ UNCHANGED <<vars, thread, sem, semPtr>>

(* A pointer given up by another thread is null.                           *)
WorkerNull ==
    /\ Running
    /\ \/ worker = "acquire" /\ ~(client /\ semPtr)
       \/ worker = "spin" /\ ~client
    /\ Crash

-----------------------------------------------------------------------------
(* The Client's thread.                                                    *)

Svc_NoRelease ==                                                  \* mutant
    /\ Running /\ thread = "svc" /\ thread' = "check"
    /\ UNCHANGED <<vars, worker, sem, semPtr>>
Svc_Twice ==                                                      \* mutant
    /\ Running /\ thread = "svc"
    /\ sem' = sem + 2 /\ thread' = "check"
    /\ UNCHANGED <<vars, worker, semPtr>>
Svc ==
    /\ Running /\ thread = "svc"
    /\ sem' = sem + 1 /\ thread' = "check"
    /\ UNCHANGED <<vars, worker, semPtr>>

HandleEvents ==
    /\ Running /\ thread = "check" /\ available
    /\ thread' = "events"
    /\ UNCHANGED <<vars, worker, sem, semPtr>>

EventsReturn ==
    /\ Running /\ thread = "events" /\ reactor = "idle"
    /\ thread' = "check"
    /\ UNCHANGED <<vars, worker, sem, semPtr>>

(* m_semaphore.release() gives up the pointer; it releases no semaphore.   *)
MainEnds ==
    /\ Running /\ thread = "check" /\ ~available
    /\ semPtr' = FALSE /\ thread' = "exited"
    /\ UNCHANGED <<vars, worker, sem>>

-----------------------------------------------------------------------------
(* The reactor thread.  It calls into a destroyed User when the handler    *)
(* outlives the transaction.                                               *)

HandleInput ==
    /\ worker # "done"
    /\ \/ \E k \in 1..Len(toClient) : Read(k)
       \/ ReadEof
    /\ UNCHANGED threadVars

HandleInputDangling ==
    /\ reactor = "idle" /\ handler /\ worker = "done"
    /\ toClient # <<>> \/ server \in Gone
    /\ Crash

(* The acquire of handle_input and endEmailTransaction, and what follows.  *)
Finish_NoStop ==                                                  \* mutant
    /\ reactor \in {"closing", "ending"} /\ reactor' = "idle"
    /\ UNCHANGED <<fsmVars, tlsVars, available, handler, client, netVars,
                   serverVars, threadVars>>
Finish ==
    /\ reactor \in {"closing", "ending"} /\ semPtr /\ sem > 0
    /\ sem' = sem - 1
    /\ Stop \/ ReleaseClient
    /\ UNCHANGED <<worker, thread, semPtr>>

FinishNull == reactor \in {"closing", "ending"} /\ ~semPtr /\ Crash

TxServer ==
    /\ May("lateGreeting") /\ server = "greet" => worker = "spin"
    /\ Server
    /\ UNCHANGED threadVars

Worker ==
    \/ Connect \/ ConnectFails \/ SetAvailable \/ Open \/ Acquire \/ SetGreeting
    \/ Return \/ WorkerNull
Thread == Svc \/ HandleEvents \/ EventsReturn \/ MainEnds
Reactor == HandleInput \/ HandleInputDangling \/ Finish \/ FinishNull

TxNext ==
    \/ Worker \/ Thread \/ Reactor \/ TxServer
    \/ IdleTimeout /\ UNCHANGED threadVars
    \/ Drop /\ UNCHANGED threadVars

TxSpec == TxInit /\ [][TxNext]_txVars

(* Every thread runs; a server answers and, if it may, gives up.           *)
TxFairSpec ==
    /\ TxSpec
    /\ WF_txVars(Worker) /\ WF_txVars(Svc) /\ WF_txVars(MainEnds)
    /\ WF_txVars(EventsReturn) /\ WF_txVars(HandleEvents)
    /\ WF_txVars(Reactor) /\ WF_txVars(TxServer)
    /\ WF_txVars(IdleTimeout /\ UNCHANGED threadVars)

-----------------------------------------------------------------------------
(* Properties.                                                             *)

(* The reactor never calls into a User the worker has destroyed: when the  *)
(* worker leaves the loop the handler is gone, or the call that removes it *)
(* is already under way.  Not so after endEmailTransaction, which leaves   *)
(* the handler registered (a greeting in two parts leads to it).           *)
UserOutlivesInput ==
    worker = "done" /\ handler /\ ~May("splitBanner") =>
        reactor \in {"closing", "stuck", "crashed"}

(* The acquire of the reactor thread never waits for the worker, which     *)
(* itself waits for the reactor thread: once the Client's thread has       *)
(* started there is a unit for it.                                         *)
AcquireNeverWaits ==
    reactor \in {"closing", "ending"} /\ thread \notin {"none", "svc"} => sem > 0

(* startEmailTransaction returns, whether or not the mail was delivered,   *)
(* if the process does not crash, the server gives up idle clients, its    *)
(* greeting is not handled before the worker waits for it, and no fault    *)
(* keeps the reactor thread in Tls::write or in one login after another.   *)
WorkerReturns ==
    (worker = "spin" /\ May("lateGreeting") /\ May("idle") /\ faults \cap Spinning = {})
        ~> (worker = "done" \/ ~Running)

(* "upon connection establishment to smtp server, smtp server replies with *)
(* greeting": the state machine is put into GREETING before the reactor    *)
(* thread handles the greeting, not after it.  It does not hold: nothing   *)
(* orders the two (README, section 5).                                     *)
GreetingAfterReset == worker \in {"acquire", "reset"} => state = "GREETING"

=============================================================================
