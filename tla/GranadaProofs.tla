--------------------------- MODULE GranadaProofs ---------------------------
(* The server that sends mails is still a WebServer: what is proved of     *)
(* WebServer holds of the composition, for any number of workers, mails,   *)
(* connections and signals.                                                *)
EXTENDS Granada, WebServerProofs

(* A step of the composition is a step of the server, or leaves it alone.  *)
LEMMA StepsAreServers == [GNext]_gvars => [Next]_vars
<1> SUFFICES ASSUME [GNext]_gvars PROVE [Next]_vars
  OBVIOUS
<1>1. CASE Reactor /\ UNCHANGED mailVars
  BY <1>1 DEF Next
<1>2. ASSUME NEW w \in Worker, Serving(w) PROVE [Next]_vars
  BY <1>2 DEF Serving, Next
<1>3. ASSUME NEW w \in Worker, Mail(w) PROVE UNCHANGED vars
  BY <1>3 DEF Mail, StartMail, ConnectFails, RegisterHandler, RegisterSignals,
              MailReturn, SessionOver
<1>4. ASSUME NEW s \in SigNum, ServerSignal(s) PROVE [Next]_vars
  BY <1>4 DEF ServerSignal, Next
<1>5. ASSUME NEW s \in SigNum, ClientSignal(s) PROVE UNCHANGED vars
  BY <1>5 DEF ClientSignal
<1>6. ASSUME NEW c \in Conn, SendRequest(c) \/ Hangup(c) PROVE [Next]_vars
  BY <1>6 DEF Next
<1>7. CASE (IdleTick \/ Terminated) /\ UNCHANGED mailVars
  BY <1>7 DEF Next
<1>8. CASE UNCHANGED gvars
  BY <1>8 DEF gvars
<1> QED BY <1>1, <1>2, <1>3, <1>4, <1>5, <1>6, <1>7, <1>8 DEF GNext

(* Seen without its mails the process is a WebServer: no mail adds a step  *)
(* to it, or takes one out of its order.                                   *)
THEOREM MailsRefineServer == GSpec => ServerSpec
<1>1. GInit => Init
  BY DEF GInit
<1> QED BY <1>1, StepsAreServers, PTL DEF GSpec, Spec, ServerSpec

(* So the shutdown is paced by one token and tells the workers in order    *)
(* also while some of them send mails.                                     *)
THEOREM TokenUniqueWithMails == GSpec => [](OneToken /\ ShutdownProgress /\ AtMostOneRuns)
BY MailsRefineServer, TokenUnique, ShutdownInOrder, DrainedBeforeStop, PTL DEF ServerSpec

(* And what the server promises its clients it keeps.  (Not that it goes   *)
(* on: HandlerReturns says where a mail stops it.)                         *)
THEOREM LifeWithMails == GSpec => LifeSpec
BY MailsRefineServer, ServerImplementsLife, PTL DEF ServerSpec

-----------------------------------------------------------------------------

LEMMA GTypeInit == GInit => GTypeOK
BY BoundsAssumption, MaxMailsAssumption DEF GInit, Init, GTypeOK, Server

(* The server does nothing to a worker that sends a mail.  (One that is    *)
(* created had no thread that could send it: ShutdownProgress says so.)    *)
LEMMA BusyKept ==
    ASSUME TypeOK, ShutdownProgress, NEW w \in Worker, wstate[w] = "busy",
           Reactor \/ \E v \in Worker \ {w} : WorkerStep(v)
    PROVE  wstate'[w] = "busy" /\ signals' = signals
<1>1. CASE SpawnWorker
  <2>1. wstate[spawned + 1] = "none"
    BY <1>1, NWorkersAssumption DEF SpawnWorker, ShutdownProgress, TypeOK, Worker
  <2> QED BY <1>1, <2>1 DEF SpawnWorker, TypeOK
<1>2. CASE Reactor /\ ~SpawnWorker
  <2>1. wstate' = wstate
    BY <1>2 DEF Reactor, StartLoop, AcceptNew, AcceptExisting, ReadRequest, PutRequest,
           ReadEof, Expire, CloseAgain, SignalAcquire, SignalPut, SignalFinish,
           LoopExit, Destroy, workerVars
  <2>2. signals' = signals
    BY <1>2 DEF Reactor, StartLoop, AcceptNew, AcceptExisting, ReadRequest, PutRequest,
           ReadEof, Expire, CloseAgain, SignalAcquire, SignalPut, SignalFinish,
           LoopExit, Destroy, syncVars
  <2> QED BY <2>1, <2>2
<1>3. ASSUME NEW v \in Worker \ {w}, WorkerStep(v)
      PROVE  wstate'[w] = "busy" /\ signals' = signals
  <2>1. wstate'[w] = wstate[w]
    BY <1>3 DEF WorkerStep, WorkerStart, TakeRequest, OpenFile, CloseFile, Respond,
           TakePCSig, Acknowledge, workerVars, TypeOK
  <2>2. signals' = signals
    BY <1>3 DEF WorkerStep, WorkerStart, TakeRequest, OpenFile, CloseFile, Respond,
           TakePCSig, Acknowledge, syncVars
  <2> QED BY <2>1, <2>2
<1> QED BY <1>1, <1>2, <1>3

LEMMA SignalsKept ==
    ASSUME Reactor \/ \E v \in Worker : WorkerStep(v)
    PROVE  signals' = signals
<1>1. CASE Reactor
  BY <1>1 DEF Reactor, SpawnWorker, StartLoop, AcceptNew, AcceptExisting, ReadRequest,
       PutRequest, ReadEof, Expire, CloseAgain, SignalAcquire, SignalPut, SignalFinish,
       LoopExit, Destroy, syncVars
<1>2. ASSUME NEW v \in Worker, WorkerStep(v) PROVE signals' = signals
  BY <1>2 DEF WorkerStep, WorkerStart, TakeRequest, OpenFile, CloseFile, Respond,
       TakePCSig, Acknowledge, syncVars
<1> QED BY <1>1, <1>2

LEMMA GTypeStep ==
    TypeOK /\ ShutdownProgress /\ GTypeOK /\ [GNext]_gvars => GTypeOK'
<1> SUFFICES ASSUME TypeOK, ShutdownProgress, GTypeOK, [GNext]_gvars PROVE GTypeOK'
  OBVIOUS
<1>0. /\ signals \in Int /\ MaxSignals \in Int /\ lost \in 0..MaxSignals
      /\ mailsLeft \in 0..MaxMails /\ MaxMails \in Nat
      /\ mail \in [Worker -> {"none", "starting", "registered", "session", "over"}]
  BY BoundsAssumption, MaxMailsAssumption DEF TypeOK, GTypeOK
<1>1. CASE Reactor /\ UNCHANGED mailVars
  <2>1. \A w \in Worker : mail[w] # "none" => wstate'[w] = "busy"
    BY <1>1, BusyKept DEF GTypeOK
  <2> QED BY <1>1, <2>1, SignalsKept DEF GTypeOK, mailVars
<1>2. ASSUME NEW v \in Worker, Serving(v) PROVE GTypeOK'
  <2>1. ASSUME NEW w \in Worker, mail[w] # "none" PROVE wstate'[w] = "busy"
    <3>1. v \in Worker \ {w} /\ WorkerStep(v) /\ wstate[w] = "busy"
      BY <1>2, <2>1 DEF Serving, GTypeOK
    <3> QED BY <3>1, BusyKept
  <2>2. signals' = signals
    BY <1>2, SignalsKept DEF Serving
  <2> QED BY <1>2, <2>1, <2>2 DEF Serving, GTypeOK, mailVars
<1>3. ASSUME NEW w \in Worker, Mail(w) PROVE GTypeOK'
  <2>0. w # Server
    BY DEF Server, Worker
  <2>1. CASE StartMail(w)
    BY <1>0, <2>1 DEF StartMail, GTypeOK, vars, workerVars, syncVars
  <2>2. CASE ConnectFails(w)
    BY <1>0, <2>2 DEF ConnectFails, GTypeOK, vars, workerVars, syncVars
  <2>3. CASE RegisterHandler(w)
    BY <1>0, <2>3 DEF RegisterHandler, GTypeOK, vars, workerVars, syncVars
  <2>4. CASE RegisterSignals(w)
    BY <1>0, <2>0, <2>4 DEF RegisterSignals, GTypeOK, vars, workerVars, syncVars
  <2>5. CASE MailReturn(w)
    BY <1>0, <2>5 DEF MailReturn, GTypeOK, vars, workerVars, syncVars
  <2>6. CASE SessionOver(w)
    BY <1>0, <2>6 DEF SessionOver, Stop, GTypeOK, vars, workerVars, syncVars
  <2> QED BY <1>3, <2>1, <2>2, <2>3, <2>4, <2>5, <2>6 DEF Mail
<1>4. ASSUME NEW s \in SigNum, ServerSignal(s) PROVE GTypeOK'
  <2>1. signals + lost < MaxSignals /\ signals' = signals + 1
    BY <1>4 DEF ServerSignal, Delivered, Signal
  <2>2. wstate' = wstate /\ UNCHANGED mailVars
    BY <1>4 DEF ServerSignal, Signal, workerVars
  <2> QED BY <1>0, <2>1, <2>2 DEF GTypeOK, mailVars
<1>5. ASSUME NEW s \in SigNum, ClientSignal(s) PROVE GTypeOK'
  <2>1. signals + lost < MaxSignals /\ lost' = lost + 1 /\ signals' = signals
        /\ wstate' = wstate /\ mailsLeft' = mailsLeft /\ owner' = owner
        /\ owner \in Worker
    BY <1>5 DEF ClientSignal, Delivered, vars, workerVars, syncVars, GTypeOK
  <2>2. mail' = IF mail[owner] = "session" THEN [mail EXCEPT ![owner] = "over"] ELSE mail
    BY <1>5 DEF ClientSignal
  <2>3. mail' \in [Worker -> {"none", "starting", "registered", "session", "over"}]
    BY <1>0, <2>1, <2>2
  <2>4. \A w \in Worker : /\ mail'[w] # "none" => mail[w] # "none"
                          /\ mail'[w] = "session" => mail[w] = "session"
    BY <1>0, <2>1, <2>2
  <2>5. lost' \in 0..MaxSignals /\ signals' + lost' <= MaxSignals
    BY <1>0, <2>1, BoundsAssumption DEF TypeOK
  <2> QED BY <2>1, <2>3, <2>4, <2>5 DEF GTypeOK
<1>6. ASSUME NEW c \in Conn, SendRequest(c) \/ Hangup(c), UNCHANGED mailVars PROVE GTypeOK'
  BY <1>6 DEF SendRequest, Hangup, GTypeOK, workerVars, syncVars, mailVars
<1>7. CASE (IdleTick \/ Terminated) /\ UNCHANGED mailVars
  BY <1>7 DEF IdleTick, Terminated, GTypeOK, vars, workerVars, syncVars, mailVars
<1>8. CASE UNCHANGED gvars
  BY <1>8 DEF gvars, GTypeOK, vars, workerVars, syncVars, mailVars
<1> QED BY <1>1, <1>2, <1>3, <1>4, <1>5, <1>6, <1>7, <1>8 DEF GNext

(* A worker that sends a mail is busy with it throughout, signals are      *)
(* counted once, and while a session runs the server does not own the      *)
(* signals.                                                                *)
THEOREM GTypeCorrect == GSpec => []GTypeOK
<1>1. GSpec => [](TypeOK /\ ShutdownProgress)
  BY MailsRefineServer, TypeCorrect, ShutdownInOrder, PTL DEF ServerSpec
<1> QED BY <1>1, GTypeInit, GTypeStep, PTL DEF GSpec

=============================================================================
