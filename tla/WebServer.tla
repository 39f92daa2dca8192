----------------------------- MODULE WebServer -----------------------------
(***************************************************************************)
(* The reactor thread ("master") of granada's WebServer, its pool of       *)
(* MicroService workers and the connections they share.                    *)
(*                                                                         *)
(* One thread runs the reactor: it accepts connections, reads requests,    *)
(* fires the per-connection cleanup timers, and answers SIGINT / SIGTERM.  *)
(* A complete request is put on the queue of one worker, round robin; the  *)
(* worker writes the response straight to the descriptor number that the   *)
(* message carries.  One semaphore (initial count 1) paces the start of    *)
(* the workers and, in handle_signal, their shutdown.                      *)
(*                                                                         *)
(* Signals are delivered to the reactor thread at the points where it can  *)
(* wait: in handle_events, in a putq on a full queue, and inside           *)
(* handle_signal itself (SIGTERM nests in the handler of SIGINT).          *)
(*                                                                         *)
(* Time is abstracted: a pending timer may expire at any moment.  Bounds:  *)
(* MaxRequests per connection, MaxSignals, MaxFiles.                       *)
(***************************************************************************)
EXTENDS Integers, Sequences

CONSTANTS
    NWorkers,     \* size of the worker pool (option --server-worker)
    Conn,         \* the TCP connections clients make
    Fd,           \* descriptor numbers
    TimerId,      \* ids of the reactor's timer queue
    SigNum,       \* the signals start() subscribes to
    QueueMax,     \* messages a queue holds before putq blocks (16KB)
    MaxRequests,  \* bound: requests a client sends on one connection
    MaxSignals,   \* bound: signals delivered
    MaxFiles,     \* bound: files / sockets opened by workers for themselves
    NoFd, NoEntry, NoMsg    \* "none": a descriptor, a pool entry, a message

ASSUME NWorkersAssumption   == NWorkers \in Nat \ {0}
ASSUME QueueMaxAssumption   == QueueMax \in Nat \ {0}
ASSUME BoundsAssumption     == MaxRequests \in Nat /\ MaxSignals \in Nat /\ MaxFiles \in Nat

Worker == 1..NWorkers

Closed == "closed"           \* owner of a descriptor that is not open
File == "file"               \* owner: a file or socket a worker opened itself
ASSUME ConnAssumption == Closed \notin Conn /\ File \notin Conn

PCSig == [type |-> "MB_PCSIG"]
Request == [type : {"MB_DATA"}, fd : Fd, conn : Conn, n : 1..MaxRequests]
Message == Request \cup {PCSig}
Entry == [conn : Conn, timer : TimerId]                \* a WebConnection
ASSUME NoneAssumption ==
    /\ NoFd \notin Fd
    /\ NoEntry \notin Entry
    /\ NoMsg \notin Message \cup [msg : Request, worker : Worker]
Frame == [sig : SigNum, next : Worker, holding : BOOLEAN]
         \cup [sig : SigNum, next : {NWorkers + 1}, holding : {FALSE}]

VARIABLES
    master,     \* control point of the reactor thread
    frames,     \* its handle_signal activations, innermost last
    spawned,    \* m_workerPool.size()
    current,    \* m_currentWorker, NWorkers + 1 is end()
    putting,    \* the request and the worker of the putq in progress
    closing,    \* the descriptor handle_timeout is about to close again
    sem,        \* count of m_semaphore
    stopMe,     \* m_stopMe
    signals,    \* signals delivered so far
    wstate,     \* control point of each worker
    queue,      \* its message queue
    cur,        \* the request it is processing
    file,       \* the descriptor it opened while processing
    files,      \* descriptors opened by workers so far
    fdt,        \* the process's descriptor table
    pool,       \* m_connectionPool
    reg,        \* descriptors registered with the reactor for READ
    timers,     \* the reactor's timer queue: id -> the act argument
    peer,       \* client side of each connection
    pending,    \* requests that wait in its socket
    sent        \* requests sent on it so far

masterVars == <<master, frames, spawned, current, putting, closing>>
syncVars   == <<sem, stopMe, signals>>
workerVars == <<wstate, queue, cur>>
fileVars   == <<file, files>>
fdVars     == <<fdt, pool, reg, timers>>
clientVars == <<peer, pending, sent>>
vars == <<masterVars, syncVars, workerVars, fileVars, fdVars, clientVars>>

TypeOK ==
    /\ master \in {"spawn", "loop", "put", "close", "exited", "gone"}
    /\ frames \in Seq(Frame)
    /\ spawned \in 0..NWorkers
    /\ current \in 1..(NWorkers + 1)
    /\ putting \in [msg : Request, worker : Worker] \cup {NoMsg}
    /\ master = "put" => putting # NoMsg
    /\ closing \in Fd \cup {NoFd}
    /\ sem \in Nat
    /\ stopMe \in BOOLEAN
    /\ signals \in 0..MaxSignals
    /\ wstate \in [Worker -> {"none", "spawned", "idle", "busy", "acking", "stopped"}]
    /\ queue \in [Worker -> Seq(Message)]
    /\ cur \in [Worker -> Request \cup {NoMsg}]
    /\ file \in [Worker -> Fd \cup {NoFd}]
    /\ files \in 0..MaxFiles
    /\ fdt \in [Fd -> Conn \cup {Closed, File}]
    /\ pool \in [Fd -> Entry \cup {NoEntry}]
    /\ reg \subseteq Fd
    /\ timers \in [TimerId -> Fd \cup {NoFd}]
    /\ peer \in [Conn -> {"new", "open", "closed"}]
    /\ pending \in [Conn -> 0..MaxRequests]
    /\ sent \in [Conn -> 0..MaxRequests]
    /\ \A c \in Conn : pending[c] <= sent[c]

Init ==
    /\ master = "spawn" /\ frames = <<>> /\ spawned = 0 /\ current = 1
    /\ putting = NoMsg /\ closing = NoFd
    /\ sem = 1 /\ stopMe = FALSE /\ signals = 0
    /\ wstate = [w \in Worker |-> "none"]
    /\ queue = [w \in Worker |-> <<>>]
    /\ cur = [w \in Worker |-> NoMsg]
    /\ file = [w \in Worker |-> NoFd] /\ files = 0
    /\ fdt = [f \in Fd |-> Closed]
    /\ pool = [f \in Fd |-> NoEntry]
    /\ reg = {}
    /\ timers = [t \in TimerId |-> NoFd]
    /\ peer = [c \in Conn |-> "new"]
    /\ pending = [c \in Conn |-> 0] /\ sent = [c \in Conn |-> 0]

-----------------------------------------------------------------------------
(* The queue of a worker that took its MB_PCSIG is deactivated: putq on it *)
(* returns -1 at once; on any other queue it waits while the queue is full.*)
Deactivated(w) == wstate[w] \in {"acking", "stopped"}
HasRoom(w) == Len(queue[w]) < QueueMax
Enqueue_AtHead(w, m) == [queue EXCEPT ![w] = <<m>> \o @]          \* mutant
Enqueue(w, m) == [queue EXCEPT ![w] = Append(@, m)]

(* ACE_Semaphore::acquire and release.                                     *)
Acquire_Peek == sem > 0 /\ sem' = sem                             \* mutant
Acquire == sem > 0 /\ sem' = sem - 1
Release_Twice == sem' = sem + 2                                   \* mutant
Release == sem' = sem + 1

(* The reactor dispatches an event: no handler runs, and handle_signal has *)
(* not changed the reactor's handle set (which ends the current scan).     *)
Dispatching == master = "loop" /\ frames = <<>> /\ ~stopMe

FreeTimers == {t \in TimerId : timers[t] = NoFd}
(* remove_handler(f, READ_MASK ...) and m_connectionPool.erase(f).         *)
Unregister_Not(f) == reg                                          \* mutant
Unregister(f) == reg \ {f}
Erase_Not(f) == pool                                              \* mutant
Erase(f) == [pool EXCEPT ![f] = NoEntry]
(* cancel_timer followed by schedule_timer(this, act = f).                 *)
Reschedule_Uncancelled(old, new, f) == [timers EXCEPT ![new] = f]  \* mutant
Reschedule_CancelOnly(old, new, f) == [timers EXCEPT ![old] = NoFd] \* mutant
Reschedule(old, new, f) == [timers EXCEPT ![old] = NoFd, ![new] = f]

-----------------------------------------------------------------------------
(* Start-up: the constructor takes the semaphore before each worker.       *)

SpawnWorker ==
    /\ master = "spawn" /\ spawned < NWorkers /\ Acquire
    /\ spawned' = spawned + 1
    /\ wstate' = [wstate EXCEPT ![spawned + 1] = "spawned"]
    /\ UNCHANGED <<master, frames, current, putting, closing, stopMe, signals,
                   queue, cur, fileVars, fdVars, clientVars>>

StartLoop ==
    /\ master = "spawn" /\ spawned = NWorkers
    /\ master' = "loop" /\ current' = 1
    /\ UNCHANGED <<frames, spawned, putting, closing, syncVars, workerVars,
                   fileVars, fdVars, clientVars>>

-----------------------------------------------------------------------------
(* WebServer::handle_input: accept.  Any free descriptor may be returned:  *)
(* the parts of the process that are not modelled hold descriptors too.    *)

AcceptNew(c, f) ==
    /\ Dispatching /\ peer[c] = "new" /\ fdt[f] = Closed /\ pool[f] = NoEntry
    /\ \E t \in FreeTimers :
          /\ timers' = [timers EXCEPT ![t] = f]
          /\ pool' = [pool EXCEPT ![f] = [conn |-> c, timer |-> t]]
    /\ fdt' = [fdt EXCEPT ![f] = c]
    /\ reg' = reg \cup {f}
    /\ peer' = [peer EXCEPT ![c] = "open"]
    /\ UNCHANGED <<masterVars, syncVars, workerVars, fileVars, pending, sent>>

(* "Existing connection on handle %d found in connection pool": the entry  *)
(* is left as it is, no timer is started and nothing is registered.        *)
AcceptExisting(c, f) ==
    /\ Dispatching /\ peer[c] = "new" /\ fdt[f] = Closed /\ pool[f] # NoEntry
    /\ fdt' = [fdt EXCEPT ![f] = c]
    /\ peer' = [peer EXCEPT ![c] = "open"]
    /\ UNCHANGED <<masterVars, syncVars, workerVars, fileVars, pool, reg,
                   timers, pending, sent>>

(* WebConnection::handle_input with a complete request.  WebServer::       *)
(* currentWorker wraps m_currentWorker, returns it and advances it.        *)
(* Abstraction: the read is one step.  Where handle_input waits in recv    *)
(* for the rest of a request (WebConnection), a signal may be delivered    *)
(* too, and then delete the connection that is being read.                 *)
CurrentWorker_NoWrap == current                                   \* mutant
CurrentWorker == IF current = NWorkers + 1 THEN 1 ELSE current

ReadRequest(f) ==
    /\ Dispatching /\ f \in reg /\ fdt[f] \in Conn /\ pending[fdt[f]] > 0
    /\ LET c == fdt[f]
           m == [type |-> "MB_DATA", fd |-> f, conn |-> c,
                 n |-> sent[c] - pending[c] + 1]
       IN /\ pending' = [pending EXCEPT ![c] = @ - 1]
          /\ putting' = [msg |-> m, worker |-> CurrentWorker]
    /\ current' = CurrentWorker + 1
    /\ master' = "put"
    /\ UNCHANGED <<frames, spawned, closing, syncVars, workerVars, fileVars,
                   fdVars, peer, sent>>

(* putq: waits for room; -1 on a deactivated queue, and the request is     *)
(* released.                                                               *)
PutRequest ==
    /\ master = "put" /\ frames = <<>>
    /\ LET w == putting.worker
       IN \/ Deactivated(w) /\ UNCHANGED queue
          \/ /\ ~Deactivated(w) /\ HasRoom(w)
             /\ queue' = Enqueue(w, putting.msg)
    /\ master' = "loop" /\ putting' = NoMsg
    /\ UNCHANGED <<frames, spawned, current, closing, syncVars, wstate, cur,
                   fileVars, fdVars, clientVars>>

(* WebConnection::handle_input when recv returns 0: the cleanup timer is   *)
(* replaced by one that expires at once (it stays when its id is 0: ids    *)
(* have no numbers here), and the handler is removed.                      *)
ReadEof(f) ==
    /\ Dispatching /\ f \in reg /\ fdt[f] \in Conn
    /\ peer[fdt[f]] = "closed" /\ pending[fdt[f]] = 0 /\ pool[f] # NoEntry
    /\ \/ \E t \in FreeTimers \cup {pool[f].timer} :
             /\ timers' = Reschedule(pool[f].timer, t, f)
             /\ pool' = [pool EXCEPT ![f].timer = t]
       \/ UNCHANGED <<timers, pool>>
    /\ reg' = Unregister(f)
    /\ UNCHANGED <<masterVars, syncVars, workerVars, fileVars, fdt, clientVars>>

(* WebServer::handle_timeout: the entry and its handler go, its timer is   *)
(* cancelled, and the destructor of the WebConnection closes the handle... *)
Expire(t) ==
    /\ Dispatching /\ timers[t] # NoFd
    /\ LET f == timers[t]
       IN IF pool[f] = NoEntry
          THEN /\ timers' = [timers EXCEPT ![t] = NoFd]
               /\ UNCHANGED <<master, closing, fdt, pool, reg>>
          ELSE /\ timers' = [timers EXCEPT ![t] = NoFd, ![pool[f].timer] = NoFd]
               /\ pool' = Erase(f)
               /\ reg' = Unregister(f)
               /\ fdt' = [fdt EXCEPT ![f] = Closed]
               /\ closing' = f /\ master' = "close"
    /\ UNCHANGED <<frames, spawned, current, putting, syncVars, workerVars,
                   fileVars, clientVars>>

(* ...and handle_timeout closes the same number once more.                 *)
CloseAgain ==
    /\ master = "close" /\ frames = <<>>
    /\ fdt' = [fdt EXCEPT ![closing] = Closed]
    /\ closing' = NoFd /\ master' = "loop"
    /\ UNCHANGED <<frames, spawned, current, putting, syncVars, workerVars,
                   fileVars, pool, reg, timers, clientVars>>

-----------------------------------------------------------------------------
(* WebServer::handle_signal, one activation per frame.                     *)

Top == frames[Len(frames)]
SetTop(fr) == [frames EXCEPT ![Len(frames)] = fr]

(* A signal is masked while its own handler runs, the other one is not.    *)
Signal(s) ==
    /\ master \in {"loop", "put", "close"} /\ signals < MaxSignals
    /\ \A i \in 1..Len(frames) : frames[i].sig # s
    /\ signals' = signals + 1
    /\ frames' = Append(frames, [sig |-> s, next |-> 1, holding |-> FALSE])
    /\ UNCHANGED <<master, spawned, current, putting, closing, sem, stopMe,
                   workerVars, fileVars, fdVars, clientVars>>

SignalAcquire ==
    /\ frames # <<>> /\ Top.next <= NWorkers /\ ~Top.holding /\ Acquire
    /\ frames' = SetTop([Top EXCEPT !.holding = TRUE])
    /\ UNCHANGED <<master, spawned, current, putting, closing, stopMe, signals,
                   workerVars, fileVars, fdVars, clientVars>>

SignalPut ==
    /\ frames # <<>> /\ Top.holding
    /\ LET w == Top.next
       IN \/ Deactivated(w) /\ UNCHANGED queue
          \/ /\ ~Deactivated(w) /\ HasRoom(w)
             /\ queue' = Enqueue(w, PCSig)
    /\ frames' = SetTop([Top EXCEPT !.next = @ + 1, !.holding = FALSE])
    /\ UNCHANGED <<master, spawned, current, putting, closing, syncVars, wstate,
                   cur, fileVars, fdVars, clientVars>>

(* After the last worker: every WebConnection is deleted (which closes its *)
(* handle but leaves it registered), the listener is removed, and          *)
(* WebServer::handle_close sets m_stopMe.                                  *)
SignalFinish ==
    /\ frames # <<>> /\ Top.next = NWorkers + 1
    /\ LET pooled == {f \in Fd : pool[f] # NoEntry}
       IN /\ fdt' = [f \in Fd |-> IF f \in pooled THEN Closed ELSE fdt[f]]
          /\ timers' = [t \in TimerId |->
                          IF \E f \in pooled : pool[f].timer = t
                          THEN NoFd ELSE timers[t]]
          /\ pool' = [f \in Fd |-> NoEntry]
    /\ stopMe' = TRUE
    /\ frames' = SubSeq(frames, 1, Len(frames) - 1)
    /\ UNCHANGED <<master, spawned, current, putting, closing, sem, signals,
                   workerVars, fileVars, reg, clientVars>>

(* The loop of start() ends, and with main the destructor and the process. *)
LoopExit ==
    /\ master = "loop" /\ frames = <<>> /\ stopMe
    /\ master' = "exited"
    /\ UNCHANGED <<frames, spawned, current, putting, closing, syncVars,
                   workerVars, fileVars, fdVars, clientVars>>

Destroy ==
    /\ master = "exited"
    /\ master' = "gone"
    /\ UNCHANGED <<frames, spawned, current, putting, closing, syncVars,
                   workerVars, fileVars, fdVars, clientVars>>

(* handle_events returns after a second without an event.                  *)
IdleTick == Dispatching /\ UNCHANGED vars

-----------------------------------------------------------------------------
(* MicroService::svc.                                                      *)

Alive == master # "gone"

WorkerStart(w) ==
    /\ Alive /\ wstate[w] = "spawned"
    /\ Release
    /\ wstate' = [wstate EXCEPT ![w] = "idle"]
    /\ UNCHANGED <<masterVars, stopMe, signals, queue, cur, fileVars, fdVars,
                   clientVars>>

TakeRequest_Peek(w) ==                                            \* mutant
    /\ Alive /\ wstate[w] = "idle" /\ queue[w] # <<>> /\ Head(queue[w]) # PCSig
    /\ cur' = [cur EXCEPT ![w] = Head(queue[w])]
    /\ wstate' = [wstate EXCEPT ![w] = "busy"]
    /\ UNCHANGED <<masterVars, syncVars, queue, fileVars, fdVars, clientVars>>
TakeRequest(w) ==
    /\ Alive /\ wstate[w] = "idle" /\ queue[w] # <<>> /\ Head(queue[w]) # PCSig
    /\ cur' = [cur EXCEPT ![w] = Head(queue[w])]
    /\ queue' = [queue EXCEPT ![w] = Tail(@)]
    /\ wstate' = [wstate EXCEPT ![w] = "busy"]
    /\ UNCHANGED <<masterVars, syncVars, fileVars, fdVars, clientVars>>

(* A handler opens a web page, or the database driver a socket.            *)
OpenFile(w, f) ==
    /\ Alive /\ wstate[w] = "busy" /\ file[w] = NoFd /\ files < MaxFiles
    /\ fdt[f] = Closed
    /\ fdt' = [fdt EXCEPT ![f] = File]
    /\ file' = [file EXCEPT ![w] = f] /\ files' = files + 1
    /\ UNCHANGED <<masterVars, syncVars, workerVars, pool, reg, timers, clientVars>>

CloseFile(w) ==
    /\ Alive /\ file[w] # NoFd
    /\ fdt' = [fdt EXCEPT ![file[w]] = Closed]
    /\ file' = [file EXCEPT ![w] = NoFd]
    /\ UNCHANGED <<masterVars, syncVars, workerVars, files, pool, reg, timers,
                   clientVars>>

(* process_request sends the response to the descriptor of the message:    *)
(* whatever fdt maps it to receives it.                                    *)
Respond(w) ==
    /\ Alive /\ wstate[w] = "busy" /\ file[w] = NoFd
    /\ wstate' = [wstate EXCEPT ![w] = "idle"]
    /\ cur' = [cur EXCEPT ![w] = NoMsg]
    /\ UNCHANGED <<masterVars, syncVars, queue, fileVars, fdVars, clientVars>>

(* MB_PCSIG: leave the loop and deactivate the queue...                    *)
TakePCSig(w) ==
    /\ Alive /\ wstate[w] = "idle" /\ queue[w] # <<>> /\ Head(queue[w]) = PCSig
    /\ queue' = [queue EXCEPT ![w] = Tail(@)]
    /\ wstate' = [wstate EXCEPT ![w] = "acking"]
    /\ UNCHANGED <<masterVars, syncVars, cur, fileVars, fdVars, clientVars>>

Acknowledge_NoRelease(w) ==                                       \* mutant
    /\ Alive /\ wstate[w] = "acking"
    /\ wstate' = [wstate EXCEPT ![w] = "stopped"]
    /\ UNCHANGED <<masterVars, syncVars, queue, cur, fileVars, fdVars, clientVars>>

(* ...and release the semaphore.                                           *)
Acknowledge(w) ==
    /\ Alive /\ wstate[w] = "acking"
    /\ Release
    /\ wstate' = [wstate EXCEPT ![w] = "stopped"]
    /\ UNCHANGED <<masterVars, stopMe, signals, queue, cur, fileVars, fdVars,
                   clientVars>>

-----------------------------------------------------------------------------
(* The clients.  What is sent on a connection the server closed is lost.   *)

Connected(c) == peer[c] = "open" /\ \E f \in Fd : fdt[f] = c

SendRequest(c) ==
    /\ Connected(c) /\ sent[c] < MaxRequests
    /\ sent' = [sent EXCEPT ![c] = @ + 1]
    /\ pending' = [pending EXCEPT ![c] = @ + 1]
    /\ UNCHANGED <<masterVars, syncVars, workerVars, fileVars, fdVars, peer>>

Hangup(c) ==
    /\ Connected(c)
    /\ peer' = [peer EXCEPT ![c] = "closed"]
    /\ UNCHANGED <<masterVars, syncVars, workerVars, fileVars, fdVars, pending, sent>>

Terminated == master = "gone" /\ UNCHANGED vars

Reactor ==
    \/ SpawnWorker \/ StartLoop
    \/ \E c \in Conn, f \in Fd : AcceptNew(c, f) \/ AcceptExisting(c, f)
    \/ \E f \in Fd : ReadRequest(f) \/ ReadEof(f)
    \/ \E t \in TimerId : Expire(t)
    \/ PutRequest \/ CloseAgain
    \/ SignalAcquire \/ SignalPut \/ SignalFinish
    \/ LoopExit \/ Destroy

WorkerStep(w) ==
    \/ WorkerStart(w) \/ TakeRequest(w)
    \/ \E f \in Fd : OpenFile(w, f)
    \/ CloseFile(w) \/ Respond(w) \/ TakePCSig(w) \/ Acknowledge(w)

Next ==
    \/ Reactor
    \/ \E w \in Worker : WorkerStep(w)
    \/ \E c \in Conn : SendRequest(c) \/ Hangup(c)
    \/ \E s \in SigNum : Signal(s)
    \/ IdleTick \/ Terminated

Spec == Init /\ [][Next]_vars

(* The reactor thread keeps running and serves every ready handle and      *)
(* every due timer; workers finish the request they process.  Nothing is   *)
(* assumed of clients, of signals or of the files workers open.            *)
Fairness ==
    /\ WF_vars(SpawnWorker) /\ WF_vars(StartLoop)
    /\ \A f \in Fd : WF_vars(ReadRequest(f)) /\ WF_vars(ReadEof(f))
    /\ \A t \in TimerId : WF_vars(Expire(t))
    /\ WF_vars(PutRequest) /\ WF_vars(CloseAgain)
    /\ WF_vars(SignalAcquire) /\ WF_vars(SignalPut) /\ WF_vars(SignalFinish)
    /\ WF_vars(LoopExit) /\ WF_vars(Destroy)
    /\ \A w \in Worker :
          /\ WF_vars(WorkerStart(w)) /\ WF_vars(TakeRequest(w))
          /\ WF_vars(CloseFile(w)) /\ WF_vars(Respond(w))
          /\ WF_vars(TakePCSig(w)) /\ WF_vars(Acknowledge(w))

FairSpec == Spec /\ Fairness

-----------------------------------------------------------------------------
(* Properties.                                                             *)

(* A right to go on: the free unit of the semaphore, a worker that was     *)
(* created or that got its MB_PCSIG and has not released yet, or a         *)
(* handle_signal between its acquire and its putq.                         *)
HasPCSig(q) == \E i \in 1..Len(q) : q[i] = PCSig
PCSigQueued(w) == HasPCSig(queue[w])
WorkerHolds(w) == wstate[w] \in {"spawned", "acking"} \/ PCSigQueued(w)
FrameHolds(i) == frames[i].holding

(* There is at most one such right at any time: the master never starts,   *)
(* or tells to stop, a second worker before the previous one has answered, *)
(* also when a SIGTERM interrupts the handler of SIGINT.                   *)
OneToken ==
    /\ sem \in {0, 1}
    /\ \A v, w \in Worker : WorkerHolds(v) /\ WorkerHolds(w) => v = w
    /\ \A i, j \in 1..Len(frames) : FrameHolds(i) /\ FrameHolds(j) => i = j
    /\ \A w \in Worker : WorkerHolds(w) => sem = 0
    /\ \A i \in 1..Len(frames) : FrameHolds(i) => sem = 0
    /\ \A w \in Worker, i \in 1..Len(frames) : ~(WorkerHolds(w) /\ FrameHolds(i))

(* When handle_signal deletes the connections and stops the server, and    *)
(* from then on until the destructors have run, at most one worker has not *)
(* finished: all requests queued at the others were served before their    *)
(* sockets were closed.                                                    *)
AtMostOneRuns ==
    stopMe => \A v, w \in Worker :
                 v # w => wstate[v] = "stopped" \/ wstate[w] = "stopped"

(* How far the shutdown got: a frame that is at worker k has told the ones *)
(* before it, and each of these has taken its MB_PCSIG or has it queued,   *)
(* exactly once; once the loop is told to stop, that holds of all workers. *)
Told(w) == wstate[w] \in {"acking", "stopped"} \/ PCSigQueued(w)
OnePCSig(q) == \A i, j \in 1..Len(q) : q[i] = PCSig /\ q[j] = PCSig => i = j
ShutdownProgress ==
    /\ master = "spawn" => frames = <<>> /\ ~stopMe
    /\ master # "spawn" => spawned = NWorkers
    /\ \A w \in Worker : wstate[w] = "none" <=> w > spawned
    /\ \A w \in Worker : OnePCSig(queue[w])
    /\ \A w \in Worker :
          wstate[w] \in {"none", "spawned", "acking", "stopped"} => ~PCSigQueued(w)
    /\ \A i \in 1..Len(frames), w \in Worker : w < frames[i].next => Told(w)
    /\ stopMe => \A w \in Worker : Told(w)

(* The reactor never dispatches to a WebConnection that was deleted: what  *)
(* is registered while it dispatches is in the connection pool.            *)
HandlersAlive ==
    master = "loop" /\ frames = <<>> /\ ~stopMe =>
        \A f \in reg : pool[f] # NoEntry

(* Every pooled connection has one pending cleanup timer, the one whose id *)
(* it remembers, and no timer is pending for a connection that is gone: a  *)
(* late timer cannot reap a newer connection on the same descriptor, and   *)
(* no connection escapes reaping.                                          *)
TimersMatchPool ==
    /\ \A f \in Fd : pool[f] # NoEntry => timers[pool[f].timer] = f
    /\ \A t \in TimerId : timers[t] # NoFd =>
          pool[timers[t]] # NoEntry /\ pool[timers[t]].timer = t

(* The descriptor of a pooled connection is open and belongs to that very  *)
(* connection, as long as no worker has opened a descriptor: a timed out   *)
(* connection is closed twice (CloseAgain), and what a worker opens in     *)
(* between is closed by the second close, its number given out again.      *)
PoolOwnsFd ==
    files = 0 => \A f \in Fd : pool[f] # NoEntry => fdt[f] = pool[f].conn

(* A response goes to the connection its request came from, or, when that  *)
(* is closed, nowhere.                                                     *)
ResponseGoesHome ==
    [][\A w \in Worker : wstate[w] = "busy" /\ wstate'[w] = "idle" =>
          fdt[cur[w].fd] \in {cur[w].conn, Closed}]_vars

(* A signal stops the server: whatever the workers are busy with, the      *)
(* handler gets through, the loop ends and the process exits.              *)
SignalStops == (frames # <<>>) ~> (master = "gone")

(* "Stop the Webserver when this m_stopMe becomes true."  It does not hold *)
(* with two signals: the outer handler then waits for a token that nobody  *)
(* gives back any more (README, section 5).                                *)
StopMeStops == stopMe ~> (master = "gone")

(* A connection its client closed does not stay open for ever.             *)
PeerClosedReaped ==
    \A c \in Conn : (peer[c] = "closed") ~> (\A f \in Fd : fdt[f] # c)

(* A request queued before a shutdown begins is processed, also when the   *)
(* shutdown then overtakes it.  Not so at the last worker: nobody waits    *)
(* for its acknowledgement, and the process may exit first.                *)
QueuedFor(w, c, n) == \E i \in 1..Len(queue[w]) :
    /\ queue[w][i] # PCSig
    /\ queue[w][i].conn = c /\ queue[w][i].n = n
RequestServed ==
    \A w \in Worker \ {NWorkers}, c \in Conn, n \in 1..MaxRequests :
        (QueuedFor(w, c, n) /\ frames = <<>> /\ ~stopMe)
            ~> (wstate[w] = "busy" /\ cur[w].conn = c /\ cur[w].n = n)

(* The server implements ServerLife: requests are handed over once and     *)
(* answered in order by each worker, none after a signal, and when the     *)
(* connections are cut only the last worker may still have work.  The      *)
(* requests behind the MB_PCSIG of a queue are never looked at: they count *)
(* as thrown away.                                                         *)
AheadOfPCSig(q) ==
    LET ahead == {i \in 1..Len(q) : \A j \in 1..i : q[j] # PCSig}
    IN [i \in ahead |-> <<q[i].conn, q[i].n>>]
Phase ==
    CASE master = "gone" -> "gone"
      [] master # "gone" /\ stopMe -> "stopped"
      [] master = "spawn" /\ ~stopMe -> "starting"
      [] master \notin {"spawn", "gone"} /\ ~stopMe ->
            IF frames = <<>> THEN "serving" ELSE "draining"
Taken ==
    {r \in Conn \X (1..MaxRequests) : r[2] <= sent[r[1]] - pending[r[1]]}
        \ (IF putting = NoMsg THEN {} ELSE {<<putting.msg.conn, putting.msg.n>>})
Work == [w \in Worker |->
    IF Deactivated(w) THEN <<>>
    ELSE (IF cur[w] = NoMsg THEN <<>> ELSE <<<<cur[w].conn, cur[w].n>>>>)
            \o AheadOfPCSig(queue[w])]

Life == INSTANCE ServerLife WITH
    Last <- NWorkers, Request <- Conn \X (1..MaxRequests),
    phase <- Phase, taken <- Taken, work <- Work
LifeSpec == Life!Spec

=============================================================================
