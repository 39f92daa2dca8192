-------------------------- MODULE WebServerProofs --------------------------
(* Proofs about WebServer, for any number of workers, connections,         *)
(* descriptors, timers, requests and signals.                              *)
EXTENDS WebServer, SequenceTheorems, TLAPS

LEMMA SigNotRequest == PCSig \notin Request
BY DEF PCSig, Request

(* Appending a request to a queue does not change whether it holds an      *)
(* MB_PCSIG (WebConnection::handle_input's putq).                          *)
LEMMA AppendRequest ==
    ASSUME NEW q \in Seq(Message), NEW m \in Request
    PROVE  /\ Append(q, m) \in Seq(Message)
           /\ HasPCSig(Append(q, m)) <=> HasPCSig(q)
           /\ OnePCSig(q) => OnePCSig(Append(q, m))
<1>1. m \in Message /\ m # PCSig
  BY SigNotRequest DEF Message
<1>2. /\ Append(q, m) \in Seq(Message) /\ Len(Append(q, m)) = Len(q) + 1
      /\ \A i \in 1..Len(q) : Append(q, m)[i] = q[i]
      /\ Append(q, m)[Len(q) + 1] = m
  BY <1>1, AppendProperties
<1>3. Len(q) \in Nat
  OBVIOUS
<1>4. HasPCSig(Append(q, m)) <=> HasPCSig(q)
  BY <1>1, <1>2, <1>3 DEF HasPCSig
<1>5. OnePCSig(q) => OnePCSig(Append(q, m))
  BY <1>1, <1>2, <1>3 DEF OnePCSig
<1> QED BY <1>2, <1>4, <1>5

(* Appending an MB_PCSIG to a queue without one (handle_signal's putq).    *)
LEMMA AppendSig ==
    ASSUME NEW q \in Seq(Message), ~HasPCSig(q)
    PROVE  /\ Append(q, PCSig) \in Seq(Message)
           /\ HasPCSig(Append(q, PCSig))
           /\ OnePCSig(Append(q, PCSig))
<1>1. PCSig \in Message
  BY DEF Message
<1>2. /\ Append(q, PCSig) \in Seq(Message) /\ Len(Append(q, PCSig)) = Len(q) + 1
      /\ \A i \in 1..Len(q) : Append(q, PCSig)[i] = q[i]
      /\ Append(q, PCSig)[Len(q) + 1] = PCSig
  BY <1>1, AppendProperties
<1>3. Len(q) \in Nat
  OBVIOUS
<1> QED BY <1>2, <1>3 DEF HasPCSig, OnePCSig

(* getq removes the head of the queue.                                     *)
LEMMA TakeHead ==
    ASSUME NEW q \in Seq(Message), q # <<>>, OnePCSig(q)
    PROVE  /\ Tail(q) \in Seq(Message) /\ Head(q) \in Message
           /\ OnePCSig(Tail(q))
           /\ Head(q) # PCSig => (HasPCSig(Tail(q)) <=> HasPCSig(q))
           /\ Head(q) = PCSig => HasPCSig(q) /\ ~HasPCSig(Tail(q))
<1>1. /\ Head(q) \in Message /\ Tail(q) \in Seq(Message)
      /\ Len(Tail(q)) = Len(q) - 1
      /\ \A i \in 1..Len(Tail(q)) : Tail(q)[i] = q[i + 1]
  BY HeadTailProperties
<1>2. Len(q) \in Nat \ {0} /\ Head(q) = q[1]
  BY EmptySeq
<1>3. OnePCSig(Tail(q))
  <2>1. SUFFICES ASSUME NEW i \in 1..Len(Tail(q)), NEW j \in 1..Len(Tail(q)),
                        Tail(q)[i] = PCSig, Tail(q)[j] = PCSig
                 PROVE  i = j
    BY DEF OnePCSig
  <2>2. i + 1 \in 1..Len(q) /\ j + 1 \in 1..Len(q)
    BY <1>1, <1>2
  <2>3. q[i + 1] = PCSig /\ q[j + 1] = PCSig
    BY <1>1, <2>1
  <2> QED BY <2>2, <2>3, <1>1 DEF OnePCSig
<1>4. ASSUME NEW i \in 1..Len(q), i # 1
      PROVE  i - 1 \in 1..Len(Tail(q)) /\ Tail(q)[i - 1] = q[i]
  <2>1. i - 1 \in 1..Len(Tail(q)) /\ (i - 1) + 1 = i
    BY <1>1, <1>2, <1>4
  <2>2. Tail(q)[i - 1] = q[(i - 1) + 1]
    BY <1>1, <2>1
  <2> QED BY <2>1, <2>2
<1>5. ASSUME NEW i \in 1..Len(Tail(q))
      PROVE  i + 1 \in 1..Len(q) /\ i + 1 # 1 /\ q[i + 1] = Tail(q)[i]
  BY <1>1, <1>2
<1>6. HasPCSig(Tail(q)) => HasPCSig(q)
  BY <1>5 DEF HasPCSig
<1>7. Head(q) # PCSig /\ HasPCSig(q) => HasPCSig(Tail(q))
  BY <1>2, <1>4 DEF HasPCSig
<1>8. Head(q) = PCSig => HasPCSig(q)
  BY <1>2 DEF HasPCSig
<1>9. Head(q) = PCSig => ~HasPCSig(Tail(q))
  BY <1>2, <1>5 DEF HasPCSig, OnePCSig
<1> QED BY <1>1, <1>3, <1>6, <1>7, <1>8, <1>9
-----------------------------------------------------------------------------
(* The stack of handle_signal activations.                                 *)

LEMMA PushFrame ==
    ASSUME NEW fr \in Seq(Frame), NEW e \in Frame
    PROVE  /\ Append(fr, e) \in Seq(Frame) /\ Len(Append(fr, e)) = Len(fr) + 1
           /\ \A i \in 1..Len(fr) : Append(fr, e)[i] = fr[i]
           /\ Append(fr, e)[Len(fr) + 1] = e
BY AppendProperties

LEMMA ReplaceTop ==
    ASSUME NEW fr \in Seq(Frame), fr # <<>>, NEW e \in Frame
    PROVE  LET g == [fr EXCEPT ![Len(fr)] = e]
           IN /\ Len(fr) \in 1..Len(fr) /\ fr[Len(fr)] \in Frame
              /\ g \in Seq(Frame) /\ Len(g) = Len(fr)
              /\ \A i \in 1..Len(fr) : g[i] = IF i = Len(fr) THEN e ELSE fr[i]
<1>1. Len(fr) \in 1..Len(fr)
  BY EmptySeq
<1>2. fr[Len(fr)] \in Frame
  BY <1>1, ElementOfSeq
<1> QED BY <1>1, <1>2, ExceptSeq

LEMMA HoldFrame ==
    ASSUME NEW e \in Frame, e.next <= NWorkers
    PROVE  LET g == [e EXCEPT !.holding = TRUE]
           IN g \in Frame /\ g.holding /\ g.next = e.next
<1>1. e \in [sig : SigNum, next : Worker, holding : BOOLEAN]
  <2>1. CASE e \in [sig : SigNum, next : {NWorkers + 1}, holding : {FALSE}]
    <3>1. e.next = NWorkers + 1
      BY <2>1
    <3> QED BY <3>1, NWorkersAssumption
  <2> QED BY <2>1 DEF Frame
<1> QED BY <1>1 DEF Frame

LEMMA AdvanceFrame ==
    ASSUME NEW e \in Frame, e.holding
    PROVE  LET g == [e EXCEPT !.next = @ + 1, !.holding = FALSE]
           IN g \in Frame /\ ~g.holding /\ g.next = e.next + 1 /\ e.next \in Worker
<1>1. e \in [sig : SigNum, next : Worker, holding : BOOLEAN]
  BY DEF Frame
<1>2. e.next \in Worker /\ (e.next + 1 \in Worker \/ e.next + 1 = NWorkers + 1)
  BY <1>1, NWorkersAssumption DEF Worker
<1> QED BY <1>1, <1>2 DEF Frame

LEMMA PopFrame ==
    ASSUME NEW fr \in Seq(Frame), fr # <<>>
    PROVE  LET g == SubSeq(fr, 1, Len(fr) - 1)
           IN /\ g \in Seq(Frame) /\ Len(g) = Len(fr) - 1
              /\ \A i \in 1..Len(g) : i \in 1..Len(fr) /\ g[i] = fr[i]
<1>1. Len(fr) \in Nat /\ Len(fr) > 0
  BY EmptySeq
<1>2. Len(fr) - 1 \in Int /\ \A i \in 1..(Len(fr) - 1) : i \in 1..Len(fr)
  BY <1>1
<1>3. \A i \in 1..(Len(fr) - 1) : fr[i] \in Frame
  BY <1>2, ElementOfSeq
<1>4. /\ SubSeq(fr, 1, Len(fr) - 1) \in Seq(Frame)
      /\ Len(SubSeq(fr, 1, Len(fr) - 1)) =
            IF 1 <= Len(fr) - 1 THEN (Len(fr) - 1) - 1 + 1 ELSE 0
      /\ \A i \in 1..((Len(fr) - 1) - 1 + 1) :
            SubSeq(fr, 1, Len(fr) - 1)[i] = fr[1 + i - 1]
  BY <1>2, <1>3, SubSeqProperties
<1>5. Len(SubSeq(fr, 1, Len(fr) - 1)) = Len(fr) - 1
  <2>1. ASSUME NEW n \in Nat, n > 0
        PROVE  (IF 1 <= n - 1 THEN (n - 1) - 1 + 1 ELSE 0) = n - 1
    BY <2>1
  <2> QED BY <1>1, <1>4, <2>1, Zenon
<1>6. \A i \in 1..(Len(fr) - 1) : 1 + i - 1 = i
  OBVIOUS
<1> QED BY <1>1, <1>2, <1>4, <1>5, <1>6

-----------------------------------------------------------------------------
(* Type correctness.                                                       *)

LEMMA TypeInit == Init => TypeOK
<1> SUFFICES ASSUME Init PROVE TypeOK
  OBVIOUS
<1>1. /\ <<>> \in Seq(Frame) /\ <<>> \in Seq(Message)
      /\ 1 \in 1..(NWorkers + 1) /\ 0 \in 0..NWorkers
      /\ 0 \in 0..MaxSignals /\ 0 \in 0..MaxFiles /\ 0 \in 0..MaxRequests
  BY EmptySeq, NWorkersAssumption, BoundsAssumption
<1>2. /\ wstate \in [Worker -> {"none", "spawned", "idle", "busy", "acking", "stopped"}]
      /\ queue \in [Worker -> Seq(Message)]
      /\ cur \in [Worker -> Request \cup {NoMsg}]
      /\ file \in [Worker -> Fd \cup {NoFd}]
  BY <1>1 DEF Init
<1>3. /\ fdt \in [Fd -> Conn \cup {Closed, File}]
      /\ pool \in [Fd -> Entry \cup {NoEntry}]
      /\ timers \in [TimerId -> Fd \cup {NoFd}]
      /\ peer \in [Conn -> {"new", "open", "closed"}]
      /\ pending \in [Conn -> 0..MaxRequests] /\ sent \in [Conn -> 0..MaxRequests]
      /\ \A c \in Conn : pending[c] <= sent[c]
  BY <1>1 DEF Init
<1> QED BY <1>1, <1>2, <1>3 DEF Init, TypeOK

LEMMA TypeStep == TypeOK /\ [Next]_vars => TypeOK'
<1> SUFFICES ASSUME TypeOK, [Next]_vars PROVE TypeOK'
  OBVIOUS
<1> USE NWorkersAssumption, BoundsAssumption
<1> USE DEF TypeOK, Worker, masterVars, syncVars, workerVars, fileVars, fdVars, clientVars
<1>1. CASE SpawnWorker
  <2>1. /\ sem - 1 \in Nat /\ spawned + 1 \in 0..NWorkers
        /\ spawned + 1 \in 1..NWorkers
    BY <1>1 DEF SpawnWorker, Acquire
  <2> QED BY <1>1, <2>1 DEF SpawnWorker, Acquire
<1>2. CASE StartLoop
  BY <1>2 DEF StartLoop
<1>3. ASSUME NEW c \in Conn, NEW f \in Fd, AcceptNew(c, f) PROVE TypeOK'
  BY <1>3 DEF AcceptNew, FreeTimers, Entry
<1>4. ASSUME NEW c \in Conn, NEW f \in Fd, AcceptExisting(c, f) PROVE TypeOK'
  BY <1>4 DEF AcceptExisting
<1>5. ASSUME NEW f \in Fd, ReadRequest(f) PROVE TypeOK'
  <2>1. CurrentWorker \in 1..NWorkers /\ CurrentWorker + 1 \in 1..(NWorkers + 1)
    BY DEF CurrentWorker
  <2> DEFINE c == fdt[f]
  <2>2. c \in Conn /\ pending[c] \in 0..MaxRequests /\ sent[c] \in 0..MaxRequests
        /\ pending[c] > 0 /\ pending[c] <= sent[c]
    BY <1>5 DEF ReadRequest
  <2>3. pending[c] - 1 \in 0..MaxRequests /\ pending[c] - 1 <= sent[c]
        /\ sent[c] - pending[c] + 1 \in 1..MaxRequests
    BY <2>2
  <2>4. [type |-> "MB_DATA", fd |-> f, conn |-> c, n |-> sent[c] - pending[c] + 1]
           \in Request
    BY <2>2, <2>3 DEF Request
  <2>5. /\ putting' \in [msg : Request, worker : Worker] /\ putting' # NoMsg
        /\ pending' = [pending EXCEPT ![c] = @ - 1]
    BY <1>5, <2>1, <2>4, NoneAssumption DEF ReadRequest
  <2>6. pending' \in [Conn -> 0..MaxRequests] /\ \A d \in Conn : pending'[d] <= sent[d]
    BY <2>2, <2>3, <2>5
  <2> QED BY <1>5, <2>1, <2>5, <2>6 DEF ReadRequest
<1>6. CASE PutRequest
  <2>1. putting.msg \in Request
    BY <1>6 DEF PutRequest
  <2>2. \A w \in Worker : Append(queue[w], putting.msg) \in Seq(Message)
    BY <2>1, AppendRequest
  <2>3. queue' \in [Worker -> Seq(Message)]
    BY <1>6, <2>2 DEF PutRequest, Enqueue
  <2> QED BY <1>6, <2>3 DEF PutRequest
<1>7. ASSUME NEW f \in Fd, ReadEof(f) PROVE TypeOK'
  <2>1. pool[f] \in Entry
    BY <1>7 DEF ReadEof
  <2>2. CASE UNCHANGED <<timers, pool>>
    BY <1>7, <2>2 DEF ReadEof, Unregister
  <2>3. CASE \E t \in TimerId :
             timers' = Reschedule(pool[f].timer, t, f) /\ pool' = [pool EXCEPT ![f].timer = t]
    <3>1. PICK t \in TimerId :
             timers' = Reschedule(pool[f].timer, t, f) /\ pool' = [pool EXCEPT ![f].timer = t]
      BY <2>3
    <3>2. [pool[f] EXCEPT !.timer = t] \in Entry
      BY <2>1 DEF Entry
    <3>3. pool' \in [Fd -> Entry \cup {NoEntry}]
      BY <3>1, <3>2
    <3>4. timers' \in [TimerId -> Fd \cup {NoFd}]
      BY <3>1 DEF Reschedule
    <3> QED BY <1>7, <3>3, <3>4 DEF ReadEof, Unregister
  <2> QED BY <1>7, <2>1, <2>2, <2>3 DEF ReadEof, FreeTimers, Entry
<1>8. ASSUME NEW t \in TimerId, Expire(t) PROVE TypeOK'
  BY <1>8, ZenonT(60) DEF Expire, Erase, Unregister, Entry
<1>9. CASE CloseAgain
  BY <1>9 DEF CloseAgain
<1>10. ASSUME NEW s \in SigNum, Signal(s) PROVE TypeOK'
  BY <1>10, PushFrame DEF Signal, Frame
<1>11. CASE SignalAcquire
  <2>1. Top \in Frame
    BY <1>11, ReplaceTop DEF SignalAcquire, Top
  <2>2. [Top EXCEPT !.holding = TRUE] \in Frame
    BY <2>1, <1>11, HoldFrame DEF SignalAcquire
  <2>3. frames' \in Seq(Frame)
    BY <1>11, <2>2, ReplaceTop DEF SignalAcquire, SetTop
  <2>4. sem' \in Nat
    BY <1>11 DEF SignalAcquire, Acquire
  <2> QED BY <1>11, <2>3, <2>4 DEF SignalAcquire
<1>12. CASE SignalPut
  <2>1. Top \in Frame
    BY <1>12, ReplaceTop DEF SignalPut, Top
  <2>2. [Top EXCEPT !.next = @ + 1, !.holding = FALSE] \in Frame
    BY <2>1, <1>12, AdvanceFrame DEF SignalPut
  <2>3. frames' \in Seq(Frame)
    BY <1>12, <2>2, ReplaceTop DEF SignalPut, SetTop
  <2>4. queue' \in [Worker -> Seq(Message)]
    <3>1. PCSig \in Message
      BY DEF Message
    <3>2. \A w \in Worker : Append(queue[w], PCSig) \in Seq(Message)
      BY <3>1, AppendProperties
    <3>3. Top.next \in Worker
      BY <2>1, <1>12, AdvanceFrame DEF SignalPut
    <3> QED BY <1>12, <3>2, <3>3 DEF SignalPut, Enqueue
  <2> QED BY <1>12, <2>3, <2>4 DEF SignalPut
<1>13. CASE SignalFinish
  BY <1>13, PopFrame DEF SignalFinish
<1>14. CASE LoopExit
  BY <1>14 DEF LoopExit
<1>15. CASE Destroy
  BY <1>15 DEF Destroy
<1>16. ASSUME NEW w \in Worker, WorkerStep(w) PROVE TypeOK'
  <2>1. CASE WorkerStart(w)
    BY <2>1 DEF WorkerStart, Release
  <2>2. CASE TakeRequest(w)
    BY <2>2, HeadTailProperties DEF TakeRequest, Message
  <2>3. ASSUME NEW f \in Fd, OpenFile(w, f) PROVE TypeOK'
    BY <2>3 DEF OpenFile
  <2>4. CASE CloseFile(w)
    BY <2>4 DEF CloseFile
  <2>5. CASE Respond(w)
    BY <2>5 DEF Respond
  <2>6. CASE TakePCSig(w)
    BY <2>6, HeadTailProperties DEF TakePCSig
  <2>7. CASE Acknowledge(w)
    BY <2>7 DEF Acknowledge, Release
  <2> QED BY <1>16, <2>1, <2>2, <2>3, <2>4, <2>5, <2>6, <2>7 DEF WorkerStep
<1>17. ASSUME NEW c \in Conn, SendRequest(c) PROVE TypeOK'
  BY <1>17 DEF SendRequest
<1>18. ASSUME NEW c \in Conn, Hangup(c) PROVE TypeOK'
  BY <1>18 DEF Hangup
<1>19. CASE UNCHANGED vars
  BY <1>19 DEF vars
<1> QED
  BY <1>1, <1>2, <1>3, <1>4, <1>5, <1>6, <1>7, <1>8, <1>9, <1>10, <1>11, <1>12,
     <1>13, <1>14, <1>15, <1>16, <1>17, <1>18, <1>19
  DEF Next, Reactor, IdleTick, Terminated

(* Every variable keeps its type; in particular the round robin iterator   *)
(* never designates a worker that does not exist.                          *)
THEOREM TypeCorrect == Spec => []TypeOK
BY TypeInit, TypeStep, PTL DEF Spec

-----------------------------------------------------------------------------
(* The semaphore hand-shake.  OneToken alone is not inductive: that the    *)
(* worker told next holds no right needs ShutdownProgress.                 *)

SInv == OneToken /\ ShutdownProgress

shutdownVars == <<frames, spawned, sem, stopMe, wstate, queue>>

LEMMA SInvInit == Init => SInv
<1> SUFFICES ASSUME Init PROVE SInv
  OBVIOUS
<1>1. \A w \in Worker : ~PCSigQueued(w) /\ OnePCSig(queue[w])
  BY EmptySeq DEF Init, PCSigQueued, HasPCSig, OnePCSig
<1>2. frames = <<>> /\ Len(frames) = 0
  BY EmptySeq DEF Init
<1>3. OneToken
  BY <1>1, <1>2 DEF Init, OneToken, WorkerHolds
<1>4. ShutdownProgress
  BY <1>1, <1>2 DEF Init, ShutdownProgress, Worker
<1> QED BY <1>3, <1>4 DEF SInv

(* Steps that only move the reactor between control points of its loop.    *)
LEMMA SInvQuiet ==
    ASSUME SInv, UNCHANGED shutdownVars,
           master' = master \/ (master # "spawn" /\ master' # "spawn")
    PROVE  SInv'
BY DEF SInv, shutdownVars, OneToken, WorkerHolds, PCSigQueued, FrameHolds,
       ShutdownProgress, Told

LEMMA SInvSpawn == TypeOK /\ SInv /\ SpawnWorker => SInv'
<1> SUFFICES ASSUME TypeOK, SInv, SpawnWorker PROVE SInv'
  OBVIOUS
<1> DEFINE k == spawned + 1
<1>1. k \in Worker /\ sem = 1 /\ sem' = 0 /\ spawned' = k
  BY NWorkersAssumption
  DEF TypeOK, SInv, OneToken, SpawnWorker, Acquire, Worker
<1>2. wstate' = [wstate EXCEPT ![k] = "spawned"] /\ wstate \in [Worker -> {"none",
         "spawned", "idle", "busy", "acking", "stopped"}]
  BY DEF SpawnWorker, TypeOK
<1>3. UNCHANGED <<master, frames, queue, stopMe>> /\ frames = <<>> /\ ~stopMe
      /\ master = "spawn"
  BY DEF SpawnWorker, SInv, ShutdownProgress
<1>4. Len(frames) = 0
  BY <1>3, EmptySeq
<1>5. \A w \in Worker : ~WorkerHolds(w) /\ ~PCSigQueued(w)
  BY <1>1 DEF SInv, OneToken, WorkerHolds
<1>6. \A w \in Worker : ~PCSigQueued(w)'
  BY <1>3, <1>5 DEF PCSigQueued
<1>7. \A w \in Worker : WorkerHolds(w)' => w = k
  BY <1>1, <1>2, <1>5, <1>6 DEF WorkerHolds
<1>8. OneToken'
  BY <1>1, <1>3, <1>4, <1>7 DEF OneToken
<1>9. \A w \in Worker : wstate'[w] = "none" <=> w > k
  BY <1>1, <1>2 DEF SInv, ShutdownProgress, Worker, TypeOK
<1>10. ShutdownProgress'
  BY <1>1, <1>3, <1>4, <1>6, <1>9 DEF SInv, ShutdownProgress
<1> QED BY <1>8, <1>10 DEF SInv

LEMMA SInvStartLoop == TypeOK /\ SInv /\ StartLoop => SInv'
BY DEF StartLoop, SInv, OneToken, WorkerHolds, PCSigQueued, FrameHolds,
       ShutdownProgress, Told, syncVars, workerVars

(* putq of a request: no queue gains or loses an MB_PCSIG.                 *)
LEMMA SInvPutRequest == TypeOK /\ SInv /\ PutRequest => SInv'
<1> SUFFICES ASSUME TypeOK, SInv, PutRequest PROVE SInv'
  OBVIOUS
<1>1. UNCHANGED <<frames, spawned, sem, stopMe, wstate>>
      /\ master = "put" /\ master' = "loop"
  BY DEF PutRequest, syncVars
<1>2. putting.msg \in Request
  BY DEF TypeOK, PutRequest
<1>3. \A w \in Worker : (HasPCSig(queue'[w]) <=> HasPCSig(queue[w]))
                       /\ (OnePCSig(queue[w]) => OnePCSig(queue'[w]))
  <2>1. \A w \in Worker : queue'[w] = queue[w] \/ queue'[w] = Append(queue[w], putting.msg)
    BY DEF PutRequest, Enqueue, TypeOK
  <2>2. \A w \in Worker : queue[w] \in Seq(Message)
    BY DEF TypeOK
  <2> QED BY <1>2, <2>1, <2>2, AppendRequest
<1>4. \A w \in Worker :
         /\ PCSigQueued(w)' <=> PCSigQueued(w)
         /\ WorkerHolds(w)' <=> WorkerHolds(w)
         /\ Told(w)' <=> Told(w)
  BY <1>1, <1>3 DEF PCSigQueued, WorkerHolds, Told
<1>5. OneToken'
  BY <1>1, <1>4 DEF SInv, OneToken, FrameHolds
<1>6. ShutdownProgress'
  BY <1>1, <1>3, <1>4 DEF SInv, ShutdownProgress
<1> QED BY <1>5, <1>6 DEF SInv

-----------------------------------------------------------------------------
(* The steps of handle_signal.                                             *)

LEMMA SInvSignal ==
    ASSUME TypeOK, SInv, NEW s \in SigNum, Signal(s) PROVE SInv'
<1> DEFINE e == [sig |-> s, next |-> 1, holding |-> FALSE]
<1>1. e \in Frame /\ frames \in Seq(Frame) /\ Len(frames) \in Nat
  BY NWorkersAssumption DEF Frame, Worker, TypeOK
<1>2. /\ Len(frames') = Len(frames) + 1
      /\ \A i \in 1..Len(frames) : frames'[i] = frames[i]
      /\ frames'[Len(frames) + 1] = e
  BY <1>1, PushFrame DEF Signal
<1>3. UNCHANGED <<master, spawned, sem, stopMe, wstate, queue>> /\ master # "spawn"
  BY DEF Signal, workerVars
<1>4. \A w \in Worker :
         /\ PCSigQueued(w)' <=> PCSigQueued(w)
         /\ WorkerHolds(w)' <=> WorkerHolds(w)
         /\ Told(w)' <=> Told(w)
  BY <1>3 DEF PCSigQueued, WorkerHolds, Told
<1>5. \A i \in 1..Len(frames') : i \in 1..Len(frames) \/ i = Len(frames) + 1
  BY <1>1, <1>2
<1>6. \A i \in 1..Len(frames') : FrameHolds(i)' => i \in 1..Len(frames) /\ FrameHolds(i)
  BY <1>2, <1>5 DEF FrameHolds
<1>7. OneToken'
  BY <1>3, <1>4, <1>6 DEF SInv, OneToken
<1>8. \A i \in 1..Len(frames'), w \in Worker : w < frames'[i].next => Told(w)'
  <2>1. \A w \in Worker : ~(w < 1)
    BY NWorkersAssumption DEF Worker
  <2> QED BY <1>2, <1>4, <1>5, <2>1 DEF SInv, ShutdownProgress
<1>9. ShutdownProgress'
  BY <1>3, <1>4, <1>8 DEF SInv, ShutdownProgress
<1> QED BY <1>7, <1>9 DEF SInv

LEMMA SInvSignalAcquire == TypeOK /\ SInv /\ SignalAcquire => SInv'
<1> SUFFICES ASSUME TypeOK, SInv, SignalAcquire PROVE SInv'
  OBVIOUS
<1> DEFINE n == Len(frames)
           e == [Top EXCEPT !.holding = TRUE]
<1>1. frames \in Seq(Frame) /\ frames # <<>> /\ n \in 1..n /\ Top \in Frame
  BY ReplaceTop DEF TypeOK, SignalAcquire, Top
<1>2. e \in Frame /\ e.holding /\ e.next = Top.next
  BY <1>1, HoldFrame DEF SignalAcquire
<1>3. Len(frames') = n /\ \A i \in 1..n : frames'[i] = IF i = n THEN e ELSE frames[i]
  BY <1>1, <1>2, ReplaceTop DEF SignalAcquire, SetTop
<1>4. UNCHANGED <<master, spawned, stopMe, wstate, queue>> /\ sem = 1 /\ sem' = 0
  BY DEF SignalAcquire, Acquire, SInv, OneToken, workerVars
<1>5. \A w \in Worker :
         /\ PCSigQueued(w)' <=> PCSigQueued(w)
         /\ WorkerHolds(w)' <=> WorkerHolds(w)
         /\ Told(w)' <=> Told(w)
  BY <1>4 DEF PCSigQueued, WorkerHolds, Told
<1>6. (\A w \in Worker : ~WorkerHolds(w)) /\ (\A i \in 1..n : ~FrameHolds(i))
  BY <1>4 DEF SInv, OneToken
<1>7. \A i \in 1..Len(frames') : FrameHolds(i)' => i = n
  BY <1>3, <1>6 DEF FrameHolds
<1>8. OneToken'
  BY <1>4, <1>5, <1>6, <1>7 DEF OneToken
<1>9. \A i \in 1..Len(frames') : i \in 1..n /\ frames'[i].next = frames[i].next
  BY <1>1, <1>2, <1>3 DEF Top
<1>10. frames' # <<>>
  BY <1>1, <1>3, EmptySeq
<1>11. master # "spawn"
  BY <1>1 DEF SInv, ShutdownProgress
<1>12. ShutdownProgress'
  BY <1>4, <1>5, <1>9, <1>11 DEF SInv, ShutdownProgress
<1> QED BY <1>8, <1>12 DEF SInv

LEMMA SInvSignalPut == TypeOK /\ SInv /\ SignalPut => SInv'
<1> SUFFICES ASSUME TypeOK, SInv, SignalPut PROVE SInv'
  OBVIOUS
<1> DEFINE n == Len(frames)
           e == [Top EXCEPT !.next = @ + 1, !.holding = FALSE]
<1>1. frames \in Seq(Frame) /\ frames # <<>> /\ n \in 1..n /\ Top \in Frame
  BY ReplaceTop DEF TypeOK, SignalPut, Top
<1>next. e \in Frame /\ ~e.holding /\ e.next = Top.next + 1 /\ Top.next \in Worker
  BY <1>1, AdvanceFrame DEF SignalPut
<1>worker. PICK k \in Worker : k = Top.next
  BY <1>next
<1>2. e \in Frame /\ ~e.holding /\ e.next = k + 1 /\ k \in Worker
  BY <1>next, <1>worker
<1>3. Len(frames') = n /\ \A i \in 1..n : frames'[i] = IF i = n THEN e ELSE frames[i]
  BY <1>1, <1>2, ReplaceTop DEF SignalPut, SetTop
<1>4. UNCHANGED <<master, spawned, stopMe, sem, wstate>> /\ FrameHolds(n)
  BY DEF SignalPut, syncVars, FrameHolds, Top
<1>5. sem = 0 /\ (\A w \in Worker : ~WorkerHolds(w))
      /\ (\A i \in 1..n : FrameHolds(i) => i = n)
  BY <1>1, <1>4 DEF SInv, OneToken
<1>6. \A i \in 1..Len(frames') : ~FrameHolds(i)'
  BY <1>2, <1>3, <1>5 DEF FrameHolds
<1>7. master # "spawn"
  BY <1>1 DEF SInv, ShutdownProgress
<1>8. \A w \in Worker : w # k => queue'[w] = queue[w]
  BY <1>2, <1>worker DEF SignalPut, Enqueue, TypeOK
<1>9. queue[k] \in Seq(Message) /\ OnePCSig(queue[k]) /\ ~HasPCSig(queue[k])
  BY <1>2, <1>5 DEF TypeOK, SInv, ShutdownProgress, WorkerHolds, PCSigQueued
<1>10. wstate[k] \in {"idle", "busy", "acking", "stopped"}
  BY <1>2, <1>5, <1>7 DEF TypeOK, SInv, ShutdownProgress, WorkerHolds, Worker
<1>11. /\ OnePCSig(queue'[k])
       /\ \/ wstate[k] \in {"acking", "stopped"} /\ queue'[k] = queue[k]
          \/ wstate[k] \in {"idle", "busy"} /\ HasPCSig(queue'[k])
  <2>1. CASE Deactivated(k)
    BY <2>1, <1>2, <1>worker, <1>9, <1>10 DEF SignalPut, Deactivated
  <2>2. CASE ~Deactivated(k)
    <3>1. queue'[k] = Append(queue[k], PCSig)
      BY <2>2, <1>2, <1>worker DEF SignalPut, Enqueue, TypeOK
    <3> QED BY <3>1, <2>2, <1>9, <1>10, AppendSig DEF Deactivated
  <2> QED BY <2>1, <2>2
<1>12. \A w \in Worker : w # k =>
         /\ PCSigQueued(w)' <=> PCSigQueued(w)
         /\ WorkerHolds(w)' <=> WorkerHolds(w)
         /\ Told(w)' <=> Told(w)
  BY <1>4, <1>8 DEF PCSigQueued, WorkerHolds, Told
<1>13. Told(k)' /\ \A w \in Worker : WorkerHolds(w)' => w = k
  BY <1>4, <1>5, <1>11, <1>12 DEF Told, PCSigQueued
<1>14. OneToken'
  BY <1>4, <1>5, <1>6, <1>13 DEF OneToken
<1>15. \A i \in 1..Len(frames'), w \in Worker : w < frames'[i].next => Told(w)'
  <2> SUFFICES ASSUME NEW i \in 1..Len(frames'), NEW w \in Worker,
                      w < frames'[i].next, w # k
               PROVE  Told(w)'
    BY <1>13
  <2>1. i \in 1..n /\ w < frames[i].next
    <3>1. CASE i = n
      <4>1. frames'[i].next = k + 1 /\ frames[i].next = k
        BY <3>1, <1>1, <1>2, <1>3, <1>worker DEF Top
      <4>2. w \in Int /\ k \in Int
        BY <1>2, NWorkersAssumption DEF Worker
      <4> QED BY <3>1, <1>1, <4>1, <4>2
    <3>2. CASE i # n
      BY <3>2, <1>3
    <3> QED BY <3>1, <3>2
  <2> QED BY <2>1, <1>12 DEF SInv, ShutdownProgress
<1>16. \A w \in Worker : OnePCSig(queue'[w])
  BY <1>8, <1>11 DEF SInv, ShutdownProgress
<1>17. \A w \in Worker :
          wstate[w] \in {"none", "spawned", "acking", "stopped"} => ~PCSigQueued(w)'
  BY <1>9, <1>11, <1>12 DEF SInv, ShutdownProgress, PCSigQueued
<1>18. stopMe => \A w \in Worker : Told(w)'
  BY <1>12, <1>13 DEF SInv, ShutdownProgress
<1>19. ShutdownProgress'
  BY <1>4, <1>7, <1>15, <1>16, <1>17, <1>18 DEF SInv, ShutdownProgress
<1> QED BY <1>14, <1>19 DEF SInv

LEMMA SInvSignalFinish == TypeOK /\ SInv /\ SignalFinish => SInv'
<1> SUFFICES ASSUME TypeOK, SInv, SignalFinish PROVE SInv'
  OBVIOUS
<1> DEFINE n == Len(frames)
<1>1. frames \in Seq(Frame) /\ frames # <<>> /\ n \in 1..n
  BY ReplaceTop DEF TypeOK, SignalFinish
<1>2. Len(frames') = n - 1
      /\ \A i \in 1..Len(frames') : i \in 1..n /\ frames'[i] = frames[i]
  BY <1>1, PopFrame DEF SignalFinish
<1>3. UNCHANGED <<master, spawned, sem, wstate, queue>> /\ stopMe'
  BY DEF SignalFinish, workerVars
<1>4. \A w \in Worker :
         /\ PCSigQueued(w)' <=> PCSigQueued(w)
         /\ WorkerHolds(w)' <=> WorkerHolds(w)
         /\ Told(w)' <=> Told(w)
  BY <1>3 DEF PCSigQueued, WorkerHolds, Told
<1>5. \A w \in Worker : Told(w)
  <2>1. frames[n].next = NWorkers + 1
    BY DEF SignalFinish, Top
  <2>2. \A w \in Worker : w < NWorkers + 1
    BY NWorkersAssumption DEF Worker
  <2> QED BY <1>1, <2>1, <2>2 DEF SInv, ShutdownProgress
<1>6. master # "spawn"
  BY <1>1 DEF SInv, ShutdownProgress
<1>7. OneToken'
  BY <1>2, <1>3, <1>4 DEF SInv, OneToken, FrameHolds
<1>8. ShutdownProgress'
  BY <1>2, <1>3, <1>4, <1>5, <1>6 DEF SInv, ShutdownProgress
<1> QED BY <1>7, <1>8 DEF SInv

-----------------------------------------------------------------------------
(* The steps of a worker.                                                  *)

(* A release by a worker that held the right: w started, or acknowledged.  *)
LEMMA SInvRelease ==
    ASSUME TypeOK, SInv, NEW w \in Worker, NEW st \in {"idle", "stopped"},
           \/ wstate[w] = "spawned" /\ st = "idle"
           \/ wstate[w] = "acking" /\ st = "stopped",
           Release, wstate' = [wstate EXCEPT ![w] = st],
           UNCHANGED <<master, frames, spawned, stopMe, queue>>
    PROVE  SInv'
<1>1. WorkerHolds(w) /\ ~PCSigQueued(w)
  BY DEF WorkerHolds, SInv, ShutdownProgress
<1>2. /\ sem = 0 /\ sem' = 1
      /\ \A v \in Worker : WorkerHolds(v) => v = w
      /\ \A i \in 1..Len(frames) : ~FrameHolds(i)
  BY <1>1 DEF SInv, OneToken, Release
<1>3. \A v \in Worker : PCSigQueued(v)' <=> PCSigQueued(v)
  BY DEF PCSigQueued
<1>4. wstate'[w] = st /\ \A v \in Worker : v # w => wstate'[v] = wstate[v]
  BY DEF TypeOK
<1>5. \A v \in Worker : ~WorkerHolds(v)'
  BY <1>1, <1>2, <1>3, <1>4 DEF WorkerHolds
<1>6. OneToken'
  BY <1>2, <1>5 DEF OneToken, FrameHolds
<1>7. \A v \in Worker : Told(v) => Told(v)'
  BY <1>1, <1>3, <1>4 DEF Told
<1>8. \A v \in Worker : wstate'[v] = "none" <=> v > spawned
  BY <1>4 DEF SInv, ShutdownProgress
<1>9. \A v \in Worker :
         wstate'[v] \in {"none", "spawned", "acking", "stopped"} => ~PCSigQueued(v)'
  BY <1>1, <1>3, <1>4 DEF SInv, ShutdownProgress
<1>10. ShutdownProgress'
  BY <1>7, <1>8, <1>9 DEF SInv, ShutdownProgress
<1> QED BY <1>6, <1>10 DEF SInv

(* Taking a request, or finishing one: rights do not move.                 *)
LEMMA SInvRequest ==
    ASSUME TypeOK, SInv, NEW w \in Worker, TakeRequest(w) \/ Respond(w) PROVE SInv'
<1>1. UNCHANGED <<master, frames, spawned, sem, stopMe>>
  BY DEF TakeRequest, Respond, masterVars, syncVars
<1>2. /\ wstate[w] \in {"idle", "busy"} /\ wstate'[w] \in {"idle", "busy"}
      /\ \A v \in Worker : v # w => wstate'[v] = wstate[v] /\ queue'[v] = queue[v]
  BY DEF TakeRequest, Respond, TypeOK
<1>3. (HasPCSig(queue'[w]) <=> HasPCSig(queue[w])) /\ OnePCSig(queue'[w])
  <2>1. queue[w] \in Seq(Message) /\ OnePCSig(queue[w])
    BY DEF TypeOK, SInv, ShutdownProgress
  <2>2. CASE TakeRequest(w)
    <3>1. queue[w] # <<>> /\ Head(queue[w]) # PCSig /\ queue'[w] = Tail(queue[w])
      BY <2>2 DEF TakeRequest, TypeOK
    <3> QED BY <2>1, <3>1, TakeHead
  <2>3. CASE Respond(w)
    BY <2>1, <2>3 DEF Respond
  <2> QED BY <2>2, <2>3
<1>4. \A v \in Worker : (HasPCSig(queue'[v]) <=> HasPCSig(queue[v])) /\ OnePCSig(queue'[v])
  BY <1>2, <1>3 DEF SInv, ShutdownProgress
<1>5. \A v \in Worker :
         /\ PCSigQueued(v)' <=> PCSigQueued(v)
         /\ WorkerHolds(v)' <=> WorkerHolds(v)
         /\ Told(v)' <=> Told(v)
  BY <1>2, <1>4 DEF PCSigQueued, WorkerHolds, Told
<1>6. OneToken'
  BY <1>1, <1>5 DEF SInv, OneToken, FrameHolds
<1>7. ShutdownProgress'
  BY <1>1, <1>2, <1>4, <1>5 DEF SInv, ShutdownProgress
<1> QED BY <1>6, <1>7 DEF SInv

(* Taking the MB_PCSIG: the right moves from the queue to the worker.      *)
LEMMA SInvTakePCSig ==
    ASSUME TypeOK, SInv, NEW w \in Worker, TakePCSig(w) PROVE SInv'
<1>1. UNCHANGED <<master, frames, spawned, sem, stopMe>>
  BY DEF TakePCSig, masterVars, syncVars
<1>2. /\ wstate[w] = "idle" /\ wstate'[w] = "acking"
      /\ queue[w] # <<>> /\ Head(queue[w]) = PCSig /\ queue'[w] = Tail(queue[w])
      /\ \A v \in Worker : v # w => wstate'[v] = wstate[v] /\ queue'[v] = queue[v]
  BY DEF TakePCSig, TypeOK
<1>3. HasPCSig(queue[w]) /\ ~HasPCSig(queue'[w]) /\ OnePCSig(queue'[w])
  <2>1. queue[w] \in Seq(Message) /\ OnePCSig(queue[w])
    BY DEF TypeOK, SInv, ShutdownProgress
  <2> QED BY <1>2, <2>1, TakeHead
<1>4. \A v \in Worker :
         /\ WorkerHolds(v)' <=> WorkerHolds(v)
         /\ Told(v)' <=> Told(v)
         /\ v # w => (PCSigQueued(v)' <=> PCSigQueued(v))
  BY <1>2, <1>3 DEF PCSigQueued, WorkerHolds, Told
<1>5. ~PCSigQueued(w)'
  BY <1>3 DEF PCSigQueued
<1>6. OneToken'
  BY <1>1, <1>4 DEF SInv, OneToken, FrameHolds
<1>7. \A v \in Worker : OnePCSig(queue'[v])
  BY <1>2, <1>3 DEF SInv, ShutdownProgress
<1>8. ShutdownProgress'
  BY <1>1, <1>2, <1>4, <1>5, <1>7 DEF SInv, ShutdownProgress
<1> QED BY <1>6, <1>8 DEF SInv

-----------------------------------------------------------------------------
LEMMA SInvStep == TypeOK /\ SInv /\ [Next]_vars => SInv'
<1> SUFFICES ASSUME TypeOK, SInv, [Next]_vars PROVE SInv'
  OBVIOUS
<1> USE DEF masterVars, syncVars, workerVars, shutdownVars
<1>1. CASE SpawnWorker
  BY <1>1, SInvSpawn
<1>2. CASE StartLoop
  BY <1>2, SInvStartLoop
<1>3. ASSUME NEW c \in Conn, NEW f \in Fd, AcceptNew(c, f) \/ AcceptExisting(c, f)
      PROVE  SInv'
  BY <1>3, SInvQuiet DEF AcceptNew, AcceptExisting
<1>4. ASSUME NEW f \in Fd, ReadRequest(f) \/ ReadEof(f) PROVE SInv'
  BY <1>4, SInvQuiet DEF ReadRequest, ReadEof, Dispatching
<1>5. ASSUME NEW t \in TimerId, Expire(t) PROVE SInv'
  BY <1>5, SInvQuiet DEF Expire, Dispatching
<1>6. CASE PutRequest
  BY <1>6, SInvPutRequest
<1>7. CASE CloseAgain \/ LoopExit \/ Destroy
  BY <1>7, SInvQuiet DEF CloseAgain, LoopExit, Destroy
<1>8. CASE SignalAcquire
  BY <1>8, SInvSignalAcquire
<1>9. CASE SignalPut
  BY <1>9, SInvSignalPut
<1>10. CASE SignalFinish
  BY <1>10, SInvSignalFinish
<1>11. ASSUME NEW s \in SigNum, Signal(s) PROVE SInv'
  BY <1>11, SInvSignal
<1>12. ASSUME NEW w \in Worker, WorkerStep(w) PROVE SInv'
  <2>1. CASE WorkerStart(w)
    BY <2>1, SInvRelease DEF WorkerStart
  <2>2. CASE TakeRequest(w) \/ Respond(w)
    BY <2>2, SInvRequest
  <2>3. ASSUME NEW f \in Fd, OpenFile(w, f) PROVE SInv'
    BY <2>3, SInvQuiet DEF OpenFile
  <2>4. CASE CloseFile(w)
    BY <2>4, SInvQuiet DEF CloseFile
  <2>5. CASE TakePCSig(w)
    BY <2>5, SInvTakePCSig
  <2>6. CASE Acknowledge(w)
    BY <2>6, SInvRelease DEF Acknowledge
  <2> QED BY <1>12, <2>1, <2>2, <2>3, <2>4, <2>5, <2>6 DEF WorkerStep
<1>13. ASSUME NEW c \in Conn, SendRequest(c) \/ Hangup(c) PROVE SInv'
  BY <1>13, SInvQuiet DEF SendRequest, Hangup
<1>14. CASE UNCHANGED vars
  BY <1>14, SInvQuiet DEF vars
<1> QED
  BY <1>1, <1>2, <1>3, <1>4, <1>5, <1>6, <1>7, <1>8, <1>9, <1>10, <1>11, <1>12,
     <1>13, <1>14
  DEF Next, Reactor, IdleTick, Terminated

(* The semaphore paces start-up and shutdown: at most one worker, or one   *)
(* handler, has the right to go on, whatever the number of workers and     *)
(* however often SIGINT and SIGTERM interrupt each other.                  *)
THEOREM TokenUnique == Spec => []OneToken
<1>1. Init => TypeOK /\ SInv
  BY TypeInit, SInvInit
<1>2. TypeOK /\ SInv /\ [Next]_vars => (TypeOK /\ SInv)'
  BY TypeStep, SInvStep
<1>3. SInv => OneToken
  BY DEF SInv
<1> QED BY <1>1, <1>2, <1>3, PTL DEF Spec

(* How far a shutdown got is what its handlers and the queues say.         *)
THEOREM ShutdownInOrder == Spec => []ShutdownProgress
<1>1. Init => TypeOK /\ SInv
  BY TypeInit, SInvInit
<1>2. TypeOK /\ SInv /\ [Next]_vars => (TypeOK /\ SInv)'
  BY TypeStep, SInvStep
<1>3. SInv => ShutdownProgress
  BY DEF SInv
<1> QED BY <1>1, <1>2, <1>3, PTL DEF Spec

(* Once the connections are deleted and the loop is told to stop, all      *)
(* workers but at most one have finished their queues and stopped: a       *)
(* worker that has not stopped but was told to holds the one right.        *)
THEOREM DrainedBeforeStop == Spec => []AtMostOneRuns
<1>1. Init => TypeOK /\ SInv
  BY TypeInit, SInvInit
<1>2. TypeOK /\ SInv /\ [Next]_vars => (TypeOK /\ SInv)'
  BY TypeStep, SInvStep
<1>3. SInv => AtMostOneRuns
  <2> SUFFICES ASSUME SInv, stopMe, NEW v \in Worker, NEW w \in Worker, v # w,
                      wstate[v] # "stopped", wstate[w] # "stopped"
               PROVE  FALSE
    BY DEF AtMostOneRuns
  <2>1. Told(v) /\ Told(w)
    BY DEF SInv, ShutdownProgress
  <2>2. WorkerHolds(v) /\ WorkerHolds(w)
    BY <2>1 DEF Told, WorkerHolds
  <2> QED BY <2>2 DEF SInv, OneToken
<1> QED BY <1>1, <1>2, <1>3, PTL DEF Spec

-----------------------------------------------------------------------------
(* The connections: the pool, the timers and the descriptors, for any      *)
(* number of each.                                                         *)

(* What is registered is pooled from the start to the end of the shutdown, *)
(* not only while the reactor dispatches.                                  *)
RegPooled == ~stopMe => \A f \in reg : pool[f] # NoEntry

(* The connection that handle_timeout closes is not pooled any more, and   *)
(* as long as no worker opens a descriptor no worker has one to close.     *)
CloseSafe ==
    /\ master = "close" => closing # NoFd
    /\ closing # NoFd => master = "close" /\ pool[closing] = NoEntry
    /\ files = 0 => \A w \in Worker : file[w] = NoFd

CInv == TimersMatchPool /\ RegPooled /\ CloseSafe /\ PoolOwnsFd

LEMMA CInvInit == Init => CInv
BY NoneAssumption DEF Init, CInv, TimersMatchPool, RegPooled, CloseSafe, PoolOwnsFd

(* Steps of signals, workers and clients that leave the connections alone. *)
LEMMA CInvQuiet ==
    ASSUME CInv, UNCHANGED <<fdVars, fileVars, stopMe, master, closing>>
    PROVE  CInv'
BY DEF CInv, TimersMatchPool, RegPooled, CloseSafe, PoolOwnsFd, fdVars, fileVars

(* The same, when the reactor thread goes on but closes nothing.           *)
LEMMA CInvMaster ==
    ASSUME CInv, UNCHANGED <<fdVars, fileVars, stopMe, closing>>,
           master # "close", master' # "close"
    PROVE  CInv'
BY DEF CInv, TimersMatchPool, RegPooled, CloseSafe, PoolOwnsFd, fdVars, fileVars

LEMMA CInvAcceptNew ==
    ASSUME TypeOK, CInv, NEW c \in Conn, NEW f \in Fd, AcceptNew(c, f)
    PROVE  CInv'
<1>1. PICK t \in TimerId : /\ timers[t] = NoFd
                           /\ timers' = [timers EXCEPT ![t] = f]
                           /\ pool' = [pool EXCEPT ![f] = [conn |-> c, timer |-> t]]
  BY DEF AcceptNew, FreeTimers
<1>2. [conn |-> c, timer |-> t] # NoEntry /\ f # NoFd
  BY NoneAssumption DEF Entry
<1>3. /\ pool[f] = NoEntry /\ fdt' = [fdt EXCEPT ![f] = c] /\ reg' = reg \cup {f}
      /\ pool \in [Fd -> Entry \cup {NoEntry}] /\ timers \in [TimerId -> Fd \cup {NoFd}]
      /\ fdt \in [Fd -> Conn \cup {Closed, File}] /\ reg \subseteq Fd
      /\ stopMe' = stopMe /\ files' = files /\ file' = file
      /\ master' = master /\ closing' = closing /\ master = "loop"
  BY DEF AcceptNew, Dispatching, TypeOK, masterVars, syncVars, fileVars
<1>4. TimersMatchPool'
  <2>1. ASSUME NEW g \in Fd, pool'[g] # NoEntry PROVE timers'[pool'[g].timer] = g
    <3>1. CASE g = f
      BY <1>1, <1>3, <3>1
    <3>2. CASE g # f
      <4>1. pool'[g] = pool[g] /\ timers[pool[g].timer] = g /\ pool[g].timer \in TimerId
        BY <1>1, <1>3, <2>1, <3>2 DEF CInv, TimersMatchPool, Entry
      <4>2. pool[g].timer # t
        BY <1>1, <4>1, NoneAssumption
      <4> QED BY <1>1, <1>3, <4>1, <4>2
    <3> QED BY <3>1, <3>2
  <2>2. ASSUME NEW u \in TimerId, timers'[u] # NoFd
        PROVE  pool'[timers'[u]] # NoEntry /\ pool'[timers'[u]].timer = u
    <3>1. CASE u = t
      BY <1>1, <1>2, <1>3, <3>1
    <3>2. CASE u # t
      <4>1. timers'[u] = timers[u] /\ timers[u] \in Fd /\ pool[timers[u]] # NoEntry
            /\ pool[timers[u]].timer = u
        BY <1>1, <1>3, <2>2, <3>2 DEF CInv, TimersMatchPool
      <4> QED BY <1>1, <1>3, <4>1
    <3> QED BY <3>1, <3>2
  <2> QED BY <2>1, <2>2 DEF TimersMatchPool
<1>5. RegPooled'
  BY <1>1, <1>2, <1>3 DEF CInv, RegPooled
<1>6. CloseSafe'
  BY <1>3 DEF CInv, CloseSafe
<1>7. PoolOwnsFd'
  BY <1>1, <1>3 DEF CInv, PoolOwnsFd
<1> QED BY <1>4, <1>5, <1>6, <1>7 DEF CInv

(* A connection that is pooled has its own descriptor open: accept cannot  *)
(* return the number again (unless workers open descriptors).              *)
LEMMA CInvAcceptExisting ==
    ASSUME TypeOK, CInv, NEW c \in Conn, NEW f \in Fd, AcceptExisting(c, f)
    PROVE  CInv'
<1>1. /\ fdt[f] = Closed /\ pool[f] # NoEntry /\ pool \in [Fd -> Entry \cup {NoEntry}]
      /\ UNCHANGED <<pool, reg, timers, stopMe, files, file, master, closing>>
  BY DEF AcceptExisting, TypeOK, masterVars, syncVars, fileVars
<1>2. files # 0
  BY <1>1, ConnAssumption DEF CInv, PoolOwnsFd, Entry
<1> QED BY <1>1, <1>2 DEF CInv, TimersMatchPool, RegPooled, CloseSafe, PoolOwnsFd

LEMMA CInvReadEof ==
    ASSUME TypeOK, CInv, NEW f \in Fd, ReadEof(f)
    PROVE  CInv'
<1>1. /\ pool[f] # NoEntry /\ reg' = reg \ {f}
      /\ pool \in [Fd -> Entry \cup {NoEntry}] /\ timers \in [TimerId -> Fd \cup {NoFd}]
      /\ pool[f] \in Entry /\ pool[f].timer \in TimerId
      /\ UNCHANGED <<fdt, stopMe, files, file, master, closing>>
  BY DEF ReadEof, Unregister, TypeOK, Entry, masterVars, syncVars, fileVars
<1>2. CASE UNCHANGED <<timers, pool>>
  BY <1>1, <1>2 DEF CInv, TimersMatchPool, RegPooled, CloseSafe, PoolOwnsFd
<1>3. ASSUME NEW t \in FreeTimers \cup {pool[f].timer},
             timers' = Reschedule(pool[f].timer, t, f),
             pool' = [pool EXCEPT ![f].timer = t]
      PROVE  CInv'
  <2>1. /\ t \in TimerId /\ timers[t] \in {NoFd, f}
        /\ timers[pool[f].timer] = f
    BY <1>1, <1>3 DEF FreeTimers, CInv, TimersMatchPool
  <2>2. pool' = [pool EXCEPT ![f] = [conn |-> pool[f].conn, timer |-> t]]
    <3>1. [pool[f] EXCEPT !.timer = t] = [conn |-> pool[f].conn, timer |-> t]
      BY <1>1 DEF Entry
    <3> QED BY <1>3, <3>1
  <2>3. [conn |-> pool[f].conn, timer |-> t] # NoEntry /\ f # NoFd
    BY <1>1, <2>1, NoneAssumption DEF Entry
  <2>4. /\ timers'[t] = f
        /\ \A u \in TimerId : u # t =>
              timers'[u] = IF u = pool[f].timer THEN NoFd ELSE timers[u]
    BY <1>1, <1>3, <2>1 DEF Reschedule
  <2>5. /\ pool'[f].timer = t /\ pool'[f].conn = pool[f].conn /\ pool'[f] # NoEntry
        /\ \A g \in Fd : g # f => pool'[g] = pool[g]
    BY <1>1, <2>2, <2>3
  <2>6. TimersMatchPool'
    <3>1. ASSUME NEW g \in Fd, pool'[g] # NoEntry PROVE timers'[pool'[g].timer] = g
      <4>1. CASE g = f
        BY <2>4, <2>5, <4>1
      <4>2. CASE g # f
        <5>1. pool'[g] = pool[g] /\ pool[g].timer \in TimerId /\ timers[pool[g].timer] = g
          BY <1>1, <2>5, <3>1, <4>2 DEF CInv, TimersMatchPool, Entry
        <5>2. pool[g].timer # t /\ pool[g].timer # pool[f].timer
          BY <2>1, <5>1, <4>2, NoneAssumption
        <5> QED BY <2>4, <5>1, <5>2
      <4> QED BY <4>1, <4>2
    <3>2. ASSUME NEW u \in TimerId, timers'[u] # NoFd
          PROVE  pool'[timers'[u]] # NoEntry /\ pool'[timers'[u]].timer = u
      <4>1. CASE u = t
        BY <2>4, <2>5, <4>1
      <4>2. CASE u # t
        <5>1. u # pool[f].timer /\ timers'[u] = timers[u]
          BY <2>4, <3>2, <4>2
        <5>2. timers[u] \in Fd /\ pool[timers[u]] # NoEntry /\ pool[timers[u]].timer = u
          BY <1>1, <3>2, <5>1 DEF CInv, TimersMatchPool
        <5>3. timers[u] # f
          BY <5>1, <5>2
        <5> QED BY <2>5, <5>1, <5>2, <5>3
      <4> QED BY <4>1, <4>2
    <3> QED BY <3>1, <3>2 DEF TimersMatchPool
  <2>7. RegPooled' /\ CloseSafe' /\ PoolOwnsFd'
    BY <1>1, <2>5 DEF CInv, RegPooled, CloseSafe, PoolOwnsFd, TypeOK
  <2> QED BY <2>6, <2>7 DEF CInv
<1> QED BY <1>2, <1>3 DEF ReadEof

LEMMA CInvExpire ==
    ASSUME TypeOK, CInv, NEW t \in TimerId, Expire(t)
    PROVE  CInv'
<1> DEFINE f == timers[t]
<1>1. /\ f \in Fd /\ pool[f] # NoEntry /\ pool[f].timer = t
      /\ pool \in [Fd -> Entry \cup {NoEntry}] /\ timers \in [TimerId -> Fd \cup {NoFd}]
      /\ fdt \in [Fd -> Conn \cup {Closed, File}] /\ reg \subseteq Fd
  BY DEF Expire, TypeOK, CInv, TimersMatchPool
<1>2. /\ timers' = [timers EXCEPT ![t] = NoFd] /\ pool' = [pool EXCEPT ![f] = NoEntry]
      /\ reg' = reg \ {f} /\ fdt' = [fdt EXCEPT ![f] = Closed]
      /\ closing' = f /\ master' = "close"
      /\ UNCHANGED <<stopMe, files, file>>
  BY <1>1 DEF Expire, Erase, Unregister, syncVars, fileVars
<1> HIDE DEF f
<1>3. TimersMatchPool'
  <2>1. ASSUME NEW g \in Fd, pool'[g] # NoEntry PROVE timers'[pool'[g].timer] = g
    <3>1. g # f /\ pool'[g] = pool[g] /\ pool[g].timer \in TimerId
          /\ timers[pool[g].timer] = g
      BY <1>1, <1>2, <2>1 DEF CInv, TimersMatchPool, Entry
    <3>2. pool[g].timer # t
      BY <3>1 DEF f
    <3> QED BY <1>1, <1>2, <3>1, <3>2
  <2>2. ASSUME NEW u \in TimerId, timers'[u] # NoFd
        PROVE  pool'[timers'[u]] # NoEntry /\ pool'[timers'[u]].timer = u
    <3>1. u # t /\ timers'[u] = timers[u] /\ timers[u] \in Fd
          /\ pool[timers[u]] # NoEntry /\ pool[timers[u]].timer = u
      BY <1>1, <1>2, <2>2 DEF CInv, TimersMatchPool
    <3>2. timers[u] # f
      BY <1>1, <3>1
    <3> QED BY <1>1, <1>2, <3>1, <3>2
  <2> QED BY <2>1, <2>2 DEF TimersMatchPool
<1>4. RegPooled'
  BY <1>1, <1>2 DEF CInv, RegPooled
<1>5. CloseSafe'
  BY <1>1, <1>2, NoneAssumption DEF CInv, CloseSafe
<1>6. PoolOwnsFd'
  BY <1>1, <1>2 DEF CInv, PoolOwnsFd
<1> QED BY <1>3, <1>4, <1>5, <1>6 DEF CInv

(* The second close hits a number that is not pooled.                      *)
LEMMA CInvCloseAgain == TypeOK /\ CInv /\ CloseAgain => CInv'
BY NoneAssumption DEF TypeOK, CInv, CloseAgain, TimersMatchPool, RegPooled, CloseSafe,
   PoolOwnsFd, syncVars, fileVars

LEMMA CInvSignalFinish == TypeOK /\ CInv /\ SignalFinish => CInv'
<1> SUFFICES ASSUME TypeOK, CInv, SignalFinish PROVE CInv'
  OBVIOUS
<1>1. /\ pool' = [g \in Fd |-> NoEntry] /\ stopMe'
      /\ timers' = [t \in TimerId |->
                      IF \E g \in {h \in Fd : pool[h] # NoEntry} : pool[g].timer = t
                      THEN NoFd ELSE timers[t]]
      /\ UNCHANGED <<master, closing, file, files>>
      /\ timers \in [TimerId -> Fd \cup {NoFd}] /\ closing \in Fd \cup {NoFd}
  BY DEF SignalFinish, TypeOK, fileVars
<1>2. \A t \in TimerId : timers'[t] = NoFd
  BY <1>1 DEF CInv, TimersMatchPool
<1> QED BY <1>1, <1>2 DEF CInv, TimersMatchPool, RegPooled, CloseSafe, PoolOwnsFd

LEMMA CInvFiles ==
    ASSUME TypeOK, CInv, NEW w \in Worker,
           CloseFile(w) \/ \E f \in Fd : OpenFile(w, f)
    PROVE  CInv'
<1>1. UNCHANGED <<master, closing, stopMe, pool, reg, timers>>
  BY DEF CloseFile, OpenFile, masterVars, syncVars
<1>2. files' # 0
  BY BoundsAssumption DEF CInv, CloseSafe, CloseFile, OpenFile, TypeOK
<1> QED BY <1>1, <1>2 DEF CInv, TimersMatchPool, RegPooled, CloseSafe, PoolOwnsFd

LEMMA CInvStep == TypeOK /\ CInv /\ [Next]_vars => CInv'
<1> SUFFICES ASSUME TypeOK, CInv, [Next]_vars PROVE CInv'
  OBVIOUS
<1>1. CASE SpawnWorker \/ SignalAcquire \/ SignalPut \/ \E s \in SigNum : Signal(s)
  BY <1>1, CInvQuiet DEF SpawnWorker, SignalAcquire, SignalPut, Signal, syncVars
<1>2. CASE StartLoop \/ PutRequest \/ LoopExit \/ Destroy \/ \E f \in Fd : ReadRequest(f)
  BY <1>2, CInvMaster DEF StartLoop, PutRequest, LoopExit, Destroy, ReadRequest,
     Dispatching, syncVars
<1>3. ASSUME NEW c \in Conn, NEW f \in Fd, AcceptNew(c, f) \/ AcceptExisting(c, f)
      PROVE  CInv'
  BY <1>3, CInvAcceptNew, CInvAcceptExisting
<1>4. CASE (\E f \in Fd : ReadEof(f)) \/ (\E t \in TimerId : Expire(t))
           \/ CloseAgain \/ SignalFinish
  BY <1>4, CInvReadEof, CInvExpire, CInvCloseAgain, CInvSignalFinish
<1>5. ASSUME NEW w \in Worker, WorkerStep(w) PROVE CInv'
  <2>1. CASE WorkerStart(w) \/ TakeRequest(w) \/ Respond(w) \/ TakePCSig(w) \/ Acknowledge(w)
    BY <2>1, CInvQuiet DEF WorkerStart, TakeRequest, Respond, TakePCSig, Acknowledge,
       masterVars, syncVars
  <2>2. CASE CloseFile(w) \/ \E f \in Fd : OpenFile(w, f)
    BY <2>2, CInvFiles
  <2> QED BY <1>5, <2>1, <2>2 DEF WorkerStep
<1>6. CASE (\E c \in Conn : SendRequest(c) \/ Hangup(c)) \/ IdleTick \/ Terminated
           \/ UNCHANGED vars
  BY <1>6, CInvQuiet DEF SendRequest, Hangup, IdleTick, Terminated, vars, masterVars, syncVars
<1> QED BY <1>1, <1>2, <1>3, <1>4, <1>5, <1>6 DEF Next, Reactor

LEMMA ConnectionsInv == Spec => []CInv
BY CInvInit, CInvStep, TypeCorrect, PTL DEF Spec

(* Every pooled connection has exactly the one cleanup timer it remembers, *)
(* and no timer is left for a connection that is gone.                     *)
THEOREM TimersAgree == Spec => []TimersMatchPool
BY ConnectionsInv, PTL DEF CInv

(* The reactor never dispatches to a connection that was deleted.          *)
THEOREM NoDanglingHandler == Spec => []HandlersAlive
<1>1. CInv => HandlersAlive
  BY DEF CInv, RegPooled, HandlersAlive
<1> QED BY <1>1, ConnectionsInv, PTL

(* As long as the workers open no descriptor, that of a pooled connection  *)
(* is its own, although handle_timeout closes connections twice.           *)
THEOREM DescriptorsOwned == Spec => []PoolOwnsFd
BY ConnectionsInv, PTL DEF CInv

-----------------------------------------------------------------------------
(* WebServer implements ServerLife, for any number of workers, requests    *)
(* and signals: each step of the threads is a step of the promise, or      *)
(* leaves what it speaks of alone.                                         *)

(* What a client sent: the requests as ServerLife sees them.               *)
Asked == Conn \X (1..MaxRequests)
AskedBy(m) == <<m.conn, m.n>>

-----------------------------------------------------------------------------
(* The part of a queue that is ahead of the MB_PCSIG.                      *)

LEMMA FunctionIsSeq ==
    ASSUME NEW S, NEW n \in Nat, NEW f \in [1..n -> S]
    PROVE  f \in Seq(S) /\ Len(f) = n
<1>1. f \in Seq(S)
  BY SeqDef
<1>2. Len(f) \in Nat /\ DOMAIN f = 1..Len(f) /\ DOMAIN f = 1..n
  BY <1>1, LenProperties
<1> QED BY <1>1, <1>2

LEMMA AskedInRequest == ASSUME NEW m \in Request PROVE AskedBy(m) \in Asked
BY DEF Request, AskedBy, Asked

(* n messages are ahead when the next one is the MB_PCSIG, or there is none. *)
Ahead(q, n) ==
    /\ n \in 0..Len(q)
    /\ \A j \in 1..n : q[j] # PCSig
    /\ n = Len(q) \/ q[n + 1] = PCSig

LEMMA AheadIs ==
    ASSUME NEW q \in Seq(Message), NEW n, Ahead(q, n)
    PROVE  /\ AheadOfPCSig(q) \in Seq(Asked)
           /\ Len(AheadOfPCSig(q)) = n
           /\ \A j \in 1..n : AheadOfPCSig(q)[j] = AskedBy(q[j])
<1>1. n \in Nat /\ Len(q) \in Nat /\ n <= Len(q)
  BY DEF Ahead
<1>2. {i \in 1..Len(q) : \A j \in 1..i : q[j] # PCSig} = 1..n
  <2>1. ASSUME NEW i \in 1..Len(q), \A j \in 1..i : q[j] # PCSig PROVE i \in 1..n
    <3>1. n + 1 \in 1..i => q[n + 1] # PCSig
      BY <2>1
    <3> QED BY <3>1, <1>1 DEF Ahead
  <2>2. ASSUME NEW i \in 1..n
        PROVE  i \in 1..Len(q) /\ \A j \in 1..i : q[j] # PCSig
    BY <1>1 DEF Ahead
  <2> QED BY <2>1, <2>2
<1>3. AheadOfPCSig(q) = [i \in 1..n |-> <<q[i].conn, q[i].n>>]
  BY <1>2 DEF AheadOfPCSig
<1>4. \A i \in 1..n : <<q[i].conn, q[i].n>> \in Asked
  <2> TAKE i \in 1..n
  <2>1. i \in 1..Len(q) /\ q[i] # PCSig
    BY <1>1 DEF Ahead
  <2>2. q[i] \in Request
    BY <2>1, ElementOfSeq DEF Message
  <2> QED BY <2>2, AskedInRequest DEF AskedBy
<1>5. AheadOfPCSig(q) \in [1..n -> Asked]
  BY <1>3, <1>4
<1> QED BY <1>1, <1>3, <1>5, FunctionIsSeq DEF AskedBy

LEMMA AheadExists ==
    ASSUME NEW q \in Seq(Message), OnePCSig(q)
    PROVE  \E n : /\ Ahead(q, n)
                  /\ HasPCSig(q) => n < Len(q)
                  /\ ~HasPCSig(q) => n = Len(q)
<1>1. Len(q) \in Nat
  OBVIOUS
<1>2. CASE HasPCSig(q)
  <2>1. PICK i \in 1..Len(q) : q[i] = PCSig
    BY <1>2 DEF HasPCSig
  <2>2. \A j \in 1..(i - 1) : q[j] # PCSig
    BY <1>1, <2>1 DEF OnePCSig
  <2>3. (i - 1) + 1 = i /\ i - 1 \in 0..Len(q) /\ i - 1 < Len(q)
    BY <1>1
  <2>4. Ahead(q, i - 1)
    BY <2>1, <2>2, <2>3 DEF Ahead
  <2> QED BY <1>2, <2>3, <2>4
<1>3. CASE ~HasPCSig(q)
  <2>1. Ahead(q, Len(q))
    BY <1>1, <1>3 DEF Ahead, HasPCSig
  <2> QED BY <1>3, <2>1
<1> QED BY <1>2, <1>3

LEMMA AheadIsSeq ==
    ASSUME NEW q \in Seq(Message), OnePCSig(q) PROVE AheadOfPCSig(q) \in Seq(Asked)
BY AheadExists, AheadIs

(* putq of a request on a queue that nobody told to stop.                  *)
LEMMA AheadAppendRequest ==
    ASSUME NEW q \in Seq(Message), OnePCSig(q), ~HasPCSig(q), NEW m \in Request
    PROVE  AheadOfPCSig(Append(q, m)) = Append(AheadOfPCSig(q), AskedBy(m))
<1> DEFINE p == Append(q, m)
           n == Len(q)
<1>1. m \in Message /\ m # PCSig /\ n \in Nat
  BY SigNotRequest DEF Message
<1>2. /\ p \in Seq(Message) /\ Len(p) = n + 1 /\ p[n + 1] = m
      /\ \A i \in 1..n : p[i] = q[i]
  BY <1>1, AppendProperties
<1>3. Ahead(q, n)
  BY <1>1 DEF Ahead, HasPCSig
<1>4. Ahead(p, n + 1)
  <2>1. \A j \in 1..(n + 1) : p[j] # PCSig
    BY <1>1, <1>2, <1>3 DEF Ahead
  <2> QED BY <1>1, <1>2, <2>1 DEF Ahead
<1> HIDE DEF p
<1>5. /\ AheadOfPCSig(q) \in Seq(Asked) /\ Len(AheadOfPCSig(q)) = n
      /\ \A j \in 1..n : AheadOfPCSig(q)[j] = AskedBy(q[j])
  BY <1>3, AheadIs
<1>6. /\ AheadOfPCSig(p) \in Seq(Asked) /\ Len(AheadOfPCSig(p)) = n + 1
      /\ \A j \in 1..(n + 1) : AheadOfPCSig(p)[j] = AskedBy(p[j])
  BY <1>2, <1>4, AheadIs
<1> DEFINE s == Append(AheadOfPCSig(q), AskedBy(m))
<1>7. /\ s \in Seq(Asked) /\ Len(s) = n + 1 /\ s[n + 1] = AskedBy(m)
      /\ \A j \in 1..n : s[j] = AskedBy(q[j])
  BY <1>5, AskedInRequest, AppendProperties
<1>8. \A j \in 1..(n + 1) : AheadOfPCSig(p)[j] = s[j]
  BY <1>1, <1>2, <1>6, <1>7
<1> HIDE DEF s
<1>9. AheadOfPCSig(p) = s
  BY <1>6, <1>7, <1>8, SeqEqual
<1> QED BY <1>9 DEF p, s

(* What is put behind the MB_PCSIG, or is the MB_PCSIG, changes nothing.   *)
LEMMA AheadAppendLate ==
    ASSUME NEW q \in Seq(Message), OnePCSig(q), NEW m \in Message,
           HasPCSig(q) \/ m = PCSig
    PROVE  AheadOfPCSig(Append(q, m)) = AheadOfPCSig(q)
<1> DEFINE p == Append(q, m)
<1>1. /\ p \in Seq(Message) /\ Len(p) = Len(q) + 1 /\ p[Len(q) + 1] = m
      /\ \A i \in 1..Len(q) : p[i] = q[i]
  BY AppendProperties
<1> HIDE DEF p
<1>2. PICK n : /\ Ahead(q, n)
               /\ HasPCSig(q) => n < Len(q)
               /\ ~HasPCSig(q) => n = Len(q)
  BY AheadExists
<1>3. Len(q) \in Nat /\ n \in Nat /\ n <= Len(q)
  BY <1>2 DEF Ahead
<1>4. Ahead(p, n)
  <2>1. p[n + 1] = PCSig
    BY <1>1, <1>2, <1>3 DEF Ahead
  <2>2. \A j \in 1..n : p[j] # PCSig
    BY <1>1, <1>2, <1>3 DEF Ahead
  <2> QED BY <1>1, <1>3, <2>1, <2>2 DEF Ahead
<1>5. /\ AheadOfPCSig(q) \in Seq(Asked) /\ Len(AheadOfPCSig(q)) = n
      /\ \A j \in 1..n : AheadOfPCSig(q)[j] = AskedBy(q[j])
  BY <1>2, AheadIs
<1>6. /\ AheadOfPCSig(p) \in Seq(Asked) /\ Len(AheadOfPCSig(p)) = n
      /\ \A j \in 1..n : AheadOfPCSig(p)[j] = AskedBy(p[j])
  BY <1>1, <1>4, AheadIs
<1>7. \A j \in 1..n : AheadOfPCSig(p)[j] = AheadOfPCSig(q)[j]
  BY <1>1, <1>3, <1>5, <1>6, SMTT(30)
<1>8. AheadOfPCSig(p) = AheadOfPCSig(q)
  BY <1>5, <1>6, <1>7, SeqEqual
<1> QED BY <1>8 DEF p

(* getq of a request.                                                      *)
LEMMA AheadTail ==
    ASSUME NEW q \in Seq(Message), q # <<>>, OnePCSig(q), Head(q) # PCSig
    PROVE  /\ Head(q) \in Request
           /\ AheadOfPCSig(Tail(q)) \in Seq(Asked)
           /\ AheadOfPCSig(q) = <<AskedBy(Head(q))>> \o AheadOfPCSig(Tail(q))
<1> DEFINE t == Tail(q)
           a == <<AskedBy(Head(q))>>
<1>1. /\ Head(q) \in Request /\ t \in Seq(Message) /\ Len(t) = Len(q) - 1
      /\ OnePCSig(t) /\ \A i \in 1..Len(t) : t[i] = q[i + 1]
  BY HeadTailProperties, TakeHead DEF Message
<1>2. Len(q) \in Nat \ {0} /\ Head(q) = q[1]
  BY EmptySeq
<1> HIDE DEF t
<1>3. PICK n : Ahead(t, n)
  BY <1>1, AheadExists
<1>4. n \in Nat /\ n <= Len(t) /\ Len(t) \in Nat
  BY <1>1, <1>3 DEF Ahead
<1>5. Ahead(q, n + 1)
  <2>1. \A j \in 1..(n + 1) : q[j] # PCSig
    <3> TAKE j \in 1..(n + 1)
    <3>1. CASE j = 1
      BY <3>1, <1>2
    <3>2. CASE j # 1
      <4>1. j - 1 \in 1..n /\ j - 1 \in 1..Len(t) /\ (j - 1) + 1 = j
        BY <1>4, <3>2
      <4> QED BY <1>1, <1>3, <4>1 DEF Ahead
    <3> QED BY <3>1, <3>2
  <2>2. n + 1 = Len(q) \/ q[(n + 1) + 1] = PCSig
    <3>1. CASE n = Len(t)
      BY <3>1, <1>1, <1>2
    <3>2. CASE n # Len(t)
      <4>1. n + 1 \in 1..Len(t) /\ t[n + 1] = PCSig
        BY <3>2, <1>3, <1>4 DEF Ahead
      <4> QED BY <1>1, <4>1
    <3> QED BY <3>1, <3>2
  <2> QED BY <1>1, <1>2, <1>4, <2>1, <2>2 DEF Ahead
<1>6. /\ AheadOfPCSig(t) \in Seq(Asked) /\ Len(AheadOfPCSig(t)) = n
      /\ \A j \in 1..n : AheadOfPCSig(t)[j] = AskedBy(t[j])
  BY <1>1, <1>3, AheadIs
<1>7. /\ AheadOfPCSig(q) \in Seq(Asked) /\ Len(AheadOfPCSig(q)) = n + 1
      /\ \A j \in 1..(n + 1) : AheadOfPCSig(q)[j] = AskedBy(q[j])
  BY <1>5, AheadIs
<1>8. a \in Seq(Asked) /\ Len(a) = 1 /\ a[1] = AskedBy(q[1])
  BY <1>1, <1>2, AskedInRequest
<1> HIDE DEF a
<1>9. /\ a \o AheadOfPCSig(t) \in Seq(Asked)
      /\ Len(a \o AheadOfPCSig(t)) = n + 1
      /\ \A j \in 1..(n + 1) : (a \o AheadOfPCSig(t))[j] =
            IF j <= 1 THEN a[j] ELSE AheadOfPCSig(t)[j - 1]
  <2> DEFINE b == AheadOfPCSig(t)
  <2>1. b \in Seq(Asked) /\ Len(b) = n
    BY <1>6
  <2> HIDE DEF b
  <2>2. /\ a \o b \in Seq(Asked) /\ Len(a \o b) = Len(a) + Len(b)
        /\ \A j \in 1..(Len(a) + Len(b)) : (a \o b)[j] =
              IF j <= Len(a) THEN a[j] ELSE b[j - Len(a)]
    BY <1>8, <2>1, ConcatProperties
  <2>3. Len(a) + Len(b) = n + 1
    BY <1>4, <1>8, <2>1
  <2>4. /\ a \o b \in Seq(Asked) /\ Len(a \o b) = n + 1
        /\ \A j \in 1..(n + 1) : (a \o b)[j] = IF j <= 1 THEN a[j] ELSE b[j - 1]
    BY <1>8, <2>2, <2>3
  <2> QED BY <2>4 DEF b
<1>10. \A j \in 1..(n + 1) : AheadOfPCSig(q)[j] = (a \o AheadOfPCSig(t))[j]
  <2> TAKE j \in 1..(n + 1)
  <2>1. CASE j = 1
    BY <2>1, <1>4, <1>7, <1>8, <1>9, SMTT(30)
  <2>2. CASE j # 1
    <3>1. j - 1 \in 1..n /\ j - 1 \in 1..Len(t) /\ (j - 1) + 1 = j /\ j \in 1..(n + 1)
          /\ ~(j <= 1)
      BY <1>4, <2>2
    <3>2. (a \o AheadOfPCSig(t))[j] = AskedBy(t[j - 1])
      BY <1>6, <1>9, <3>1
    <3>3. t[j - 1] = q[j]
      BY <1>1, <3>1
    <3> QED BY <1>7, <3>2, <3>3
  <2> QED BY <2>1, <2>2
<1>11. AheadOfPCSig(q) = a \o AheadOfPCSig(t)
  <2> DEFINE b == AheadOfPCSig(q)
             c == a \o AheadOfPCSig(t)
  <2>1. /\ b \in Seq(Asked) /\ c \in Seq(Asked) /\ Len(b) = Len(c)
        /\ \A j \in 1..Len(b) : b[j] = c[j]
    BY <1>7, <1>9, <1>10
  <2> HIDE DEF b, c
  <2>2. b = c
    BY <2>1, SeqEqual
  <2> QED BY <2>2 DEF b, c
<1> QED BY <1>1, <1>6, <1>11 DEF t, a

(* getq of the MB_PCSIG.                                                   *)
LEMMA AheadOfHead ==
    ASSUME NEW q \in Seq(Message), q # <<>>, Head(q) = PCSig
    PROVE  AheadOfPCSig(q) = <<>>
<1>1. Len(q) \in Nat \ {0} /\ Head(q) = q[1]
  BY EmptySeq
<1>2. Ahead(q, 0)
  BY <1>1 DEF Ahead
<1>3. AheadOfPCSig(q) \in Seq(Asked) /\ Len(AheadOfPCSig(q)) = 0
  BY <1>2, AheadIs
<1> QED BY <1>3, EmptySeq

-----------------------------------------------------------------------------
(* What the mapping needs beyond OneToken and ShutdownProgress.  A worker  *)
(* is told to stop when all before it have stopped; so when the last one   *)
(* was told, the others have no work left.                                 *)
ToldInOrder ==
    \A v, w \in Worker : v < w /\ Told(w) => wstate[v] = "stopped"
(* Nobody is told to stop unless a signal came, and the loop ends only     *)
(* then.                                                                   *)
ToldBySignal ==
    /\ \A w \in Worker : Told(w) => stopMe \/ frames # <<>>
    /\ frames # <<>> => master \in {"loop", "put", "close"}
    /\ master \in {"exited", "gone"} => stopMe
(* A request is at one place: in the socket, in the putq, in a queue, or   *)
(* with the worker that is busy with it.                                   *)
PutIsNext ==
    /\ putting # NoMsg <=> master = "put"
    /\ putting # NoMsg =>
          putting.msg.n = sent[putting.msg.conn] - pending[putting.msg.conn]
BusyHasRequest ==
    /\ \A w \in Worker : wstate[w] = "busy" <=> cur[w] # NoMsg
    /\ master = "spawn" => \A w \in Worker : queue[w] = <<>> /\ cur[w] = NoMsg

LInv == ToldInOrder /\ ToldBySignal /\ PutIsNext /\ BusyHasRequest

LEMMA LInvInit == Init => LInv
<1> SUFFICES ASSUME Init PROVE LInv
  OBVIOUS
<1>1. \A w \in Worker : ~Told(w)
  BY EmptySeq DEF Init, Told, PCSigQueued, HasPCSig
<1>2. PutIsNext /\ BusyHasRequest
  BY DEF Init, PutIsNext, BusyHasRequest
<1> QED BY <1>1, <1>2 DEF Init, LInv, ToldInOrder, ToldBySignal

LEMMA ToldKept ==
    ASSUME ToldInOrder, ToldBySignal,
           \A w \in Worker : Told(w)' => Told(w),
           \A w \in Worker : wstate[w] = "stopped" => wstate'[w] = "stopped",
           stopMe => stopMe',
           frames' = frames \/ stopMe' \/ frames' # <<>>,
           frames' # <<>> => master' \in {"loop", "put", "close"},
           master' \in {"exited", "gone"} => stopMe'
    PROVE  ToldInOrder' /\ ToldBySignal'
BY DEF ToldInOrder, ToldBySignal

(* Told depends on the worker and its queue alone.                         *)
LEMMA ToldSame ==
    ASSUME NEW w \in Worker, wstate'[w] = wstate[w], queue'[w] = queue[w]
    PROVE  Told(w)' <=> Told(w)
BY DEF Told, PCSigQueued

(* Steps that leave the workers and the frames alone.                      *)
LEMMA ToldQuiet ==
    ASSUME ToldInOrder, ToldBySignal,
           UNCHANGED <<wstate, queue, frames, stopMe>>,
           frames' # <<>> => master' \in {"loop", "put", "close"},
           master' \in {"exited", "gone"} => stopMe'
    PROVE  ToldInOrder' /\ ToldBySignal'
<1>1. \A w \in Worker : Told(w)' <=> Told(w)
  BY ToldSame
<1> QED BY <1>1, ToldKept

(* putq of a request.                                                      *)
LEMMA ToldPutRequest ==
    ASSUME TypeOK, SInv, ToldInOrder, ToldBySignal, PutRequest
    PROVE  ToldInOrder' /\ ToldBySignal'
<1>1. /\ putting # NoMsg /\ putting.msg \in Request /\ putting.worker \in Worker
      /\ master = "put" /\ master' = "loop" /\ frames = <<>> /\ wstate' = wstate
      /\ frames' = frames /\ stopMe' = stopMe
  BY DEF PutRequest, TypeOK, syncVars
<1>2. ASSUME NEW w \in Worker PROVE HasPCSig(queue'[w]) <=> HasPCSig(queue[w])
  <2>1. queue'[w] = queue[w] \/ queue'[w] = Append(queue[w], putting.msg)
    BY <1>1 DEF PutRequest, Enqueue, TypeOK
  <2>2. queue[w] \in Seq(Message)
    BY DEF TypeOK
  <2> QED BY <1>1, <2>1, <2>2, AppendRequest
<1>3. \A w \in Worker : Told(w)' <=> Told(w)
  BY <1>1, <1>2 DEF Told, PCSigQueued
<1> QED BY <1>1, <1>3, ToldKept

(* handle_signal tells k to stop: all before k were told, and do not hold  *)
(* the token, which the frame has.                                         *)
LEMMA ToldSignalPut ==
    ASSUME TypeOK, SInv, ToldInOrder, ToldBySignal, SignalPut
    PROVE  ToldInOrder' /\ ToldBySignal'
<1> DEFINE n == Len(frames)
<1>1. frames \in Seq(Frame) /\ frames # <<>> /\ n \in 1..n /\ Top \in Frame
  BY ReplaceTop DEF TypeOK, SignalPut, Top
<1>2. Top.next \in Worker /\ Top.holding
  BY <1>1, AdvanceFrame DEF SignalPut
<1>3. PICK k \in Worker : k = Top.next
  BY <1>2
<1>4. UNCHANGED <<master, wstate, stopMe>> /\ FrameHolds(n) /\ frames[n].next = k
  BY <1>3 DEF SignalPut, syncVars, FrameHolds, Top
<1>5. \A w \in Worker : ~WorkerHolds(w)
  BY <1>1, <1>4 DEF SInv, OneToken
<1>6. \A v \in Worker : v < k => wstate[v] = "stopped"
  <2> TAKE v \in Worker
  <2> HAVE v < k
  <2>1. Told(v)
    BY <1>1, <1>4 DEF SInv, ShutdownProgress
  <2> QED BY <1>5, <2>1 DEF Told, WorkerHolds
<1>7. \A w \in Worker : w # k => (Told(w)' <=> Told(w))
  <2>1. \A w \in Worker : w # k => queue'[w] = queue[w]
    BY <1>3 DEF SignalPut, Enqueue, TypeOK
  <2> QED BY <1>4, <2>1, ToldSame
<1>8. ToldInOrder'
  BY <1>4, <1>6, <1>7 DEF ToldInOrder
<1>9. frames' # <<>>
  <2>1. [Top EXCEPT !.next = @ + 1, !.holding = FALSE] \in Frame
    BY <1>1, <1>2, AdvanceFrame
  <2>2. Len(frames') = n
    BY <1>1, <2>1, ReplaceTop DEF SignalPut, SetTop
  <2> QED BY <1>1, <2>2, EmptySeq
<1>10. ToldBySignal'
  BY <1>1, <1>4, <1>9 DEF ToldBySignal
<1> QED BY <1>8, <1>10

LEMMA ToldStep ==
    TypeOK /\ SInv /\ ToldInOrder /\ ToldBySignal /\ [Next]_vars
        => ToldInOrder' /\ ToldBySignal'
<1> SUFFICES ASSUME TypeOK, SInv, ToldInOrder, ToldBySignal, [Next]_vars
             PROVE  ToldInOrder' /\ ToldBySignal'
  OBVIOUS
<1> USE DEF masterVars, syncVars, workerVars
<1>1. CASE SpawnWorker
  <2>1. wstate[spawned + 1] = "none" /\ spawned + 1 \in Worker
    BY <1>1, NWorkersAssumption DEF SpawnWorker, SInv, ShutdownProgress, TypeOK, Worker
  <2>2. wstate' = [wstate EXCEPT ![spawned + 1] = "spawned"] /\ queue' = queue
        /\ UNCHANGED <<master, frames, stopMe>>
    BY <1>1 DEF SpawnWorker
  <2>3. \A w \in Worker : Told(w)' => Told(w)
    BY <2>1, <2>2 DEF Told, PCSigQueued, TypeOK
  <2>4. \A w \in Worker : wstate[w] = "stopped" => wstate'[w] = "stopped"
    BY <2>1, <2>2 DEF TypeOK
  <2> QED BY <2>2, <2>3, <2>4, ToldKept DEF ToldBySignal
<1>2. CASE StartLoop
  BY <1>2, ToldQuiet DEF StartLoop
<1>3. ASSUME NEW c \in Conn, NEW f \in Fd, AcceptNew(c, f) \/ AcceptExisting(c, f)
      PROVE  ToldInOrder' /\ ToldBySignal'
  BY <1>3, ToldQuiet DEF AcceptNew, AcceptExisting, ToldBySignal
<1>4. ASSUME NEW f \in Fd, ReadRequest(f) \/ ReadEof(f)
      PROVE  ToldInOrder' /\ ToldBySignal'
  BY <1>4, ToldQuiet DEF ReadRequest, ReadEof, Dispatching
<1>5. ASSUME NEW t \in TimerId, Expire(t) PROVE ToldInOrder' /\ ToldBySignal'
  BY <1>5, ToldQuiet DEF Expire, Dispatching
<1>6. CASE PutRequest
  BY <1>6, ToldPutRequest
<1>7. CASE CloseAgain \/ LoopExit
  BY <1>7, ToldQuiet DEF CloseAgain, LoopExit
<1>8. CASE Destroy
  BY <1>8, ToldQuiet DEF Destroy, ToldBySignal
<1>9. CASE SignalAcquire
  <2>1. frames # <<>> /\ UNCHANGED <<master, stopMe, wstate, queue>>
    BY <1>9 DEF SignalAcquire
  <2>2. frames' # <<>>
    <3>1. frames \in Seq(Frame) /\ Len(frames) \in 1..Len(frames) /\ Top \in Frame
      BY <2>1, ReplaceTop DEF TypeOK, Top
    <3>2. [Top EXCEPT !.holding = TRUE] \in Frame
      BY <1>9, <3>1, HoldFrame DEF SignalAcquire
    <3>3. Len(frames') = Len(frames)
      BY <1>9, <2>1, <3>1, <3>2, ReplaceTop DEF SignalAcquire, SetTop
    <3> QED BY <3>1, <3>3, EmptySeq
  <2>3. \A w \in Worker : Told(w)' <=> Told(w)
    BY <2>1, ToldSame
  <2> QED BY <2>1, <2>2, <2>3, ToldKept DEF ToldBySignal
<1>10. CASE SignalPut
  BY <1>10, ToldSignalPut
<1>11. CASE SignalFinish
  <2>1. frames # <<>> /\ stopMe' /\ UNCHANGED <<master, wstate, queue>>
    BY <1>11 DEF SignalFinish
  <2>2. \A w \in Worker : Told(w)' <=> Told(w)
    BY <2>1, ToldSame
  <2> QED BY <2>1, <2>2, ToldKept DEF ToldBySignal
<1>12. ASSUME NEW s \in SigNum, Signal(s) PROVE ToldInOrder' /\ ToldBySignal'
  <2>1. /\ master \in {"loop", "put", "close"} /\ UNCHANGED <<master, stopMe, wstate, queue>>
        /\ frames' = Append(frames, [sig |-> s, next |-> 1, holding |-> FALSE])
    BY <1>12 DEF Signal
  <2>2. frames' # <<>>
    <3>1. [sig |-> s, next |-> 1, holding |-> FALSE] \in Frame
      BY NWorkersAssumption DEF Frame, Worker
    <3>2. frames \in Seq(Frame)
      BY DEF TypeOK
    <3> QED BY <2>1, <3>1, <3>2, AppendProperties
  <2>3. \A w \in Worker : Told(w)' <=> Told(w)
    BY <2>1, ToldSame
  <2> QED BY <2>1, <2>2, <2>3, ToldKept
<1>13. ASSUME NEW w \in Worker, WorkerStep(w) PROVE ToldInOrder' /\ ToldBySignal'
  <2>1. CASE (\E f \in Fd : OpenFile(w, f)) \/ CloseFile(w)
    BY <2>1, ToldQuiet DEF OpenFile, CloseFile, ToldBySignal
  <2>2. CASE WorkerStart(w) \/ TakeRequest(w) \/ Respond(w) \/ TakePCSig(w) \/ Acknowledge(w)
    <3>1. UNCHANGED <<master, frames, stopMe>>
      BY <2>2 DEF WorkerStart, TakeRequest, Respond, TakePCSig, Acknowledge
    <3>2. \A v \in Worker : v # w => wstate'[v] = wstate[v] /\ queue'[v] = queue[v]
      BY <2>2 DEF WorkerStart, TakeRequest, Respond, TakePCSig, Acknowledge, TypeOK
    <3>3. wstate[w] # "stopped"
      BY <2>2 DEF WorkerStart, TakeRequest, Respond, TakePCSig, Acknowledge
    <3>4. Told(w)' => Told(w)
      <4>1. queue[w] \in Seq(Message) /\ OnePCSig(queue[w])
        BY DEF TypeOK, SInv, ShutdownProgress
      <4>2. CASE TakeRequest(w)
        <5>1. queue[w] # <<>> /\ Head(queue[w]) # PCSig /\ queue'[w] = Tail(queue[w])
              /\ wstate'[w] = "busy"
          BY <4>2 DEF TakeRequest, TypeOK
        <5> QED BY <4>1, <5>1, TakeHead DEF Told, PCSigQueued
      <4>3. CASE TakePCSig(w)
        <5>1. queue[w] # <<>> /\ Head(queue[w]) = PCSig
          BY <4>3 DEF TakePCSig
        <5> QED BY <4>1, <5>1, TakeHead DEF Told, PCSigQueued
      <4>4. CASE WorkerStart(w) \/ Respond(w) \/ Acknowledge(w)
        BY <4>4 DEF WorkerStart, Respond, Acknowledge, Told, PCSigQueued, TypeOK
      <4> QED BY <2>2, <4>2, <4>3, <4>4
    <3>5. \A v \in Worker : Told(v)' => Told(v)
      BY <3>2, <3>4, ToldSame
    <3>6. \A v \in Worker : wstate[v] = "stopped" => wstate'[v] = "stopped"
      BY <3>2, <3>3
    <3> QED BY <3>1, <3>5, <3>6, ToldKept DEF ToldBySignal
  <2> QED BY <1>13, <2>1, <2>2 DEF WorkerStep
<1>14. ASSUME NEW c \in Conn, SendRequest(c) \/ Hangup(c)
       PROVE  ToldInOrder' /\ ToldBySignal'
  BY <1>14, ToldQuiet DEF SendRequest, Hangup, ToldBySignal
<1>15. CASE UNCHANGED vars
  BY <1>15, ToldQuiet DEF vars, ToldBySignal
<1> QED
  BY <1>1, <1>2, <1>3, <1>4, <1>5, <1>6, <1>7, <1>8, <1>9, <1>10, <1>11, <1>12,
     <1>13, <1>14, <1>15
  DEF Next, Reactor, IdleTick, Terminated

LEMMA PutStep == TypeOK /\ PutIsNext /\ [Next]_vars => PutIsNext'
<1> SUFFICES ASSUME TypeOK, PutIsNext, [Next]_vars PROVE PutIsNext'
  OBVIOUS
<1> USE DEF masterVars, clientVars
<1>1. CASE SpawnWorker \/ StartLoop
  BY <1>1 DEF SpawnWorker, StartLoop, PutIsNext
<1>2. ASSUME NEW c \in Conn, NEW f \in Fd, AcceptNew(c, f) \/ AcceptExisting(c, f)
      PROVE  PutIsNext'
  BY <1>2 DEF AcceptNew, AcceptExisting, PutIsNext
<1>3. ASSUME NEW f \in Fd, ReadRequest(f) PROVE PutIsNext'
  <2> DEFINE c == fdt[f]
             m == [type |-> "MB_DATA", fd |-> f, conn |-> c,
                   n |-> sent[c] - pending[c] + 1]
  <2>1. /\ c \in Conn /\ pending[c] \in Nat /\ sent[c] \in Nat /\ sent' = sent
        /\ pending' = [pending EXCEPT ![c] = @ - 1]
        /\ putting' = [msg |-> m, worker |-> CurrentWorker] /\ master' = "put"
    BY <1>3, BoundsAssumption DEF ReadRequest, TypeOK
  <2>2. pending'[c] = pending[c] - 1
    BY <2>1 DEF TypeOK
  <2>3. putting'.msg.conn = c /\ putting'.msg.n = sent'[c] - pending'[c]
    BY <2>1, <2>2
  <2>4. putting' # NoMsg
    <3>1. CurrentWorker \in Worker
      BY NWorkersAssumption DEF CurrentWorker, TypeOK, Worker
    <3>2. m \in Request
      <4>1. sent[c] - pending[c] + 1 \in 1..MaxRequests
        BY <1>3, <2>1, BoundsAssumption DEF ReadRequest, TypeOK
      <4> QED BY <2>1, <4>1 DEF Request
    <3> QED BY <2>1, <3>1, <3>2, NoneAssumption
  <2> QED BY <2>1, <2>3, <2>4 DEF PutIsNext
<1>4. ASSUME NEW f \in Fd, ReadEof(f) PROVE PutIsNext'
  BY <1>4 DEF ReadEof, PutIsNext
<1>5. ASSUME NEW t \in TimerId, Expire(t) PROVE PutIsNext'
  BY <1>5 DEF Expire, Dispatching, PutIsNext
<1>6. CASE PutRequest
  BY <1>6 DEF PutRequest, PutIsNext
<1>7. CASE CloseAgain \/ LoopExit \/ Destroy
  BY <1>7 DEF CloseAgain, LoopExit, Destroy, PutIsNext
<1>8. CASE SignalAcquire \/ SignalPut \/ SignalFinish
  BY <1>8 DEF SignalAcquire, SignalPut, SignalFinish, PutIsNext
<1>9. ASSUME NEW s \in SigNum, Signal(s) PROVE PutIsNext'
  BY <1>9 DEF Signal, PutIsNext
<1>10. ASSUME NEW w \in Worker, WorkerStep(w) PROVE PutIsNext'
  BY <1>10 DEF WorkerStep, WorkerStart, TakeRequest, OpenFile, CloseFile, Respond,
               TakePCSig, Acknowledge, PutIsNext
<1>11. ASSUME NEW c \in Conn, SendRequest(c) PROVE PutIsNext'
  <2>1. \A d \in Conn : sent'[d] - pending'[d] = sent[d] - pending[d]
    BY <1>11, BoundsAssumption DEF SendRequest, TypeOK
  <2>2. putting # NoMsg => putting.msg.conn \in Conn
    BY DEF TypeOK, Request
  <2> QED BY <1>11, <2>1, <2>2 DEF SendRequest, PutIsNext
<1>12. ASSUME NEW c \in Conn, Hangup(c) PROVE PutIsNext'
  BY <1>12 DEF Hangup, PutIsNext
<1>13. CASE UNCHANGED vars
  BY <1>13 DEF vars, PutIsNext
<1> QED
  BY <1>1, <1>2, <1>3, <1>4, <1>5, <1>6, <1>7, <1>8, <1>9, <1>10, <1>11, <1>12, <1>13
  DEF Next, Reactor, IdleTick, Terminated

LEMMA BusyStep ==
    TypeOK /\ SInv /\ PutIsNext /\ BusyHasRequest /\ [Next]_vars => BusyHasRequest'
<1> SUFFICES ASSUME TypeOK, SInv, PutIsNext, BusyHasRequest, [Next]_vars
             PROVE  BusyHasRequest'
  OBVIOUS
<1> USE DEF masterVars, workerVars
<1>1. CASE SpawnWorker
  <2>1. /\ spawned + 1 \in Worker /\ wstate[spawned + 1] = "none"
        /\ wstate' = [wstate EXCEPT ![spawned + 1] = "spawned"]
        /\ UNCHANGED <<master, queue, cur>>
    BY <1>1, NWorkersAssumption DEF SpawnWorker, SInv, ShutdownProgress, TypeOK, Worker
  <2>2. \A w \in Worker : wstate'[w] = "busy" <=> wstate[w] = "busy"
    BY <2>1 DEF TypeOK
  <2> QED BY <2>1, <2>2 DEF BusyHasRequest
<1>2. CASE StartLoop
  BY <1>2 DEF StartLoop, BusyHasRequest
<1>3. ASSUME NEW c \in Conn, NEW f \in Fd, AcceptNew(c, f) \/ AcceptExisting(c, f)
      PROVE  BusyHasRequest'
  BY <1>3 DEF AcceptNew, AcceptExisting, BusyHasRequest
<1>4. ASSUME NEW f \in Fd, ReadRequest(f) \/ ReadEof(f) PROVE BusyHasRequest'
  BY <1>4 DEF ReadRequest, ReadEof, Dispatching, BusyHasRequest
<1>5. ASSUME NEW t \in TimerId, Expire(t) PROVE BusyHasRequest'
  BY <1>5 DEF Expire, Dispatching, BusyHasRequest
<1>6. CASE PutRequest
  BY <1>6 DEF PutRequest, BusyHasRequest
<1>7. CASE CloseAgain \/ LoopExit \/ Destroy
  BY <1>7 DEF CloseAgain, LoopExit, Destroy, BusyHasRequest
<1>8. CASE SignalAcquire \/ SignalPut \/ SignalFinish
  <2>1. master # "spawn" /\ UNCHANGED <<master, wstate, cur>>
    BY <1>8 DEF SignalAcquire, SignalPut, SignalFinish, SInv, ShutdownProgress
  <2> QED BY <2>1 DEF BusyHasRequest
<1>9. ASSUME NEW s \in SigNum, Signal(s) PROVE BusyHasRequest'
  BY <1>9 DEF Signal, BusyHasRequest
<1>10. ASSUME NEW w \in Worker, WorkerStep(w) PROVE BusyHasRequest'
  <2>1. CASE WorkerStart(w)
    BY <2>1 DEF WorkerStart, BusyHasRequest, TypeOK
  <2>2. CASE TakeRequest(w)
    <3>1. /\ master # "spawn" /\ master' = master /\ wstate'[w] = "busy"
          /\ cur'[w] = Head(queue[w])
          /\ \A v \in Worker : v # w => wstate'[v] = wstate[v] /\ cur'[v] = cur[v]
      BY <2>2 DEF TakeRequest, BusyHasRequest, TypeOK
    <3>2. cur'[w] # NoMsg
      <4>1. queue[w] \in Seq(Message) /\ queue[w] # <<>>
        BY <2>2 DEF TakeRequest, TypeOK
      <4> QED BY <3>1, <4>1, HeadTailProperties, NoneAssumption
    <3> QED BY <3>1, <3>2 DEF BusyHasRequest
  <2>3. CASE (\E f \in Fd : OpenFile(w, f)) \/ CloseFile(w)
    BY <2>3 DEF OpenFile, CloseFile, BusyHasRequest
  <2>4. CASE Respond(w)
    BY <2>4 DEF Respond, BusyHasRequest, TypeOK
  <2>5. CASE TakePCSig(w)
    <3>1. /\ master # "spawn" /\ master' = master /\ wstate[w] = "idle"
          /\ wstate'[w] = "acking" /\ cur' = cur
          /\ \A v \in Worker : v # w => wstate'[v] = wstate[v]
      BY <2>5 DEF TakePCSig, BusyHasRequest, TypeOK
    <3> QED BY <3>1 DEF BusyHasRequest
  <2>6. CASE Acknowledge(w)
    BY <2>6 DEF Acknowledge, BusyHasRequest, TypeOK
  <2> QED BY <1>10, <2>1, <2>2, <2>3, <2>4, <2>5, <2>6 DEF WorkerStep
<1>11. ASSUME NEW c \in Conn, SendRequest(c) \/ Hangup(c) PROVE BusyHasRequest'
  BY <1>11 DEF SendRequest, Hangup, BusyHasRequest
<1>12. CASE UNCHANGED vars
  BY <1>12 DEF vars, BusyHasRequest
<1> QED
  BY <1>1, <1>2, <1>3, <1>4, <1>5, <1>6, <1>7, <1>8, <1>9, <1>10, <1>11, <1>12
  DEF Next, Reactor, IdleTick, Terminated

LEMMA LInvStep == TypeOK /\ SInv /\ LInv /\ [Next]_vars => LInv'
BY ToldStep, PutStep, BusyStep DEF LInv

-----------------------------------------------------------------------------
(* The mapping, now and after a step.                                      *)

LEMMA PhaseNow ==
    /\ master = "gone" => Phase = "gone"
    /\ master # "gone" /\ stopMe => Phase = "stopped"
    /\ master = "spawn" /\ ~stopMe => Phase = "starting"
    /\ master \notin {"spawn", "gone"} /\ ~stopMe =>
          Phase = IF frames = <<>> THEN "serving" ELSE "draining"
<1>1. master = "gone" => Phase = "gone"
  BY DEF Phase
<1>2. master # "gone" /\ stopMe => Phase = "stopped"
  BY DEF Phase
<1>3. master = "spawn" /\ ~stopMe => Phase = "starting"
  BY DEF Phase
<1>4. master \notin {"spawn", "gone"} /\ ~stopMe =>
         Phase = IF frames = <<>> THEN "serving" ELSE "draining"
  BY DEF Phase
<1> QED BY <1>1, <1>2, <1>3, <1>4

LEMMA PhaseNext ==
    /\ master' = "gone" => Phase' = "gone"
    /\ master' # "gone" /\ stopMe' => Phase' = "stopped"
    /\ master' = "spawn" /\ ~stopMe' => Phase' = "starting"
    /\ master' \notin {"spawn", "gone"} /\ ~stopMe' =>
          Phase' = IF frames' = <<>> THEN "serving" ELSE "draining"
<1>1. master' = "gone" => Phase' = "gone"
  BY DEF Phase
<1>2. master' # "gone" /\ stopMe' => Phase' = "stopped"
  BY DEF Phase
<1>3. master' = "spawn" /\ ~stopMe' => Phase' = "starting"
  BY DEF Phase
<1>4. master' \notin {"spawn", "gone"} /\ ~stopMe' =>
         Phase' = IF frames' = <<>> THEN "serving" ELSE "draining"
  BY DEF Phase
<1> QED BY <1>1, <1>2, <1>3, <1>4

LEMMA PhaseSame ==
    ASSUME frames' = <<>> <=> frames = <<>>, stopMe' = stopMe,
           master' = master \/ ({master, master'} \cap {"spawn", "gone"} = {})
    PROVE  Phase' = Phase
BY DEF Phase

LEMMA TakenSame == ASSUME UNCHANGED <<sent, pending, putting>> PROVE Taken' = Taken
BY DEF Taken

LEMMA WorkSame == ASSUME UNCHANGED workerVars PROVE Work' = Work
BY DEF workerVars, Work, Deactivated

LEMMA WorkOf ==
    ASSUME NEW w \in Worker
    PROVE  /\ Deactivated(w) => Work[w] = <<>>
           /\ ~Deactivated(w) =>
                 Work[w] = (IF cur[w] = NoMsg THEN <<>> ELSE <<AskedBy(cur[w])>>)
                              \o AheadOfPCSig(queue[w])
           /\ Deactivated(w)' => Work'[w] = <<>>
           /\ ~Deactivated(w)' =>
                 Work'[w] = (IF cur'[w] = NoMsg THEN <<>> ELSE <<AskedBy(cur'[w])>>)
                              \o AheadOfPCSig(queue'[w])
BY DEF Work, AskedBy

LEMMA WorkOfSame ==
    ASSUME NEW w \in Worker, Deactivated(w)' <=> Deactivated(w),
           cur'[w] = cur[w], queue'[w] = queue[w]
    PROVE  Work'[w] = Work[w]
BY WorkOf

(* A worker that is not busy has the requests of its queue before it.      *)
LEMMA WorkQueued ==
    ASSUME NEW q \in Seq(Message), OnePCSig(q)
    PROVE  <<>> \o AheadOfPCSig(q) = AheadOfPCSig(q)
BY AheadIsSeq, ConcatEmptySeq

LEMMA WorkChange ==
    ASSUME NEW w \in Worker, NEW x, Work'[w] = x,
           \A v \in Worker : v # w => Work'[v] = Work[v]
    PROVE  Work' = [Work EXCEPT ![w] = x]
BY DEF Work

LEMMA WorkAllSame ==
    ASSUME \A w \in Worker : Work'[w] = Work[w] PROVE Work' = Work
BY DEF Work

LEMMA FirstAnswered ==
    ASSUME NEW x \in Asked, NEW s \in Seq(Asked)
    PROVE  <<x>> \o s # <<>> /\ Tail(<<x>> \o s) = s
<1> DEFINE a == <<x>>
           c == a \o s
<1>1. a \in Seq(Asked) /\ Len(a) = 1 /\ Len(s) \in Nat
  OBVIOUS
<1>2. /\ c \in Seq(Asked) /\ Len(c) = Len(s) + 1
      /\ \A i \in 1..(Len(a) + Len(s)) : c[i] = IF i <= Len(a) THEN a[i] ELSE s[i - Len(a)]
  <2> HIDE DEF a
  <2> QED BY <1>1, ConcatProperties
<1>3. c # <<>>
  BY <1>1, <1>2, EmptySeq
<1> HIDE DEF a, c
<1>4. /\ Tail(c) \in Seq(Asked) /\ Len(Tail(c)) = Len(s)
      /\ \A i \in 1..Len(s) : Tail(c)[i] = c[i + 1]
  BY <1>1, <1>2, <1>3, HeadTailProperties
<1>5. \A i \in 1..Len(s) : Tail(c)[i] = s[i]
  <2> TAKE i \in 1..Len(s)
  <2>1. i + 1 \in 1..(Len(a) + Len(s)) /\ ~(i + 1 <= Len(a)) /\ (i + 1) - Len(a) = i
    BY <1>1
  <2> QED BY <1>2, <1>4, <2>1
<1>6. Tail(c) = s
  BY <1>4, <1>5, SeqEqual
<1> QED BY <1>3, <1>6 DEF c, a

-----------------------------------------------------------------------------
(* The steps that ServerLife speaks of.                                    *)

LEMMA LifeInit == Init => Life!Init
<1> SUFFICES ASSUME Init PROVE Life!Init
  OBVIOUS
<1>1. Phase = "starting"
  BY PhaseNow DEF Init
<1>2. Taken = {}
  <2>1. \A r \in Asked : ~(r[2] <= sent[r[1]] - pending[r[1]])
    <3> TAKE r \in Asked
    <3>1. r[1] \in Conn /\ r[2] \in 1..MaxRequests
      BY DEF Asked
    <3>2. sent[r[1]] = 0 /\ pending[r[1]] = 0
      BY <3>1 DEF Init
    <3> QED BY <3>1, <3>2
  <2> QED BY <2>1 DEF Taken, Asked
<1>3. Work = [w \in Worker |-> <<>>]
  <2>1. <<>> \in Seq(Message) /\ Ahead(<<>>, 0)
    BY EmptySeq DEF Ahead
  <2>2. AheadOfPCSig(<<>>) \in Seq(Asked) /\ Len(AheadOfPCSig(<<>>)) = 0
    BY <2>1, AheadIs
  <2>3. <<>> \o AheadOfPCSig(<<>>) = <<>>
    BY <2>2, EmptySeq, ConcatEmptySeq
  <2>4. \A w \in Worker : Work[w] = <<>>
    BY <2>3, WorkOf DEF Init, Deactivated
  <2> QED BY <2>4 DEF Work
<1> QED BY <1>1, <1>2, <1>3 DEF Life!Init

(* Reading a request out of the socket: what the client sent and nobody    *)
(* has yet is in the putq now.                                             *)
LEMMA ReadKeepsTaken ==
    ASSUME TypeOK, PutIsNext, NEW f \in Fd, ReadRequest(f) PROVE Taken' = Taken
<1> DEFINE c == fdt[f]
           n == sent[c] - pending[c] + 1
<1>1. /\ c \in Conn /\ pending[c] \in 0..MaxRequests /\ sent[c] \in 0..MaxRequests
      /\ putting = NoMsg /\ sent' = sent
      /\ pending' = [pending EXCEPT ![c] = @ - 1]
      /\ putting' = [msg |-> [type |-> "MB_DATA", fd |-> f, conn |-> c, n |-> n],
                     worker |-> CurrentWorker]
      /\ master' = "put"
  BY DEF ReadRequest, TypeOK, Dispatching, PutIsNext, clientVars
<1>2. putting' # NoMsg /\ <<putting.msg.conn, putting.msg.n>>' = <<c, n>>
  <2>1. PutIsNext'
    <3>1. n \in 1..MaxRequests
      BY <1>1, BoundsAssumption DEF ReadRequest, TypeOK
    <3>2. CurrentWorker \in Worker
      BY NWorkersAssumption DEF CurrentWorker, TypeOK, Worker
    <3>3. putting' \in [msg : Request, worker : Worker]
      BY <1>1, <3>1, <3>2 DEF Request
    <3>4. putting' # NoMsg
      BY <3>3, NoneAssumption
    <3>5. pending'[c] = pending[c] - 1
      BY <1>1 DEF TypeOK
    <3> QED BY <1>1, <3>4, <3>5, BoundsAssumption DEF PutIsNext
  <2> QED BY <1>1, <2>1 DEF PutIsNext
<1>3. ASSUME NEW d \in Conn, NEW k \in 1..MaxRequests
      PROVE  k <= sent'[d] - pending'[d] /\ <<d, k>> # <<c, n>>
                <=> k <= sent[d] - pending[d]
  <2>1. CASE d = c
    <3>1. pending'[d] = pending[c] - 1 /\ sent'[d] = sent[c]
      BY <1>1, <2>1 DEF TypeOK
    <3>2. sent'[d] - pending'[d] = n
      BY <1>1, <3>1, BoundsAssumption
    <3>3. <<d, k>> # <<c, n>> <=> k # n
      BY <2>1
    <3>4. n \in Int /\ sent[d] - pending[d] = n - 1 /\ k \in Int
      BY <1>1, <2>1, BoundsAssumption
    <3> QED BY <3>2, <3>3, <3>4
  <2>2. CASE d # c
    BY <1>1, <2>2 DEF TypeOK
  <2> QED BY <2>1, <2>2
<1>4. \A r \in Asked : \E d \in Conn, k \in 1..MaxRequests : r = <<d, k>>
  BY DEF Asked
<1>5. \A r \in Asked : (r[2] <= sent'[r[1]] - pending'[r[1]] /\ r # <<c, n>>)
                          <=> r[2] <= sent[r[1]] - pending[r[1]]
  <2> TAKE r \in Asked
  <2>1. PICK d \in Conn, k \in 1..MaxRequests : r = <<d, k>>
    BY <1>4
  <2> QED BY <2>1, <1>3
<1> HIDE DEF n, c
<1>6. Taken' = {r \in Asked : r[2] <= sent'[r[1]] - pending'[r[1]]} \ {<<c, n>>}
  BY <1>2 DEF Taken, Asked
<1>7. Taken = {r \in Asked : r[2] <= sent[r[1]] - pending[r[1]]}
  BY <1>1 DEF Taken, Asked
<1> QED BY <1>5, <1>6, <1>7

LEMMA SendKeepsTaken ==
    ASSUME TypeOK, NEW c \in Conn, SendRequest(c) PROVE Taken' = Taken
<1>1. \A d \in Conn : sent'[d] - pending'[d] = sent[d] - pending[d]
  BY BoundsAssumption DEF SendRequest, TypeOK
<1>2. \A r \in Asked : r[1] \in Conn
  BY DEF Asked
<1>3. {r \in Asked : r[2] <= sent'[r[1]] - pending'[r[1]]}
         = {r \in Asked : r[2] <= sent[r[1]] - pending[r[1]]}
  BY <1>1, <1>2
<1>4. putting' = putting
  BY DEF SendRequest, masterVars
<1> QED BY <1>3, <1>4 DEF Taken, Asked

(* The end of putq: the request is the worker's, or, once the server has   *)
(* stopped, nobody's.                                                      *)
LEMMA PutHandsOver ==
    ASSUME TypeOK, SInv, LInv, PutRequest
    PROVE  \E r \in Asked : Life!ThrowAway(r) \/ \E w \in Worker : Life!HandOver(r, w)
<1> DEFINE m == putting.msg
           r == AskedBy(m)
           w == putting.worker
<1>1. /\ master = "put" /\ frames = <<>> /\ putting # NoMsg
      /\ m \in Request /\ w \in Worker
      /\ UNCHANGED <<frames, stopMe, wstate, cur, sent, pending>>
      /\ master' = "loop" /\ putting' = NoMsg
  BY DEF PutRequest, TypeOK, syncVars, clientVars
<1>2. r \in Asked
  BY <1>1, AskedInRequest
<1>3. r \notin Taken /\ Taken' = Taken \cup {r}
  <2> DEFINE S == {x \in Asked : x[2] <= sent[x[1]] - pending[x[1]]}
  <2>1. r \in S
    <3>1. /\ r = <<m.conn, m.n>> /\ m.n = sent[m.conn] - pending[m.conn]
          /\ m.conn \in Conn /\ m.n \in Nat
      BY <1>1 DEF AskedBy, LInv, PutIsNext, Request
    <3> QED BY <1>2, <3>1
  <2>2. Taken = S \ {r}
    BY <1>1 DEF Taken, Asked, AskedBy
  <2>3. Taken' = S
    BY <1>1 DEF Taken, Asked
  <2> QED BY <2>1, <2>2, <2>3
<1>4. Phase' = Phase
  BY <1>1, PhaseSame
<1>5. \A v \in Worker : Deactivated(v)' <=> Deactivated(v)
  BY <1>1 DEF Deactivated
<1>6. \A v \in Worker : v # w => queue'[v] = queue[v]
  BY <1>1 DEF PutRequest, Enqueue, TypeOK
<1>7. \A v \in Worker : v # w => Work'[v] = Work[v]
  BY <1>1, <1>5, <1>6, WorkOfSame
<1>8. queue[w] \in Seq(Message) /\ OnePCSig(queue[w])
  BY <1>1 DEF TypeOK, SInv, ShutdownProgress
<1> HIDE DEF m, w, r
<1>9. CASE stopMe
  <2>1. Work'[w] = Work[w]
    <3>1. CASE Deactivated(w)
      BY <1>1, <1>5, <3>1, WorkOf
    <3>2. CASE ~Deactivated(w)
      <4>1. HasPCSig(queue[w])
        BY <1>1, <1>9, <3>2 DEF SInv, ShutdownProgress, Told, PCSigQueued, Deactivated
      <4>2. queue'[w] = Append(queue[w], m)
        BY <1>1, <3>2 DEF PutRequest, Enqueue, TypeOK, m, w
      <4>3. AheadOfPCSig(queue'[w]) = AheadOfPCSig(queue[w])
        BY <1>1, <1>8, <4>1, <4>2, AheadAppendLate DEF Message
      <4> QED BY <1>1, <1>5, <3>2, <4>3, WorkOf
    <3> QED BY <3>1, <3>2
  <2>2. Work' = Work
    BY <1>7, <2>1, WorkAllSame
  <2>3. Phase = "stopped"
    BY <1>1, <1>9, PhaseNow
  <2>4. Life!ThrowAway(r)
    BY <1>3, <1>4, <2>2, <2>3 DEF Life!ThrowAway
  <2> QED BY <1>2, <2>4
<1>10. CASE ~stopMe
  <2>1. ~Told(w)
    BY <1>1, <1>10 DEF LInv, ToldBySignal
  <2>2. ~Deactivated(w) /\ ~HasPCSig(queue[w])
    BY <2>1 DEF Told, PCSigQueued, Deactivated
  <2>3. queue'[w] = Append(queue[w], m)
    BY <1>1, <2>2 DEF PutRequest, Enqueue, TypeOK, m, w
  <2>4. /\ AheadOfPCSig(queue'[w]) = Append(AheadOfPCSig(queue[w]), r)
        /\ AheadOfPCSig(queue[w]) \in Seq(Asked)
    BY <1>1, <1>8, <2>2, <2>3, AheadAppendRequest, AheadIsSeq DEF r
  <2> DEFINE a == IF cur[w] = NoMsg THEN <<>> ELSE <<AskedBy(cur[w])>>
  <2>5. a \in Seq(Asked)
    <3>1. cur[w] \in Request \cup {NoMsg}
      BY <1>1 DEF TypeOK
    <3>2. CASE cur[w] = NoMsg
      BY <3>2, EmptySeq
    <3>3. CASE cur[w] # NoMsg
      <4>1. AskedBy(cur[w]) \in Asked
        BY <3>1, <3>3, AskedInRequest
      <4> QED BY <3>3, <4>1
    <3> QED BY <3>2, <3>3
  <2>6. Work[w] = a \o AheadOfPCSig(queue[w])
    BY <1>1, <2>2, WorkOf
  <2>7. Work'[w] = a \o Append(AheadOfPCSig(queue[w]), r)
    BY <1>1, <1>5, <2>2, <2>4, WorkOf
  <2> HIDE DEF a
  <2>8. a \o Append(AheadOfPCSig(queue[w]), r) = Append(a \o AheadOfPCSig(queue[w]), r)
    <3> DEFINE b == AheadOfPCSig(queue[w])
    <3>1. b \in Seq(Asked) /\ <<r>> \in Seq(Asked)
      BY <1>2, <2>4
    <3> HIDE DEF b
    <3>2. Append(b, r) = b \o <<r>>
      BY <1>2, <3>1, AppendIsConcat
    <3>3. a \o b \in Seq(Asked)
      BY <2>5, <3>1, ConcatProperties
    <3>4. Append(a \o b, r) = (a \o b) \o <<r>>
      BY <1>2, <3>3, AppendIsConcat
    <3>5. (a \o b) \o <<r>> = a \o (b \o <<r>>)
      BY <2>5, <3>1, ConcatAssociative
    <3>6. a \o Append(b, r) = Append(a \o b, r)
      BY <3>2, <3>4, <3>5
    <3> QED BY <3>6 DEF b
  <2>9. Work'[w] = Append(Work[w], r)
    BY <2>6, <2>7, <2>8
  <2>10. Work' = [Work EXCEPT ![w] = Append(@, r)]
    <3>1. Work' = [Work EXCEPT ![w] = Append(Work[w], r)]
      BY <1>1, <1>7, <2>9, WorkChange
    <3> QED BY <3>1
  <2>11. Phase = "serving"
    BY <1>1, <1>10, PhaseNow
  <2>12. Life!HandOver(r, w)
    BY <1>3, <1>4, <2>10, <2>11 DEF Life!HandOver
  <2> QED BY <1>1, <1>2, <2>12
<1> QED BY <1>9, <1>10

(* An answer is the oldest request of its worker, and its only step.       *)
LEMMA RespondAnswers ==
    ASSUME TypeOK, LInv, NEW w \in Worker, Respond(w), OnePCSig(queue[w])
    PROVE  Life!Answer(w)
<1>1. /\ wstate[w] = "busy" /\ wstate'[w] = "idle" /\ cur'[w] = NoMsg /\ queue' = queue
      /\ \A v \in Worker : v # w => wstate'[v] = wstate[v] /\ cur'[v] = cur[v]
      /\ UNCHANGED <<master, frames, stopMe, putting, sent, pending>> /\ master # "gone"
  BY DEF Respond, Alive, TypeOK, masterVars, syncVars, clientVars
<1>2. cur[w] # NoMsg /\ cur[w] \in Request /\ master # "spawn"
  BY <1>1 DEF LInv, BusyHasRequest, TypeOK
<1> DEFINE x == AskedBy(cur[w])
           b == AheadOfPCSig(queue[w])
<1>3. x \in Asked /\ b \in Seq(Asked)
  BY <1>2, AskedInRequest, AheadIsSeq DEF TypeOK
<1>4. ~Deactivated(w) /\ ~Deactivated(w)'
  BY <1>1 DEF Deactivated
<1>5. Work[w] = <<x>> \o b
  BY <1>2, <1>4, WorkOf
<1>6. Work'[w] = <<>> \o b
  BY <1>1, <1>4, WorkOf
<1> HIDE DEF x, b
<1>7. Work[w] # <<>> /\ Work'[w] = Tail(Work[w])
  BY <1>3, <1>5, <1>6, FirstAnswered, ConcatEmptySeq
<1>8. \A v \in Worker : v # w => Work'[v] = Work[v]
  <2> TAKE v \in Worker
  <2> HAVE v # w
  <2>1. Deactivated(v)' <=> Deactivated(v)
    BY <1>1 DEF Deactivated
  <2> QED BY <1>1, <2>1, WorkOfSame
<1>9. Work' = [Work EXCEPT ![w] = Tail(@)]
  <2>1. Work' = [Work EXCEPT ![w] = Tail(Work[w])]
    BY <1>7, <1>8, WorkChange
  <2> QED BY <2>1
<1>10. Phase \in {"serving", "draining", "stopped"}
  BY <1>1, <1>2, PhaseNow DEF TypeOK
<1>11. Phase' = Phase /\ Taken' = Taken
  BY <1>1, PhaseSame, TakenSame
<1> QED BY <1>7, <1>9, <1>10, <1>11 DEF Life!Answer

(* Taking a message from the queue: a request stays with its worker, and   *)
(* the MB_PCSIG is taken when nothing is ahead of it.                      *)
LEMMA TakeKeepsWork ==
    ASSUME TypeOK, SInv, LInv, NEW w \in Worker, TakeRequest(w) \/ TakePCSig(w)
    PROVE  Work' = Work
<1>1. /\ wstate[w] = "idle" /\ queue[w] # <<>> /\ queue'[w] = Tail(queue[w])
      /\ \A v \in Worker : v # w =>
            wstate'[v] = wstate[v] /\ cur'[v] = cur[v] /\ queue'[v] = queue[v]
  BY DEF TakeRequest, TakePCSig, TypeOK
<1>2. cur[w] = NoMsg /\ queue[w] \in Seq(Message) /\ OnePCSig(queue[w])
  BY <1>1 DEF LInv, BusyHasRequest, TypeOK, SInv, ShutdownProgress
<1>3. Work[w] = AheadOfPCSig(queue[w])
  <2>1. ~Deactivated(w)
    BY <1>1 DEF Deactivated
  <2> QED BY <1>2, <2>1, WorkOf, WorkQueued
<1>4. CASE TakeRequest(w)
  <2>1. /\ wstate'[w] = "busy" /\ cur'[w] = Head(queue[w]) /\ Head(queue[w]) # PCSig
    BY <1>4 DEF TakeRequest, TypeOK
  <2>2. /\ Head(queue[w]) \in Request
        /\ AheadOfPCSig(queue[w]) =
              <<AskedBy(Head(queue[w]))>> \o AheadOfPCSig(Tail(queue[w]))
    BY <1>1, <1>2, <2>1, AheadTail
  <2>3. cur'[w] # NoMsg
    BY <2>1, <2>2, NoneAssumption DEF Message
  <2>4. ~Deactivated(w)'
    BY <2>1 DEF Deactivated
  <2>5. Work'[w] = <<AskedBy(cur'[w])>> \o AheadOfPCSig(queue'[w])
    BY <2>3, <2>4, WorkOf
  <2> QED
    <3>1. Work'[w] = Work[w]
      BY <1>1, <1>3, <2>1, <2>2, <2>5
    <3>2. \A v \in Worker : v # w => Work'[v] = Work[v]
      BY <1>1, WorkOfSame DEF Deactivated
    <3> QED BY <3>1, <3>2, WorkAllSame
<1>5. CASE TakePCSig(w)
  <2>1. wstate'[w] = "acking" /\ Head(queue[w]) = PCSig
    BY <1>5 DEF TakePCSig, TypeOK
  <2>2. Work[w] = <<>>
    BY <1>1, <1>2, <1>3, <2>1, AheadOfHead
  <2>3. Work'[w] = <<>>
    BY <2>1, WorkOf DEF Deactivated
  <2>4. \A v \in Worker : v # w => Work'[v] = Work[v]
    BY <1>1, WorkOfSame DEF Deactivated
  <2> QED BY <2>2, <2>3, <2>4, WorkAllSame
<1> QED BY <1>4, <1>5

(* A worker that starts, or acknowledges, keeps the work it has.           *)
LEMMA StateKeepsWork ==
    ASSUME TypeOK, SInv,
           UNCHANGED <<queue, cur>>,
           \/ SpawnWorker
           \/ \E w \in Worker : WorkerStart(w) \/ Acknowledge(w)
    PROVE  Work' = Work
<1>1. \A v \in Worker : Deactivated(v)' <=> Deactivated(v)
  <2>1. CASE SpawnWorker
    <3>1. wstate[spawned + 1] = "none" /\ spawned + 1 \in Worker
      BY <2>1, NWorkersAssumption DEF SpawnWorker, SInv, ShutdownProgress, TypeOK, Worker
    <3> QED BY <2>1, <3>1 DEF SpawnWorker, Deactivated, TypeOK
  <2>2. ASSUME NEW w \in Worker, WorkerStart(w) \/ Acknowledge(w)
        PROVE  \A v \in Worker : Deactivated(v)' <=> Deactivated(v)
    BY <2>2 DEF WorkerStart, Acknowledge, Deactivated, TypeOK
  <2> QED BY <2>1, <2>2
<1>2. \A v \in Worker : Work'[v] = Work[v]
  BY <1>1, WorkOfSame
<1> QED BY <1>2, WorkAllSame

(* putq of an MB_PCSIG does not touch what is ahead of it.                 *)
LEMMA SignalPutKeepsWork ==
    ASSUME TypeOK, SInv, SignalPut PROVE Work' = Work
<1>1. UNCHANGED <<wstate, cur>> /\ Top.holding /\ frames # <<>>
  BY DEF SignalPut
<1>2. Len(frames) \in 1..Len(frames) /\ FrameHolds(Len(frames))
  BY <1>1, ReplaceTop DEF TypeOK, FrameHolds, Top
<1>3. \A v \in Worker : ~HasPCSig(queue[v]) /\ OnePCSig(queue[v]) /\ queue[v] \in Seq(Message)
  BY <1>2 DEF SInv, OneToken, WorkerHolds, PCSigQueued, ShutdownProgress, TypeOK
<1>4. \A v \in Worker : queue'[v] = queue[v] \/ queue'[v] = Append(queue[v], PCSig)
  BY DEF SignalPut, Enqueue, TypeOK
<1>5. PCSig \in Message
  BY DEF Message
<1>6. \A v \in Worker : AheadOfPCSig(queue'[v]) = AheadOfPCSig(queue[v])
  BY <1>3, <1>4, <1>5, AheadAppendLate
<1>7. \A v \in Worker : Work'[v] = Work[v]
  BY <1>1, <1>6, WorkOf DEF Deactivated
<1> QED BY <1>7, WorkAllSame

(* The end of the first handle_signal to get there: all but the last       *)
(* worker have stopped.                                                    *)
LEMMA FinishStops ==
    ASSUME TypeOK, SInv, LInv, SignalFinish
    PROVE  Life!Stop \/ UNCHANGED <<Phase, Taken, Work>>
<1>1. /\ frames # <<>> /\ stopMe' /\ Top.next = NWorkers + 1
      /\ UNCHANGED <<master, wstate, queue, cur, putting, sent, pending>>
  BY DEF SignalFinish, workerVars, clientVars
<1>2. master \in {"loop", "put", "close"}
  BY <1>1 DEF LInv, ToldBySignal
<1>3. Work' = Work /\ Taken' = Taken /\ Phase' = "stopped"
  BY <1>1, <1>2, WorkSame, TakenSame, PhaseNext DEF workerVars
<1>4. CASE stopMe
  BY <1>2, <1>3, <1>4, PhaseNow
<1>5. CASE ~stopMe
  <2>1. Phase = "draining"
    BY <1>1, <1>2, <1>5, PhaseNow
  <2>2. NWorkers \in Worker /\ \A w \in Worker \ {NWorkers} : w < NWorkers
    BY NWorkersAssumption DEF Worker
  <2>3. Told(NWorkers)
    <3>1. Len(frames) \in 1..Len(frames) /\ frames[Len(frames)].next = NWorkers + 1
      BY <1>1, ReplaceTop DEF TypeOK, Top
    <3>2. NWorkers < NWorkers + 1
      BY NWorkersAssumption
    <3> QED BY <2>2, <3>1, <3>2 DEF SInv, ShutdownProgress
  <2>4. \A w \in Worker \ {NWorkers} : wstate[w] = "stopped"
    BY <2>2, <2>3 DEF LInv, ToldInOrder
  <2>5. \A w \in Worker \ {NWorkers} : Work[w] = <<>>
    BY <2>4, WorkOf DEF Deactivated
  <2> QED BY <1>3, <2>1, <2>5 DEF Life!Stop
<1> QED BY <1>4, <1>5

LEMMA LifeStep ==
    TypeOK /\ SInv /\ LInv /\ [Next]_vars => [Life!Next]_(Life!vars)
<1> SUFFICES ASSUME TypeOK, SInv, LInv, [Next]_vars
             PROVE  Life!Next \/ UNCHANGED <<Phase, Taken, Work>>
  BY DEF Life!vars
<1> USE DEF masterVars, syncVars, workerVars, clientVars
<1>1. CASE SpawnWorker
  BY <1>1, StateKeepsWork, PhaseSame, TakenSame DEF SpawnWorker
<1>2. CASE StartLoop
  <2>1. /\ master = "spawn" /\ master' = "loop" /\ frames = <<>> /\ ~stopMe
        /\ UNCHANGED <<frames, stopMe, putting, sent, pending, workerVars>>
    BY <1>2 DEF StartLoop, SInv, ShutdownProgress
  <2>2. Phase = "starting" /\ Phase' = "serving"
    BY <2>1, PhaseNow, PhaseNext
  <2>3. Life!Serve
    BY <2>1, <2>2, WorkSame, TakenSame DEF Life!Serve
  <2> QED BY <2>3 DEF Life!Next
<1>3. ASSUME NEW c \in Conn, NEW f \in Fd, AcceptNew(c, f) \/ AcceptExisting(c, f)
      PROVE  UNCHANGED <<Phase, Taken, Work>>
  BY <1>3, PhaseSame, TakenSame, WorkSame DEF AcceptNew, AcceptExisting
<1>4. ASSUME NEW f \in Fd, ReadRequest(f) PROVE UNCHANGED <<Phase, Taken, Work>>
  <2>1. Phase' = Phase /\ Work' = Work
    BY <1>4, PhaseSame, WorkSame DEF ReadRequest, Dispatching
  <2> QED BY <1>4, <2>1, ReadKeepsTaken DEF LInv
<1>5. ASSUME NEW f \in Fd, ReadEof(f) PROVE UNCHANGED <<Phase, Taken, Work>>
  BY <1>5, PhaseSame, TakenSame, WorkSame DEF ReadEof
<1>6. ASSUME NEW t \in TimerId, Expire(t) PROVE UNCHANGED <<Phase, Taken, Work>>
  BY <1>6, PhaseSame, TakenSame, WorkSame DEF Expire, Dispatching
<1>7. CASE PutRequest
  BY <1>7, PutHandsOver DEF Life!Next, Asked
<1>8. CASE CloseAgain
  BY <1>8, PhaseSame, TakenSame, WorkSame DEF CloseAgain
<1>9. CASE LoopExit
  BY <1>9, PhaseSame, TakenSame, WorkSame DEF LoopExit
<1>10. CASE Destroy
  <2>1. /\ master = "exited" /\ master' = "gone" /\ stopMe
        /\ UNCHANGED <<putting, sent, pending, workerVars>>
    BY <1>10 DEF Destroy, LInv, ToldBySignal
  <2>2. Life!Exit
    BY <2>1, PhaseNow, PhaseNext, WorkSame, TakenSame DEF Life!Exit
  <2> QED BY <2>2 DEF Life!Next
<1>11. CASE SignalAcquire
  <2>1. frames # <<>> /\ UNCHANGED <<master, stopMe, putting, sent, pending, workerVars>>
    BY <1>11 DEF SignalAcquire
  <2>2. frames' # <<>>
    <3>1. frames \in Seq(Frame) /\ Len(frames) \in 1..Len(frames) /\ Top \in Frame
      BY <2>1, ReplaceTop DEF TypeOK, Top
    <3>2. [Top EXCEPT !.holding = TRUE] \in Frame
      BY <1>11, <3>1, HoldFrame DEF SignalAcquire
    <3>3. Len(frames') = Len(frames)
      BY <1>11, <2>1, <3>1, <3>2, ReplaceTop DEF SignalAcquire, SetTop
    <3> QED BY <3>1, <3>3, EmptySeq
  <2> QED BY <2>1, <2>2, PhaseSame, TakenSame, WorkSame
<1>12. CASE SignalPut
  <2>1. frames # <<>> /\ UNCHANGED <<master, stopMe, putting, sent, pending>>
    BY <1>12 DEF SignalPut
  <2>2. frames' # <<>>
    <3>1. frames \in Seq(Frame) /\ Len(frames) \in 1..Len(frames) /\ Top \in Frame
      BY <2>1, ReplaceTop DEF TypeOK, Top
    <3>2. [Top EXCEPT !.next = @ + 1, !.holding = FALSE] \in Frame
      BY <1>12, <3>1, AdvanceFrame DEF SignalPut
    <3>3. Len(frames') = Len(frames)
      BY <1>12, <2>1, <3>1, <3>2, ReplaceTop DEF SignalPut, SetTop
    <3> QED BY <3>1, <3>3, EmptySeq
  <2> QED BY <1>12, <2>1, <2>2, PhaseSame, TakenSame, SignalPutKeepsWork
<1>13. CASE SignalFinish
  BY <1>13, FinishStops DEF Life!Next
<1>14. ASSUME NEW s \in SigNum, Signal(s)
       PROVE  Life!Next \/ UNCHANGED <<Phase, Taken, Work>>
  <2>1. /\ master \in {"loop", "put", "close"}
        /\ UNCHANGED <<master, stopMe, putting, sent, pending, workerVars>>
        /\ frames' = Append(frames, [sig |-> s, next |-> 1, holding |-> FALSE])
    BY <1>14 DEF Signal
  <2>2. frames' # <<>>
    <3>1. [sig |-> s, next |-> 1, holding |-> FALSE] \in Frame
      BY NWorkersAssumption DEF Frame, Worker
    <3>2. frames \in Seq(Frame)
      BY DEF TypeOK
    <3> QED BY <2>1, <3>1, <3>2, AppendProperties
  <2>3. Taken' = Taken /\ Work' = Work
    BY <2>1, TakenSame, WorkSame
  <2>4. CASE stopMe
    <3>1. Phase = "stopped" /\ Phase' = "stopped"
      BY <2>1, <2>4, PhaseNow, PhaseNext
    <3> QED BY <2>3, <3>1
  <2>5. CASE ~stopMe /\ frames = <<>>
    <3>1. Phase = "serving" /\ Phase' = "draining"
      BY <2>1, <2>2, <2>5, PhaseNow, PhaseNext
    <3>2. Life!Drain
      BY <2>3, <3>1 DEF Life!Drain
    <3> QED BY <3>2 DEF Life!Next
  <2>6. CASE ~stopMe /\ frames # <<>>
    <3>1. Phase = "draining" /\ Phase' = "draining"
      BY <2>1, <2>2, <2>6, PhaseNow, PhaseNext
    <3> QED BY <2>3, <3>1
  <2> QED BY <2>4, <2>5, <2>6
<1>15. ASSUME NEW w \in Worker, WorkerStep(w)
       PROVE  Life!Next \/ UNCHANGED <<Phase, Taken, Work>>
  <2>1. UNCHANGED <<master, frames, stopMe, putting, sent, pending>>
    BY <1>15 DEF WorkerStep, WorkerStart, TakeRequest, OpenFile, CloseFile, Respond,
                 TakePCSig, Acknowledge
  <2>2. Phase' = Phase /\ Taken' = Taken
    BY <2>1, PhaseSame, TakenSame
  <2>3. CASE WorkerStart(w) \/ Acknowledge(w)
    BY <2>2, <2>3, StateKeepsWork DEF WorkerStart, Acknowledge
  <2>4. CASE TakeRequest(w) \/ TakePCSig(w)
    BY <2>2, <2>4, TakeKeepsWork
  <2>5. CASE (\E f \in Fd : OpenFile(w, f)) \/ CloseFile(w)
    BY <2>2, <2>5, WorkSame DEF OpenFile, CloseFile
  <2>6. CASE Respond(w)
    <3>1. Life!Answer(w)
      BY <2>6, RespondAnswers DEF SInv, ShutdownProgress
    <3> QED BY <3>1 DEF Life!Next
  <2> QED BY <1>15, <2>3, <2>4, <2>5, <2>6 DEF WorkerStep
<1>16. ASSUME NEW c \in Conn, SendRequest(c) PROVE UNCHANGED <<Phase, Taken, Work>>
  <2>1. Phase' = Phase /\ Work' = Work
    BY <1>16, PhaseSame, WorkSame DEF SendRequest
  <2> QED BY <1>16, <2>1, SendKeepsTaken
<1>17. ASSUME NEW c \in Conn, Hangup(c) PROVE UNCHANGED <<Phase, Taken, Work>>
  BY <1>17, PhaseSame, TakenSame, WorkSame DEF Hangup
<1>18. CASE UNCHANGED vars
  BY <1>18, PhaseSame, TakenSame, WorkSame DEF vars
<1> QED
  BY <1>1, <1>2, <1>3, <1>4, <1>5, <1>6, <1>7, <1>8, <1>9, <1>10, <1>11, <1>12,
     <1>13, <1>14, <1>15, <1>16, <1>17, <1>18
  DEF Next, Reactor, IdleTick, Terminated

(* The threads, queues and signals together keep the promise of            *)
(* ServerLife: each request is handed to one worker, once, and answered in *)
(* the order of its worker; none is handed over after a signal; when the   *)
(* connections are cut, only the last worker has work left.                *)
THEOREM ServerImplementsLife == Spec => LifeSpec
<1>1. Init => TypeOK /\ SInv /\ LInv
  BY TypeInit, SInvInit, LInvInit
<1>2. TypeOK /\ SInv /\ LInv /\ [Next]_vars => (TypeOK /\ SInv /\ LInv)'
  BY TypeStep, SInvStep, LInvStep
<1> QED BY <1>1, <1>2, LifeInit, LifeStep, PTL DEF Spec, LifeSpec, Life!Spec

=============================================================================
