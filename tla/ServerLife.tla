----------------------------- MODULE ServerLife -----------------------------
(***************************************************************************)
(* What the server promises its clients, with no thread, semaphore, queue  *)
(* bound or descriptor in sight: it starts, serves, drains and stops.      *)
(* While it serves, a request is handed to one worker, once; a worker      *)
(* answers in the order in which it was given its requests.  From the      *)
(* signal on nothing is handed over any more, and what was handed over     *)
(* before is answered before the server stops, the work of the last worker *)
(* excepted.  A request is thrown away only by a server that has stopped.  *)
(***************************************************************************)
EXTENDS Sequences

CONSTANTS Worker, Last, Request

VARIABLES
    phase,      \* "starting", "serving", "draining", "stopped" or "gone"
    taken,      \* requests that were handed over or thrown away
    work        \* per worker: those it has not answered yet, oldest first

vars == <<phase, taken, work>>

Init ==
    /\ phase = "starting" /\ taken = {}
    /\ work = [w \in Worker |-> <<>>]

Serve == phase = "starting" /\ phase' = "serving" /\ UNCHANGED <<taken, work>>

HandOver(r, w) ==
    /\ phase = "serving" /\ r \notin taken
    /\ taken' = taken \cup {r}
    /\ work' = [work EXCEPT ![w] = Append(@, r)]
    /\ UNCHANGED phase

Answer(w) ==
    /\ phase \in {"serving", "draining", "stopped"} /\ work[w] # <<>>
    /\ work' = [work EXCEPT ![w] = Tail(@)]
    /\ UNCHANGED <<phase, taken>>

Drain == phase = "serving" /\ phase' = "draining" /\ UNCHANGED <<taken, work>>

Stop ==
    /\ phase = "draining"
    /\ \A w \in Worker \ {Last} : work[w] = <<>>
    /\ phase' = "stopped" /\ UNCHANGED <<taken, work>>

ThrowAway(r) ==
    /\ phase = "stopped" /\ r \notin taken
    /\ taken' = taken \cup {r}
    /\ UNCHANGED <<phase, work>>

Exit == phase = "stopped" /\ phase' = "gone" /\ UNCHANGED <<taken, work>>

Next ==
    \/ Serve \/ Drain \/ Stop \/ Exit
    \/ \E r \in Request : ThrowAway(r) \/ \E w \in Worker : HandOver(r, w)
    \/ \E w \in Worker : Answer(w)

Spec == Init /\ [][Next]_vars
=============================================================================
