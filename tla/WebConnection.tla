--------------------------- MODULE WebConnection ---------------------------
(***************************************************************************)
(* How the reactor thread cuts the byte stream of a connection into        *)
(* requests: WebConnection::handle_input, isBufferingOfRequestCompleted    *)
(* and the part of the Http parser they use.                               *)
(*                                                                         *)
(* A byte is the number of its request on the connection and its position  *)
(* in it.  A request is a header of HdrLen bytes and a body; in a JSON     *)
(* request byte CTPos of the header ends the Content-Type line and byte    *)
(* CLPos the Content-Length line; the last byte of the header ends the     *)
(* empty line.  What a client sends arrives in segments of any length.     *)
(* recv blocks the reactor thread when a request is only partly there.     *)
(***************************************************************************)
EXTENDS Integers, Sequences, SequencesExt

CONSTANTS
    Conn,           \* the connections
    Requests,       \* what the client of each sends: [json, cl, body]
    HdrLen,         \* length of a header
    MaxRecv,        \* size of scratch_pad (2048)
    Manners,        \* what the clients may do, beyond what a tidy one does
    NoConn

CTPos == HdrLen - 2
CLPos == HdrLen - 1

ASSUME HdrLenAssumption   == HdrLen \in Nat /\ HdrLen > 2
ASSUME MaxRecvAssumption  == MaxRecv \in Nat /\ MaxRecv >= HdrLen
ASSUME RequestsAssumption ==
    Requests \in [Conn -> Seq([json : BOOLEAN, cl : BOOLEAN, body : Nat])]
(* "split": a first segment may end inside the header; "pipeline": a       *)
(* request may follow before the last was read; "reset" of the connection; *)
(* "garble": the text of a Content-Length may be no number.                *)
Manner == {"split", "pipeline", "reset", "garble"}
ASSUME MannersAssumption  == Manners \subseteq [Conn -> SUBSET Manner]
ASSUME NoConnAssumption   == NoConn \notin Conn

Length(c, r) == HdrLen + Requests[c][r].body
Whole(c, r) == [i \in 1..Length(c, r) |-> <<r, i>>]

VARIABLES
    reactor,    \* control point of the reactor thread
    current,    \* the connection whose recv loop it is in
    expected,   \* m_expectedLength
    req,        \* m_req: null, holding data, or released
    buf,        \* what m_req holds
    registered, \* the connections registered for READ
    messages,   \* what was put on the workers' queues
    peer,       \* the client's end
    inbox,      \* received by the host and not yet read
    next,       \* the byte the client sends next
    manners     \* what its client may do

serverVars == <<reactor, current, expected, req, buf, registered, messages>>
clientVars == <<peer, inbox, next, manners>>
vars == <<serverVars, clientVars>>

Byte(c) == UNION {{<<r, i>> : i \in 1..Length(c, r)} : r \in DOMAIN Requests[c]}

TypeOK ==
    /\ reactor \in {"idle", "recv", "spin", "overrun", "crashed"}
    /\ current \in Conn \cup {NoConn}
    /\ reactor \in {"recv", "spin", "overrun"} <=> current # NoConn
    /\ registered \subseteq Conn /\ manners \in Manners
    /\ \A c \in Conn :
          /\ expected[c] \in Int /\ expected[c] >= -1
          /\ req[c] \in {"null", "live", "released"}
          /\ peer[c] \in {"open", "closed", "reset"}
          /\ buf[c] \in Seq(Byte(c)) /\ inbox[c] \in Seq(Byte(c))
          /\ messages[c] \in Seq(Seq(Byte(c)))
          /\ next[c][1] \in 1..(Len(Requests[c]) + 1)
          /\ expected[c] > 0 <=> req[c] = "live"

Init ==
    /\ reactor = "idle" /\ current = NoConn
    /\ expected = [c \in Conn |-> -1]
    /\ req = [c \in Conn |-> "null"] /\ buf = [c \in Conn |-> <<>>]
    /\ registered = Conn
    /\ messages = [c \in Conn |-> <<>>]
    /\ peer = [c \in Conn |-> "open"]
    /\ inbox = [c \in Conn |-> <<>>] /\ next = [c \in Conn |-> <<1, 1>>]
    /\ manners \in Manners

-----------------------------------------------------------------------------
(* The Http parser on the bytes of one read.                               *)

IsJson(c, b) == Requests[c][b[1]].json
AtCT(c, b) == b[2] = CTPos /\ IsJson(c, b)
AtCL(c, b) == b[2] = CLPos /\ IsJson(c, b) /\ Requests[c][b[1]].cl
AtEnd(b) == b[2] = HdrLen
Least(S) == CHOOSE k \in S : \A j \in S : k <= j

(* get_header: of JSON input up to the first empty line, else all of it.   *)
get_header(c, in) ==
    LET ends == {k \in 1..Len(in) : AtEnd(in[k])}
    IN IF (\E k \in 1..Len(in) : AtCT(c, in[k])) /\ ends # {}
       THEN SubSeq(in, 1, Least(ends)) ELSE in

HasJsonLength(c, header) ==
    /\ \E k \in 1..Len(header) : AtCT(c, header[k])
    /\ \E k \in 1..Len(header) : AtCL(c, header[k])
ContentLength(c, header) ==
    LET k == Least({j \in 1..Len(header) : AtCL(c, header[j])})
    IN Requests[c][header[k][1]].body

ExpectedLength_HeaderOnly(c, in) == Len(get_header(c, in))        \* mutant
ExpectedLength(c, in) ==
    LET header == get_header(c, in)
    IN IF HasJsonLength(c, header)
       THEN Len(header) + ContentLength(c, header) ELSE Len(in)

(* What the worker then finds: get_body is empty unless the lengths agree. *)
get_body(c, in) ==
    LET header == get_header(c, in)
    IN IF HasJsonLength(c, header) /\ Len(in) = Len(header) + ContentLength(c, header)
       THEN SubSeq(in, Len(header) + 1, Len(in)) ELSE <<>>

-----------------------------------------------------------------------------
(* The reactor thread.                                                     *)

Shorter(a, b) == IF a < b THEN a ELSE b

(* The rest of handle_input: the message is queued, the buffer released.   *)
Process_KeepLength(c, content) ==                                 \* mutant
    /\ messages' = [messages EXCEPT ![c] = Append(@, content)]
    /\ req' = [req EXCEPT ![c] = "released"]
    /\ expected' = [expected EXCEPT ![c] = Len(content)]
    /\ buf' = [buf EXCEPT ![c] = content]
Process(c, content) ==
    /\ messages' = [messages EXCEPT ![c] = Append(@, content)]
    /\ req' = [req EXCEPT ![c] = "released"]
    /\ expected' = [expected EXCEPT ![c] = -1]
    /\ buf' = [buf EXCEPT ![c] = <<>>]

Readable(c) == inbox[c] # <<>> \/ peer[c] # "open"
Dispatch(c) == reactor = "idle" /\ c \in registered /\ Readable(c)

ReadFirst_Lost(c) ==                                              \* mutant
    /\ Dispatch(c) /\ expected[c] < 0 /\ inbox[c] # <<>>
    /\ LET n == Shorter(MaxRecv, Len(inbox[c]))
           chunk == SubSeq(inbox[c], 1, n)
       IN /\ inbox' = [inbox EXCEPT ![c] = SubSeq(@, n + 1, Len(@))]
          /\ expected' = [expected EXCEPT ![c] = ExpectedLength(c, chunk)]
          /\ req' = [req EXCEPT ![c] = "live"]
          /\ buf' = [buf EXCEPT ![c] = chunk]
          /\ UNCHANGED messages
    /\ UNCHANGED <<reactor, current, registered, peer, next, manners>>
(* A new request: one recv of up to MaxRecv bytes.                         *)
ReadFirst(c) ==
    /\ Dispatch(c) /\ expected[c] < 0 /\ inbox[c] # <<>>
    /\ LET n == Shorter(MaxRecv, Len(inbox[c]))
           chunk == SubSeq(inbox[c], 1, n)
       IN /\ inbox' = [inbox EXCEPT ![c] = SubSeq(@, n + 1, Len(@))]
          /\ IF ExpectedLength(c, chunk) = n
             THEN Process(c, chunk)
             ELSE /\ expected' = [expected EXCEPT ![c] = ExpectedLength(c, chunk)]
                  /\ req' = [req EXCEPT ![c] = "live"]
                  /\ buf' = [buf EXCEPT ![c] = chunk]
                  /\ UNCHANGED messages
    /\ UNCHANGED <<reactor, current, registered, peer, next, manners>>

(* stoi throws on a Content-Length that is no number, and nothing catches  *)
(* it: the process ends.                                                   *)
ReadGarbled(c) ==
    /\ Dispatch(c) /\ expected[c] < 0 /\ inbox[c] # <<>> /\ "garble" \in manners[c]
    /\ LET chunk == SubSeq(inbox[c], 1, Shorter(MaxRecv, Len(inbox[c])))
       IN HasJsonLength(c, get_header(c, chunk))
    /\ reactor' = "crashed"
    /\ UNCHANGED <<current, expected, req, buf, registered, messages, clientVars>>

(* recv returns 0: the handler is removed.                                 *)
ReadEof(c) ==
    /\ Dispatch(c) /\ expected[c] < 0 /\ inbox[c] = <<>> /\ peer[c] = "closed"
    /\ expected' = [expected EXCEPT ![c] = 0]
    /\ registered' = registered \ {c}
    /\ UNCHANGED <<reactor, current, req, buf, messages, clientVars>>

(* recv returns -1, which isBufferingOfRequestCompleted returns as true:   *)
(* handle_input goes on with m_req as it is.                               *)
ReadError(c) ==
    /\ Dispatch(c) /\ expected[c] < 0 /\ inbox[c] = <<>> /\ peer[c] = "reset"
    /\ reactor' = "crashed"
    /\ UNCHANGED <<current, expected, req, buf, registered, messages, clientVars>>

(* The rest of a request: recv in a loop, until all of it is there.  With  *)
(* more than expected in the buffer the remaining length is negative, and  *)
(* the loop writes behind the buffer (a first read that is longer than the *)
(* expected length and 512 bytes has already done so): the model stops in  *)
(* "overrun", where what the program does is undefined.                    *)
EnterLoop(c) ==
    /\ Dispatch(c) /\ expected[c] > 0
    /\ reactor' = IF expected[c] > Len(buf[c]) THEN "recv" ELSE "overrun"
    /\ current' = c
    /\ UNCHANGED <<expected, req, buf, registered, messages, clientVars>>

LoopRecv_Overwrite ==                                             \* mutant
    /\ reactor = "recv" /\ inbox[current] # <<>>
    /\ LET n == Shorter(expected[current] - Len(buf[current]), Len(inbox[current]))
           content == SubSeq(inbox[current], 1, n)
       IN /\ inbox' = [inbox EXCEPT ![current] = SubSeq(@, n + 1, Len(@))]
          /\ IF Len(content) + Len(buf[current]) = expected[current]
             THEN Process(current, content) /\ reactor' = "idle" /\ current' = NoConn
             ELSE /\ buf' = [buf EXCEPT ![current] = content]
                  /\ UNCHANGED <<reactor, current, expected, req, messages>>
    /\ UNCHANGED <<registered, peer, next, manners>>
LoopRecv ==
    /\ reactor = "recv" /\ inbox[current] # <<>>
    /\ LET n == Shorter(expected[current] - Len(buf[current]), Len(inbox[current]))
           content == buf[current] \o SubSeq(inbox[current], 1, n)
       IN /\ inbox' = [inbox EXCEPT ![current] = SubSeq(@, n + 1, Len(@))]
          /\ IF Len(content) = expected[current]
             THEN Process(current, content) /\ reactor' = "idle" /\ current' = NoConn
             ELSE /\ buf' = [buf EXCEPT ![current] = content]
                  /\ UNCHANGED <<reactor, current, expected, req, messages>>
    /\ UNCHANGED <<registered, peer, next, manners>>

(* recv returns 0 for ever, or fails: then the part is processed.          *)
LoopEof ==
    /\ reactor = "recv" /\ inbox[current] = <<>> /\ peer[current] = "closed"
    /\ reactor' = "spin"
    /\ UNCHANGED <<current, expected, req, buf, registered, messages, clientVars>>

LoopError ==
    /\ reactor = "recv" /\ inbox[current] = <<>> /\ peer[current] = "reset"
    /\ Process(current, buf[current])
    /\ reactor' = "idle" /\ current' = NoConn
    /\ UNCHANGED <<registered, clientVars>>

-----------------------------------------------------------------------------
(* The clients.                                                            *)

Sending(c) == next[c][1] <= Len(Requests[c])
MidRequest(c) == next[c][2] > 1

Send(c) ==
    /\ peer[c] = "open" /\ Sending(c)
    /\ LET r == next[c][1]
           i == next[c][2]
       IN \E k \in 1..(Length(c, r) - i + 1) :
          /\ i = 1 => ("pipeline" \in manners[c] \/ Len(messages[c]) = r - 1)
          /\ i = 1 /\ "split" \notin manners[c] =>
                IF Requests[c][r].json /\ Requests[c][r].cl
                THEN k >= HdrLen ELSE k = Length(c, r) /\ k <= MaxRecv
          /\ inbox' = [inbox EXCEPT ![c] = @ \o [j \in 1..k |-> <<r, i + j - 1>>]]
          /\ next' = [next EXCEPT ![c] = IF i + k > Length(c, r)
                                         THEN <<r + 1, 1>> ELSE <<r, i + k>>]
    /\ UNCHANGED <<serverVars, peer, manners>>

Close(c) ==
    /\ peer[c] = "open"
    /\ peer' = [peer EXCEPT ![c] = "closed"]
    /\ UNCHANGED <<serverVars, inbox, next, manners>>

Reset(c) ==
    /\ "reset" \in manners[c] /\ peer[c] = "open"
    /\ peer' = [peer EXCEPT ![c] = "reset"]
    /\ UNCHANGED <<serverVars, inbox, next, manners>>

Serve(c) == ReadFirst(c) \/ ReadGarbled(c) \/ ReadEof(c) \/ ReadError(c) \/ EnterLoop(c)
Loop == LoopRecv \/ LoopEof \/ LoopError

Next == (\E c \in Conn : Serve(c) \/ Send(c) \/ Close(c) \/ Reset(c)) \/ Loop

Spec == Init /\ [][Next]_vars

(* The reactor thread serves every ready connection.  A client finishes    *)
(* the request it has begun, or closes its end.                            *)
FairSpec ==
    /\ Spec
    /\ \A c \in Conn : SF_vars(Serve(c)) /\ WF_vars(MidRequest(c) /\ Send(c))
    /\ WF_vars(Loop)

-----------------------------------------------------------------------------
(* Properties.                                                             *)

(* What the workers get of a connection is what its client sent: request   *)
(* after request, each whole and on its own, however they arrive, and      *)
(* whatever the other clients do; and the worker's parser finds the body   *)
(* the client sent in it.  Holds for a tidy client: one that sends         *)
(* the header of a JSON request, or all of another request, in one segment *)
(* of at most MaxRecv bytes, waits for the request to be read before it    *)
(* sends the next, and does not reset the connection.                      *)
FramingExact ==
    \A c \in Conn : manners[c] = {} =>
       /\ Len(messages[c]) <= Len(Requests[c])
       /\ \A r \in 1..Len(messages[c]) :
             /\ messages[c][r] = Whole(c, r)
             /\ Requests[c][r].json /\ Requests[c][r].cl =>
                   get_body(c, messages[c][r]) = SubSeq(Whole(c, r), HdrLen + 1, Length(c, r))

(* However the bytes arrive and whatever the clients do, none is lost,     *)
(* repeated or moved between the connection and the workers.               *)
Sent(c) ==
    FlattenSeq([r \in 1..(next[c][1] - 1) |-> Whole(c, r)])
    \o [i \in 1..(next[c][2] - 1) |-> <<next[c][1], i>>]
BytesKept ==
    \A c \in Conn : FlattenSeq(messages[c]) \o buf[c] \o inbox[c] = Sent(c)

(* What was sent completely is processed, also while the reactor thread    *)
(* waits for the rest of another request.  Holds when all clients are      *)
(* tidy, unless one closes in the middle of a request, which keeps the     *)
(* thread in its loop for ever.                                            *)
Waiting(c) == Len(messages[c]) < next[c][1] - 1
SentIsProcessed ==
    \A c \in Conn : (Waiting(c) /\ \A d \in Conn : manners[d] = {})
                       ~> (~Waiting(c) \/ reactor = "spin")

(* "Request is buffered now start processing it": what is processed is a   *)
(* request that was received completely.  It does not hold when a header   *)
(* arrives in two segments (README, section 5).                            *)
BufferedBeforeProcessing ==
    \A c \in Conn : \A k \in 1..Len(messages[c]) :
       \E r \in DOMAIN Requests[c] : messages[c][k] = Whole(c, r)

=============================================================================
