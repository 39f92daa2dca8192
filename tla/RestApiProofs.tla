--------------------------- MODULE RestApiProofs ---------------------------
(***************************************************************************)
(* Theorems about RestApi, for every number of workers and every suite of  *)
(* requests.                                                               *)
(***************************************************************************)
EXTENDS RestApi, TLAPS, SequenceTheorems, FiniteSetTheorems

-----------------------------------------------------------------------------
(* The calls that the handlers make.                                       *)

LEMMA Responses ==
    /\ Nothing.status = "none" /\ BadRequest.status = "400"
    /\ NotFound.status = "404" /\ Success.status = "200"
PROOF BY DEF Nothing, BadRequest, NotFound, Success, build_responseOK, build_responseERROR

(* The calls that change documents which are there.                        *)
Writes == {"push", "set", "inc", "delete"}

LEMMA GetCalls ==
    ASSUME NEW r
    PROVE  handle_GET(r).do \in {"find", "nothing", "throw"}
PROOF
  <1>1. handle_shipment_GET(r).do \in {"find", "nothing", "throw"}
    BY DEF handle_shipment_GET, ByAwb, ByAltRef, BySenderRef, DetailedReport, Shipments,
           Reply, Throw, Find, Call
  <1>2. handle_inventory_GET(r).do \in {"find", "nothing", "throw"}
    BY DEF handle_inventory_GET, Reply, Find, Call
  <1>3. handle_document_GET(r).do \in {"find", "nothing", "throw"}
    BY DEF handle_document_GET, Reply, Throw, Call
  <1>4. handle_account_GET(r).do \in {"find", "nothing", "throw"}
    BY DEF handle_account_GET, Reply, Find, Call
  <1>5. Reply(StaticPage(r.uri)).do = "nothing"  BY DEF Reply, Call
  <1>6. handle_GET(r) \in {handle_shipment_GET(r), handle_inventory_GET(r),
                           handle_document_GET(r), handle_account_GET(r),
                           Reply(StaticPage(r.uri))}
    BY Zenon DEF handle_GET
  <1> QED  BY <1>1, <1>2, <1>3, <1>4, <1>5, <1>6

(* A POST inserts or leaves the documents alone; an insertion and a relay  *)
(* that did something are answered with success.                           *)
LEMMA PostCalls ==
    ASSUME NEW r
    PROVE  /\ handle_POST(r).do \in {"insert", "relay", "nothing", "throw"}
           /\ handle_POST(r).do \in {"insert", "relay"} => handle_POST(r).some = Success
PROOF
  <1> DEFINE Good(c) == /\ c.do \in {"insert", "relay", "nothing", "throw"}
                        /\ c.do \in {"insert", "relay"} => c.some = Success
  <1>1. \A coll, none : Good(Create(r, coll, none))
    BY DEF Create, Reply, Throw, Insert, Call
  <1>2. Good(Relay)  BY DEF Relay, Call
  <1>3. Good(handle_config_POST(r))  BY DEF handle_config_POST, Reply, Throw, Call
  <1>4. Good(Reply(Nothing)) /\ Good(Reply(build_responseOK(0)))  BY DEF Reply, Call
  <1>5. handle_POST(r) \in
            {Create(r, "shipping", Nothing), Create(r, "shipping", BadRequest),
             Create(r, "account", Nothing), Create(r, "inventory", Nothing),
             Create(r, "attachment", BadRequest), Relay, handle_config_POST(r),
             Reply(Nothing), Reply(build_responseOK(0))}
    BY Zenon DEF handle_POST
  <1> HIDE DEF Good
  <1>6. Good(handle_POST(r))  BY <1>1, <1>2, <1>3, <1>4, <1>5
  <1> QED  BY <1>6 DEF Good

(* An update of shipments spares the delivered ones and, if the request    *)
(* names an account, those of others; an update of stock does the latter   *)
(* when NamesAccount notices the account.                                  *)
SparesOthers(r, call) ==
    "accountCode" \in DOMAIN call.filter /\ call.filter["accountCode"] \subseteq r.q.accountCode

LEMMA PutCalls ==
    ASSUME NEW r
    PROVE  LET c == handle_PUT(r)
           IN /\ c.do \in {"push", "set", "inc", "nothing", "throw"}
              /\ c.do \in Writes => c.some = Success
              /\ c.do \in {"push", "set"} => /\ c.open = TRUE /\ c.coll = "shipping"
                                             /\ Given(r, {"accountCode"}) => SparesOthers(r, c)
              /\ c.do = "inc" => /\ c.coll = "inventory"
                                 /\ NamesAccount(r) => SparesOthers(r, c)
PROOF
  <1> DEFINE Good(c) ==
              /\ c.do \in {"push", "set", "inc", "nothing", "throw"}
              /\ c.do \in Writes => c.some = Success
              /\ c.do \in {"push", "set"} => /\ c.open = TRUE /\ c.coll = "shipping"
                                             /\ Given(r, {"accountCode"}) => SparesOthers(r, c)
              /\ c.do = "inc" => /\ c.coll = "inventory"
                                 /\ NamesAccount(r) => SparesOthers(r, c)
  <1>1. \A values : One(values) \subseteq values  BY DEF One
  <1>2. Good(handle_shipment_PUT(r))
    <2>1. CASE r.uri # "/api/v1/shipment/shipping"
      BY <2>1 DEF handle_shipment_PUT, Reply, Call, Writes
    <2>2. CASE r.uri = "/api/v1/shipment/shipping"
               /\ (r.body.text # "json" \/ ~Given(r, {"shipmentNo"}))
      BY <2>2 DEF handle_shipment_PUT, Throw, Call, Writes
    <2>3. CASE r.uri = "/api/v1/shipment/shipping"
               /\ ~(r.body.text # "json" \/ ~Given(r, {"shipmentNo"}))
      <3> DEFINE do == IF Given(r, {"isSingleShipment"}) THEN "set" ELSE "push"
                 filter == AndGiven(r, "accountCode", "accountCode", [awbno |-> Awbs(r)])
      <3>1. handle_shipment_PUT(r) = Undelivered(Update(do, "shipping", filter))
        BY <2>3 DEF handle_shipment_PUT
      <3>2. Given(r, {"accountCode"}) =>
               /\ "accountCode" \in DOMAIN filter
               /\ filter["accountCode"] = One(r.q.accountCode)
        BY DEF AndGiven, And
      <3> HIDE DEF filter
      <3>3. handle_shipment_PUT(r) = [do |-> do, coll |-> "shipping", filter |-> filter,
                                      open |-> TRUE, some |-> Success, none |-> BadRequest]
        BY <3>1 DEF Undelivered, Update, Call
      <3> QED  BY <1>1, <3>2, <3>3 DEF SparesOthers, Writes
    <2> QED  BY <2>1, <2>2, <2>3
  <1>3. Good(handle_inventory_PUT(r))
    BY <1>1 DEF handle_inventory_PUT, Update, Reply, Throw, Call, SparesOthers, Writes
  <1>4. Good(handle_account_PUT(r))  BY DEF handle_account_PUT, Reply, Throw, Call, Writes
  <1>5. Good(Reply(BadRequest))  BY DEF Reply, Call, Writes
  <1>6. handle_PUT(r) \in {handle_shipment_PUT(r), handle_inventory_PUT(r),
                           handle_account_PUT(r), Reply(BadRequest)}
    BY Zenon DEF handle_PUT
  <1> HIDE DEF Good
  <1>7. Good(handle_PUT(r))  BY <1>2, <1>3, <1>4, <1>5, <1>6
  <1> QED  BY <1>7 DEF Good

LEMMA DeleteCalls ==
    ASSUME NEW r
    PROVE  /\ handle_DELETE(r).do \in {"delete", "nothing"}
           /\ handle_DELETE(r).do = "delete" => handle_DELETE(r).some = Success
PROOF BY DEF handle_DELETE, Reply, Call

(* The calls of a request.                                                 *)
LEMMA Calls ==
    ASSUME NEW r
    PROVE  LET c == process_request(r)
           IN /\ c.do \in {"find", "insert", "relay", "nothing", "throw"} \cup Writes
              /\ c.do \in {"insert", "relay"} \cup Writes => c.some = Success
              /\ c.do \in {"push", "set"} => /\ c.open = TRUE /\ c.coll = "shipping"
                                             /\ Given(r, {"accountCode"}) => SparesOthers(r, c)
              /\ c.do = "inc" => /\ c.coll = "inventory"
                                 /\ NamesAccount(r) => SparesOthers(r, c)
PROOF
  <1> DEFINE Good(c) ==
              /\ c.do \in {"find", "insert", "relay", "nothing", "throw"} \cup Writes
              /\ c.do \in {"insert", "relay"} \cup Writes => c.some = Success
              /\ c.do \in {"push", "set"} => /\ c.open = TRUE /\ c.coll = "shipping"
                                             /\ Given(r, {"accountCode"}) => SparesOthers(r, c)
              /\ c.do = "inc" => /\ c.coll = "inventory"
                                 /\ NamesAccount(r) => SparesOthers(r, c)
  <1>1. process_request(r) \in {Reply(handle_OPTIONS), handle_GET(r), handle_POST(r),
                                handle_PUT(r), handle_DELETE(r), Reply(Nothing)}
    BY DEF process_request
  <1>2. Good(Reply(handle_OPTIONS)) /\ Good(Reply(Nothing))  BY DEF Reply, Call, Writes
  <1>3. Good(handle_GET(r))  BY GetCalls DEF Writes
  <1>4. Good(handle_POST(r))  BY PostCalls DEF Writes
  <1>5. Good(handle_PUT(r))  BY PutCalls DEF Writes
  <1>6. Good(handle_DELETE(r))  BY DeleteCalls DEF Writes
  <1> HIDE DEF Good
  <1>7. Good(process_request(r))  BY <1>1, <1>2, <1>3, <1>4, <1>5, <1>6
  <1> QED  BY <1>7 DEF Good

-----------------------------------------------------------------------------
(* What a step does to the documents.                                      *)

IsList(s) == \E S : s \in Seq(S)

LEMMA ListIs ==
    ASSUME NEW s, IsList(s)
    PROVE  Len(s) \in Nat /\ DOMAIN s = 1..Len(s) /\ s = [k \in DOMAIN s |-> s[k]]
PROOF
  <1>1. PICK S : s \in Seq(S)  BY DEF IsList
  <1> QED  BY <1>1, LenProperties

LEMMA ListAppend ==
    ASSUME NEW s, NEW e, IsList(s)
    PROVE  /\ IsList(Append(s, e)) /\ Len(Append(s, e)) = Len(s) + 1
           /\ \A i \in 1..Len(s) : Append(s, e)[i] = s[i]
           /\ Append(s, e)[Len(s) + 1] = e
PROOF
  <1>1. PICK S : s \in Seq(S)  BY DEF IsList
  <1>2. s \in Seq(S \cup {e})  BY <1>1, SeqMonotonic
  <1>3. Append(s, e) \in Seq(S \cup {e})  BY <1>2
  <1> QED  BY <1>2, <1>3 DEF IsList

(* What an update makes of a document.                                     *)
LEMMA ChangeIs ==
    ASSUME NEW d, NEW call, NEW r
    PROVE  /\ call.do \notin Writes => Change(d, call, r) = d
           /\ call.do = "delete" => Change(d, call, r) = Deleted
PROOF
  <1>1. ASSUME call.do \notin Writes PROVE Change(d, call, r) = d
    <2>1. call.do # "push" /\ call.do # "set" /\ call.do # "inc" /\ call.do # "delete"
      BY <1>1 DEF Writes
    <2> QED  BY <2>1, Zenon DEF Change
  <1>2. ASSUME call.do = "delete" PROVE Change(d, call, r) = Deleted
    <2>1. call.do # "push" /\ call.do # "set" /\ call.do # "inc"
      BY <1>2
    <2> QED  BY <1>2, <2>1, Zenon DEF Change
  <1> QED  BY <1>1, <1>2

-----------------------------------------------------------------------------
(* Types, as far as the proofs need them.                                  *)

Step == {"idle", "insert", "scan", "connect", "authorize", "create", "send"}

BaseOK ==
    /\ IsList(store)
    /\ suite \in Suites
    /\ pc \in [Worker -> Step]
    /\ req \in [Worker -> suite.requests \cup {NoRequest}]
    /\ \A w \in Worker : pc[w] # "idle" => req[w] \in suite.requests
    /\ seen \in [Worker -> SUBSET Nat]
    /\ cnt \in [Worker -> Nat] /\ done \in [Worker -> Nat]
    /\ DOMAIN answer = Worker

LEMMA FirstStepIs ==
    ASSUME NEW call
    PROVE  /\ FirstStep(call) \in Step \ {"idle"}
           /\ FirstStep(call) = "insert" => call.do = "insert"
           /\ FirstStep(call) = "send" => call.do = "nothing"
           /\ FirstStep(call) = "scan" => call.do # "insert"
           /\ FirstStep(call) \in {"connect", "authorize", "create"} => call.do = "relay"
PROOF
  <1>1. CASE call.do = "insert"
    <2>1. call.do # "nothing" /\ call.do # "relay"  BY <1>1
    <2>2. FirstStep(call) = "insert"  BY <1>1, <2>1, Zenon DEF FirstStep
    <2> QED  BY <1>1, <2>2 DEF Step
  <1>2. CASE call.do = "nothing"
    <2>1. call.do # "insert" /\ call.do # "relay"  BY <1>2
    <2>2. FirstStep(call) = "send"  BY <1>2, <2>1, Zenon DEF FirstStep
    <2> QED  BY <1>2, <2>2 DEF Step
  <1>3. CASE call.do = "relay"
    <2>1. call.do # "insert" /\ call.do # "nothing"  BY <1>3
    <2>2. FirstStep(call) = "connect"  BY <1>3, <2>1, Zenon DEF FirstStep
    <2> QED  BY <1>3, <2>2 DEF Step
  <1>4. CASE call.do # "insert" /\ call.do # "nothing" /\ call.do # "relay"
    <2>1. FirstStep(call) = "scan"  BY <1>4, Zenon DEF FirstStep
    <2> QED  BY <1>4, <2>1 DEF Step
  <1> QED  BY <1>1, <1>2, <1>3, <1>4

(* One document of a call.                                                 *)
LEMMA VisitIs ==
    ASSUME BaseOK, NEW w \in Worker, NEW i \in 1..Len(store), Visit(w, i)
    PROVE  LET c == process_request(req[w])
               d == Change(store[i], c, req[w])
           IN /\ IsList(store') /\ Len(store') = Len(store)
              /\ \A j \in 1..Len(store) : j # i => store'[j] = store[j]
              /\ \/ /\ Matches(store[i], c) /\ store'[i] = d
                    /\ cnt' = [cnt EXCEPT ![w] = cnt[w] + 1]
                    /\ \/ done' = done
                       \/ c.do \in Writes /\ done' = [done EXCEPT ![w] = done[w] + 1]
                 \/ ~Matches(store[i], c) /\ UNCHANGED <<store, cnt, done>>
PROOF
  <1> DEFINE c == process_request(req[w])
             d == Change(store[i], c, req[w])
  <1>0. IsList(store) /\ store = [k \in DOMAIN store |-> store[k]]  BY ListIs DEF BaseOK
  <1>1. CASE Matches(store[i], c)
    <2>1. /\ store' = [store EXCEPT ![i] = d]
          /\ cnt' = [cnt EXCEPT ![w] = cnt[w] + 1]
          /\ done' = IF store' = store THEN done ELSE [done EXCEPT ![w] = done[w] + 1]
      BY <1>1 DEF Visit
    <2>2. store' # store => c.do \in Writes
      <3> SUFFICES ASSUME c.do \notin Writes PROVE store' = store  OBVIOUS
      <3>1. d = store[i]  BY ChangeIs
      <3> HIDE DEF d
      <3> QED  BY <1>0, <2>1, <3>1
    <2> HIDE DEF c, d
    <2>3. /\ IsList(store') /\ Len(store') = Len(store) /\ store'[i] = d
          /\ \A j \in 1..Len(store) : j # i => store'[j] = store[j]
      <3>1. PICK S : store \in Seq(S)  BY <1>0 DEF IsList
      <3>2. store \in Seq(S \cup {d})  BY <3>1, SeqMonotonic
      <3>3. /\ store' \in Seq(S \cup {d}) /\ Len(store') = Len(store)
            /\ \A j \in 1..Len(store) : store'[j] = IF j = i THEN d ELSE store[j]
        BY <2>1, <3>2, ExceptSeq
      <3> QED  BY <3>3 DEF IsList
    <2>4. \/ done' = done
          \/ c.do \in Writes /\ done' = [done EXCEPT ![w] = done[w] + 1]
      BY <2>1, <2>2
    <2> QED  BY <1>1, <2>1, <2>3, <2>4 DEF c, d
  <1>2. CASE ~Matches(store[i], c)
    <2>1. UNCHANGED <<store, cnt, done>>  BY <1>2 DEF Visit
    <2> QED  BY <1>0, <1>2, <2>1
  <1> QED  BY <1>1, <1>2

LEMMA BaseInit == Init => BaseOK
PROOF
  <1> SUFFICES ASSUME Init PROVE BaseOK  OBVIOUS
  <1>1. IsList(store)
    <2>1. store \in Seq({})  BY DEF Init
    <2> QED  BY <2>1 DEF IsList
  <1> QED  BY <1>1 DEF Init, BaseOK, Step

LEMMA BaseKept == BaseOK /\ [Next]_vars => BaseOK'
PROOF
  <1> SUFFICES ASSUME BaseOK, [Next]_vars PROVE BaseOK'  OBVIOUS
  <1> USE DEF BaseOK
  <1>1. ASSUME NEW w \in Worker, NEW r \in suite.requests, Take(w, r)
        PROVE  BaseOK'
    <2>1. FirstStep(process_request(r)) \in Step \ {"idle"}  BY FirstStepIs
    <2> QED  BY <1>1, <2>1 DEF Take, Begin
  <1>2. ASSUME NEW w \in Worker, NEW i \in 1..Len(store), Visit(w, i)  PROVE BaseOK'
    <2>1. i \in Nat  BY ListIs
    <2>2. /\ IsList(store')
          /\ \/ cnt' = [cnt EXCEPT ![w] = cnt[w] + 1]
                /\ (done' = done \/ done' = [done EXCEPT ![w] = done[w] + 1])
             \/ UNCHANGED <<cnt, done>>
      BY <1>2, VisitIs
    <2>c. cnt[w] \in Nat /\ done[w] \in Nat  OBVIOUS
    <2>d. cnt[w] + 1 \in Nat /\ done[w] + 1 \in Nat  BY <2>c
    <2>3. cnt' \in [Worker -> Nat] /\ done' \in [Worker -> Nat]  BY <2>2, <2>d, Zenon
    <2>4. /\ seen' = [seen EXCEPT ![w] = @ \cup {i}]
          /\ UNCHANGED <<suite, pc, req, answer>>
      BY <1>2 DEF Visit
    <2> QED  BY <2>1, <2>2, <2>3, <2>4
  <1>3. ASSUME NEW w \in Worker, InsertNext(w)  PROVE BaseOK'
    <2>1. IsList(store')  BY <1>3, ListAppend DEF InsertNext
    <2> QED  BY <1>3, <2>1 DEF InsertNext, Step
  <1>4. ASSUME NEW w \in Worker, ScanEnd(w)  PROVE BaseOK'
    BY <1>4 DEF ScanEnd, Step, IsList
  <1>5. ASSUME NEW w \in Worker, DatabaseFails(w)  PROVE BaseOK'
    BY <1>5 DEF DatabaseFails, IsList
  <1>6. ASSUME NEW w \in Worker, Send(w)  PROVE BaseOK'
    BY <1>6 DEF Send, Step, IsList
  <1>7. ASSUME NEW w \in Worker, RelayFails(w)  PROVE BaseOK'
    BY <1>7 DEF RelayFails, Step, IsList
  <1>8. ASSUME NEW w \in Worker, Connected(w)  PROVE BaseOK'
    BY <1>8 DEF Connected, Step, IsList
  <1>9. ASSUME NEW w \in Worker, Authorized(w)  PROVE BaseOK'
    BY <1>9 DEF Authorized, Step, IsList
  <1>10. ASSUME NEW w \in Worker, Created(w)  PROVE BaseOK'
    <2>1. done' \in [Worker -> Nat]  BY <1>10 DEF Created
    <2>2. cnt' \in [Worker -> Nat] /\ pc' \in [Worker -> Step]
          /\ \A v \in Worker : pc'[v] # "idle" => pc[v] # "idle"
      BY <1>10 DEF Created, Step
    <2> QED  BY <1>10, <2>1, <2>2 DEF Created, IsList
  <1>11. CASE UNCHANGED vars
    BY <1>11 DEF vars, IsList
  <1> QED
    BY <1>1, <1>2, <1>3, <1>4, <1>5, <1>6, <1>7, <1>8, <1>9, <1>10, <1>11 DEF Next

(* In every state of every suite the store is a list of documents and what *)
(* a worker processes is a request of the suite.                           *)
THEOREM BaseCorrect == Spec => []BaseOK
PROOF BY BaseInit, BaseKept, PTL DEF Spec

-----------------------------------------------------------------------------
(* Delivered shipments, and documents of other accounts.                   *)

LEMMA MatchMeans ==
    ASSUME NEW d, NEW call, Matches(d, call)
    PROVE  /\ d.coll = call.coll
           /\ call.open = TRUE => ~Delivered(d)
           /\ "accountCode" \in DOMAIN call.filter
                 => d.at["accountCode"] \in call.filter["accountCode"]
PROOF BY DEF Matches

(* However the documents change, it is one step of one call.               *)
LEMMA StoreSteps ==
    ASSUME BaseOK, [Next]_vars, NEW i \in 1..Len(store), store'[i] # store[i]
    PROVE  \E w \in Worker : LET c == process_request(req[w])
                             IN /\ Visit(w, i) /\ Matches(store[i], c) /\ c.do \in Writes
                                /\ store'[i] = Change(store[i], c, req[w])
PROOF
  <1>1. ASSUME NEW w \in Worker, InsertNext(w)  PROVE store'[i] = store[i]
    BY <1>1, ListAppend DEF InsertNext, BaseOK
  <1>2. ASSUME store' = store PROVE FALSE  BY <1>2
  <1>3. PICK w \in Worker : \E j \in 1..Len(store) : Visit(w, j)
    BY <1>1, <1>2
       DEF Next, vars, Take, ScanEnd, DatabaseFails, Send, RelayFails, Connected,
           Authorized, Created
  <1>4. PICK j \in 1..Len(store) : Visit(w, j)  BY <1>3
  <1> DEFINE c == process_request(req[w])
  <1>5. j = i /\ Matches(store[i], c) /\ store'[i] = Change(store[i], c, req[w])
    BY <1>4, VisitIs
  <1>6. c.do \in Writes  BY <1>5, ChangeIs
  <1> QED  BY <1>4, <1>5, <1>6

(* No update, of whatever request, changes a shipment that is delivered:   *)
(* both filters of handle_shipment_PUT exclude a proof of delivery, MongoDB *)
(* tests them again for every document it comes to, and no other handler   *)
(* updates shipments.                                                      *)
THEOREM DeliveredStays == Spec => DeliveredIsFinal
PROOF
  <1> DEFINE Final == \A i \in 1..Len(store) :
                 Present(i) /\ store[i].coll = "shipping" /\ Delivered(store[i]) =>
                    store'[i] \in {store[i], Deleted}
  <1>1. BaseOK /\ [Next]_vars => [Final]_vars
    <2> SUFFICES ASSUME BaseOK, [Next]_vars,
                        NEW i \in 1..Len(store), store[i].coll = "shipping",
                        Delivered(store[i]), store'[i] # store[i]
                 PROVE  store'[i] = Deleted
      OBVIOUS
    <2>1. PICK w \in Worker :
             LET c == process_request(req[w])
             IN /\ Matches(store[i], c) /\ c.do \in Writes
                /\ store'[i] = Change(store[i], c, req[w])
      BY StoreSteps
    <2> DEFINE c == process_request(req[w])
    <2>2. c.coll = "shipping" /\ c.open # TRUE  BY <2>1, MatchMeans
    <2>3. c.do = "delete"  BY <2>1, <2>2, Calls DEF Writes
    <2> QED  BY <2>1, <2>3, ChangeIs
  <1> QED  BY <1>1, BaseCorrect, PTL DEF Spec, DeliveredIsFinal

(* A request that names an account changes documents of that account only, *)
(* however many workers there are and whichever way the handler puts the   *)
(* filter together, but for the two ways past it that the code has: the    *)
(* deletion of shipments and a stock update whose account is overlooked.   *)
THEOREM OthersSpared == Spec => OwnDocsOnly
PROOF
  <1> DEFINE Own == \A w \in Worker : \A i \in seen'[w] \ seen[w] :
                 Given(req[w], {"accountCode"}) /\ store'[i] # store[i] =>
                    \/ process_request(req[w]).do = "delete"
                    \/ Overlooked(req[w])
                    \/ store[i].at.accountCode \in req[w].q.accountCode
  <1>1. BaseOK /\ [Next]_vars => [Own]_vars
    <2> SUFFICES ASSUME BaseOK, [Next]_vars,
                        NEW w \in Worker, NEW i \in seen'[w] \ seen[w],
                        Given(req[w], {"accountCode"}), store'[i] # store[i],
                        process_request(req[w]).do # "delete", ~Overlooked(req[w])
                 PROVE  store[i].at.accountCode \in req[w].q.accountCode
      OBVIOUS
    <2>1. PICK v \in Worker : \E j \in 1..Len(store) : Visit(v, j)
      <3>1. ASSUME NEW v \in Worker, NEW r, Take(v, r)  PROVE FALSE
        BY <3>1 DEF Take, BaseOK
      <3>2. ASSUME seen' = seen PROVE FALSE  BY <3>2
      <3> QED  BY <3>1, <3>2
               DEF Next, vars, InsertNext, ScanEnd, DatabaseFails, Send, RelayFails,
                   Connected, Authorized, Created
    <2>2. PICK j \in 1..Len(store) : Visit(v, j)  BY <2>1
    <2>3. v = w /\ j = i  BY <2>2 DEF Visit, BaseOK
    <2> DEFINE c == process_request(req[w])
    <2>4. Matches(store[i], c) /\ store'[i] = Change(store[i], c, req[w])
      BY <2>2, <2>3, VisitIs
    <2>5. c.do \in Writes  BY <2>4, ChangeIs
    <2>6. c.do = "inc" => NamesAccount(req[w])  BY DEF Overlooked
    <2>7. SparesOthers(req[w], c)  BY <2>5, <2>6, Calls DEF Writes
    <2> QED  BY <2>4, <2>7, MatchMeans DEF SparesOthers
  <1> QED  BY <1>1, BaseCorrect, PTL DEF Spec, OwnDocsOnly

-----------------------------------------------------------------------------
(* Answers and effects.                                                    *)

(* How far the request of a worker is, and what it has changed so far.     *)
Progress(w) ==
    LET c == process_request(req[w])
    IN /\ pc[w] = "insert" => c.do = "insert" /\ done[w] = cnt[w]
       /\ pc[w] = "scan" => /\ c.do # "insert" /\ done[w] <= cnt[w]
                            /\ c.do \notin Writes => done[w] = 0
       /\ pc[w] \in {"connect", "authorize", "create"} =>
             c.do = "relay" /\ cnt[w] = 0 /\ done[w] = 0
       /\ pc[w] = "send" => /\ cnt[w] = 0 => done[w] = 0
                            /\ c.do \notin {"insert", "relay"} \cup Writes => done[w] = 0
                            /\ c.do = "insert" => done[w] = Len(req[w].body.docs)
       /\ pc[w] = "idle" /\ req[w] # NoRequest =>
             /\ answer[w].status # "200" => done[w] = 0
             /\ answer[w].status = "200" /\ c.do = "insert"
                => done[w] = Len(req[w].body.docs)

EffectOK == ~crashed => \A w \in Worker : Progress(w)

LEMMA EffectInit == Init => EffectOK
PROOF BY DEF Init, EffectOK, Progress

(* A worker that does not move keeps its progress.                         *)
LEMMA ProgressSame ==
    ASSUME NEW v \in Worker, Progress(v),
           pc'[v] = pc[v], req'[v] = req[v], cnt'[v] = cnt[v], done'[v] = done[v],
           answer'[v] = answer[v]
    PROVE  Progress(v)'
PROOF BY DEF Progress

LEMMA EffectKept == BaseOK /\ EffectOK /\ [Next]_vars => EffectOK'
PROOF
  <1> SUFFICES ASSUME BaseOK, EffectOK, [Next]_vars, ~crashed', NEW v \in Worker
               PROVE  Progress(v)'
    BY DEF EffectOK
  <1>0. CASE UNCHANGED vars
    BY <1>0, ProgressSame DEF vars, EffectOK
  <1>a. ~crashed => Progress(v)  BY DEF EffectOK
  <1> DEFINE c == process_request(req[v])
             Same(w) == w # v => /\ pc'[v] = pc[v] /\ req'[v] = req[v] /\ cnt'[v] = cnt[v]
                                 /\ done'[v] = done[v] /\ answer'[v] = answer[v]
  <1>b. cnt[v] \in Nat /\ done[v] \in Nat  BY DEF BaseOK
  <1>1. ASSUME NEW w \in Worker, NEW r \in suite.requests, Take(w, r)
        PROVE  Progress(v)'
    <2>1. CASE w = v
      <3>1. /\ req'[v] = r /\ pc'[v] = FirstStep(process_request(r))
            /\ cnt'[v] = 0 /\ done'[v] = 0
        BY <1>1, <2>1 DEF Take, Begin, BaseOK
      <3> QED  BY <3>1, FirstStepIs DEF Progress, Writes, Step
    <2>2. CASE w # v
      <3>1. Same(w)  BY <1>1 DEF Take, Begin, BaseOK
      <3> QED  BY <1>1, <1>a, <2>2, <3>1, ProgressSame DEF Take
    <2> QED  BY <2>1, <2>2
  <1>2. ASSUME NEW w \in Worker, NEW i \in 1..Len(store), Visit(w, i)
        PROVE  Progress(v)'
    <2>0. UNCHANGED <<pc, req, answer>> /\ ~crashed /\ pc[w] = "scan"  BY <1>2 DEF Visit
    <2>1. CASE w = v
      <3>1. \/ /\ cnt'[v] = cnt[v] + 1
               /\ \/ done'[v] = done[v]
                  \/ c.do \in Writes /\ done'[v] = done[v] + 1
            \/ cnt'[v] = cnt[v] /\ done'[v] = done[v]
        BY <1>2, <2>1, VisitIs DEF BaseOK
      <3>2. c.do # "insert" /\ done[v] <= cnt[v] /\ (c.do \notin Writes => done[v] = 0)
        BY <1>a, <2>0, <2>1 DEF Progress
      <3>3. done'[v] <= cnt'[v] /\ (c.do \notin Writes => done'[v] = 0)
        BY <1>b, <3>1, <3>2
      <3> QED  BY <2>0, <2>1, <3>2, <3>3 DEF Progress
    <2>2. CASE w # v
      <3>1. Same(w)  BY <1>2, <2>0, VisitIs DEF BaseOK
      <3> QED  BY <1>a, <2>0, <2>2, <3>1, ProgressSame
    <2> QED  BY <2>1, <2>2
  <1>3. ASSUME NEW w \in Worker, InsertNext(w)  PROVE Progress(v)'
    <2>1. CASE w = v
      <3>1. c.do = "insert" /\ done[v] = cnt[v]
        BY <1>3, <1>a, <2>1 DEF InsertNext, Progress
      <3>2. /\ cnt'[v] = cnt[v] + 1 /\ done'[v] = done[v] + 1 /\ req' = req
            /\ \/ pc'[v] = "send" /\ cnt'[v] = Len(req[v].body.docs)
               \/ pc'[v] = "insert"
        BY <1>3, <2>1 DEF InsertNext, BaseOK
      <3>3. done'[v] = cnt'[v] /\ cnt'[v] # 0  BY <1>b, <3>1, <3>2
      <3> QED  BY <3>1, <3>2, <3>3 DEF Progress
    <2>2. CASE w # v
      <3>1. Same(w)  BY <1>3 DEF InsertNext, BaseOK
      <3> QED  BY <1>3, <1>a, <2>2, <3>1, ProgressSame DEF InsertNext
    <2> QED  BY <2>1, <2>2
  <1>4. ASSUME NEW w \in Worker, ScanEnd(w)  PROVE Progress(v)'
    <2>1. CASE w = v
      <3>1. /\ pc[v] = "scan" /\ pc'[v] = "send" /\ req' = req /\ cnt' = cnt
            /\ done' = done /\ ~crashed
        BY <1>4, <2>1 DEF ScanEnd, BaseOK
      <3>2. c.do # "insert" /\ done[v] <= cnt[v] /\ (c.do \notin Writes => done[v] = 0)
        BY <1>a, <3>1 DEF Progress
      <3> QED  BY <1>b, <3>1, <3>2 DEF Progress
    <2>2. CASE w # v
      <3>1. Same(w)  BY <1>4 DEF ScanEnd, BaseOK
      <3> QED  BY <1>4, <1>a, <2>2, <3>1, ProgressSame DEF ScanEnd
    <2> QED  BY <2>1, <2>2
  <1>5. ASSUME NEW w \in Worker, DatabaseFails(w)  PROVE Progress(v)'
    BY <1>5 DEF DatabaseFails
  <1>6. ASSUME NEW w \in Worker, Send(w)  PROVE Progress(v)'
    <2>1. CASE w = v
      <3>1. /\ pc[v] = "send" /\ pc'[v] = "idle" /\ req' = req /\ cnt' = cnt
            /\ done' = done /\ ~crashed /\ answer'[v] = Outcome(v)
        BY <1>6, <2>1 DEF Send, BaseOK
      <3>2. Progress(v)  BY <1>a, <3>1
      <3>3. Outcome(v).status # "200" => done[v] = 0
        <4>1. CASE cnt[v] = 0  BY <3>1, <3>2, <4>1 DEF Progress
        <4>2. CASE cnt[v] # 0
          <5>1. Outcome(v) = c.some  BY <1>b, <4>2 DEF Outcome
          <5>2. c.do \notin {"insert", "relay"} \cup Writes => done[v] = 0
            BY <3>1, <3>2 DEF Progress
          <5>3. c.do \in {"insert", "relay"} \cup Writes => c.some = Success  BY Calls
          <5> HIDE DEF c
          <5> QED  BY <5>1, <5>2, <5>3, Responses
        <4> QED  BY <4>1, <4>2
      <3>4. c.do = "insert" => done[v] = Len(req[v].body.docs)
        BY <3>1, <3>2 DEF Progress
      <3> QED  BY <3>1, <3>3, <3>4 DEF Progress
    <2>2. CASE w # v
      <3>1. Same(w)  BY <1>6 DEF Send, BaseOK
      <3> QED  BY <1>6, <1>a, <2>2, <3>1, ProgressSame DEF Send
    <2> QED  BY <2>1, <2>2
  <1>7. ASSUME NEW w \in Worker, RelayFails(w)  PROVE Progress(v)'
    <2>1. CASE w = v
      <3>1. /\ pc[v] \in {"connect", "authorize", "create"} /\ pc'[v] = "send"
            /\ req' = req /\ cnt' = cnt /\ done' = done /\ ~crashed
        BY <1>7, <2>1 DEF RelayFails, BaseOK
      <3> QED  BY <1>a, <3>1 DEF Progress
    <2>2. CASE w # v
      <3>1. Same(w)  BY <1>7 DEF RelayFails, BaseOK
      <3> QED  BY <1>7, <1>a, <2>2, <3>1, ProgressSame DEF RelayFails
    <2> QED  BY <2>1, <2>2
  <1>8. ASSUME NEW w \in Worker, Connected(w) \/ Authorized(w)  PROVE Progress(v)'
    <2>0. /\ ~crashed /\ UNCHANGED <<req, cnt, done, answer>>
          /\ pc[w] \in {"connect", "authorize"}
          /\ pc' = [pc EXCEPT ![w] = "authorize"] \/ pc' = [pc EXCEPT ![w] = "create"]
      BY <1>8 DEF Connected, Authorized
    <2>1. CASE w = v
      <3>1. pc[v] \in {"connect", "authorize"} /\ pc'[v] \in {"authorize", "create"}
        BY <2>0, <2>1 DEF BaseOK
      <3> QED  BY <1>a, <2>0, <3>1 DEF Progress
    <2>2. CASE w # v
      <3>1. pc'[v] = pc[v]  BY <2>0, <2>2 DEF BaseOK
      <3> QED  BY <1>a, <2>0, <2>2, <3>1, ProgressSame
    <2> QED  BY <2>1, <2>2
  <1>9. ASSUME NEW w \in Worker, Created(w)  PROVE Progress(v)'
    <2>1. CASE w = v
      <3>1. /\ pc[v] = "create" /\ pc'[v] = "send" /\ cnt'[v] = 1
            /\ req' = req /\ ~crashed
        BY <1>9, <2>1 DEF Created, BaseOK
      <3> QED  BY <1>a, <3>1 DEF Progress
    <2>2. CASE w # v
      <3>1. Same(w)  BY <1>9 DEF Created, BaseOK
      <3> QED  BY <1>9, <1>a, <2>2, <3>1, ProgressSame DEF Created
    <2> QED  BY <2>1, <2>2
  <1> QED  BY <1>0, <1>1, <1>2, <1>3, <1>4, <1>5, <1>6, <1>7, <1>8, <1>9 DEF Next

(* A client is told what happened, whatever the requests that run beside   *)
(* its own: as long as no call of the driver throws, a request answered    *)
(* with an error or with nothing has changed no document, and an insertion *)
(* answered with success has inserted all of its documents.                *)
THEOREM AnswersAreTrue == Spec => []AnswerMatchesEffect
PROOF
  <1>1. EffectOK => AnswerMatchesEffect
    BY DEF EffectOK, Progress, AnswerMatchesEffect
  <1>2. Init => BaseOK /\ EffectOK  BY BaseInit, EffectInit
  <1>3. BaseOK /\ EffectOK /\ [Next]_vars => BaseOK' /\ EffectOK'
    BY BaseKept, EffectKept
  <1> QED  BY <1>1, <1>2, <1>3, PTL DEF Spec

-----------------------------------------------------------------------------
(* The types of what is stored, counted and answered.                      *)

Colls == {"shipping", "inventory", "account", "attachment"}
DocOK(d) == DOMAIN d = {"coll", "activity", "qty", "at"} /\ d.coll \in Colls /\ d.qty \in Int

LEMMA ResponsesTyped ==
    /\ Nothing \in Response /\ Success \in Response /\ BadRequest \in Response
    /\ NotFound \in Response /\ handle_OPTIONS \in Response
    /\ build_responseOK(0) \in Response /\ \A uri : StaticPage(uri) \in Response
PROOF
  <1>1. build_responseOK(0) \in Response /\ build_responseOK(1) \in Response
    BY DEF build_responseOK, Response
  <1>2. \A uri : StaticPage(uri) \in {build_responseOK(0), build_responseOK(1)}
    BY Zenon DEF StaticPage
  <1>3. Nothing \in Response /\ BadRequest \in Response /\ NotFound \in Response
        /\ handle_OPTIONS \in Response
    BY DEF Nothing, BadRequest, NotFound, handle_OPTIONS, build_responseERROR, Response
  <1> QED  BY <1>1, <1>2, <1>3 DEF Success

LEMMA CallsTyped ==
    ASSUME NEW r
    PROVE  LET c == process_request(r)
           IN /\ c.some \in Response /\ c.none \in Response
              /\ c.do = "insert" => c.coll \in Colls /\ r.body.docs # <<>>
              /\ c.do = "inc" => "qty" \in DOMAIN r.q
PROOF
  <1> DEFINE Good(c) ==
              /\ c.some \in Response /\ c.none \in Response
              /\ c.do = "insert" => c.coll \in Colls /\ r.body.docs # <<>>
              /\ c.do = "inc" => "qty" \in DOMAIN r.q
  <1> USE ResponsesTyped
  <1>1. \A response \in Response : Good(Reply(response))  BY DEF Reply, Call
  <1>2. Good(Throw) /\ Good(Relay)  BY DEF Throw, Relay, Call
  <1>3. \A coll, filter : \A none \in Response : Good(Find(coll, filter, none))
    BY DEF Find, Call
  <1>4. \A coll \in Colls, none \in Response : Good(Create(r, coll, none))
    BY DEF Create, Reply, Throw, Insert, Call
  <1>5. Good(handle_shipment_PUT(r))
    BY DEF handle_shipment_PUT, Reply, Throw, Undelivered, Update, Call
  <1>6. Good(handle_inventory_PUT(r))
    BY DEF handle_inventory_PUT, Reply, Throw, Update, Call, Given
  <1>7. Good(handle_DELETE(r))  BY DEF handle_DELETE, Reply, Call
  <1>8. Good(handle_document_GET(r))  BY DEF handle_document_GET, Reply, Throw, Call
  <1> HIDE DEF Good
  <1>9. Good(handle_shipment_GET(r))
    BY <1>1, <1>2, <1>3 DEF handle_shipment_GET, ByAwb, ByAltRef, BySenderRef,
                            DetailedReport, Shipments
  <1>10. Good(handle_account_GET(r)) /\ Good(handle_inventory_GET(r))
    BY <1>1, <1>3 DEF handle_account_GET, handle_inventory_GET
  <1>11. Good(handle_account_PUT(r)) /\ Good(handle_config_POST(r))
    BY <1>1, <1>2 DEF handle_account_PUT, handle_config_POST
  <1>12. Good(handle_GET(r))
    <2>1. handle_GET(r) \in {handle_shipment_GET(r), handle_inventory_GET(r),
                             handle_document_GET(r), handle_account_GET(r),
                             Reply(StaticPage(r.uri))}
      BY Zenon DEF handle_GET
    <2> QED  BY <1>1, <1>8, <1>9, <1>10, <2>1
  <1>13. Good(handle_POST(r))
    <2>1. handle_POST(r) \in
            {Create(r, "shipping", Nothing), Create(r, "shipping", BadRequest),
             Create(r, "account", Nothing), Create(r, "inventory", Nothing),
             Create(r, "attachment", BadRequest), Relay, handle_config_POST(r),
             Reply(Nothing), Reply(build_responseOK(0))}
      BY Zenon DEF handle_POST
    <2> QED  BY <1>1, <1>2, <1>4, <1>11, <2>1 DEF Colls
  <1>14. Good(handle_PUT(r))
    <2>1. handle_PUT(r) \in {handle_shipment_PUT(r), handle_inventory_PUT(r),
                             handle_account_PUT(r), Reply(BadRequest)}
      BY Zenon DEF handle_PUT
    <2> QED  BY <1>1, <1>5, <1>6, <1>11, <2>1
  <1>15. process_request(r) \in {Reply(handle_OPTIONS), handle_GET(r), handle_POST(r),
                                handle_PUT(r), handle_DELETE(r), Reply(Nothing)}
    BY DEF process_request
  <1>16. Good(process_request(r))
    BY <1>1, <1>7, <1>12, <1>13, <1>14, <1>15
  <1> QED  BY <1>16 DEF Good

(* An update leaves the fields of a document there, and all but the        *)
(* activity and the quantity alone.                                        *)
LEMMA ChangeTyped ==
    ASSUME NEW d, NEW r, NEW call, DocOK(d),
           call.do = "inc" => "qty" \in DOMAIN r.q,
           "qty" \in DOMAIN r.q => r.q.qty # {} /\ r.q.qty \subseteq Int,
           call.do # "delete"
    PROVE  /\ DocOK(Change(d, call, r))
           /\ Change(d, call, r).coll = d.coll /\ Change(d, call, r).at = d.at
PROOF
  <1> DEFINE e == Change(d, call, r)
             Kept(x) == DocOK(x) /\ x.coll = d.coll /\ x.at = d.at
  <1> SUFFICES Kept(e)  OBVIOUS
  <1>1. ASSUME NEW x PROVE Kept([d EXCEPT !.activity = x])  BY DEF DocOK
  <1>2. ASSUME NEW x \in Int PROVE Kept([d EXCEPT !.qty = x])  BY DEF DocOK
  <1>3. Kept(d)  OBVIOUS
  <1> HIDE DEF Kept
  <1>4. CASE call.do = "push"
    <2>1. e = [d EXCEPT !.activity = Append(d.activity, r.body.event)]
      BY <1>4, Zenon DEF Change
    <2> HIDE DEF e
    <2> QED  BY <1>1, <2>1
  <1>5. CASE call.do = "set"
    <2>1. e = d \/ e = [d EXCEPT !.activity = <<r.body.event>>]
      <3>1. call.do # "push"  BY <1>5
      <3> QED  BY <1>5, <3>1, Zenon DEF Change
    <2> HIDE DEF e
    <2> QED  BY <1>1, <1>3, <2>1
  <1>6. CASE call.do = "inc"
    <2> DEFINE n == CHOOSE x \in r.q.qty : TRUE
    <2>1. n \in Int /\ d.qty \in Int  BY <1>6 DEF DocOK
    <2>2. e = [d EXCEPT !.qty = IF Given(r, {"isUpdate"}) THEN d.qty + n ELSE d.qty - n]
      <3>1. call.do # "push" /\ call.do # "set"  BY <1>6
      <3> QED  BY <1>6, <3>1, Zenon DEF Change
    <2> HIDE DEF e, n
    <2>3. (IF Given(r, {"isUpdate"}) THEN d.qty + n ELSE d.qty - n) \in Int  BY <2>1
    <2> QED  BY <1>2, <2>2, <2>3
  <1>7. CASE call.do \notin Writes
    <2>1. e = d  BY <1>7, ChangeIs
    <2> HIDE DEF e
    <2> QED  BY <1>3, <2>1
  <1> QED  BY <1>4, <1>5, <1>6, <1>7 DEF Writes

(* A scan counts documents it has seen, an insertion those it has stored.  *)
Counted(w) ==
    /\ there[w] \subseteq 1..Len(store) /\ seen[w] \subseteq 1..Len(store)
    /\ cnt[w] <= Len(store) + 1 /\ done[w] <= Len(store) + 1
    /\ pc[w] = "scan" => cnt[w] <= Cardinality(seen[w])
    /\ pc[w] = "insert" => cnt[w] <= Len(store) /\ cnt[w] < Len(req[w].body.docs)
    /\ pc[w] # "idle" => answer[w] = Nothing
DocsOK == \A i \in 1..Len(store) : Present(i) => DocOK(store[i])
TypedInv ==
    /\ DocsOK /\ \A w \in Worker : Counted(w)
    /\ there \in [Worker -> SUBSET Nat] /\ answer \in [Worker -> Response]
    /\ made \in 0..suite.max /\ crashed \in BOOLEAN

LEMMA SeenBound ==
    ASSUME NEW n \in Nat, NEW S, S \subseteq 1..n
    PROVE  /\ IsFiniteSet(S) /\ Cardinality(S) \in Nat /\ Cardinality(S) <= n
           /\ \A i : i \notin S => Cardinality(S \cup {i}) = Cardinality(S) + 1
PROOF
  <1>1. IsFiniteSet(1..n) /\ Cardinality(1..n) = n
    BY FS_Interval
  <1>2. IsFiniteSet(S) /\ Cardinality(S) <= n  BY <1>1, FS_Subset
  <1>3. Cardinality(S) \in Nat  BY <1>2, FS_CardinalityType
  <1>4. ASSUME NEW i, i \notin S PROVE Cardinality(S \cup {i}) = Cardinality(S) + 1
    BY <1>2, <1>4, FS_AddElement
  <1> QED  BY <1>2, <1>3, <1>4

LEMMA CountedSame ==
    ASSUME NEW w, Counted(w), Len(store) \in Nat, Len(store') \in Nat,
           Len(store) <= Len(store'), cnt[w] \in Nat, done[w] \in Nat,
           there'[w] = there[w], seen'[w] = seen[w], cnt'[w] = cnt[w], done'[w] = done[w],
           pc'[w] = pc[w], req'[w] = req[w], answer'[w] = answer[w]
    PROVE  Counted(w)'
PROOF BY DEF Counted

LEMMA TypedInit == Init => TypedInv
PROOF
  <1> SUFFICES ASSUME Init PROVE TypedInv  OBVIOUS
  <1>1. Len(store) = 0  BY DEF Init
  <1>2. Nothing \in Response  BY ResponsesTyped
  <1>3. suite.max \in Nat  BY SuitesAssumption DEF Init
  <1>4. DocsOK  BY <1>1 DEF DocsOK
  <1>5. \A w \in Worker : Counted(w)  BY <1>1 DEF Init, Counted
  <1>6. /\ there \in [Worker -> SUBSET Nat] /\ answer \in [Worker -> Response]
        /\ made \in 0..suite.max /\ crashed \in BOOLEAN
    <2>1. there \in [Worker -> SUBSET Nat]  BY DEF Init
    <2>2. answer \in [Worker -> Response]
      <3>1. answer = [w \in Worker |-> Nothing]  BY DEF Init
      <3> QED  BY <1>2, <3>1
    <2>3. made \in 0..suite.max
      <3>1. made = 0  BY DEF Init
      <3> QED  BY <1>3, <3>1
    <2> QED  BY <2>1, <2>2, <2>3 DEF Init
  <1> QED  BY <1>4, <1>5, <1>6 DEF TypedInv

(* The steps that leave the documents alone.                               *)
LEMMA TypedCalm ==
    ASSUME BaseOK, BaseOK', TypedInv, NEW w \in Worker,
           (\E r \in suite.requests : Take(w, r)) \/ ScanEnd(w) \/ DatabaseFails(w) \/ Send(w)
               \/ RelayFails(w) \/ Connected(w) \/ Authorized(w) \/ Created(w)
    PROVE  TypedInv'
PROOF
  <1> USE DEF TypedInv
  <1>1. store' = store /\ suite' = suite /\ Len(store) \in Nat /\ suite \in Suites
        /\ suite.max \in Nat
    BY ListIs, SuitesAssumption
       DEF BaseOK, Take, ScanEnd, DatabaseFails, Send, RelayFails, Connected, Authorized, Created
  <1>2. DocsOK'  BY <1>1 DEF DocsOK, Present
  <1>3. ASSUME NEW v \in Worker PROVE cnt[v] \in Nat /\ done[v] \in Nat
    BY DEF BaseOK
  <1>4. ASSUME NEW v \in Worker, v # w PROVE Counted(v)'
    <2>1. /\ there'[v] = there[v] /\ seen'[v] = seen[v] /\ cnt'[v] = cnt[v]
          /\ done'[v] = done[v] /\ pc'[v] = pc[v] /\ req'[v] = req[v] /\ answer'[v] = answer[v]
      BY <1>4 DEF BaseOK, Take, Begin, ScanEnd, DatabaseFails, Send, RelayFails, Connected,
                  Authorized, Created
    <2> QED  BY <1>1, <1>3, <2>1, CountedSame
  <1>5. /\ there' \in [Worker -> SUBSET Nat] /\ answer' \in [Worker -> Response]
        /\ made' \in 0..suite'.max /\ crashed' \in BOOLEAN
    <2>1. CASE \E r \in suite.requests : Take(w, r)
      <3>1. PICK r \in suite.requests : Take(w, r)  BY <2>1
      <3>2. {i \in 1..Len(store) : Present(i)} \in SUBSET Nat  BY <1>1
      <3>3. Nothing \in Response  BY ResponsesTyped
      <3>4. made' \in 0..suite'.max /\ crashed' \in BOOLEAN  BY <1>1, <3>1 DEF Take
      <3> QED  BY <3>1, <3>2, <3>3, <3>4 DEF Take, Begin
    <2>2. CASE Send(w)
      <3>1. Outcome(w) \in Response  BY CallsTyped DEF Outcome
      <3> QED  BY <1>1, <2>2, <3>1 DEF Send
    <2>3. CASE ScanEnd(w) \/ DatabaseFails(w) \/ RelayFails(w) \/ Connected(w) \/ Authorized(w)
               \/ Created(w)
      BY <1>1, <2>3 DEF ScanEnd, DatabaseFails, RelayFails, Connected, Authorized, Created
    <2> QED  BY <2>1, <2>2, <2>3
  <1>6. Counted(w)'
    <2>1. ASSUME NEW r \in suite.requests, Take(w, r) PROVE Counted(w)'
      <3>1. /\ req'[w] = r /\ pc'[w] = FirstStep(process_request(r)) /\ cnt'[w] = 0
            /\ done'[w] = 0 /\ answer'[w] = Nothing /\ seen'[w] = {}
            /\ there'[w] = {i \in 1..Len(store) : Present(i)}
        BY <2>1 DEF Take, Begin, BaseOK
      <3>2. pc'[w] = "insert" => 0 < Len(r.body.docs)
        <4> SUFFICES ASSUME pc'[w] = "insert" PROVE 0 < Len(r.body.docs)  OBVIOUS
        <4>1. process_request(r).do = "insert"  BY <3>1, FirstStepIs
        <4>2. r.body.docs # <<>>  BY <4>1, CallsTyped
        <4>3. Len(r.body.docs) \in Nat
              /\ r.body.docs = [k \in 1..Len(r.body.docs) |-> r.body.docs[k]]
          BY <1>1, RequestsAssumption
        <4>4. CASE Len(r.body.docs) = 0
          <5>1. r.body.docs = [k \in 1..0 |-> r.body.docs[k]]  BY <4>3, <4>4
          <5> QED  BY <4>2, <5>1
        <4> QED  BY <4>3, <4>4
      <3>3. Cardinality({}) = 0  BY FS_EmptySet
      <3> QED  BY <1>1, <3>1, <3>2, <3>3 DEF Counted
    <2>2. CASE Send(w)
      BY <1>1, <2>2 DEF Send, Counted, BaseOK
    <2>3. CASE ScanEnd(w) \/ RelayFails(w)
      <3>1. pc[w] # "idle" /\ pc'[w] = "send" /\ store' = store
            /\ UNCHANGED <<req, there, seen, cnt, answer, done>>
        BY <2>3 DEF ScanEnd, RelayFails, BaseOK
      <3> QED  BY <3>1 DEF Counted
    <2>4. CASE DatabaseFails(w)
      BY <1>1, <2>4 DEF DatabaseFails, Counted
    <2>5. CASE Connected(w) \/ Authorized(w)
      <3>1. pc[w] # "idle" /\ pc'[w] \notin {"insert", "scan"} /\ store' = store
            /\ UNCHANGED <<req, there, seen, cnt, answer, done>>
        BY <2>5 DEF Connected, Authorized, BaseOK
      <3> QED  BY <3>1 DEF Counted
    <2>6. CASE Created(w)
      <3>1. /\ pc[w] = "create" /\ pc'[w] \notin {"insert", "scan"} /\ store' = store
            /\ cnt'[w] \in {cnt[w], 1} /\ done'[w] \in {0, 1}
            /\ UNCHANGED <<req, there, seen, answer>>
        BY <2>6 DEF Created, BaseOK
      <3> QED  BY <1>1, <1>3, <3>1 DEF Counted
    <2> QED  BY <2>1, <2>2, <2>3, <2>4, <2>5, <2>6
  <1> QED  BY <1>2, <1>4, <1>5, <1>6

LEMMA TypedInsert ==
    ASSUME BaseOK, BaseOK', EffectOK, TypedInv, NEW w \in Worker, InsertNext(w)
    PROVE  TypedInv'
PROOF
  <1> USE DEF TypedInv
  <1> DEFINE docs == req[w].body.docs
             c == process_request(req[w])
             new == [docs[cnt[w] + 1] EXCEPT !.coll = c.coll]
  <1>1. Progress(w) /\ pc[w] = "insert" /\ req[w] \in suite.requests /\ suite \in Suites
    BY DEF InsertNext, EffectOK, BaseOK
  <1>2. c.do = "insert" /\ done[w] = cnt[w] /\ cnt[w] \in Nat
    BY <1>1 DEF Progress, BaseOK
  <1>3. c.coll \in Colls  BY <1>2, CallsTyped
  <1>4. Len(docs) \in Nat /\ \A k \in 1..Len(docs) :
              DOMAIN docs[k] = {"coll", "activity", "qty", "at"} /\ docs[k].qty \in Int
    BY <1>1, RequestsAssumption
  <1>5. cnt[w] <= Len(store) /\ cnt[w] < Len(docs)  BY <1>1 DEF Counted
  <1>6. IsList(store) /\ Len(store) \in Nat  BY ListIs DEF BaseOK
  <1>7. store' = Append(store, new) /\ cnt' = [cnt EXCEPT ![w] = cnt[w] + 1]
        /\ pc' = (IF cnt'[w] = Len(docs) THEN [pc EXCEPT ![w] = "send"] ELSE pc)
        /\ done' = [done EXCEPT ![w] = done[w] + 1]
        /\ UNCHANGED <<suite, req, there, seen, answer, made, crashed>>
    BY DEF InsertNext
  <1> HIDE DEF c
  <1>8. DocOK(new)
    <2>1. cnt[w] + 1 \in 1..Len(docs)  BY <1>2, <1>4, <1>5
    <2> DEFINE d == docs[cnt[w] + 1]
    <2>2. DOMAIN d = {"coll", "activity", "qty", "at"} /\ d.qty \in Int
      BY <1>4, <2>1
    <2> HIDE DEF d
    <2>3. DocOK([d EXCEPT !.coll = c.coll])  BY <1>3, <2>2 DEF DocOK
    <2> QED  BY <2>3 DEF d
  <1> HIDE DEF docs, new
  <1>9. Len(store') = Len(store) + 1 /\ store'[Len(store) + 1] = new
        /\ \A i \in 1..Len(store) : store'[i] = store[i]
    BY <1>6, <1>7, ListAppend
  <1>10. DocsOK'  BY <1>6, <1>8, <1>9 DEF DocsOK, Present
  <1>11. ASSUME NEW v \in Worker PROVE Counted(v)'
    <2>1. cnt[v] \in Nat /\ done[v] \in Nat  BY DEF BaseOK
    <2>2. CASE v = w
      <3>1. cnt'[w] = cnt[w] + 1 /\ done'[w] = cnt[w] + 1
            /\ pc'[w] \in {"insert", "send"} /\ (pc'[w] = "insert" => cnt'[w] # Len(docs))
        BY <1>1, <1>2, <1>7 DEF BaseOK
      <3>2. cnt'[w] <= Len(store') /\ done'[w] <= Len(store') /\ Len(store') \in Nat
            /\ (pc'[w] = "insert" => cnt'[w] < Len(docs))
        BY <1>2, <1>4, <1>5, <1>6, <1>9, <3>1
      <3>3. there[w] \subseteq 1..Len(store') /\ seen[w] \subseteq 1..Len(store')
        <4>1. there[w] \subseteq 1..Len(store) /\ seen[w] \subseteq 1..Len(store)
          BY DEF Counted
        <4> QED  BY <1>6, <1>9, <4>1
      <3>4. cnt'[w] <= Len(store') + 1 /\ done'[w] <= Len(store') + 1
        BY <1>2, <3>1, <3>2
      <3> QED  BY <1>1, <1>7, <2>2, <3>1, <3>2, <3>3, <3>4 DEF Counted, docs
    <2>3. CASE v # w
      <3>1. cnt'[v] = cnt[v] /\ done'[v] = done[v] /\ pc'[v] = pc[v]
        BY <1>7, <2>3 DEF BaseOK
      <3> QED  BY <1>6, <1>7, <1>9, <2>1, <3>1, CountedSame
    <2> QED  BY <2>2, <2>3
  <1> QED  BY <1>7, <1>10, <1>11

LEMMA TypedVisit ==
    ASSUME BaseOK, BaseOK', EffectOK, EffectOK', TypedInv,
           NEW w \in Worker, NEW i \in 1..Len(store), Visit(w, i)
    PROVE  TypedInv'
PROOF
  <1> USE DEF TypedInv
  <1> DEFINE c == process_request(req[w])
  <1>1. /\ pc[w] = "scan" /\ ~crashed /\ Present(i) /\ i \notin seen[w]
        /\ seen' = [seen EXCEPT ![w] = seen[w] \cup {i}]
        /\ UNCHANGED <<suite, pc, req, there, answer, made, crashed>>
    BY DEF Visit
  <1>2. req[w] \in suite.requests /\ suite \in Suites  BY <1>1 DEF BaseOK
  <1>3. /\ Len(store') = Len(store) /\ Len(store) \in Nat
        /\ \A j \in 1..Len(store) : j # i => store'[j] = store[j]
        /\ store'[i] \in {store[i], Change(store[i], c, req[w])}
        /\ cnt' = [cnt EXCEPT ![w] = cnt[w] + 1] \/ cnt' = cnt
        /\ done' = [done EXCEPT ![w] = done[w] + 1] \/ done' = done
    <2>1. Len(store) \in Nat  BY ListIs DEF BaseOK
    <2>2. /\ Len(store') = Len(store)
          /\ \A j \in 1..Len(store) : j # i => store'[j] = store[j]
          /\ \/ /\ store'[i] = Change(store[i], c, req[w])
                /\ cnt' = [cnt EXCEPT ![w] = cnt[w] + 1]
                /\ done' = done \/ done' = [done EXCEPT ![w] = done[w] + 1]
             \/ UNCHANGED <<store, cnt, done>>
      BY VisitIs
    <2> HIDE DEF c
    <2> QED  BY <2>1, <2>2
  <1>4. DocsOK'
    <2>1. DocOK(store[i])  BY <1>1 DEF DocsOK
    <2>2. store'[i] = Deleted \/ DocOK(store'[i])
      <3>1. CASE c.do = "delete"
        <4>1. Change(store[i], c, req[w]) = Deleted  BY <3>1, ChangeIs
        <4> QED  BY <1>3, <2>1, <4>1
      <3>2. CASE c.do # "delete"
        <4>1. /\ c.do = "inc" => "qty" \in DOMAIN req[w].q
              /\ "qty" \in DOMAIN req[w].q => req[w].q.qty # {} /\ req[w].q.qty \subseteq Int
          BY <1>2, CallsTyped, RequestsAssumption
        <4> HIDE DEF c
        <4>2. DocOK(Change(store[i], c, req[w]))  BY <2>1, <3>2, <4>1, ChangeTyped
        <4> QED  BY <1>3, <2>1, <4>2
      <3> QED  BY <3>1, <3>2
    <2> QED  BY <1>3, <2>2 DEF DocsOK, Present
  <1>5. ASSUME NEW v \in Worker PROVE Counted(v)'
    <2>1. cnt[v] \in Nat /\ done[v] \in Nat  BY DEF BaseOK
    <2>2. CASE v = w
      <3>1. cnt[w] <= Cardinality(seen[w]) /\ seen[w] \subseteq 1..Len(store)
            /\ there[w] \subseteq 1..Len(store)
        BY <1>1 DEF Counted
      <3>2. seen'[w] = seen[w] \cup {i} /\ seen'[w] \subseteq 1..Len(store)
        BY <1>1, <3>1 DEF BaseOK
      <3>3. /\ Cardinality(seen[w]) \in Nat
            /\ Cardinality(seen'[w]) = Cardinality(seen[w]) + 1
            /\ Cardinality(seen'[w]) <= Len(store)
        BY <1>1, <1>3, <3>1, <3>2, SeenBound
      <3>4. cnt'[w] <= cnt[w] + 1 /\ cnt'[w] \in Nat /\ done'[w] \in Nat
        BY <1>3, <2>1, <2>2 DEF BaseOK
      <3>5. done'[w] <= cnt'[w]
        <4>1. Progress(w)'  BY <1>1 DEF EffectOK
        <4> QED  BY <1>1, <4>1 DEF Progress
      <3>6. cnt'[w] <= Cardinality(seen'[w]) /\ cnt'[w] <= Len(store) + 1
            /\ done'[w] <= Len(store) + 1
        BY <1>3, <2>1, <2>2, <3>1, <3>3, <3>4, <3>5
      <3> QED  BY <1>1, <1>3, <2>2, <3>1, <3>2, <3>6 DEF Counted
    <2>3. CASE v # w
      <3>1. cnt'[v] = cnt[v] /\ done'[v] = done[v] /\ seen'[v] = seen[v]
        BY <1>1, <1>3, <2>3 DEF BaseOK
      <3> QED  BY <1>1, <1>3, <2>1, <3>1, CountedSame
    <2> QED  BY <2>2, <2>3
  <1> QED  BY <1>1, <1>4, <1>5

LEMMA TypedKept == BaseOK /\ EffectOK /\ TypedInv /\ [Next]_vars => TypedInv'
PROOF
  <1> SUFFICES ASSUME BaseOK, EffectOK, TypedInv, [Next]_vars PROVE TypedInv'  OBVIOUS
  <1>0. BaseOK' /\ EffectOK'  BY BaseKept, EffectKept
  <1>1. CASE UNCHANGED vars
    BY <1>1 DEF vars, TypedInv, DocsOK, Present, Counted
  <1>2. CASE Next
    <2>1. PICK w \in Worker :
            \/ \E r \in suite.requests : Take(w, r)
            \/ \E i \in 1..Len(store) : Visit(w, i)
            \/ InsertNext(w) \/ ScanEnd(w) \/ DatabaseFails(w) \/ Send(w)
            \/ RelayFails(w) \/ Connected(w) \/ Authorized(w) \/ Created(w)
      BY <1>2 DEF Next
    <2>2. CASE InsertNext(w)  BY <1>0, <2>2, TypedInsert
    <2>3. CASE \E i \in 1..Len(store) : Visit(w, i)  BY <1>0, <2>3, TypedVisit
    <2>4. CASE ~InsertNext(w) /\ ~(\E i \in 1..Len(store) : Visit(w, i))
      BY <1>0, <2>1, <2>4, TypedCalm
    <2> QED  BY <2>2, <2>3, <2>4
  <1> QED  BY <1>1, <1>2

(* Documents keep their shape, and no counter passes the documents there   *)
(* are, whatever the requests of a suite and however they overlap.         *)
THEOREM Typed == Spec => []TypeOK
PROOF
  <1>1. BaseOK /\ EffectOK /\ TypedInv /\ [Next]_vars => TypedInv'  BY TypedKept
  <1>2. BaseOK /\ TypedInv => TypeOK
    <2> SUFFICES ASSUME BaseOK, TypedInv PROVE TypeOK  OBVIOUS
    <2>1. Len(store) \in Nat  BY ListIs DEF BaseOK
    <2>2. \A w \in Worker : cnt[w] \in 0..Len(store) + 1 /\ done[w] \in 0..Len(store) + 1
      BY <2>1 DEF BaseOK, TypedInv, Counted
    <2>3. \A w \in Worker : pc[w] # "idle" => req[w] # NoRequest
      BY NoRequestAssumption DEF BaseOK
    <2>4. \A i \in 1..Len(store) : store[i] # Deleted =>
             store[i].coll \in Colls /\ store[i].qty \in Int
      BY DEF TypedInv, DocsOK, DocOK, Present
    <2> QED
      BY <2>2, <2>3, <2>4 DEF TypeOK, BaseOK, Step, TypedInv, Counted, Colls
  <1>3. Init => BaseOK /\ EffectOK /\ TypedInv  BY BaseInit, EffectInit, TypedInit
  <1>4. BaseOK /\ EffectOK /\ [Next]_vars => BaseOK' /\ EffectOK'
    BY BaseKept, EffectKept
  <1> QED  BY <1>1, <1>2, <1>3, <1>4, PTL DEF Spec

-----------------------------------------------------------------------------
(* What is there is found.                                                 *)

(* A document never changes its collection or the paths that are filtered  *)
(* on, a deleted one never comes back, and a shipment that is delivered    *)
(* stays as it is.                                                         *)
LEMMA Fate ==
    ASSUME BaseOK, TypedInv, [Next]_vars, NEW i \in 1..Len(store), Present(i)'
    PROVE  /\ Present(i) /\ store'[i].coll = store[i].coll /\ store'[i].at = store[i].at
           /\ store[i].coll = "shipping" /\ Delivered(store[i]) => store'[i] = store[i]
PROOF
  <1>1. CASE store'[i] = store[i]  BY <1>1 DEF Present
  <1>2. CASE store'[i] # store[i]
    <2>1. PICK w \in Worker :
             LET c == process_request(req[w])
             IN /\ Visit(w, i) /\ Matches(store[i], c) /\ c.do \in Writes
                /\ store'[i] = Change(store[i], c, req[w])
      BY <1>2, StoreSteps
    <2> DEFINE c == process_request(req[w])
    <2>2. Present(i) /\ pc[w] = "scan"  BY <2>1 DEF Visit
    <2>3. DocOK(store[i])  BY <2>2 DEF TypedInv, DocsOK
    <2>4. c.do # "delete"
      <3> SUFFICES ASSUME c.do = "delete" PROVE FALSE  OBVIOUS
      <3>1. store'[i] = Deleted  BY <2>1, ChangeIs
      <3> QED  BY <3>1 DEF Present
    <2>5. req[w] \in suite.requests /\ suite \in Suites  BY <2>2 DEF BaseOK
    <2>6. /\ c.do = "inc" => "qty" \in DOMAIN req[w].q
          /\ "qty" \in DOMAIN req[w].q => req[w].q.qty # {} /\ req[w].q.qty \subseteq Int
      BY <2>5, CallsTyped, RequestsAssumption
    <2>7. Matches(store[i], c) /\ c.do \in Writes /\ store'[i] = Change(store[i], c, req[w])
      BY <2>1
    <2>8. c.do \in {"push", "set"} => c.open = TRUE /\ c.coll = "shipping"  BY Calls
    <2>9. c.do = "inc" => c.coll = "inventory"  BY Calls
    <2> HIDE DEF c
    <2>10. store'[i].coll = store[i].coll /\ store'[i].at = store[i].at
      BY <2>3, <2>4, <2>6, <2>7, ChangeTyped
    <2>11. ~(store[i].coll = "shipping" /\ Delivered(store[i]))
      BY <2>4, <2>7, <2>8, <2>9 DEF Matches, Writes
    <2> QED  BY <2>2, <2>10, <2>11
  <1> QED  BY <1>1, <1>2

(* What did not match a call does not match it later.                      *)
LEMMA StillUnmatched ==
    ASSUME BaseOK, TypedInv, [Next]_vars, NEW i \in 1..Len(store), Present(i)',
           store'[i].coll = "shipping", NEW w \in Worker,
           Present(i) /\ store[i].coll = "shipping"
               => ~Matches(store[i], process_request(req[w]))
    PROVE  ~Matches(store'[i], process_request(req[w]))
PROOF
  <1> DEFINE c == process_request(req[w])
  <1>1. /\ Present(i) /\ store'[i].coll = store[i].coll /\ store'[i].at = store[i].at
        /\ store[i].coll = "shipping" /\ Delivered(store[i]) => store'[i] = store[i]
    BY Fate
  <1>2. ~Matches(store[i], c)  BY <1>1
  <1> HIDE DEF c
  <1>3. CASE store'[i] = store[i]
    <2>1. Matches(store'[i], c) <=> Matches(store[i], c)  BY <1>3
    <2> QED  BY <1>2, <2>1 DEF c
  <1>4. CASE ~Delivered(store[i])
    <2>1. ~Matches(store'[i], c)  BY <1>1, <1>2, <1>4 DEF Matches
    <2> QED  BY <2>1 DEF c
  <1> QED  BY <1>1, <1>3, <1>4

(* As long as nothing was found, nothing that was looked at matches.       *)
Scans(call) == call.do \in {"find"} \cup Writes
Unmatched(w, S) ==
    \A i \in S : Present(i) /\ store[i].coll = "shipping" =>
        ~Matches(store[i], process_request(req[w]))
Looked(w) ==
    LET c == process_request(req[w])
    IN /\ pc[w] = "scan" /\ cnt[w] = 0 => Unmatched(w, seen[w])
       /\ pc[w] = "send" /\ cnt[w] = 0 /\ Scans(c) => Unmatched(w, there[w])
       /\ pc[w] = "idle" /\ req[w] # NoRequest =>
             /\ answer[w] \in {c.some, c.none}
             /\ answer[w].status # "200" /\ Scans(c) /\ c.some = Success
                => Unmatched(w, there[w])
       /\ req[w] # NoRequest => c.do # "throw"
LookedOK == ~crashed => \A w \in Worker : Looked(w)

LEMMA LookedSame ==
    ASSUME BaseOK, TypedInv, [Next]_vars, NEW w \in Worker, Looked(w),
           req'[w] = req[w], there'[w] = there[w], seen'[w] = seen[w], cnt'[w] = cnt[w],
           pc'[w] = pc[w], answer'[w] = answer[w]
    PROVE  Looked(w)'
PROOF
  <1>1. seen[w] \subseteq 1..Len(store) /\ there[w] \subseteq 1..Len(store)
    BY DEF TypedInv, Counted
  <1>2. Unmatched(w, seen[w]) => Unmatched(w, seen[w])'
    BY <1>1, StillUnmatched DEF Unmatched
  <1>3. Unmatched(w, there[w]) => Unmatched(w, there[w])'
    BY <1>1, StillUnmatched DEF Unmatched
  <1> QED  BY <1>2, <1>3 DEF Looked

LEMMA LookedKept ==
    BaseOK /\ TypedInv /\ EffectOK /\ LookedOK /\ [Next]_vars => LookedOK'
PROOF
  <1> SUFFICES ASSUME BaseOK, TypedInv, EffectOK, LookedOK, [Next]_vars, ~crashed',
                      NEW v \in Worker
               PROVE  Looked(v)'
    BY DEF LookedOK
  <1> DEFINE c == process_request(req[v])
  <1>a. ~crashed => Looked(v) /\ Progress(v)  BY DEF LookedOK, EffectOK
  <1>b. cnt[v] \in Nat /\ seen[v] \subseteq 1..Len(store) /\ there[v] \subseteq 1..Len(store)
    BY DEF BaseOK, TypedInv, Counted
  <1>0. CASE UNCHANGED vars
    BY <1>0, <1>a, LookedSame DEF vars
  <1>1. ASSUME NEW w \in Worker, w # v,
               \/ \E r \in suite.requests : Take(w, r)
               \/ \E i \in 1..Len(store) : Visit(w, i)
               \/ InsertNext(w) \/ ScanEnd(w) \/ DatabaseFails(w) \/ Send(w)
               \/ RelayFails(w) \/ Connected(w) \/ Authorized(w) \/ Created(w)
        PROVE  Looked(v)'
    <2>1. /\ ~crashed /\ req'[v] = req[v] /\ there'[v] = there[v] /\ seen'[v] = seen[v]
          /\ pc'[v] = pc[v] /\ answer'[v] = answer[v] /\ cnt'[v] = cnt[v]
      <3>1. CASE \E i \in 1..Len(store) : Visit(w, i)
        <4>1. PICK i \in 1..Len(store) : Visit(w, i)  BY <3>1
        <4>2. cnt' = [cnt EXCEPT ![w] = cnt[w] + 1] \/ cnt' = cnt  BY <4>1, VisitIs
        <4> QED  BY <1>1, <4>1, <4>2 DEF Visit, BaseOK
      <3>2. CASE \E r \in suite.requests : Take(w, r)
        BY <1>1, <3>2 DEF Take, Begin, BaseOK, TypedInv
      <3>3. CASE InsertNext(w) \/ ScanEnd(w) \/ DatabaseFails(w) \/ Send(w)
                 \/ RelayFails(w) \/ Connected(w) \/ Authorized(w) \/ Created(w)
        BY <1>1, <3>3 DEF InsertNext, ScanEnd, DatabaseFails, Send, RelayFails, Connected,
                          Authorized, Created, BaseOK
      <3> QED  BY <1>1, <3>1, <3>2, <3>3
    <2> QED  BY <1>a, <2>1, LookedSame
  <1>2. ASSUME NEW r \in suite.requests, Take(v, r) PROVE Looked(v)'
    <2>1. /\ req'[v] = r /\ pc'[v] = FirstStep(process_request(r)) /\ seen'[v] = {}
          /\ process_request(r).do # "throw"
      BY <1>2 DEF Take, Begin, BaseOK
    <2>2. pc'[v] # "idle" /\ (pc'[v] = "send" => process_request(r).do = "nothing")
      BY <2>1, FirstStepIs
    <2> QED  BY <2>1, <2>2 DEF Looked, Unmatched, Scans, Writes
  <1>3. ASSUME NEW i \in 1..Len(store), Visit(v, i) PROVE Looked(v)'
    <2>1. ~crashed /\ pc[v] = "scan" /\ seen'[v] = seen[v] \cup {i}
          /\ UNCHANGED <<req, pc, there, answer>>
      BY <1>3 DEF Visit, BaseOK
    <2>2. \/ cnt'[v] = cnt[v] + 1
          \/ ~Matches(store[i], c) /\ store' = store /\ cnt'[v] = cnt[v]
      <3>1. \/ cnt' = [cnt EXCEPT ![v] = cnt[v] + 1]
            \/ ~Matches(store[i], c) /\ UNCHANGED <<store, cnt, done>>
        BY <1>3, VisitIs
      <3> HIDE DEF c
      <3> QED  BY <3>1 DEF BaseOK
    <2>3. cnt'[v] = 0 => Unmatched(v, seen[v])'
      <3> SUFFICES ASSUME cnt'[v] = 0 PROVE Unmatched(v, seen[v])'  OBVIOUS
      <3>1. ~Matches(store[i], c) /\ store' = store /\ cnt[v] = 0  BY <1>b, <2>2
      <3>2. Unmatched(v, seen[v])  BY <1>a, <2>1, <3>1 DEF Looked
      <3> QED  BY <2>1, <3>1, <3>2 DEF Unmatched, Present
    <2> QED  BY <1>a, <2>1, <2>3 DEF Looked
  <1>4. CASE ScanEnd(v)
    <2>1. /\ ~crashed /\ pc[v] = "scan" /\ pc'[v] = "send" /\ store' = store
          /\ \A i \in there[v] : i \in seen[v] \/ ~Present(i)
          /\ UNCHANGED <<req, cnt, there, answer>>
      BY <1>4 DEF ScanEnd, BaseOK
    <2>2. cnt[v] = 0 => Unmatched(v, there[v])
      BY <1>a, <2>1 DEF Looked, Unmatched
    <2>3. Unmatched(v, there[v])' <=> Unmatched(v, there[v])
      BY <2>1 DEF Unmatched, Present
    <2> QED  BY <1>a, <2>1, <2>2, <2>3 DEF Looked
  <1>5. CASE Send(v)
    <2>1. /\ ~crashed /\ pc[v] = "send" /\ pc'[v] = "idle" /\ store' = store
          /\ answer'[v] = Outcome(v) /\ UNCHANGED <<req, cnt, there>>
      BY <1>5 DEF Send, BaseOK
    <2>2. Unmatched(v, there[v])' <=> Unmatched(v, there[v])
      BY <2>1 DEF Unmatched, Present
    <2>3. /\ Outcome(v) \in {c.some, c.none}
          /\ Outcome(v).status # "200" /\ c.some = Success => cnt[v] = 0
      <3>1. Success.status = "200"  BY Responses
      <3>2. cnt[v] # 0 => Outcome(v) = c.some  BY <1>b DEF Outcome
      <3>3. cnt[v] = 0 => Outcome(v) = c.none  BY DEF Outcome
      <3> HIDE DEF c
      <3> QED  BY <3>1, <3>2, <3>3
    <2>4. Looked(v)  BY <1>a, <2>1
    <2> HIDE DEF c
    <2> QED  BY <2>1, <2>2, <2>3, <2>4 DEF Looked, c
  <1>6. CASE InsertNext(v) \/ RelayFails(v) \/ Connected(v) \/ Authorized(v) \/ Created(v)
    <2>1. /\ ~crashed /\ pc[v] \in {"insert", "connect", "authorize", "create"}
          /\ pc'[v] \notin {"scan", "idle"} /\ req' = req
      BY <1>6 DEF InsertNext, RelayFails, Connected, Authorized, Created, BaseOK
    <2>2. c.do \in {"insert", "relay"}  BY <1>a, <2>1 DEF Progress
    <2> QED  BY <1>a, <2>1, <2>2 DEF Looked, Scans, Writes
  <1>7. ~DatabaseFails(v)  BY DEF DatabaseFails
  <1> QED
    BY <1>0, <1>1, <1>2, <1>3, <1>4, <1>5, <1>6, <1>7 DEF Next

(* A shipment with a number has an account.                                *)
AccountKnown ==
    \A i \in 1..Len(store) : Present(i) /\ "awbno" \in DOMAIN store[i].at
        => "accountCode" \in DOMAIN store[i].at

LEMMA AccountKnownKept ==
    ASSUME UpdatesPlain, BaseOK, TypedInv, AccountKnown, [Next]_vars
    PROVE  AccountKnown'
PROOF
  <1>0. Len(store) \in Nat  BY ListIs DEF BaseOK
  <1>1. ASSUME NEW i \in 1..Len(store), Present(i)', "awbno" \in DOMAIN store'[i].at
        PROVE  "accountCode" \in DOMAIN store'[i].at
    BY <1>1, Fate DEF AccountKnown
  <1>2. CASE \E w \in Worker : InsertNext(w)
    <2>1. PICK w \in Worker : InsertNext(w)  BY <1>2
    <2> DEFINE docs == req[w].body.docs
               new == [docs[cnt[w] + 1] EXCEPT !.coll = process_request(req[w]).coll]
    <2>2. store' = Append(store, new)  BY <2>1 DEF InsertNext
    <2>3. req[w] \in suite.requests /\ suite \in Suites /\ cnt[w] \in Nat
          /\ cnt[w] < Len(docs) /\ Len(docs) \in Nat
      BY <2>1, RequestsAssumption DEF InsertNext, BaseOK, TypedInv, Counted
    <2>4. cnt[w] + 1 \in 1..Len(docs)  BY <2>3
    <2>5. DOMAIN docs[cnt[w] + 1] = {"coll", "activity", "qty", "at"}
          /\ ("awbno" \in DOMAIN docs[cnt[w] + 1].at
                => "accountCode" \in DOMAIN docs[cnt[w] + 1].at)
      BY <2>3, <2>4, RequestsAssumption DEF UpdatesPlain
    <2>6. new.at = docs[cnt[w] + 1].at  BY <2>5
    <2> HIDE DEF docs, new
    <2>7. Len(store') = Len(store) + 1 /\ store'[Len(store) + 1] = new
      BY <2>2, ListAppend DEF BaseOK
    <2>8. \A i \in 1..Len(store') : i \in 1..Len(store) \/ i = Len(store) + 1
      BY <1>0, <2>7
    <2> QED  BY <1>1, <2>5, <2>6, <2>7, <2>8 DEF AccountKnown
  <1>3. CASE ~\E w \in Worker : InsertNext(w)
    <2>1. Len(store') = Len(store)
      <3>1. ASSUME NEW w \in Worker, NEW i \in 1..Len(store), Visit(w, i)
            PROVE  Len(store') = Len(store)
        BY <3>1, VisitIs
      <3> QED
        BY <1>3, <3>1 DEF Next, vars, Take, ScanEnd, DatabaseFails, Send, RelayFails,
                          Connected, Authorized, Created
    <2> QED  BY <1>1, <2>1 DEF AccountKnown
  <1> QED  BY <1>2, <1>3

(* The call of a GET by number and that of a PUT, and what they match.     *)
LEMMA GetByNumber ==
    ASSUME NEW r, r.method = "GET", r.uri = "/api/v1/shipment/shipping", Given(r, {"awbNo"})
    PROVE  LET c == process_request(r)
           IN \/ c.do = "throw"
              \/ c.some.status = "200" /\ c.none.status = "200"
              \/ Scans(c) /\ c.some = Success /\
                 \A d : d.coll = "shipping" /\ "awbno" \in DOMAIN d.at
                        /\ d.at.awbno \in r.q.awbNo => Matches(d, c)
PROOF
  <1> DEFINE filter == [awbno |-> r.q.awbNo]
             call == [do |-> "find", coll |-> "shipping", filter |-> filter, open |-> FALSE,
                      some |-> Success, none |-> BadRequest]
  <1>1. process_request(r) = Reply(handle_OPTIONS) \/ process_request(r) = handle_GET(r)
    BY DEF process_request
  <1>2. handle_GET(r) = handle_shipment_GET(r)
    BY Zenon DEF handle_GET, ShipmentUri
  <1>3. handle_shipment_GET(r) = ByAwb(r)  BY DEF handle_shipment_GET
  <1>4. ByAwb(r) = Throw \/ ByAwb(r) = call
    BY Zenon DEF ByAwb, Shipments, Find, Call
  <1>5. Throw.do = "throw"  BY DEF Throw, Call
  <1>6. Reply(handle_OPTIONS).some.status = "200" /\ Reply(handle_OPTIONS).none.status = "200"
    BY DEF Reply, Call, handle_OPTIONS
  <1>7. Scans(call) /\ call.some = Success  BY DEF Scans
  <1>8. ASSUME NEW d, d.coll = "shipping", "awbno" \in DOMAIN d.at, d.at.awbno \in r.q.awbNo
        PROVE  Matches(d, call)
    <2>1. DOMAIN filter = {"awbno"} /\ filter["awbno"] = r.q.awbNo  OBVIOUS
    <2> HIDE DEF filter
    <2>2. call.coll = "shipping" /\ call.filter = filter /\ call.open = FALSE  OBVIOUS
    <2> HIDE DEF call
    <2> QED  BY <1>8, <2>1, <2>2 DEF Matches
  <1> HIDE DEF call
  <1>9. \/ process_request(r) = Reply(handle_OPTIONS) \/ process_request(r) = Throw
        \/ process_request(r) = call
    BY <1>1, <1>2, <1>3, <1>4
  <1> QED  BY <1>5, <1>6, <1>7, <1>8, <1>9, Zenon

LEMMA PutOfNumber ==
    ASSUME NEW r, r.method = "PUT", r.uri = "/api/v1/shipment/shipping", r.words = {},
           Given(r, {"isSingleShipment"}) => One(r.q.shipmentNo) = r.q.shipmentNo,
           Given(r, {"accountCode"}) => One(r.q.accountCode) = r.q.accountCode
    PROVE  LET c == process_request(r)
           IN \/ c.do = "throw"
              \/ Scans(c) /\ c.some = Success /\
                 \A d : /\ d.coll = "shipping" /\ ~Delivered(d)
                        /\ "awbno" \in DOMAIN d.at /\ "accountCode" \in DOMAIN d.at
                        /\ d.at.awbno \in r.q.shipmentNo
                        /\ Given(r, {"accountCode"}) => d.at.accountCode \in r.q.accountCode
                        => Matches(d, c)
PROOF
  <1> DEFINE do == IF Given(r, {"isSingleShipment"}) THEN "set" ELSE "push"
             filter == AndGiven(r, "accountCode", "accountCode", [awbno |-> Awbs(r)])
             call == [do |-> do, coll |-> "shipping", filter |-> filter,
                      open |-> TRUE, some |-> Success, none |-> BadRequest]
  <1>1. process_request(r) = handle_PUT(r)  BY DEF process_request
  <1>2. handle_PUT(r) = handle_shipment_PUT(r)
    BY Zenon DEF handle_PUT, ShipmentUri
  <1>3. handle_shipment_PUT(r) = Throw \/ handle_shipment_PUT(r) = call
    <2>1. handle_shipment_PUT(r) = Throw
          \/ handle_shipment_PUT(r) = Undelivered(Update(do, "shipping", filter))
      BY Zenon DEF handle_shipment_PUT
    <2> HIDE DEF filter, do
    <2> QED  BY <2>1 DEF Undelivered, Update, Call
  <1>4. Throw.do = "throw"  BY DEF Throw, Call
  <1>5. Awbs(r) = r.q.shipmentNo  BY DEF Awbs
  <1>6. /\ DOMAIN filter \subseteq {"awbno", "accountCode"}
        /\ filter["awbno"] = r.q.shipmentNo
        /\ "accountCode" \in DOMAIN filter =>
              Given(r, {"accountCode"}) /\ filter["accountCode"] = r.q.accountCode
    <2>1. CASE Given(r, {"accountCode"})  BY <1>5, <2>1 DEF AndGiven, And
    <2>2. CASE ~Given(r, {"accountCode"})
      <3>1. filter = [awbno |-> r.q.shipmentNo]  BY <1>5, <2>2 DEF AndGiven
      <3> HIDE DEF filter
      <3> QED  BY <3>1
    <2> QED  BY <2>1, <2>2
  <1> HIDE DEF filter
  <1>7. Scans(call) /\ call.some = Success  BY DEF Scans, Writes
  <1>8. ASSUME NEW d, d.coll = "shipping", ~Delivered(d),
               "awbno" \in DOMAIN d.at, "accountCode" \in DOMAIN d.at,
               d.at.awbno \in r.q.shipmentNo,
               Given(r, {"accountCode"}) => d.at.accountCode \in r.q.accountCode
        PROVE  Matches(d, call)
    <2>1. call.coll = "shipping" /\ call.filter = filter  OBVIOUS
    <2> HIDE DEF call
    <2> QED  BY <1>6, <1>8, <2>1 DEF Matches
  <1> HIDE DEF call
  <1>9. process_request(r) = Throw \/ process_request(r) = call
    BY <1>1, <1>2, <1>3
  <1> QED  BY <1>4, <1>7, <1>8, <1>9, Zenon

(* The handlers agree on how a shipment is named: one that is there during *)
(* the whole of a GET by number or of an update is found by it, whatever   *)
(* is inserted, updated or deleted meanwhile.                              *)
THEOREM ThereIsFound ==
    ASSUME UpdatesPlain
    PROVE  Spec => []FoundIfThere
PROOF
  <1> DEFINE Inv == BaseOK /\ EffectOK /\ TypedInv /\ LookedOK /\ AccountKnown
  <1>1. Inv => FoundIfThere
    <2> SUFFICES ASSUME Inv, NEW w \in Worker, NEW i \in there[w], Present(i),
                        store[i].coll = "shipping", "awbno" \in DOMAIN store[i].at
                 PROVE  /\ Answered(w, "GET", "/api/v1/shipment/shipping")
                           /\ Given(req[w], {"awbNo"})
                           /\ store[i].at.awbno \in req[w].q.awbNo
                           => answer[w].status = "200"
                        /\ Answered(w, "PUT", "/api/v1/shipment/shipping")
                           /\ store[i].at.awbno \in req[w].q.shipmentNo
                           /\ ~Delivered(store[i])
                           /\ (Given(req[w], {"accountCode"}) =>
                                  store[i].at.accountCode \in req[w].q.accountCode)
                           => answer[w].status = "200"
      BY DEF FoundIfThere
    <2> DEFINE c == process_request(req[w])
    <2>1. "accountCode" \in DOMAIN store[i].at
      BY DEF AccountKnown, TypedInv, Counted
    <2>2. ASSUME NEW m, NEW u, Answered(w, m, u)
          PROVE  /\ req[w].method = m /\ req[w].uri = u
                 /\ req[w] \in suite.requests /\ suite \in Suites
                 /\ answer[w] \in {c.some, c.none} /\ c.do # "throw"
                 /\ answer[w].status # "200" /\ Scans(c) /\ c.some = Success
                      => ~Matches(store[i], c)
      BY <2>2 DEF Answered, LookedOK, Looked, Unmatched, BaseOK
    <2>3. ASSUME Answered(w, "GET", "/api/v1/shipment/shipping"), Given(req[w], {"awbNo"}),
                 store[i].at.awbno \in req[w].q.awbNo
          PROVE  answer[w].status = "200"
      <3>1. \/ c.some.status = "200" /\ c.none.status = "200"
            \/ Scans(c) /\ c.some = Success /\ Matches(store[i], c)
        BY <2>2, <2>3, GetByNumber
      <3> HIDE DEF c
      <3> QED  BY <2>2, <2>3, <3>1
    <2>4. ASSUME Answered(w, "PUT", "/api/v1/shipment/shipping"),
                 store[i].at.awbno \in req[w].q.shipmentNo, ~Delivered(store[i]),
                 Given(req[w], {"accountCode"}) =>
                    store[i].at.accountCode \in req[w].q.accountCode
          PROVE  answer[w].status = "200"
      <3>1. Scans(c) /\ c.some = Success /\ Matches(store[i], c)
        BY <2>1, <2>2, <2>4, PutOfNumber DEF UpdatesPlain
      <3> HIDE DEF c
      <3> QED  BY <2>2, <2>4, <3>1
    <2> QED  BY <2>3, <2>4
  <1>2. Init => Inv
    <2>1. Init => LookedOK /\ AccountKnown
      BY DEF Init, LookedOK, Looked, AccountKnown
    <2> QED  BY <2>1, BaseInit, EffectInit, TypedInit
  <1>3. Inv /\ [Next]_vars => Inv'
    BY BaseKept, EffectKept, LookedKept, AccountKnownKept, TypedKept
  <1> QED  BY <1>1, <1>2, <1>3, PTL DEF Spec

-----------------------------------------------------------------------------
(* The stock.                                                              *)

(* t is what the numbers P[w] of all workers sum up to: there is a measure *)
(* g of sets of workers to which each contributes its number, and nothing  *)
(* where all of them are 0.                                                *)
Total(P, t) ==
    \E g \in [SUBSET Worker -> Int] :
        /\ \A S \in SUBSET Worker : (\A w \in S : P[w] = 0) => g[S] = 0
        /\ \A S \in SUBSET Worker, w \in Worker : w \in S => g[S] = g[S \ {w}] + P[w]
        /\ t = g[Worker]

LEMMA TotalZero ==
    ASSUME NEW P, NEW t, \A w \in Worker : P[w] = 0
    PROVE  (Total(P, t) => t = 0) /\ Total(P, 0)
PROOF
  <1>1. Total(P, t) => t = 0  BY DEF Total
  <1>2. Total(P, 0)
    <2> DEFINE g == [S \in SUBSET Worker |-> 0]
    <2>1. g \in [SUBSET Worker -> Int] /\ \A S \in SUBSET Worker : g[S] = 0  OBVIOUS
    <2>2. \A S \in SUBSET Worker, w \in Worker : S \ {w} \in SUBSET Worker  OBVIOUS
    <2> HIDE DEF g
    <2> QED  BY <2>1, <2>2 DEF Total
  <1> QED  BY <1>1, <1>2

LEMMA TotalChange ==
    ASSUME NEW P \in [Worker -> Int], NEW t, Total(P, t), NEW v \in Worker, NEW d \in Int
    PROVE  Total([P EXCEPT ![v] = P[v] + d], t + d)
PROOF
  <1>1. PICK g \in [SUBSET Worker -> Int] :
            /\ \A S \in SUBSET Worker : (\A w \in S : P[w] = 0) => g[S] = 0
            /\ \A S \in SUBSET Worker, w \in Worker : w \in S => g[S] = g[S \ {w}] + P[w]
            /\ t = g[Worker]
    BY DEF Total
  <1> DEFINE Q == [P EXCEPT ![v] = P[v] + d]
             h == [S \in SUBSET Worker |-> IF v \in S THEN g[S] + d ELSE g[S]]
  <1>2. /\ h \in [SUBSET Worker -> Int]
        /\ \A S \in SUBSET Worker : h[S] = IF v \in S THEN g[S] + d ELSE g[S]
        /\ \A w \in Worker : Q[w] = (IF w = v THEN P[v] + d ELSE P[w]) /\ P[w] \in Int
        /\ \A S \in SUBSET Worker : g[S] \in Int
    OBVIOUS
  <1> HIDE DEF Q, h
  <1>3. ASSUME NEW S \in SUBSET Worker, \A w \in S : Q[w] = 0 PROVE h[S] = 0
    <2>1. CASE v \notin S
      <3>1. \A w \in S : P[w] = 0  BY <1>2, <1>3, <2>1
      <3> QED  BY <1>1, <1>2, <2>1, <3>1
    <2>2. CASE v \in S
      <3>1. S \ {v} \in SUBSET Worker /\ \A w \in S \ {v} : P[w] = 0  BY <1>2, <1>3
      <3>2. g[S \ {v}] = 0 /\ g[S] = g[S \ {v}] + P[v]  BY <1>1, <2>2, <3>1
      <3>3. P[v] + d = 0 /\ P[v] \in Int  BY <1>2, <1>3, <2>2
      <3>4. h[S] = g[S] + d  BY <1>2, <2>2
      <3> QED  BY <3>2, <3>3, <3>4
    <2> QED  BY <2>1, <2>2
  <1>4. ASSUME NEW S \in SUBSET Worker, NEW w \in Worker, w \in S
        PROVE  h[S] = h[S \ {w}] + Q[w]
    <2>1. S \ {w} \in SUBSET Worker  OBVIOUS
    <2>2. g[S] = g[S \ {w}] + P[w] /\ g[S] \in Int /\ g[S \ {w}] \in Int /\ P[w] \in Int
      BY <1>1, <1>2, <1>4, <2>1
    <2>3. CASE w = v
      <3>1. h[S] = g[S] + d /\ h[S \ {w}] = g[S \ {w}] /\ Q[w] = P[w] + d
        BY <1>2, <1>4, <2>1, <2>3
      <3> QED  BY <2>2, <3>1
    <2>4. CASE w # v /\ v \in S
      <3>1. h[S] = g[S] + d /\ h[S \ {w}] = g[S \ {w}] + d /\ Q[w] = P[w]
        BY <1>2, <2>1, <2>4
      <3> QED  BY <2>2, <3>1
    <2>5. CASE w # v /\ v \notin S
      <3>1. h[S] = g[S] /\ h[S \ {w}] = g[S \ {w}] /\ Q[w] = P[w]
        BY <1>2, <2>1, <2>5
      <3> QED  BY <2>2, <3>1
    <2> QED  BY <2>3, <2>4, <2>5
  <1>5. h[Worker] = t + d  BY <1>1, <1>2
  <1>6. Total(Q, t + d)
    <2>1. \A S \in SUBSET Worker, w \in Worker : w \in S => h[S] = h[S \ {w}] + Q[w]
      BY <1>4
    <2> QED  BY <1>2, <1>3, <1>5, <2>1 DEF Total
  <1> QED  BY <1>6 DEF Q

Inventory == "/api/v1/inventory"

(* The mark of a deleted document is not a document.                       *)
DeletedIsNone == \A d : DocOK(d) => d # Deleted

Delta(r) ==
    IF Given(r, {"isUpdate"}) THEN CHOOSE n \in r.q.qty : TRUE
    ELSE -(CHOOSE n \in r.q.qty : TRUE)
Creates(r) == process_request(r).do = "insert" /\ process_request(r).coll = "inventory"
Adjusts(r) == process_request(r).do = "inc"

LEMMA StockCalls ==
    ASSUME NEW r, r.uri = Inventory => r.words = {}
    PROVE  LET c == process_request(r)
           IN /\ Creates(r) => r.method = "POST" /\ r.uri = Inventory /\ c.some = Success
              /\ Adjusts(r) => /\ r.method = "PUT" /\ r.uri = Inventory /\ c.some = Success
                               /\ "sku" \in DOMAIN r.q /\ "qty" \in DOMAIN r.q
                               /\ "sku" \in DOMAIN c.filter /\ c.filter["sku"] = One(r.q.sku)
              /\ c.do = "delete" => c.coll = "shipping"
              /\ r.uri = Inventory /\ r.method \in {"POST", "PUT"} =>
                    /\ c.none.status # "200"
                    /\ Creates(r) \/ Adjusts(r) \/ c.some.status # "200" \/ c.do = "throw"
PROOF
  <1> USE Responses DEF Inventory
  <1> DEFINE c == process_request(r)
             Other(x) == /\ ~(x.do = "insert" /\ x.coll = "inventory") /\ x.do # "inc"
                         /\ x.do = "delete" => x.coll = "shipping"
  <1>0. \A x : Other(Reply(x))  BY DEF Reply, Call
  <1>1. Other(handle_GET(r))  BY GetCalls
  <1>2. Other(handle_DELETE(r))  BY DEF handle_DELETE, Reply, Call
  <1>3. ASSUME r.uri # Inventory PROVE Other(handle_POST(r)) /\ Other(handle_PUT(r))
    <2>1. /\ Other(Create(r, "shipping", Nothing)) /\ Other(Create(r, "shipping", BadRequest))
          /\ Other(Create(r, "account", Nothing)) /\ Other(Create(r, "attachment", BadRequest))
          /\ Other(Relay) /\ Other(handle_config_POST(r))
      BY DEF Create, handle_config_POST, Relay, Insert, Reply, Throw, Call
    <2>2. handle_POST(r) \in
            {Create(r, "shipping", Nothing), Create(r, "shipping", BadRequest),
             Create(r, "account", Nothing), Create(r, "attachment", BadRequest),
             Relay, handle_config_POST(r), Reply(Nothing), Reply(build_responseOK(0))}
      BY <1>3, Zenon DEF handle_POST
    <2>3. Other(handle_shipment_PUT(r)) /\ Other(handle_account_PUT(r))
      BY DEF handle_shipment_PUT, handle_account_PUT, Reply, Throw, Undelivered, Update, Call
    <2>4. handle_PUT(r) \in {handle_shipment_PUT(r), handle_account_PUT(r), Reply(BadRequest)}
      BY <1>3, Zenon DEF handle_PUT
    <2> HIDE DEF Other
    <2> QED  BY <1>0, <2>1, <2>2, <2>3, <2>4
  <1>4. CASE r.uri # Inventory
    <2>1. c \in {Reply(handle_OPTIONS), handle_GET(r), handle_POST(r),
                 handle_PUT(r), handle_DELETE(r), Reply(Nothing)}
      BY DEF process_request
    <2> HIDE DEF Other, c
    <2>2. Other(c)  BY <1>0, <1>1, <1>2, <1>3, <1>4, <2>1
    <2> QED  BY <1>4, <2>2 DEF Other, Creates, Adjusts, c
  <1>5. CASE r.uri = Inventory /\ r.method \notin {"POST", "PUT"}
    <2>1. c \in {Reply(handle_OPTIONS), handle_GET(r), handle_DELETE(r), Reply(Nothing)}
      BY <1>5 DEF process_request
    <2> HIDE DEF Other, c
    <2>2. Other(c)  BY <1>0, <1>1, <1>2, <2>1
    <2> QED  BY <1>5, <2>2 DEF Other, Creates, Adjusts, c
  <1>6. CASE r.uri = Inventory /\ r.method = "POST"
    <2>1. c = handle_POST(r)  BY <1>6 DEF process_request
    <2>2. /\ r.uri # "/api/v1/shipment/shipping" /\ r.uri # "/api/v1/shipment/bulk/shipping"
          /\ r.uri # "/api/v1/account/account" /\ r.uri # "/api/v1/document"
          /\ r.uri # "/api/v1/shipment/thirdparty/ajoul"
          /\ r.uri \notin ConfigUri /\ r.uri \notin PrefixOnly
          /\ r.uri = "/api/v1/inventory"
      BY <1>6 DEF ConfigUri, PrefixOnly
    <2>6. handle_POST(r) = Create(r, "inventory", Nothing)
      BY <2>2, Zenon DEF handle_POST
    <2>3. c = Create(r, "inventory", Nothing)  BY <2>1, <2>6
    <2> HIDE DEF c
    <2>4. \/ c = Reply(Nothing) \/ c = Throw \/ c = Insert("inventory", Nothing)
      BY <2>3, Zenon DEF Create
    <2>5. /\ c.none.status # "200" /\ c.do \in {"nothing", "throw", "insert"}
          /\ c.do = "nothing" => c.some.status # "200"
          /\ c.do = "insert" => c.coll = "inventory" /\ c.some = Success
      <3>1. CASE c = Reply(Nothing)  BY <3>1 DEF Reply, Call
      <3>2. CASE c = Throw  BY <3>2 DEF Throw, Call
      <3>3. CASE c = Insert("inventory", Nothing)  BY <3>3 DEF Insert, Call
      <3> QED  BY <2>4, <3>1, <3>2, <3>3
    <2> QED  BY <1>6, <2>5 DEF Creates, Adjusts, c
  <1>7. CASE r.uri = Inventory /\ r.method = "PUT"
    <2>1. c = handle_PUT(r)  BY <1>7 DEF process_request
    <2>2. handle_PUT(r) = handle_inventory_PUT(r)
      BY <1>7, Zenon DEF handle_PUT, ShipmentUri
    <2>3. c = handle_inventory_PUT(r)  BY <2>1, <2>2
    <2> HIDE DEF c
    <2> DEFINE f == [sku |-> One(r.q.sku), accountCode |-> One(r.q.accountCode)]
               g == [sku |-> One(r.q.sku)]
    <2>4. \/ c = Throw
          \/ /\ Given(r, {"sku", "qty"})
             /\ c = Update("inc", "inventory", f) \/ c = Update("inc", "inventory", g)
      BY <1>7, <2>3, Zenon DEF handle_inventory_PUT
    <2>5. /\ "sku" \in DOMAIN f /\ f["sku"] = One(r.q.sku)
          /\ "sku" \in DOMAIN g /\ g["sku"] = One(r.q.sku)
      OBVIOUS
    <2> HIDE DEF f, g
    <2>6. /\ c.none.status # "200" /\ c.do \in {"throw", "inc"}
          /\ c.do = "inc" => /\ "sku" \in DOMAIN c.filter /\ c.filter["sku"] = One(r.q.sku)
                            /\ Given(r, {"sku", "qty"}) /\ c.some = Success
      <3>1. CASE c = Throw  BY <3>1 DEF Throw, Call
      <3>2. CASE Given(r, {"sku", "qty"}) /\ c = Update("inc", "inventory", f)
        BY <2>5, <3>2 DEF Update, Call
      <3>3. CASE Given(r, {"sku", "qty"}) /\ c = Update("inc", "inventory", g)
        BY <2>5, <3>3 DEF Update, Call
      <3> QED  BY <2>4, <3>1, <3>2, <3>3
    <2> QED  BY <1>7, <2>6 DEF Creates, Adjusts, c, Given
  <1> QED  BY <1>4, <1>5, <1>6, <1>7

LEMMA OneIs ==
    ASSUME NEW S, IsFiniteSet(S), NEW x \in One(S)
    PROVE  S = {x}
PROOF
  <1>1. Cardinality(S) = 1 /\ x \in S  BY DEF One
  <1>2. PICK y : S = {y}  BY <1>1, FS_Singleton
  <1> QED  BY <1>1, <1>2

(* What a worker has done to the stock of sku s and not yet answered.      *)
Pend(w, s) ==
    IF pc[w] = "send" /\ Creates(req[w]) /\ req[w].body.docs[1].at.sku = s
    THEN req[w].body.docs[1].qty
    ELSE IF pc[w] \in {"scan", "send"} /\ Adjusts(req[w]) /\ cnt[w] > 0 /\ req[w].q.sku = {s}
    THEN Delta(req[w]) ELSE 0
Pending(s) == [w \in Worker |-> Pend(w, s)]
Told(s) == IF s \in DOMAIN booked THEN booked[s] ELSE 0

(* The one document of a sku holds what clients were told and what they    *)
(* have yet to be told.                                                    *)
StockIs(s) ==
    /\ StockOf(s) = {} => Total(Pending(s), 0 - Told(s))
    /\ \A i : StockOf(s) = {i} => Total(Pending(s), store[i].qty - Told(s))
InStock(j) == Present(j) /\ store[j].coll = "inventory"
AdjustedSeen(w) ==
    pc[w] \in {"scan", "send"} /\ Adjusts(req[w]) /\ cnt[w] > 0 =>
        \E j \in seen[w] : InStock(j) /\ req[w].q.sku = {store[j].at.sku}
StockInv ==
    ~crashed => /\ \A s : StockIs(s)
                /\ \A w \in Worker : AdjustedSeen(w)
                /\ \A s \in DOMAIN booked : booked[s] \in Int

LEMMA Amounts ==
    ASSUME BaseOK, NEW w \in Worker, req[w] \in suite.requests
    PROVE  /\ Creates(req[w]) => /\ Len(req[w].body.docs) \in Nat \ {0}
                                 /\ req[w].body.docs[1].qty \in Int
                                 /\ DOMAIN req[w].body.docs[1] = {"coll", "activity", "qty", "at"}
           /\ Adjusts(req[w]) => Delta(req[w]) \in Int
PROOF
  <1> DEFINE r == req[w]
             docs == r.body.docs
  <1>1. suite \in Suites  BY DEF BaseOK
  <1>2. ASSUME Creates(r) PROVE Len(docs) \in Nat \ {0}
    <2>1. docs # <<>>  BY <1>2, CallsTyped DEF Creates
    <2>2. Len(docs) \in Nat /\ docs = [k \in 1..Len(docs) |-> docs[k]]
      BY <1>1, RequestsAssumption
    <2>3. ASSUME Len(docs) = 0 PROVE FALSE
      <3>1. docs = [k \in 1..0 |-> docs[k]]  BY <2>2, <2>3
      <3> QED  BY <2>1, <3>1
    <2> QED  BY <2>2, <2>3
  <1>3. ASSUME Creates(r)
        PROVE  docs[1].qty \in Int /\ DOMAIN docs[1] = {"coll", "activity", "qty", "at"}
    <2>1. 1 \in 1..Len(docs)  BY <1>2, <1>3
    <2> QED  BY <1>1, <2>1, RequestsAssumption
  <1>4. ASSUME Adjusts(r) PROVE Delta(r) \in Int
    <2>1. "qty" \in DOMAIN r.q  BY <1>4, CallsTyped DEF Adjusts
    <2>2. r.q.qty # {} /\ r.q.qty \subseteq Int  BY <1>1, <2>1, RequestsAssumption
    <2> DEFINE n == CHOOSE n \in r.q.qty : TRUE
    <2>3. n \in Int  BY <2>2
    <2> HIDE DEF n
    <2>4. Delta(r) = n \/ Delta(r) = -n  BY DEF Delta, n
    <2> QED  BY <2>3, <2>4
  <1> QED  BY <1>2, <1>3, <1>4

PendOK == \A w \in Worker : \A s : Pend(w, s) \in Int
LEMMA PendTyped == BaseOK => PendOK
PROOF
  <1> SUFFICES ASSUME BaseOK, NEW w \in Worker, NEW s
               PROVE  Pend(w, s) \in Int
    BY DEF PendOK
  <1>1. CASE pc[w] = "idle"  BY <1>1 DEF Pend
  <1>2. CASE pc[w] # "idle"
    <2>1. req[w] \in suite.requests  BY <1>2 DEF BaseOK
    <2> QED  BY <2>1, Amounts DEF Pend
  <1> QED  BY <1>1, <1>2

LEMMA PendSame ==
    ASSUME NEW w, NEW s, pc'[w] = pc[w], req'[w] = req[w], cnt'[w] = cnt[w]
    PROVE  Pend(w, s)' = Pend(w, s)
PROOF BY DEF Pend

LEMMA StockSame ==
    ASSUME NEW s, \A w \in Worker : Pend(w, s)' = Pend(w, s), booked' = booked,
           StockOf(s)' = StockOf(s), \A i \in StockOf(s) : store'[i].qty = store[i].qty,
           StockIs(s)
    PROVE  StockIs(s)'
PROOF
  <1>1. Pending(s)' = Pending(s)  BY DEF Pending
  <1>2. Told(s)' = Told(s)  BY DEF Told
  <1> QED  BY <1>1, <1>2 DEF StockIs

(* One worker has more, or less, to answer for than before.                *)
LEMMA TotalMoves ==
    ASSUME BaseOK, BaseOK', NEW w \in Worker, NEW s,
           \A v \in Worker \ {w} : Pend(v, s)' = Pend(v, s)
    PROVE  /\ Pend(w, s) \in Int /\ Pend(w, s)' \in Int
           /\ \A t : Total(Pending(s), t)
                     => Total(Pending(s)', t + (Pend(w, s)' - Pend(w, s)))
PROOF
  <1> DEFINE P == Pending(s)
             Q == Pending(s)'
             a == Pend(w, s)
             b == Pend(w, s)'
  <1>1. PendOK /\ PendOK'
    <2>1. (BaseOK => PendOK)'  BY PendTyped, PTL
    <2> QED  BY <2>1, PendTyped
  <1>2. P \in [Worker -> Int] /\ P[w] = a  BY <1>1 DEF PendOK, Pending
  <1>3. Q = [v \in Worker |-> Pend(v, s)']  BY DEF Pending
  <1>4. Q = [P EXCEPT ![w] = b]  BY <1>3 DEF Pending
  <1>5. a \in Int /\ b \in Int  BY <1>1 DEF PendOK
  <1> HIDE DEF P, Q, a, b
  <1>6. b - a \in Int /\ a + (b - a) = b  BY <1>5
  <1>7. ASSUME NEW t, Total(P, t) PROVE Total(Q, t + (b - a))
    <2>1. Total([P EXCEPT ![w] = P[w] + (b - a)], t + (b - a))
      BY <1>2, <1>6, <1>7, TotalChange
    <2> QED  BY <1>2, <1>4, <1>6, <2>1
  <1> QED  BY <1>5, <1>7 DEF P, Q, a, b

(* Stock is never deleted, and stays where it is.                          *)
LEMMA StockStays ==
    ASSUME StockPlain, DeletedIsNone, BaseOK, TypedInv, [Next]_vars,
           NEW i \in 1..Len(store), InStock(i)
    PROVE  InStock(i)' /\ store'[i].at = store[i].at
PROOF
  <1>1. CASE store'[i] = store[i]  BY <1>1 DEF InStock, Present
  <1>2. CASE store'[i] # store[i]
    <2>1. PICK w \in Worker :
             LET c == process_request(req[w])
             IN /\ Visit(w, i) /\ Matches(store[i], c) /\ c.do \in Writes
                /\ store'[i] = Change(store[i], c, req[w])
      BY <1>2, StoreSteps
    <2> DEFINE c == process_request(req[w])
    <2>2. pc[w] = "scan"  BY <2>1 DEF Visit
    <2>3. DocOK(store[i])  BY DEF TypedInv, DocsOK, InStock
    <2>4. req[w] \in suite.requests /\ suite \in Suites  BY <2>2 DEF BaseOK
    <2>5. req[w].uri = Inventory => req[w].words = {}  BY <2>4 DEF StockPlain, Inventory
    <2>6. c.do = "delete" => c.coll = "shipping"  BY <2>5, StockCalls
    <2>7. /\ c.do = "inc" => "qty" \in DOMAIN req[w].q
          /\ "qty" \in DOMAIN req[w].q => req[w].q.qty # {} /\ req[w].q.qty \subseteq Int
      BY <2>4, CallsTyped, RequestsAssumption
    <2>8. store[i].coll = c.coll /\ store'[i] = Change(store[i], c, req[w])
      BY <2>1, MatchMeans
    <2>9. store[i].coll = "inventory"  BY DEF InStock
    <2> HIDE DEF c
    <2>10. c.do # "delete"  BY <2>6, <2>8, <2>9
    <2>11. DocOK(store'[i]) /\ store'[i].coll = store[i].coll /\ store'[i].at = store[i].at
      BY <2>3, <2>7, <2>8, <2>10, ChangeTyped
    <2>12. store'[i] # Deleted  BY <2>11 DEF DeletedIsNone
    <2> QED  BY <2>9, <2>11, <2>12 DEF InStock, Present
  <1> QED  BY <1>1, <1>2

LEMMA StockOfKept ==
    ASSUME StockPlain, DeletedIsNone, BaseOK, TypedInv, [Next]_vars, Len(store') = Len(store)
    PROVE  \A s : StockOf(s)' = StockOf(s)
PROOF
  <1>1. ASSUME NEW s, NEW i \in 1..Len(store) PROVE i \in StockOf(s)' <=> i \in StockOf(s)
    <2>1. CASE i \in StockOf(s)
      <3>1. InStock(i)  BY <2>1 DEF StockOf, InStock
      <3>2. InStock(i)' /\ store'[i].at = store[i].at  BY <3>1, StockStays
      <3> QED  BY <2>1, <3>2 DEF StockOf, InStock
    <2>2. CASE i \in StockOf(s)'
      <3>1. Present(i)'  BY <2>2 DEF StockOf
      <3>2. Present(i) /\ store'[i].coll = store[i].coll /\ store'[i].at = store[i].at
        BY <3>1, Fate
      <3> QED  BY <2>2, <3>2 DEF StockOf
    <2> QED  BY <2>1, <2>2
  <1> QED  BY <1>1 DEF StockOf

LEMMA AdjustedStays ==
    ASSUME StockPlain, DeletedIsNone, BaseOK, TypedInv, [Next]_vars, NEW w \in Worker,
           AdjustedSeen(w), seen[w] \subseteq seen'[w], req'[w] = req[w], cnt'[w] = cnt[w],
           pc'[w] \in {"scan", "send"} => pc[w] \in {"scan", "send"}
    PROVE  AdjustedSeen(w)'
PROOF
  <1> SUFFICES ASSUME pc'[w] \in {"scan", "send"}, Adjusts(req[w]), cnt[w] > 0
               PROVE  \E j \in seen'[w] : InStock(j)' /\ req[w].q.sku = {store'[j].at.sku}
    BY DEF AdjustedSeen
  <1>1. PICK j \in seen[w] : InStock(j) /\ req[w].q.sku = {store[j].at.sku}
    BY DEF AdjustedSeen
  <1>2. j \in 1..Len(store)  BY DEF TypedInv, Counted
  <1>3. InStock(j)' /\ store'[j].at = store[j].at  BY <1>1, <1>2, StockStays
  <1> QED  BY <1>1, <1>3

(* The steps that leave documents, and what was told of them, alone.       *)
LEMMA StockCalm ==
    ASSUME StockPlain, DeletedIsNone, BaseOK, EffectOK, TypedInv, StockInv, [Next]_vars,
           NEW w \in Worker, ~crashed,
           (\E r \in suite.requests : Take(w, r)) \/ ScanEnd(w)
               \/ RelayFails(w) \/ Connected(w) \/ Authorized(w) \/ Created(w)
    PROVE  StockInv'
PROOF
  <1>1. store' = store /\ booked' = booked
    BY DEF Take, ScanEnd, RelayFails, Connected, Authorized, Created
  <1>2. /\ \A v \in Worker \ {w} : pc'[v] = pc[v] /\ req'[v] = req[v] /\ cnt'[v] = cnt[v]
                                   /\ seen'[v] = seen[v]
    BY DEF BaseOK, Take, Begin, ScanEnd, RelayFails, Connected, Authorized, Created
  <1>3. /\ \A s : Pend(w, s)' = Pend(w, s)
        /\ AdjustedSeen(w)'
    <2>1. ASSUME NEW r \in suite.requests, Take(w, r)
          PROVE  (\A s : Pend(w, s)' = Pend(w, s)) /\ AdjustedSeen(w)'
      <3>1. pc[w] = "idle" /\ req'[w] = r /\ cnt'[w] = 0
            /\ pc'[w] = FirstStep(process_request(r))
        BY <2>1 DEF Take, Begin, BaseOK
      <3>2. pc'[w] = "send" => process_request(r).do = "nothing"  BY <3>1, FirstStepIs
      <3>3. pc'[w] = "send" => ~Creates(r)  BY <3>2 DEF Creates
      <3> QED  BY <3>1, <3>3 DEF Pend, AdjustedSeen
    <2>2. ASSUME ScanEnd(w)
          PROVE  (\A s : Pend(w, s)' = Pend(w, s)) /\ AdjustedSeen(w)'
      <3>1. /\ pc[w] = "scan" /\ pc'[w] = "send" /\ req'[w] = req[w] /\ cnt'[w] = cnt[w]
            /\ seen'[w] = seen[w]
        BY <2>2 DEF ScanEnd, BaseOK
      <3>2. ~Creates(req[w])  BY <3>1 DEF EffectOK, Progress, Creates
      <3>3. AdjustedSeen(w)'  BY <3>1, AdjustedStays DEF StockInv
      <3> QED  BY <3>1, <3>2, <3>3 DEF Pend
    <2>3. ASSUME RelayFails(w) \/ Connected(w) \/ Authorized(w) \/ Created(w)
          PROVE  (\A s : Pend(w, s)' = Pend(w, s)) /\ AdjustedSeen(w)'
      <3>1. pc[w] \in {"connect", "authorize", "create"} /\ req'[w] = req[w]
        BY <2>3 DEF RelayFails, Connected, Authorized, Created
      <3>2. process_request(req[w]).do = "relay"  BY <3>1 DEF EffectOK, Progress
      <3>3. ~Creates(req[w]) /\ ~Adjusts(req[w])  BY <3>2 DEF Creates, Adjusts
      <3> QED  BY <3>1, <3>3 DEF Pend, AdjustedSeen
    <2> QED  BY <2>1, <2>2, <2>3
  <1>4. \A v \in Worker : \A s : Pend(v, s)' = Pend(v, s)  BY <1>2, <1>3, PendSame
  <1>5. \A s : StockOf(s)' = StockOf(s)  BY <1>1 DEF StockOf, Present
  <1>6. \A s : StockIs(s)'  BY <1>1, <1>4, <1>5, StockSame DEF StockInv
  <1>7. \A v \in Worker : AdjustedSeen(v)'  BY <1>2, <1>3, AdjustedStays DEF StockInv
  <1> QED  BY <1>1, <1>6, <1>7 DEF StockInv

LEMMA StockInsert ==
    ASSUME StockPlain, DeletedIsNone, BaseOK, BaseOK', EffectOK, TypedInv, StockInv,
           [Next]_vars, NEW w \in Worker, InsertNext(w)
    PROVE  StockInv'
PROOF
  <1> DEFINE r == req[w]
             docs == r.body.docs
             c == process_request(r)
             new == [docs[cnt[w] + 1] EXCEPT !.coll = c.coll]
             n == Len(store)
  <1>1. ~crashed /\ pc[w] = "insert" /\ req[w] \in suite.requests /\ suite \in Suites
    BY DEF InsertNext, BaseOK
  <1>2. c.do = "insert" /\ cnt[w] \in Nat /\ cnt[w] < Len(docs) /\ Len(docs) \in Nat
    BY <1>1, RequestsAssumption DEF EffectOK, Progress, BaseOK, TypedInv, Counted
  <1>3. /\ store' = Append(store, new) /\ cnt' = [cnt EXCEPT ![w] = cnt[w] + 1]
        /\ pc' = (IF cnt'[w] = Len(docs) THEN [pc EXCEPT ![w] = "send"] ELSE pc)
        /\ UNCHANGED <<req, seen, booked>>
    BY DEF InsertNext
  <1>4. IsList(store) /\ n \in Nat  BY ListIs DEF BaseOK
  <1>5. /\ Len(store') = n + 1 /\ store'[n + 1] = new
        /\ \A i \in 1..n : store'[i] = store[i]
    BY <1>3, <1>4, ListAppend
  <1>6. \A v \in Worker \ {w} : pc'[v] = pc[v] /\ req'[v] = req[v] /\ cnt'[v] = cnt[v]
    BY <1>3 DEF BaseOK
  <1>7. \A v \in Worker \ {w} : \A s : Pend(v, s)' = Pend(v, s)  BY <1>3, <1>6, PendSame
  <1>8. ~Adjusts(r)  BY <1>2 DEF Adjusts
  <1>9. \A s : Pend(w, s) = 0  BY <1>1 DEF Pend
  <1>10. \A v \in Worker : AdjustedSeen(v)'
    <2>1. AdjustedSeen(w)'  BY <1>3, <1>8 DEF AdjustedSeen
    <2>2. \A v \in Worker \ {w} : AdjustedSeen(v)'
      BY <1>1, <1>3, <1>6, AdjustedStays DEF StockInv
    <2> QED  BY <2>1, <2>2
  <1>11. new.coll = c.coll
    <2>1. cnt[w] + 1 \in 1..Len(docs)  BY <1>2
    <2>2. \A k \in 1..Len(docs) : DOMAIN docs[k] = {"coll", "activity", "qty", "at"}
      BY <1>1, RequestsAssumption
    <2> HIDE DEF docs, c
    <2>3. "coll" \in DOMAIN docs[cnt[w] + 1]  BY <2>1, <2>2
    <2> QED  BY <2>3
  <1> HIDE DEF new, c
  <1>12. ASSUME NEW s, Pend(w, s)' = 0, n + 1 \notin StockOf(s)'
         PROVE  StockIs(s)'
    <2>1. StockOf(s)' = StockOf(s)  BY <1>4, <1>5, <1>12 DEF StockOf, Present
    <2>2. \A i \in StockOf(s) : store'[i].qty = store[i].qty  BY <1>5 DEF StockOf
    <2>3. \A v \in Worker : Pend(v, s)' = Pend(v, s)  BY <1>7, <1>9, <1>12
    <2> QED  BY <1>1, <1>3, <2>1, <2>2, <2>3, StockSame DEF StockInv
  <1>13. CASE c.coll # "inventory"
    <2>1. ~Creates(r)  BY <1>13 DEF Creates, c
    <2>2. \A s : Pend(w, s)' = 0  BY <1>3, <1>8, <2>1 DEF Pend
    <2>3. \A s : n + 1 \notin StockOf(s)'  BY <1>5, <1>11, <1>13 DEF StockOf
    <2> QED  BY <1>1, <1>3, <1>10, <1>12, <2>2, <2>3 DEF StockInv
  <1>14. CASE c.coll = "inventory"
    <2>1. Creates(r)  BY <1>2, <1>14 DEF Creates, c
    <2>2. r.uri = Inventory => r.words = {}  BY <1>1 DEF StockPlain, Inventory
    <2>3. r.method = "POST" /\ r.uri = Inventory  BY <2>1, <2>2, StockCalls
    <2>4. Len(docs) = 1 /\ cnt[w] = 0
      <3>1. Len(docs) <= 1  BY <1>1, <2>3 DEF StockPlain, Inventory
      <3>2. cnt[w] \in Nat /\ Len(docs) \in Nat /\ cnt[w] < Len(docs)  BY <1>2
      <3> DEFINE m == Len(docs)
      <3>3. m \in Nat /\ m <= 1 /\ cnt[w] < m  BY <3>1, <3>2
      <3> HIDE DEF m
      <3>4. m = 1 /\ cnt[w] = 0  BY <3>2, <3>3
      <3> QED  BY <3>4 DEF m
    <2>5. pc'[w] = "send"
      <3>1. cnt'[w] = 1  BY <1>3, <2>4 DEF BaseOK
      <3> QED  BY <1>3, <2>4, <3>1 DEF BaseOK
    <2> DEFINE d == docs[1]
    <2>6. d.qty \in Int /\ DOMAIN d = {"coll", "activity", "qty", "at"}
      BY <1>1, <2>1, Amounts
    <2>7. new = [d EXCEPT !.coll = "inventory"]  BY <1>14, <2>4 DEF new
    <2>8. \A s : Pend(w, s)' = IF d.at.sku = s THEN d.qty ELSE 0
      BY <1>3, <1>8, <2>1, <2>5 DEF Pend
    <2> HIDE DEF d
    <2>9. DocOK(new) /\ new.qty = d.qty /\ new.at = d.at /\ new.coll = "inventory"
      BY <2>6, <2>7 DEF DocOK, Colls
    <2>10. new # Deleted  BY <2>9 DEF DeletedIsNone
    <2>11. ASSUME NEW s, d.at.sku # s PROVE StockIs(s)'
      <3>1. Pend(w, s)' = 0  BY <2>8, <2>11
      <3>2. n + 1 \notin StockOf(s)'  BY <1>5, <2>9, <2>11 DEF StockOf
      <3> QED  BY <1>12, <3>1, <3>2
    <2>12. ASSUME NEW s, d.at.sku = s PROVE StockIs(s)'
      <3>1. n + 1 \in StockOf(s)'
        BY <1>4, <1>5, <2>9, <2>10, <2>12 DEF StockOf, Present
      <3>2. ASSUME NEW i, StockOf(s)' = {i}
            PROVE  Total(Pending(s), 0 - Told(s)) /\ store'[i].qty = d.qty
        <4>1. i = n + 1  BY <3>1, <3>2
        <4>2. StockOf(s) = {}
          <5>1. \A j \in StockOf(s) : j \in StockOf(s)' /\ j # n + 1
            BY <1>4, <1>5 DEF StockOf, Present
          <5> QED  BY <3>2, <4>1, <5>1
        <4> QED  BY <1>1, <1>5, <2>9, <4>1, <4>2 DEF StockInv, StockIs
      <3>3. Told(s)' = Told(s) /\ Told(s) \in Int  BY <1>1, <1>3 DEF Told, StockInv
      <3>4. Pend(w, s)' = d.qty /\ Pend(w, s) = 0  BY <1>9, <2>8, <2>12
      <3>5. \A t : Total(Pending(s), t) => Total(Pending(s)', t + (Pend(w, s)' - Pend(w, s)))
        BY <1>7, TotalMoves
      <3>6. 0 - Told(s) + (d.qty - 0) = d.qty - Told(s)  BY <2>6, <3>3
      <3>7. ASSUME NEW i, StockOf(s)' = {i}
            PROVE  Total(Pending(s)', store'[i].qty - Told(s)')
        BY <3>2, <3>3, <3>4, <3>5, <3>6, <3>7
      <3> QED  BY <3>1, <3>7 DEF StockIs
    <2> QED  BY <1>1, <1>3, <1>10, <2>11, <2>12 DEF StockInv
  <1> QED  BY <1>13, <1>14

LEMMA StockVisit ==
    ASSUME StockPlain, DeletedIsNone, BaseOK, BaseOK', EffectOK, TypedInv, StockInv,
           [Next]_vars, NEW w \in Worker, NEW i \in 1..Len(store), Visit(w, i)
    PROVE  StockInv'
PROOF
  <1> DEFINE r == req[w]
             c == process_request(r)
  <1>1. /\ ~crashed /\ pc[w] = "scan" /\ Present(i) /\ i \notin seen[w]
        /\ seen' = [seen EXCEPT ![w] = seen[w] \cup {i}]
        /\ UNCHANGED <<pc, req, booked>>
    BY DEF Visit
  <1>2. r \in suite.requests /\ suite \in Suites  BY <1>1 DEF BaseOK
  <1>3. r.uri = Inventory => r.words = {}  BY <1>2 DEF StockPlain, Inventory
  <1>4. /\ Len(store') = Len(store)
        /\ \A j \in 1..Len(store) : j # i => store'[j] = store[j]
        /\ \/ /\ Matches(store[i], c) /\ store'[i] = Change(store[i], c, r)
              /\ cnt' = [cnt EXCEPT ![w] = cnt[w] + 1]
           \/ UNCHANGED <<store, cnt>>
    BY VisitIs
  <1>5. \A s : StockOf(s)' = StockOf(s)  BY <1>4, StockOfKept
  <1>6. \A v \in Worker \ {w} : cnt'[v] = cnt[v] /\ seen'[v] = seen[v]
    BY <1>1, <1>4 DEF BaseOK
  <1>7. \A v \in Worker \ {w} : \A s : Pend(v, s)' = Pend(v, s)  BY <1>1, <1>6, PendSame
  <1>8. \A v \in Worker \ {w} : AdjustedSeen(v)'
    BY <1>1, <1>6, AdjustedStays DEF StockInv
  <1>9. cnt[w] \in Nat /\ seen'[w] = seen[w] \cup {i}  BY <1>1 DEF BaseOK
  <1>10. ~Creates(r)  BY <1>1 DEF EffectOK, Progress, Creates
  <1>11. ASSUME NEW s, Pend(w, s)' = Pend(w, s),
                i \in StockOf(s) => store'[i].qty = store[i].qty
         PROVE  StockIs(s)'
    <2>1. \A j \in StockOf(s) : store'[j].qty = store[j].qty
      BY <1>4, <1>11 DEF StockOf
    <2>2. \A v \in Worker : Pend(v, s)' = Pend(v, s)  BY <1>7, <1>11
    <2> QED  BY <1>1, <1>5, <2>1, <2>2, StockSame DEF StockInv
  <1>12. CASE UNCHANGED <<store, cnt>>
    <2>1. \A s : Pend(w, s)' = Pend(w, s)  BY <1>1, <1>12, PendSame
    <2>2. AdjustedSeen(w)'  BY <1>1, <1>9, <1>12, AdjustedStays DEF StockInv
    <2> QED  BY <1>1, <1>8, <1>11, <1>12, <2>1, <2>2 DEF StockInv
  <1>13. CASE ~Adjusts(r)
    <2>1. \A s : Pend(w, s)' = Pend(w, s)  BY <1>1, <1>10, <1>13 DEF Pend
    <2>2. AdjustedSeen(w)'  BY <1>1, <1>13 DEF AdjustedSeen
    <2>3. store[i].coll = "inventory" => store'[i] = store[i]
      <3>1. c.do = "delete" => c.coll = "shipping"  BY <1>3, StockCalls
      <3>2. c.do \in {"push", "set"} => c.coll = "shipping"  BY Calls
      <3>3. c.do # "inc"  BY <1>13 DEF Adjusts
      <3>4. Matches(store[i], c) => store[i].coll = c.coll  BY MatchMeans
      <3>5. c.do \notin Writes => Change(store[i], c, r) = store[i]  BY ChangeIs
      <3> HIDE DEF c
      <3> QED  BY <1>4, <3>1, <3>2, <3>3, <3>4, <3>5 DEF Writes
    <2>4. \A s : i \in StockOf(s) => store'[i].qty = store[i].qty  BY <2>3 DEF StockOf
    <2> QED  BY <1>1, <1>8, <1>11, <2>1, <2>2, <2>4 DEF StockInv
  <1>14. CASE Adjusts(r) /\ ~UNCHANGED <<store, cnt>>
    <2>1. /\ Matches(store[i], c) /\ store'[i] = Change(store[i], c, r)
          /\ cnt'[w] = cnt[w] + 1
      BY <1>4, <1>14 DEF BaseOK
    <2>2. /\ c.do = "inc" /\ c.coll = "inventory" /\ "sku" \in DOMAIN r.q
          /\ "qty" \in DOMAIN r.q
          /\ "sku" \in DOMAIN c.filter /\ c.filter["sku"] = One(r.q.sku)
      BY <1>3, <1>14, Calls, StockCalls DEF Adjusts
    <2>3. DocOK(store[i])  BY <1>1 DEF TypedInv, DocsOK
    <2> DEFINE x == store[i].at.sku
    <2>4. store[i].coll = "inventory" /\ x \in One(r.q.sku)
      <3> HIDE DEF c
      <3> QED  BY <2>1, <2>2 DEF Matches
    <2>5. r.q.sku = {x}
      <3>1. IsFiniteSet(r.q.sku)  BY <1>2, <2>2, RequestsAssumption
      <3> HIDE DEF x
      <3> QED  BY <2>4, <3>1, OneIs
    <2>6. InStock(i) /\ i \in StockOf(x)  BY <1>1, <2>4 DEF InStock, StockOf
    <2>7. InStock(i)' /\ store'[i].at = store[i].at  BY <2>6, StockStays
    <2>8. AdjustedSeen(w)'  BY <1>1, <1>9, <2>5, <2>7 DEF AdjustedSeen
    <2>9. store'[i].qty = store[i].qty + Delta(r)
      <3> DEFINE n == CHOOSE y \in r.q.qty : TRUE
      <3>1. n \in Int  BY <1>2, <2>2, RequestsAssumption
      <3>2. Change(store[i], c, r)
              = [store[i] EXCEPT !.qty = IF Given(r, {"isUpdate"}) THEN store[i].qty + n
                                         ELSE store[i].qty - n]
        <4>1. c.do # "push" /\ c.do # "set"  BY <2>2
        <4> HIDE DEF c
        <4> QED  BY <2>2, <4>1, Zenon DEF Change
      <3>3. Delta(r) = IF Given(r, {"isUpdate"}) THEN n ELSE -n  BY Zenon DEF Delta
      <3> HIDE DEF n, c
      <3>4. "qty" \in DOMAIN store[i] /\ store[i].qty \in Int  BY <2>3 DEF DocOK
      <3>5. store'[i].qty = IF Given(r, {"isUpdate"}) THEN store[i].qty + n
                            ELSE store[i].qty - n
        BY <2>1, <3>2, <3>4
      <3> QED  BY <3>1, <3>3, <3>4, <3>5
    <2>10. \A s : Pend(w, s)' = IF x = s THEN Delta(r) ELSE 0
      <3>1. cnt'[w] > 0  BY <1>9, <2>1
      <3>2. \A s : r.q.sku = {s} <=> x = s  BY <2>5
      <3> HIDE DEF x
      <3> QED  BY <1>1, <1>10, <1>14, <3>1, <3>2 DEF Pend
    <2>11. \A s : x # s => Pend(w, s) = 0
      <3>1. \A s : x # s => r.q.sku # {s}  BY <2>5
      <3> HIDE DEF x
      <3> QED  BY <1>1, <1>10, <3>1 DEF Pend
    <2>12. ASSUME NEW s, x # s PROVE StockIs(s)'
      <3>1. i \notin StockOf(s)  BY <2>12 DEF StockOf
      <3> QED  BY <1>11, <2>10, <2>11, <2>12, <3>1
    <2>13. ASSUME NEW s, x = s PROVE StockIs(s)'
      <3>1. i \in StockOf(s) /\ r.q.sku = {s}  BY <2>5, <2>6, <2>13
      <3>2. Pend(w, s)' = Delta(r)  BY <2>10, <2>13
      <3> HIDE DEF x
      <3>3. ASSUME NEW k, StockOf(s)' = {k}
            PROVE  Total(Pending(s)', store'[k].qty - Told(s)')
        <4>1. k = i /\ StockOf(s) = {i}  BY <1>5, <3>1, <3>3
        <4>2. cnt[w] = 0
          <5> SUFFICES ASSUME cnt[w] > 0 PROVE FALSE  BY <1>9
          <5>1. PICK j \in seen[w] : InStock(j) /\ r.q.sku = {store[j].at.sku}
            BY <1>1, <1>14 DEF StockInv, AdjustedSeen
          <5>2. j \in 1..Len(store)  BY DEF TypedInv, Counted
          <5>3. j \in StockOf(s)  BY <3>1, <5>1, <5>2 DEF InStock, StockOf
          <5> QED  BY <1>1, <4>1, <5>1, <5>3
        <4>3. Pend(w, s) = 0  BY <1>1, <1>10, <4>2 DEF Pend
        <4>4. Told(s)' = Told(s) /\ Told(s) \in Int  BY <1>1 DEF Told, StockInv
        <4>5. Total(Pending(s), store[i].qty - Told(s))
          BY <1>1, <4>1 DEF StockInv, StockIs
        <4>6. Delta(r) \in Int /\ store[i].qty \in Int
          BY <1>2, <1>14, <2>3, Amounts DEF DocOK
        <4>7. \A t : Total(Pending(s), t)
                  => Total(Pending(s)', t + (Pend(w, s)' - Pend(w, s)))
          BY <1>7, TotalMoves
        <4>8. Total(Pending(s)', store[i].qty - Told(s) + (Delta(r) - 0))
          BY <3>2, <4>3, <4>5, <4>7
        <4>9. store[i].qty - Told(s) + (Delta(r) - 0) = store'[i].qty - Told(s)
          BY <2>9, <4>4, <4>6
        <4> QED  BY <4>1, <4>4, <4>8, <4>9
      <3> QED  BY <1>5, <3>1, <3>3 DEF StockIs
    <2> QED  BY <1>1, <1>8, <2>8, <2>12, <2>13 DEF StockInv
  <1> QED  BY <1>12, <1>13, <1>14

(* An answer tells what is pending, no more and no less.                   *)
LEMMA BookedIsPending ==
    ASSUME StockPlain, BaseOK, EffectOK, LookedOK, StockInv, NEW w \in Worker, Send(w)
    PROVE  /\ \A s : Told(s)' = Told(s) + Pend(w, s)
           /\ \A s \in DOMAIN booked' : booked'[s] \in Int
PROOF
  <1> DEFINE r == req[w]
             docs == r.body.docs
             c == process_request(r)
             Tells == /\ r.uri = "/api/v1/inventory" /\ r.method \in {"POST", "PUT"}
                      /\ Outcome(w).status = "200"
  <1>1. ~crashed /\ pc[w] = "send" /\ r \in suite.requests /\ suite \in Suites
    BY DEF Send, BaseOK
  <1>2. booked' = IF Tells THEN Booked(w) ELSE booked  BY DEF Send
  <1>3. r.uri = Inventory => r.words = {}  BY <1>1 DEF StockPlain, Inventory
  <1>4. cnt[w] \in Nat /\ Outcome(w) = IF cnt[w] > 0 THEN c.some ELSE c.none
    BY DEF BaseOK, Outcome
  <1>5. \A s : Told(s) \in Int /\ (s \in DOMAIN booked => booked[s] \in Int)
    BY <1>1 DEF Told, StockInv
  <1>6. /\ Creates(r) => r.method = "POST" /\ r.uri = Inventory /\ c.some = Success
        /\ Adjusts(r) => r.method = "PUT" /\ r.uri = Inventory /\ c.some = Success
        /\ r.uri = Inventory /\ r.method \in {"POST", "PUT"} =>
              /\ c.none.status # "200"
              /\ Creates(r) \/ Adjusts(r) \/ c.some.status # "200" \/ c.do = "throw"
    BY <1>3, StockCalls
  <1>7. c.do # "throw"
    BY <1>1, NoRequestAssumption DEF LookedOK, Looked
  <1> DEFINE s0 == IF r.method = "POST" THEN docs[1].at.sku ELSE CHOOSE x \in r.q.sku : TRUE
             n == IF r.method = "POST" THEN docs[1].qty ELSE Delta(r)
  <1>8. CASE Tells
    <2>1. cnt[w] > 0 /\ c.some.status = "200"
      <3> HIDE DEF c
      <3> QED  BY <1>4, <1>6, <1>8 DEF Inventory
    <2>2. Creates(r) \/ Adjusts(r)
      <3> HIDE DEF c
      <3> QED  BY <1>6, <1>7, <1>8, <2>1 DEF Inventory
    <2>3. n \in Int
      <3>1. CASE Creates(r)  BY <1>1, <1>6, <3>1, Amounts
      <3>2. CASE Adjusts(r)
        <4>1. n = Delta(r)  BY <1>6, <3>2
        <4> HIDE DEF n
        <4> QED  BY <1>1, <3>2, <4>1, Amounts
      <3> QED  BY <2>2, <3>1, <3>2
    <2>4. \A s : Pend(w, s) = IF s0 = s THEN n ELSE 0
      <3>1. CASE Creates(r)
        <4>1. r.method = "POST" /\ ~Adjusts(r)  BY <1>6, <3>1
        <4>2. s0 = docs[1].at.sku /\ n = docs[1].qty  BY <4>1
        <4> HIDE DEF s0, n
        <4> QED  BY <1>1, <3>1, <4>1, <4>2 DEF Pend
      <3>2. CASE Adjusts(r)
        <4>1. r.method = "PUT" /\ ~Creates(r)  BY <1>6, <3>2
        <4>2. PICK y : r.q.sku = {y}
          BY <1>1, <2>1, <3>2 DEF StockInv, AdjustedSeen
        <4>3. n = Delta(r) /\ s0 = y  BY <4>1, <4>2
        <4> HIDE DEF s0, n
        <4> QED  BY <1>1, <2>1, <3>2, <4>1, <4>2, <4>3 DEF Pend
      <3> QED  BY <2>2, <3>1, <3>2
    <2>5. booked' = [x \in DOMAIN booked \cup {s0} |->
                        (IF x \in DOMAIN booked THEN booked[x] ELSE 0)
                           + (IF x = s0 THEN n ELSE 0)]
      BY <1>2, <1>8, Zenon DEF Booked, Delta
    <2> HIDE DEF s0, n
    <2>6. /\ DOMAIN booked' = DOMAIN booked \cup {s0}
          /\ \A x \in DOMAIN booked \cup {s0} :
                booked'[x] = (IF x \in DOMAIN booked THEN booked[x] ELSE 0)
                                + (IF x = s0 THEN n ELSE 0)
      BY <2>5
    <2>7. \A s : Told(s)' = Told(s) + (IF s0 = s THEN n ELSE 0)
      BY <1>5, <2>3, <2>6 DEF Told
    <2> QED  BY <1>5, <2>3, <2>4, <2>6, <2>7
  <1>9. CASE ~Tells
    <2>1. ASSUME Creates(r) PROVE FALSE
      <3>1. c.do = "insert"  BY <2>1 DEF Creates
      <3>2. cnt[w] = 0 => done[w] = 0  BY <1>1 DEF EffectOK, Progress
      <3>3. done[w] = Len(docs)  BY <1>1, <3>1 DEF EffectOK, Progress
      <3>4. Len(docs) \in Nat \ {0}  BY <1>1, <2>1, Amounts
      <3> HIDE DEF docs, c
      <3>5. cnt[w] > 0  BY <1>4, <3>2, <3>3, <3>4
      <3> QED  BY <1>4, <1>6, <1>9, <2>1, <3>5, Responses DEF Inventory
    <2>2. ~(Adjusts(r) /\ cnt[w] > 0)
      <3> HIDE DEF c
      <3> QED  BY <1>4, <1>6, <1>9, Responses DEF Inventory
    <2>3. \A s : Pend(w, s) = 0  BY <2>1, <2>2 DEF Pend
    <2>4. booked' = booked  BY <1>2, <1>9
    <2>5. \A s : Told(s)' = Told(s)  BY <2>4 DEF Told
    <2> QED  BY <1>5, <2>3, <2>4, <2>5
  <1> QED  BY <1>8, <1>9

LEMMA StockSend ==
    ASSUME StockPlain, DeletedIsNone, BaseOK, BaseOK', EffectOK, TypedInv, LookedOK,
           StockInv, [Next]_vars, NEW w \in Worker, Send(w)
    PROVE  StockInv'
PROOF
  <1>1. /\ ~crashed /\ pc[w] = "send" /\ pc'[w] = "idle"
        /\ UNCHANGED <<store, req, cnt, seen>>
        /\ \A v \in Worker \ {w} : pc'[v] = pc[v]
    BY DEF Send, BaseOK
  <1>2. /\ \A s : Told(s)' = Told(s) + Pend(w, s)
        /\ \A s \in DOMAIN booked' : booked'[s] \in Int
    BY BookedIsPending
  <1>3. \A v \in Worker \ {w} : \A s : Pend(v, s)' = Pend(v, s)  BY <1>1, PendSame
  <1>4. \A s : Pend(w, s)' = 0  BY <1>1 DEF Pend
  <1>5. \A v \in Worker : AdjustedSeen(v)'
    <2>1. AdjustedSeen(w)'  BY <1>1 DEF AdjustedSeen
    <2>2. \A v \in Worker \ {w} : AdjustedSeen(v)'  BY <1>1, AdjustedStays DEF StockInv
    <2> QED  BY <2>1, <2>2
  <1>6. ASSUME NEW s PROVE StockIs(s)'
    <2>1. StockOf(s)' = StockOf(s)  BY <1>1 DEF StockOf, Present
    <2>2. /\ Pend(w, s) \in Int
          /\ \A t : Total(Pending(s), t)
                 => Total(Pending(s)', t + (Pend(w, s)' - Pend(w, s)))
      BY <1>3, TotalMoves
    <2>3. Told(s) \in Int  BY <1>1 DEF Told, StockInv
    <2>4. StockOf(s) = {} => Total(Pending(s)', 0 - Told(s)')
      <3> SUFFICES ASSUME StockOf(s) = {} PROVE Total(Pending(s)', 0 - Told(s)')  OBVIOUS
      <3>1. Total(Pending(s), 0 - Told(s))  BY <1>1 DEF StockInv, StockIs
      <3>2. Total(Pending(s)', 0 - Told(s) + (0 - Pend(w, s)))  BY <1>4, <2>2, <3>1
      <3>3. 0 - Told(s) + (0 - Pend(w, s)) = 0 - (Told(s) + Pend(w, s))  BY <2>2, <2>3
      <3> QED  BY <1>2, <3>2, <3>3
    <2>5. ASSUME NEW i, StockOf(s) = {i} PROVE Total(Pending(s)', store[i].qty - Told(s)')
      <3>1. Total(Pending(s), store[i].qty - Told(s))
        BY <1>1, <2>5 DEF StockInv, StockIs
      <3>2. store[i].qty \in Int
        <4>1. i \in 1..Len(store) /\ Present(i)  BY <2>5 DEF StockOf
        <4> QED  BY <4>1 DEF TypedInv, DocsOK, DocOK
      <3>3. Total(Pending(s)', store[i].qty - Told(s) + (0 - Pend(w, s)))
        BY <1>4, <2>2, <3>1
      <3>4. store[i].qty - Told(s) + (0 - Pend(w, s)) = store[i].qty - (Told(s) + Pend(w, s))
        BY <2>2, <2>3, <3>2
      <3> QED  BY <1>2, <3>3, <3>4
    <2> QED  BY <1>1, <2>1, <2>4, <2>5 DEF StockIs
  <1> QED  BY <1>2, <1>5, <1>6 DEF StockInv

LEMMA StockKept ==
    ASSUME StockPlain, DeletedIsNone
    PROVE  BaseOK /\ EffectOK /\ TypedInv /\ LookedOK /\ StockInv /\ [Next]_vars => StockInv'
PROOF
  <1> SUFFICES ASSUME BaseOK, EffectOK, TypedInv, LookedOK, StockInv, [Next]_vars
               PROVE  StockInv'
    OBVIOUS
  <1>0. BaseOK'  BY BaseKept
  <1>1. CASE UNCHANGED vars
    <2>1. /\ store' = store /\ booked' = booked /\ crashed' = crashed
          /\ UNCHANGED <<pc, req, cnt, seen>>
      BY <1>1 DEF vars
    <2> SUFFICES ASSUME ~crashed PROVE StockInv'  BY <2>1 DEF StockInv
    <2>2. \A s : StockOf(s)' = StockOf(s)  BY <2>1 DEF StockOf, Present
    <2>3. \A v \in Worker : \A s : Pend(v, s)' = Pend(v, s)  BY <2>1, PendSame
    <2>4. \A s : StockIs(s)'  BY <2>1, <2>2, <2>3, StockSame DEF StockInv
    <2>5. \A v \in Worker : AdjustedSeen(v)'  BY <2>1, AdjustedStays DEF StockInv
    <2> QED  BY <2>1, <2>4, <2>5 DEF StockInv
  <1>2. CASE Next
    <2>1. PICK w \in Worker :
            \/ \E r \in suite.requests : Take(w, r)
            \/ \E i \in 1..Len(store) : Visit(w, i)
            \/ InsertNext(w) \/ ScanEnd(w) \/ DatabaseFails(w) \/ Send(w)
            \/ RelayFails(w) \/ Connected(w) \/ Authorized(w) \/ Created(w)
      BY <1>2 DEF Next
    <2>2. CASE InsertNext(w)  BY <1>0, <2>2, StockInsert
    <2>3. CASE \E i \in 1..Len(store) : Visit(w, i)  BY <1>0, <2>3, StockVisit
    <2>4. CASE Send(w)  BY <1>0, <2>4, StockSend
    <2>5. CASE DatabaseFails(w)  BY <2>5 DEF DatabaseFails, StockInv
    <2>6. CASE (\E r \in suite.requests : Take(w, r)) \/ ScanEnd(w)
                  \/ RelayFails(w) \/ Connected(w) \/ Authorized(w) \/ Created(w)
      <3>1. ~crashed
        BY <2>6 DEF Take, ScanEnd, RelayFails, Connected, Authorized, Created
      <3> QED  BY <2>6, <3>1, StockCalm
    <2> QED  BY <2>1, <2>2, <2>3, <2>4, <2>5, <2>6
  <1> QED  BY <1>1, <1>2

(* The stock is what the clients were told, for every number of workers    *)
(* that create and adjust it at once: between the update of a document and *)
(* the answer, the change is pending with its worker, and the quantity is  *)
(* at any time the sum of what was told and of what is pending.  It is the *)
(* $inc of handle_inventory_PUT, which no two workers can lose, and the    *)
(* answer that follows every change, and only a change, that make it so.   *)
THEOREM StockIsAsTold ==
    ASSUME StockPlain, DeletedIsNone
    PROVE  Spec => []StockMatchesAnswers
PROOF
  <1> DEFINE Inv == BaseOK /\ EffectOK /\ TypedInv /\ LookedOK /\ StockInv
  <1>1. Inv => StockMatchesAnswers
    <2> SUFFICES ASSUME Inv, \A w \in Worker : pc[w] = "idle", ~crashed,
                        NEW s \in DOMAIN booked, NEW i \in StockOf(s),
                        Cardinality(StockOf(s)) = 1
                 PROVE  store[i].qty = booked[s]
      BY DEF StockMatchesAnswers
    <2>1. StockOf(s) = {i}
      <3>1. Len(store) \in Nat  BY ListIs DEF BaseOK
      <3>2. IsFiniteSet(StockOf(s))  BY <3>1, SeenBound DEF StockOf
      <3> QED  BY <3>2, FS_Singleton
    <2>2. Total(Pending(s), store[i].qty - Told(s))  BY <2>1 DEF StockInv, StockIs
    <2>3. \A w \in Worker : Pending(s)[w] = 0  BY DEF Pending, Pend
    <2>4. store[i].qty - Told(s) = 0  BY <2>2, <2>3, TotalZero
    <2>5. Told(s) = booked[s] /\ booked[s] \in Int  BY DEF Told, StockInv
    <2>6. store[i].qty \in Int
      <3>1. i \in 1..Len(store) /\ Present(i)  BY DEF StockOf
      <3> QED  BY <3>1 DEF TypedInv, DocsOK, DocOK
    <2> QED  BY <2>4, <2>5, <2>6
  <1>2. Init => Inv
    <2>1. Init => LookedOK  BY DEF Init, LookedOK, Looked
    <2>2. ASSUME Init PROVE StockInv
      <3>1. \A w \in Worker : \A s : Pend(w, s) = 0  BY <2>2 DEF Init, Pend
      <3>2. \A s : Told(s) = 0 /\ StockOf(s) = {}  BY <2>2 DEF Init, Told, StockOf
      <3>3. ASSUME NEW s PROVE StockIs(s)
        <4>1. \A w \in Worker : Pending(s)[w] = 0  BY <3>1 DEF Pending
        <4>2. Total(Pending(s), 0)  BY <4>1, TotalZero
        <4>3. 0 - Told(s) = 0  BY <3>2
        <4> QED  BY <3>2, <4>2, <4>3 DEF StockIs
      <3>4. \A w \in Worker : AdjustedSeen(w)  BY <2>2 DEF Init, AdjustedSeen
      <3>5. DOMAIN booked = {}  BY <2>2 DEF Init
      <3> QED  BY <3>3, <3>4, <3>5 DEF StockInv
    <2> QED  BY <2>1, <2>2, BaseInit, EffectInit, TypedInit
  <1>3. Inv /\ [Next]_vars => Inv'
    BY BaseKept, EffectKept, LookedKept, TypedKept, StockKept
  <1> QED  BY <1>1, <1>2, <1>3, PTL DEF Spec

=============================================================================
