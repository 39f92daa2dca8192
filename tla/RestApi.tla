------------------------------ MODULE RestApi ------------------------------
(***************************************************************************)
(* The REST handlers of granada's workers (MicroService::process_request   *)
(* and the handle_... functions below it) on the collections they share    *)
(* through MongodbClient.  E-mail requests are in MailRequest.             *)
(*                                                                         *)
(* A request is [method, words, uri, q, body]: words are the methods whose *)
(* names occur anywhere else in its text; q maps a query parameter that is *)
(* present to the set of values its comma separated list gives; body is    *)
(* [text, docs, event], event being what it adds to the activity, or the   *)
(* port of a configuration.  A document maps the paths that handlers       *)
(* filter on to its values; the path "shipment.awbno" is awbno here,       *)
(* accountNo, shippedOn and country stand for the longer paths of the date *)
(* report, code and password for those of loginCredentials.  A filter maps *)
(* a path to the values it accepts.                                        *)
(*                                                                         *)
(* MongoDB, which is not part of the repository, applies an update, a      *)
(* delete or a find to one document after the other: to every document     *)
(* that is there throughout, and maybe to one that is inserted meanwhile.  *)
(* It tests the filter and changes the document in one step.  It may fail  *)
(* at any time: the driver then throws, which nothing catches.  Ajoul, a   *)
(* carrier that takes over shipments, may fail in every way.               *)
(* Bounds: the number of requests of a suite; an update of a single        *)
(* shipment, whose body may set any field of it, sets its activity only.   *)
(***************************************************************************)
EXTENDS Integers, Sequences, FiniteSets

CONSTANTS
    Worker,
    Suites,         \* the requests clients make, and the bound on how many of
                    \* them: one of these [requests, max]
    Dates,          \* the dates of documents and reports
    Numeric,        \* the account codes and ports that are numbers
    Length,         \* length of each account code, as a string
    Page,           \* the file each uri of the web interface names, "" when it
                    \* has no extension
    Files,          \* the files that can be opened
    Deleted, NoRequest

ASSUME SuitesAssumption      == \A s \in Suites : s.max \in Nat
ASSUME DatesAssumption       == Dates \subseteq Nat
ASSUME NoRequestAssumption   == \A s \in Suites : NoRequest \notin s.requests
(* The documents of a body are a list of records, the values of a query    *)
(* parameter are finitely many, quantities are numbers.                    *)
ASSUME RequestsAssumption    ==
    \A s \in Suites : \A r \in s.requests :
        /\ Len(r.body.docs) \in Nat
        /\ r.body.docs = [k \in 1..Len(r.body.docs) |-> r.body.docs[k]]
        /\ \A k \in 1..Len(r.body.docs) :
              /\ DOMAIN r.body.docs[k] = {"coll", "activity", "qty", "at"}
              /\ r.body.docs[k].qty \in Int
        /\ \A p \in DOMAIN r.q : IsFiniteSet(r.q[p])
        /\ "qty" \in DOMAIN r.q => r.q.qty # {} /\ r.q.qty \subseteq Int

VARIABLES
    suite,      \* what the clients do
    store,      \* the documents, in the order of their insertion
    pc,         \* control point of each worker
    req,        \* the request it processes, or processed last
    there,      \* the documents that were there when it began
    seen,       \* the documents the database has looked at for it
    cnt,        \* documents inserted, matched, deleted or found
    answer,     \* its last response
    made,       \* requests made so far
    crashed,    \* an exception was not caught: the process is gone
    booked,     \* net quantity of each sku that clients were told is booked
    done        \* what each request changed: documents, or shipments at ajoul

vars == <<suite, store, pc, req, there, seen, cnt, answer, made, crashed, booked, done>>

ProofOfDelivery == "Proof of Delivery"
Delivered(d) == \E k \in 1..Len(d.activity) : d.activity[k] = ProofOfDelivery

-----------------------------------------------------------------------------
(* Responses: what is declared in Content-Length, what is sent of it (one  *)
(* unit of body), and whether the header is ended by an empty line.        *)

Nothing == [status |-> "none", length |-> 0, sent |-> 0, ended |-> FALSE]
build_responseOK(body) == [status |-> "200", length |-> body, sent |-> body, ended |-> body > 0]
build_responseERROR(error) == [status |-> error, length |-> 1, sent |-> 0, ended |-> TRUE]
handle_OPTIONS == [status |-> "200", length |-> 0, sent |-> 0, ended |-> TRUE]
Success == build_responseOK(1)
BadRequest == build_responseERROR("400")
NotFound == build_responseERROR("404")

(* What a handler asks of the database, and what it answers: "some" if a   *)
(* document was concerned, else "none".  A filter or a document that is    *)
(* not JSON, or an update MongoDB rejects, throws.                         *)
Call(do, coll, filter, some, none) ==
    [do |-> do, coll |-> coll, filter |-> filter, open |-> FALSE,
     some |-> some, none |-> none]
Find(coll, filter, none) == Call("find", coll, filter, Success, none)
Insert(coll, none) == Call("insert", coll, <<>>, Success, none)
Update(do, coll, filter) == Call(do, coll, filter, Success, BadRequest)
Reply(response) == Call("nothing", "", <<>>, response, response)
Throw == Call("throw", "", <<>>, Nothing, Nothing)
Relay == Call("relay", "", <<>>, Success, BadRequest)

(* The requests are dispatched by the first part of their uri.  Those with *)
(* a part that names no other handler get an empty response.               *)
ShipmentUri == {"/api/v1/shipment", "/api/v1/shipment/shipping",
                "/api/v1/shipment/bulk/shipping", "/api/v1/shipment/awblist",
                "/api/v1/shipment/thirdparty/ajoul"}
ConfigUri == {"/api/v1/config", "/api/v1/config/db"}
PrefixOnly == {"/api/v1/shipment", "/api/v1/shipment/awblist"}

Given(r, params) == params \subseteq DOMAIN r.q
(* Where a value is not split at its commas, a list equals no value.       *)
One(values) == IF Cardinality(values) = 1 THEN values ELSE {}
(* A filter, with one more condition if the request has the parameter.     *)
And(filter, path, values) ==
    [p \in DOMAIN filter \cup {path} |-> IF p = path THEN values ELSE filter[p]]
AndGiven(r, param, path, filter) ==
    IF Given(r, {param}) THEN And(filter, path, One(r.q[param])) ELSE filter
Between(from, to) == {d \in Dates : \E a \in from, b \in to : a <= d /\ d <= b}

-----------------------------------------------------------------------------
(* GET.  With awbNo and accountCode the filter stays empty, which is not   *)
(* JSON; the account codes of a report are not quoted.                     *)

Shipments(filter) == Find("shipping", filter, BadRequest)
OfAccount(r, filter) == AndGiven(r, "accountCode", "accountCode", filter)

ByAwb_FlatKey(r) == Shipments([shipmentNo |-> r.q.awbNo])         \* mutant
ByAwb(r) == IF Given(r, {"accountCode"}) THEN Throw ELSE Shipments([awbno |-> r.q.awbNo])
ByAltRef(r) == Shipments(OfAccount(r, [altRefNo |-> r.q.altRefNo]))
BySenderRef(r) == Shipments(OfAccount(r, [senderRefNo |-> r.q.senderRefNo]))

DetailedReport(r) ==
    LET shipped == [shippedOn |-> Between(r.q.fromDate, r.q.toDate)]
        sent == IF Given(r, {"accountCode"})
                THEN And(shipped, "accountNo", r.q.accountCode) ELSE shipped
    IN IF Given(r, {"accountCode"}) /\ ~(r.q.accountCode \subseteq Numeric) THEN Throw
       ELSE Shipments(AndGiven(r, "country", "country", sent))

handle_shipment_GET(r) ==
    IF r.uri # "/api/v1/shipment/shipping" THEN Reply(Nothing)
    ELSE IF Given(r, {"awbNo"}) THEN ByAwb(r)
    ELSE IF Given(r, {"altRefNo"}) THEN ByAltRef(r)
    ELSE IF Given(r, {"senderRefNo"}) THEN BySenderRef(r)
    ELSE IF Given(r, {"fromDate", "toDate"}) THEN DetailedReport(r)
    ELSE Reply(Nothing)

handle_account_GET(r) ==
    IF r.uri # "/api/v1/account/account" THEN Reply(Nothing)
    ELSE IF Given(r, {"userId", "password"})
    THEN Find("account", [code |-> One(r.q.userId), password |-> One(r.q.password)], BadRequest)
    ELSE IF Given(r, {"accountCode"})
    THEN Find("account", [code |-> One(r.q.accountCode)], BadRequest)
    ELSE Find("account", <<>>, NotFound)

handle_inventory_GET(r) ==
    IF r.uri # "/api/v1/inventory" THEN Reply(Nothing)
    ELSE IF Given(r, {"accountCode"})
    THEN Find("inventory", AndGiven(r, "sku", "sku", [accountCode |-> One(r.q.accountCode)]),
              NotFound)
    ELSE Find("inventory", [sku |-> IF Given(r, {"sku"}) THEN One(r.q.sku) ELSE {""}], NotFound)

(* The attachments are read from another collection than handle_document_- *)
(* POST writes, the one named like the corporate (a query on a collection  *)
(* without a name throws), and what is found is not sent.                  *)
handle_document_GET(r) ==
    LET ofCorporate == [corporate |-> One(r.q.corporate)]
        ofUser == And(And(ofCorporate, "userId", One(r.q.userId)), "file",
                      IF Given(r, {"file"}) THEN One(r.q.file) ELSE {""})
    IN IF r.uri # "/api/v1/document" THEN Reply(Nothing)
       ELSE IF ~Given(r, {"corporate"}) THEN Throw
       ELSE Call("find", "corporate", IF Given(r, {"userId"}) THEN ofUser ELSE ofCorporate,
                 Nothing, Nothing)

-----------------------------------------------------------------------------
(* POST: the documents of the body are inserted.  A body that is no JSON   *)
(* throws, and so does an empty bulk write.                                *)

Create(r, coll, none) ==
    IF r.body.text = "none" THEN Reply(Nothing)
    ELSE IF r.body.text = "malformed" \/ r.body.docs = <<>> THEN Throw
    ELSE Insert(coll, none)

(* The ip address and the port are only read, and the port has to be one.  *)
handle_config_POST(r) ==
    IF r.uri # "/api/v1/config/db" \/ r.body.text = "none" THEN Reply(Nothing)
    ELSE IF r.body.text = "malformed" \/ r.body.event \notin Numeric THEN Throw
    ELSE Reply(Nothing)

handle_POST(r) ==
    CASE r.uri = "/api/v1/shipment/shipping" -> Create(r, "shipping", Nothing)
      [] r.uri = "/api/v1/shipment/bulk/shipping" -> Create(r, "shipping", BadRequest)
      [] r.uri = "/api/v1/account/account" -> Create(r, "account", Nothing)
      [] r.uri = "/api/v1/inventory" -> Create(r, "inventory", Nothing)
      [] r.uri = "/api/v1/document" -> Create(r, "attachment", BadRequest)
      [] r.uri = "/api/v1/shipment/thirdparty/ajoul" -> Relay
      [] r.uri \in ConfigUri -> handle_config_POST(r)
      [] r.uri \in PrefixOnly -> Reply(Nothing)
      [] OTHER -> Reply(build_responseOK(0))

-----------------------------------------------------------------------------
(* PUT.  "open" are the shipments without a proof of delivery.             *)

Undelivered(call) == [call EXCEPT !.open = TRUE]
Awbs(r) == IF Given(r, {"isSingleShipment"}) THEN One(r.q.shipmentNo) ELSE r.q.shipmentNo

(* isSingleShipment sets fields of the shipment (here the activity, when   *)
(* the body has an event); else the event is added to the activity.        *)
handle_shipment_PUT_AnyShipment(r) ==                             \* mutant
    IF r.uri # "/api/v1/shipment/shipping" THEN Reply(Nothing)
    ELSE IF r.body.text # "json" \/ ~Given(r, {"shipmentNo"}) THEN Throw
    ELSE Update(IF Given(r, {"isSingleShipment"}) THEN "set" ELSE "push", "shipping",
                AndGiven(r, "accountCode", "accountCode", [awbno |-> Awbs(r)]))
handle_shipment_PUT(r) ==
    IF r.uri # "/api/v1/shipment/shipping" THEN Reply(Nothing)
    ELSE IF r.body.text # "json" \/ ~Given(r, {"shipmentNo"}) THEN Throw
    ELSE Undelivered(
           Update(IF Given(r, {"isSingleShipment"}) THEN "set" ELSE "push", "shipping",
                  AndGiven(r, "accountCode", "accountCode", [awbno |-> Awbs(r)])))

(* sku.length() && qty.length() & acc.length(): the account only counts    *)
(* when the lengths of the quantity and of the code share a bit.           *)
Digits(n) == IF n < 10 THEN 1 ELSE IF n < 100 THEN 2 ELSE 3
SharesBit(a, b) == \E e \in 0..7 : (a \div 2^e) % 2 = 1 /\ (b \div 2^e) % 2 = 1
NamesAccount(r) ==
    /\ Given(r, {"accountCode"})
    /\ \A n \in r.q.qty, a \in r.q.accountCode : SharesBit(Digits(n), Length[a])

handle_inventory_PUT_AnyAccount(r) ==                             \* mutant
    IF Given(r, {"sku", "qty"}) THEN Update("inc", "inventory", [sku |-> One(r.q.sku)]) ELSE Throw
handle_inventory_PUT(r) ==
    IF r.uri # "/api/v1/inventory" THEN Reply(Nothing)
    ELSE IF ~Given(r, {"sku", "qty"}) THEN Throw
    ELSE IF NamesAccount(r)
    THEN Update("inc", "inventory",
                [sku |-> One(r.q.sku), accountCode |-> One(r.q.accountCode)])
    ELSE Update("inc", "inventory", [sku |-> One(r.q.sku)])

(* "$update" is no update operator: MongoDB rejects it.                    *)
handle_account_PUT(r) ==
    IF r.uri # "/api/v1/account/account" THEN Reply(Nothing) ELSE Throw

handle_PUT(r) ==
    CASE r.uri \in ShipmentUri -> handle_shipment_PUT(r)
      [] r.uri = "/api/v1/inventory" -> handle_inventory_PUT(r)
      [] r.uri = "/api/v1/account/account" -> handle_account_PUT(r)
      [] OTHER -> Reply(BadRequest)

handle_DELETE(r) ==
    IF r.uri # "/api/v1/shipment/awblist" THEN Reply(BadRequest)
    ELSE IF Given(r, {"awbList"})
    THEN Call("delete", "shipping", [shipmentNo |-> r.q.awbList], Success, Success)
    ELSE IF Given(r, {"startDate", "endDate"})
    THEN Call("delete", "shipping", [createdOn |-> Between(r.q.startDate, r.q.endDate)],
              Success, Success)
    ELSE Reply(BadRequest)

(* A page of the web interface; index.html for any other uri.              *)
StaticPage(uri) ==
    LET file == IF uri \in DOMAIN Page THEN Page[uri] ELSE "index.html"
    IN build_responseOK(IF file \in Files THEN 1 ELSE 0)
handle_GET(r) ==
    CASE r.uri \in ShipmentUri -> handle_shipment_GET(r)
      [] r.uri = "/api/v1/inventory" -> handle_inventory_GET(r)
      [] r.uri = "/api/v1/document" -> handle_document_GET(r)
      [] r.uri = "/api/v1/account/account" -> handle_account_GET(r)
      [] OTHER -> Reply(StaticPage(r.uri))

(* The method is the first of these names that occurs in the text.         *)
process_request(r) ==
    LET Has(method) == method \in {r.method} \cup r.words
    IN IF Has("OPTIONS") THEN Reply(handle_OPTIONS)
       ELSE IF Has("GET") THEN handle_GET(r)
       ELSE IF Has("POST") THEN handle_POST(r)
       ELSE IF Has("PUT") THEN handle_PUT(r)
       ELSE IF Has("DELETE") THEN handle_DELETE(r)
       ELSE Reply(Nothing)

-----------------------------------------------------------------------------
(* The workers.                                                            *)

Present(i) == store[i] # Deleted
Matches(d, call) ==
    /\ d.coll = call.coll
    /\ \A p \in DOMAIN call.filter : p \in DOMAIN d.at /\ d.at[p] \in call.filter[p]
    /\ call.open => ~Delivered(d)

Change(d, call, r) ==
    CASE call.do = "push" -> [d EXCEPT !.activity = Append(@, r.body.event)]
      [] call.do = "set" -> IF r.body.event = "" THEN d
                            ELSE [d EXCEPT !.activity = <<r.body.event>>]
      [] call.do = "inc" -> [d EXCEPT !.qty = IF Given(r, {"isUpdate"})
                                              THEN @ + (CHOOSE n \in r.q.qty : TRUE)
                                              ELSE @ - (CHOOSE n \in r.q.qty : TRUE)]
      [] call.do = "delete" -> Deleted
      [] OTHER -> d

Init ==
    /\ suite \in Suites
    /\ store = <<>> /\ made = 0 /\ crashed = FALSE
    /\ pc = [w \in Worker |-> "idle"]
    /\ req = [w \in Worker |-> NoRequest]
    /\ there = [w \in Worker |-> {}] /\ seen = [w \in Worker |-> {}]
    /\ cnt = [w \in Worker |-> 0]
    /\ answer = [w \in Worker |-> Nothing]
    /\ booked = [s \in {} |-> 0]
    /\ done = [w \in Worker |-> 0]

Begin_KeepAnswer(w) == cnt' = [cnt EXCEPT ![w] = 0] /\ UNCHANGED answer  \* mutant
Begin(w) == cnt' = [cnt EXCEPT ![w] = 0] /\ answer' = [answer EXCEPT ![w] = Nothing]

FirstStep(call) ==
    CASE call.do = "insert" -> "insert"
      [] call.do = "nothing" -> "send"
      [] call.do = "relay" -> "connect"
      [] OTHER -> "scan"

Take(w, r) ==
    /\ ~crashed /\ pc[w] = "idle" /\ made < suite.max
    /\ made' = made + 1
    /\ req' = [req EXCEPT ![w] = r]
    /\ Begin(w)
    /\ there' = [there EXCEPT ![w] = {i \in 1..Len(store) : Present(i)}]
    /\ seen' = [seen EXCEPT ![w] = {}]
    /\ crashed' = (process_request(r).do = "throw")
    /\ pc' = [pc EXCEPT ![w] = FirstStep(process_request(r))]
    /\ done' = [done EXCEPT ![w] = 0]
    /\ UNCHANGED <<suite, store, booked>>

(* create_document and create_bulk_document.                               *)
InsertNext(w) ==
    /\ ~crashed /\ pc[w] = "insert"
    /\ LET docs == req[w].body.docs
       IN /\ store' = Append(store, [docs[cnt[w] + 1] EXCEPT !.coll = process_request(req[w]).coll])
          /\ cnt' = [cnt EXCEPT ![w] = @ + 1]
          /\ pc' = IF cnt'[w] = Len(docs) THEN [pc EXCEPT ![w] = "send"] ELSE pc
    /\ done' = [done EXCEPT ![w] = @ + 1]
    /\ UNCHANGED <<suite, req, there, seen, answer, made, crashed, booked>>

(* update_collection, delete_document, get_document(s): one document...    *)
Visit(w, i) ==
    /\ ~crashed /\ pc[w] = "scan" /\ Present(i) /\ i \notin seen[w]
    /\ seen' = [seen EXCEPT ![w] = @ \cup {i}]
    /\ LET call == process_request(req[w])
       IN IF Matches(store[i], call)
          THEN /\ store' = [store EXCEPT ![i] = Change(@, call, req[w])]
               /\ cnt' = [cnt EXCEPT ![w] = @ + 1]
               /\ done' = IF store' = store THEN done ELSE [done EXCEPT ![w] = @ + 1]
          ELSE UNCHANGED <<store, cnt, done>>
    /\ UNCHANGED <<suite, pc, req, there, answer, made, crashed, booked>>

(* ...and the end of the scan.                                             *)
ScanEnd(w) ==
    /\ ~crashed /\ pc[w] = "scan"
    /\ \A i \in there[w] : i \in seen[w] \/ ~Present(i)
    /\ pc' = [pc EXCEPT ![w] = "send"]
    /\ UNCHANGED <<suite, store, req, there, seen, cnt, answer, made, crashed, booked, done>>

(* A call of the driver throws: what was done of it stays.                 *)
DatabaseFails(w) ==
    /\ ~crashed /\ pc[w] \in {"insert", "scan"}
    /\ crashed' = TRUE
    /\ UNCHANGED <<suite, store, pc, req, there, seen, cnt, answer, made, booked, done>>

(* The relay of a shipment to ajoul.  What is sent is the same whatever    *)
(* the client sent.  A connect, a send or the first recv that fails is     *)
(* answered with 400: cnt stays 0.                                         *)
RelayFails(w) ==
    /\ ~crashed /\ pc[w] \in {"connect", "authorize", "create"}
    /\ pc' = [pc EXCEPT ![w] = "send"]
    /\ UNCHANGED <<suite, store, req, there, seen, cnt, answer, made, crashed, booked, done>>

Connected(w) ==
    /\ ~crashed /\ pc[w] = "connect"
    /\ pc' = [pc EXCEPT ![w] = "authorize"]
    /\ UNCHANGED <<suite, store, req, there, seen, cnt, answer, made, crashed, booked, done>>

(* get_access_token_for_ajoul throws when the reply is not JSON, and looks *)
(* for the token in a document that is already freed: it may find it, find *)
(* another, or crash.                                                      *)
Authorized(w) ==
    /\ ~crashed /\ pc[w] = "authorize"
    /\ \/ crashed' = TRUE /\ UNCHANGED pc
       \/ pc' = [pc EXCEPT ![w] = "create"] /\ UNCHANGED crashed
    /\ UNCHANGED <<suite, store, req, there, seen, cnt, answer, made, booked, done>>

(* Ajoul got the shipment and created it or, with a wrong token, did not.  *)
(* A recv that fails makes a string of length -1, which throws, and so     *)
(* does get_tracking_no_for_ajoul of a reply that is not JSON or has no    *)
(* reference.  With any other reply the client gets the one to the         *)
(* authorization.                                                          *)
Created_Refuse(w) ==                                              \* mutant
    /\ ~crashed /\ pc[w] = "create"
    /\ \E made_there \in {0, 1} : done' = [done EXCEPT ![w] = made_there]
    /\ \/ UNCHANGED cnt
       \/ cnt' = [cnt EXCEPT ![w] = 1]
    /\ pc' = [pc EXCEPT ![w] = "send"]
    /\ UNCHANGED <<suite, store, req, there, seen, answer, made, crashed, booked>>
Created(w) ==
    /\ ~crashed /\ pc[w] = "create"
    /\ \E made_there \in {0, 1} : done' = [done EXCEPT ![w] = made_there]
    /\ \/ crashed' = TRUE /\ UNCHANGED <<pc, cnt>>
       \/ /\ cnt' = [cnt EXCEPT ![w] = 1]
          /\ pc' = [pc EXCEPT ![w] = "send"]
          /\ UNCHANGED crashed
    /\ UNCHANGED <<suite, store, req, there, seen, answer, made, booked>>

(* update_collection is true if documents matched, the find functions      *)
(* return what they found, the create functions what they created.         *)
Outcome_AlwaysSome(w) == process_request(req[w]).some             \* mutant
Outcome(w) ==
    IF cnt[w] > 0 THEN process_request(req[w]).some ELSE process_request(req[w]).none

(* What the client of a stock request is told is booked, when it succeeds. *)
Booked(w) ==
    LET r == req[w]
        s == IF r.method = "POST" THEN r.body.docs[1].at.sku ELSE CHOOSE x \in r.q.sku : TRUE
        n == IF r.method = "POST" THEN r.body.docs[1].qty
             ELSE IF Given(r, {"isUpdate"}) THEN CHOOSE x \in r.q.qty : TRUE
             ELSE -(CHOOSE x \in r.q.qty : TRUE)
    IN [x \in DOMAIN booked \cup {s} |->
           (IF x \in DOMAIN booked THEN booked[x] ELSE 0) + (IF x = s THEN n ELSE 0)]

Send(w) ==
    /\ ~crashed /\ pc[w] = "send"
    /\ answer' = [answer EXCEPT ![w] = Outcome(w)]
    /\ pc' = [pc EXCEPT ![w] = "idle"]
    /\ booked' = IF req[w].uri = "/api/v1/inventory" /\ req[w].method \in {"POST", "PUT"}
                    /\ Outcome(w).status = "200"
                 THEN Booked(w) ELSE booked
    /\ UNCHANGED <<suite, store, req, there, seen, cnt, made, crashed, done>>

Next == \E w \in Worker :
    \/ \E r \in suite.requests : Take(w, r)
    \/ \E i \in 1..Len(store) : Visit(w, i)
    \/ InsertNext(w) \/ ScanEnd(w) \/ DatabaseFails(w) \/ Send(w)
    \/ RelayFails(w) \/ Connected(w) \/ Authorized(w) \/ Created(w)

Spec == Init /\ [][Next]_vars

-----------------------------------------------------------------------------
(* Properties.                                                             *)

Response == [status : {"200", "400", "404", "none"}, length : 0..1, sent : 0..1, ended : BOOLEAN]

TypeOK ==
    /\ pc \in [Worker -> {"idle", "insert", "scan", "connect", "authorize", "create", "send"}]
    /\ suite \in Suites
    /\ req \in [Worker -> suite.requests \cup {NoRequest}]
    /\ answer \in [Worker -> Response]
    /\ made \in 0..suite.max /\ crashed \in BOOLEAN
    /\ \A i \in 1..Len(store) : store[i] # Deleted =>
          /\ store[i].coll \in {"shipping", "inventory", "account", "attachment"}
          /\ store[i].qty \in Int
    /\ \A w \in Worker :
          /\ there[w] \subseteq 1..Len(store) /\ seen[w] \subseteq 1..Len(store)
          /\ cnt[w] \in 0..Len(store) + 1 /\ done[w] \in 0..Len(store) + 1
          /\ pc[w] # "idle" => req[w] # NoRequest /\ answer[w] = Nothing

Answered(w, method, uri) ==
    /\ ~crashed /\ pc[w] = "idle" /\ req[w] # NoRequest
    /\ req[w].method = method /\ req[w].uri = uri

(* What a client is told is what happened: a request answered with an      *)
(* error, or with nothing, changed no document and left no shipment with   *)
(* ajoul, so it can be made again; a creation answered with success stored *)
(* every document of the request.                                          *)
AnswerMatchesEffect ==
    \A w \in Worker : ~crashed /\ pc[w] = "idle" /\ req[w] # NoRequest =>
        /\ answer[w].status # "200" => done[w] = 0
        /\ answer[w].status = "200" /\ process_request(req[w]).do = "insert"
           => done[w] = Len(req[w].body.docs)

(* A shipment with a proof of delivery is final: no update, alone or in a  *)
(* list, and however it overlaps with the one that delivers it, changes    *)
(* the shipment any more.                                                  *)
DeliveredIsFinal ==
    [][\A i \in 1..Len(store) :
          Present(i) /\ store[i].coll = "shipping" /\ Delivered(store[i]) =>
             store'[i] \in {store[i], Deleted}]_vars

(* The handlers agree on how a shipment is found: one that was created     *)
(* before a GET or a PUT that names it, and is still there after it, was   *)
(* found by it (by a PUT if it is not delivered and of the right account). *)
FoundIfThere ==
    \A w \in Worker : \A i \in there[w] :
       Present(i) /\ store[i].coll = "shipping" /\ "awbno" \in DOMAIN store[i].at =>
       /\ Answered(w, "GET", "/api/v1/shipment/shipping") /\ Given(req[w], {"awbNo"})
          /\ store[i].at.awbno \in req[w].q.awbNo
          => answer[w].status = "200"
       /\ Answered(w, "PUT", "/api/v1/shipment/shipping")
          /\ store[i].at.awbno \in req[w].q.shipmentNo /\ ~Delivered(store[i])
          /\ (Given(req[w], {"accountCode"}) =>
                 store[i].at.accountCode \in req[w].q.accountCode)
          => answer[w].status = "200"

(* A stock update that names an account the handler overlooks.             *)
Overlooked(r) == process_request(r).do = "inc" /\ ~NamesAccount(r)

(* A request that names an account changes documents of that account only, *)
(* but in two cases: a deletion, which does not look at the account, and a *)
(* stock update of which the bitwise & of two lengths overlooks it (one    *)
(* digit and a code of two characters, say); both reach the documents of   *)
(* every account.                                                          *)
OwnDocsOnly ==
    [][\A w \in Worker : \A i \in seen'[w] \ seen[w] :
          Given(req[w], {"accountCode"}) /\ store'[i] # store[i] =>
             \/ process_request(req[w]).do = "delete"
             \/ Overlooked(req[w])
             \/ store[i].at.accountCode \in req[w].q.accountCode]_vars

(* The stock is what the clients were told: when no request is being       *)
(* processed, the quantity of a sku is the one it was created with plus    *)
(* the changes that were answered with success, none lost, none refused    *)
(* and made all the same.  (Of a sku that was created once.)               *)
StockOf(s) == {i \in 1..Len(store) :
                  Present(i) /\ store[i].coll = "inventory" /\ store[i].at.sku = s}
StockMatchesAnswers ==
    (\A w \in Worker : pc[w] = "idle") /\ ~crashed =>
        \A s \in DOMAIN booked : \A i \in StockOf(s) :
            Cardinality(StockOf(s)) = 1 => store[i].qty = booked[s]

-----------------------------------------------------------------------------
(* Premises of theorems: requests that are read as they are meant.         *)

(* Updates of shipments: the text names no other method, a single update   *)
(* names a single shipment, an account is one account, and shipments are   *)
(* created with one.                                                       *)
UpdatesPlain ==
    \A s \in Suites : \A r \in s.requests :
        /\ r.method = "PUT" /\ r.uri = "/api/v1/shipment/shipping" =>
              /\ r.words = {}
              /\ Given(r, {"isSingleShipment"}) => One(r.q.shipmentNo) = r.q.shipmentNo
              /\ Given(r, {"accountCode"}) => One(r.q.accountCode) = r.q.accountCode
        /\ \A k \in 1..Len(r.body.docs) : "awbno" \in DOMAIN r.body.docs[k].at
              => "accountCode" \in DOMAIN r.body.docs[k].at

(* Stock: the text names no other method, one sku is created at a time.    *)
StockPlain ==
    \A s \in Suites : \A r \in s.requests : r.uri = "/api/v1/inventory" =>
        r.words = {} /\ (r.method = "POST" => Len(r.body.docs) <= 1)

=============================================================================
