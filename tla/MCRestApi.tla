----------------------------- MODULE MCRestApi -----------------------------
(* RestApi for TLC: two accounts of two customers, a few shipments and one *)
(* sku, and the suites of requests.  The account "A2" has no documents.    *)
EXTENDS RestApi, TLC

None == [text |-> "none", docs |-> <<>>, event |-> ""]
Json(docs, event) == [text |-> "json", docs |-> docs, event |-> event]
Malformed == [text |-> "malformed", docs |-> <<>>, event |-> ""]
Rq(method, uri, q, body) ==
    [method |-> method, words |-> {}, uri |-> uri, q |-> q, body |-> body]
NoQuery == [p \in {} |-> {}]

Shipment(awb, acc) ==
    [coll |-> "", activity |-> <<>>, qty |-> 0,
     at |-> [awbno |-> awb, accountCode |-> acc, accountNo |-> acc, altRefNo |-> "R",
             senderRefNo |-> "S", shippedOn |-> 1, country |-> "SA"]]
OldShipment ==     \* one with the fields DELETE filters on
    [coll |-> "", activity |-> <<>>, qty |-> 0,
     at |-> [shipmentNo |-> "A", createdOn |-> 1, accountCode |-> "X12"]]
Stock(sku, acc, n) ==
    [coll |-> "", activity |-> <<>>, qty |-> n, at |-> [sku |-> sku, accountCode |-> acc]]
Customer == [coll |-> "", activity |-> <<>>, qty |-> 0, at |-> [code |-> "100", password |-> "p"]]
Attachment == [coll |-> "", activity |-> <<>>, qty |-> 0, at |-> [corporate |-> "c"]]

Ship == "/api/v1/shipment/shipping"
Inv == "/api/v1/inventory"
Acc == "/api/v1/account/account"
Numbers(s) == [shipmentNo |-> s]

(* Shipments: bulk creation, single and list updates, queries.             *)
BulkAB == Rq("POST", "/api/v1/shipment/bulk/shipping", NoQuery,
             Json(<<Shipment("A", "100"), Shipment("B", "X12")>>, ""))
CreateA == Rq("POST", Ship, NoQuery, Json(<<Shipment("A", "100")>>, ""))
Push(s, event) == Rq("PUT", Ship, Numbers(s), Json(<<>>, event))
SetA == Rq("PUT", Ship, [shipmentNo |-> {"A"}, isSingleShipment |-> {"true"},
                         accountCode |-> {"100"}], Json(<<>>, "In Transit"))
GetA == Rq("GET", Ship, [awbNo |-> {"A"}], None)
ShipRequests == {BulkAB, Push({"A", "B"}, "In Transit"), Push({"A"}, ProofOfDelivery), SetA, GetA}

(* Stock: creation, both directions of an update, with and without account. *)
CreateStock == Rq("POST", Inv, NoQuery, Json(<<Stock("k", "100", 5)>>, ""))
CreateOther == Rq("POST", Inv, NoQuery, Json(<<Stock("k", "X12", 5)>>, ""))
Use(n, acc) == Rq("PUT", Inv, [sku |-> {"k"}, qty |-> {n}, accountCode |-> {acc}], None)
Add(n) == Rq("PUT", Inv, [sku |-> {"k"}, qty |-> {n}, isUpdate |-> {"true"}], None)
StockRequests ==
    {CreateStock, CreateOther, Use(3, "100"), Use(7, "X12"), Use(4, "A2"), Add(2)}

(* Every endpoint and every branch of the queries.                         *)
AllRequests == {
    CreateA, BulkAB, SetA, GetA,
    Rq("POST", Ship, NoQuery, Json(<<OldShipment>>, "")),
    Rq("GET", Ship, [altRefNo |-> {"R"}, accountCode |-> {"100"}], None),
    Rq("GET", Ship, [altRefNo |-> {"R"}], None),
    Rq("GET", Ship, [senderRefNo |-> {"S"}], None),
    Rq("GET", Ship, [fromDate |-> {1}, toDate |-> {2}, country |-> {"SA"},
                     accountCode |-> {"100"}], None),
    Rq("GET", Ship, [fromDate |-> {1}, toDate |-> {2}], None),
    Rq("GET", Ship, NoQuery, None),
    Rq("GET", "/api/v1/shipment", NoQuery, None),
    Rq("POST", Acc, NoQuery, Json(<<Customer>>, "")),
    Rq("GET", Acc, [userId |-> {"100"}, password |-> {"q"}], None),
    Rq("GET", Acc, [accountCode |-> {"100"}], None),
    Rq("GET", Acc, NoQuery, None),
    Rq("PUT", "/api/v1/other", NoQuery, None),
    Rq("POST", "/api/v1/other", NoQuery, None),
    Rq("POST", Ship, NoQuery, None),
    Rq("POST", "/api/v1/document", NoQuery, Json(<<Attachment>>, "")),
    Rq("GET", "/api/v1/document", [corporate |-> {"c"}, userId |-> {"u"}], None),
    CreateStock, Add(2),
    Rq("GET", Inv, [sku |-> {"k"}, accountCode |-> {"100"}], None),
    Rq("DELETE", "/api/v1/shipment/awblist", [startDate |-> {1}, endDate |-> {2}], None),
    Rq("DELETE", "/api/v1/shipment/awblist", NoQuery, None),
    Rq("OPTIONS", Ship, NoQuery, None),
    [CreateA EXCEPT !.words = {"GET"}],
    Rq("PATCH", Ship, NoQuery, None),
    Rq("GET", Ship, [awbNo |-> {"A"}, accountCode |-> {"100"}], None),
    Rq("PUT", Acc, [accountCode |-> {"100"}], Json(<<>>, "")),
    Rq("POST", Inv, NoQuery, Malformed),
    Rq("DELETE", "/api/v1/shipment/awblist", [awbList |-> {"A"}, accountCode |-> {"100"}], None),
    Rq("POST", "/api/v1/shipment/thirdparty/ajoul", NoQuery, None),
    Rq("POST", "/api/v1/config/db", NoQuery, Json(<<>>, "100")),
    Rq("POST", "/api/v1/config/db", NoQuery, Json(<<>>, "")),
    Rq("GET", "/webui/logo.png", NoQuery, None)}

AllSuites == {[requests |-> ShipRequests, max |-> 4], [requests |-> StockRequests, max |-> 4],
              [requests |-> AllRequests, max |-> 2]}

WebPages == ("/webui/logo.png" :> "logo.png") @@ ("/webui/" :> "")
CodeLength == ("100" :> 3) @@ ("X12" :> 3) @@ ("A2" :> 2)

(* The suites satisfy the premises of the theorems of RestApi.             *)
ASSUME PlainSuites == UpdatesPlain /\ StockPlain
=============================================================================
