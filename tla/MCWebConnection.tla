-------------------------- MODULE MCWebConnection --------------------------
(* WebConnection for TLC: two connections, requests of every kind.         *)
EXTENDS WebConnection, TLC
CONSTANTS c1, c2
Post(n) == [json |-> TRUE, cl |-> TRUE, body |-> n]
PostNoLength == [json |-> TRUE, cl |-> FALSE, body |-> 1]
Get == [json |-> FALSE, cl |-> FALSE, body |-> 0]
TwoClients == (c1 :> <<Post(2), Get>>) @@ (c2 :> <<PostNoLength, Post(3)>>)

Tidy == [c \in {c1, c2} |-> {}]
OneWild == {Tidy, [Tidy EXCEPT ![c1] = Manner]}
=============================================================================
