---------------------------- MODULE MCHttpParser ----------------------------
(* HttpParser for TLC: up to two parameters, equal or not, whose values    *)
(* hold every character with a meaning; headers that repeat names or hold  *)
(* blanks; bodies that look like headers.                                  *)
EXTENDS HttpParser

Values == {<<>>, <<"a">>, <<"&">>, <<"=", "a">>, <<"a", " ">>, <<"%", "+">>, <<"?">>}
Param(V) == [name : {<<"a">>, <<"b">>}, value : V]
Queries == {<<>>} \cup {<<p>> : p \in Param(Values)}
           \cup {<<p, q>> : p \in Param(Values), q \in Param({<<>>, <<"b">>})}
H(n, v) == [name |-> n, value |-> v]
HeaderSets == {<<H(<<"b">>, <<"x">>), H(<<"x">>, <<"a", "?">>)>>,
               <<H(<<"x">>, <<"a", " ", "b">>), H(<<"x">>, <<"b">>)>>}
Bodies == {[json |-> TRUE, body |-> <<>>],
           [json |-> FALSE, body |-> <<H(<<"a">>, <<"x">>), H(<<"x">>, <<"x">>)>>]}
AllRequests ==
    {[path |-> p, query |-> q, headers |-> h, json |-> b.json, body |-> b.body] :
        p \in {<<"/">>, <<"/", "a", " ", "b">>}, q \in Queries, h \in HeaderSets, b \in Bodies}
=============================================================================
