----------------------------- MODULE HttpParser -----------------------------
(***************************************************************************)
(* The parser of granada's Http class: parse_uri reads the request line    *)
(* character by character, parse_mime_header the other lines; both put     *)
(* what they find into one map, whose insert keeps the first value of a    *)
(* key.  The handlers look parameters and headers up in it alike.          *)
(*                                                                         *)
(* Text is a sequence of symbols: a character, an escape %XY standing for  *)
(* a character (or Malformed), or the four characters "HTTP".  The client  *)
(* encodes a request, in one of the styles clients use; a request line     *)
(* always names the version of the protocol.                               *)
(***************************************************************************)
EXTENDS Integers, Sequences, SequencesExt

CONSTANTS
    Letter,         \* the characters without a meaning
    Requests,       \* what clients ask: [path, query, headers, json, body]
    Styles          \* how they encode: "plus", "percent", "broken"

SP == " "
Reserved == {SP, "+", "?", "&", "=", "%", "/"}
Char == Letter \cup Reserved
Malformed == "malformed"
HTTP == "HTTP"
CR == "CR"

Text == Seq(Char)
Field == [name : Text, value : Text]
ASSUME LetterAssumption ==
    /\ "G" \in Letter /\ Letter \cap Reserved = {}
    /\ {Malformed, HTTP, CR, ":"} \cap Char = {}
ASSUME RequestsAssumption == \A r \in Requests :
    /\ r.path \in Text /\ r.query \in Seq(Field) /\ r.headers \in Seq(Field)
    /\ r.json \in BOOLEAN /\ r.body \in Seq(Field)
ASSUME StylesAssumption == Styles \subseteq {"plus", "percent", "broken"}

-----------------------------------------------------------------------------
(* The client.                                                             *)

Plain(c) == [escaped |-> FALSE, char |-> c]
Escaped(c) == [escaped |-> TRUE, char |-> c]
Symbol == {Plain(c) : c \in Char \cup {HTTP}} \cup {Escaped(c) : c \in Char \cup {Malformed}}

EncodeChar(c, style) ==
    CASE c = SP /\ style = "plus"               -> Plain("+")
      [] c = "%" /\ style = "broken"            -> Escaped(Malformed)
      [] c \in Reserved \ {"/"} /\ (c = SP => style # "plus")
                        /\ (c = "%" => style # "broken") -> Escaped(c)
      [] OTHER                                  -> Plain(c)
Encode(text, style) == [i \in 1..Len(text) |-> EncodeChar(text[i], style)]

EncodeParam(query, i, style) ==
    <<Plain(IF i = 1 THEN "?" ELSE "&")>> \o Encode(query[i].name, style)
    \o <<Plain("=")>> \o Encode(query[i].value, style)

(* What follows the path: the parameters from each one on, and the version.*)
Rest(query, style) ==
    LET rest[i \in 1..(Len(query) + 1)] ==
            IF i = Len(query) + 1 THEN <<Plain(SP), Plain(HTTP), Plain("/")>>
            ELSE EncodeParam(query, i, style) \o rest[i + 1]
    IN rest

RequestLine(r, style) ==
    <<Plain("G"), Plain(SP)>> \o Encode(r.path, style) \o Rest(r.query, style)[1]

(* "Name: value", one line each, the empty line, and the body: it belongs  *)
(* to the text get_header returns unless the request is JSON.              *)
HeaderLine(h) == h.name \o <<":", SP>> \o h.value \o <<CR>>
BodyLine(h) == h.name \o <<":", SP>> \o h.value
HeaderText(r) ==
    [i \in 1..Len(r.headers) |-> HeaderLine(r.headers[i])] \o <<<<CR>>>>
    \o (IF r.json THEN <<>> ELSE [i \in 1..Len(r.body) |-> BodyLine(r.body[i])])

-----------------------------------------------------------------------------
VARIABLES
    state,          \* "uri", "mime", "done" or "thrown"
    request,        \* what the client asked
    style,          \* how it encoded it
    input,          \* rest of the request line
    lines,          \* rest of the other lines
    parsed_string,  \* characters since the last delimiter
    param,          \* the key whose value is being read
    isQsPresent,    \* a '?' was read
    uriName,        \* m_uriName
    tokenMap        \* m_tokenMap: a function from keys to values

uriVars == <<input, isQsPresent, uriName>>
vars == <<state, request, style, uriVars, lines, parsed_string, param, tokenMap>>

TypeOK ==
    /\ state \in {"uri", "mime", "done", "thrown"}
    /\ request \in Requests /\ style \in Styles
    /\ input \in Seq(Symbol) /\ lines \in Seq(Seq(Char \cup {":", CR}))
    /\ parsed_string \in Seq(Char \cup {CR}) /\ param \in Text
    /\ isQsPresent \in BOOLEAN /\ uriName \in Text
    /\ \A k \in DOMAIN tokenMap : tokenMap[k] \in Text /\ k \in Seq(Char \cup {CR})
    /\ state = "thrown" => style = "broken"

Init ==
    /\ state = "uri"
    /\ request \in Requests /\ style \in Styles
    /\ input = RequestLine(request, style) /\ lines = HeaderText(request)
    /\ parsed_string = <<>> /\ param = <<>> /\ isQsPresent = FALSE
    /\ uriName = <<>> /\ tokenMap = << >>

(* add_element: unordered_map::insert, which changes nothing for a key     *)
(* that is there.                                                          *)
add_element_Assign(k, v) ==                                       \* mutant
    [x \in DOMAIN tokenMap \cup {k} |-> IF x = k THEN v ELSE tokenMap[x]]
add_element(k, v) ==
    IF k \in DOMAIN tokenMap THEN tokenMap
    ELSE [x \in DOMAIN tokenMap \cup {k} |-> IF x = k THEN v ELSE tokenMap[x]]
get_element(k) == IF k \in DOMAIN tokenMap THEN tokenMap[k] ELSE <<>>

-----------------------------------------------------------------------------
(* parse_uri: one action per case of its switch.                           *)

Reads(c) == state = "uri" /\ input # <<>> /\ Head(input) = Plain(c)
Clear == parsed_string' = <<>> /\ param' = <<>>

(* A blank is the end of the address if "HTTP" follows; if not, the four   *)
(* characters that were read are put back.                                 *)
Blank ==
    /\ Reads(SP)
    /\ IF Len(input) > 1 /\ input[2] = Plain(HTTP)
       THEN /\ input' = Tail(Tail(input))
            /\ IF isQsPresent
               THEN tokenMap' = add_element(param, parsed_string) /\ UNCHANGED uriName
               ELSE uriName' = parsed_string /\ UNCHANGED tokenMap
       ELSE input' = Tail(input) /\ UNCHANGED <<uriName, tokenMap>>
    /\ Clear
    /\ UNCHANGED <<state, request, style, lines, isQsPresent>>

Plus ==
    /\ Reads("+")
    /\ input' = Tail(input) /\ parsed_string' = Append(parsed_string, SP)
    /\ UNCHANGED <<state, request, style, lines, param, isQsPresent, uriName, tokenMap>>

Question ==
    /\ Reads("?")
    /\ input' = Tail(input) /\ parsed_string' = <<>>
    /\ isQsPresent' = TRUE /\ uriName' = parsed_string
    /\ UNCHANGED <<state, request, style, lines, param, tokenMap>>

Ampersand ==
    /\ Reads("&")
    /\ input' = Tail(input)
    /\ tokenMap' = add_element(param, parsed_string)
    /\ Clear
    /\ UNCHANGED <<state, request, style, lines, isQsPresent, uriName>>

Equals ==
    /\ Reads("=")
    /\ input' = Tail(input) /\ param' = parsed_string /\ parsed_string' = <<>>
    /\ UNCHANGED <<state, request, style, lines, isQsPresent, uriName, tokenMap>>

(* stoi on the two characters after the '%' throws if they are no number,  *)
(* and nothing catches it.                                                 *)
Percent_Raw ==                                                    \* mutant
    /\ state = "uri" /\ input # <<>> /\ Head(input).escaped
    /\ input' = Tail(input) /\ parsed_string' = Append(parsed_string, Head(input).char)
    /\ UNCHANGED <<state, request, style, lines, param, isQsPresent, uriName, tokenMap>>
Percent ==
    /\ state = "uri" /\ input # <<>> /\ Head(input).escaped
    /\ IF Head(input).char = Malformed
       THEN state' = "thrown" /\ UNCHANGED <<input, parsed_string>>
       ELSE /\ input' = Tail(input)
            /\ parsed_string' = Append(parsed_string, Head(input).char)
            /\ UNCHANGED state
    /\ UNCHANGED <<request, style, lines, param, isQsPresent, uriName, tokenMap>>

Other ==
    /\ \E c \in Letter \cup {"/"} : Reads(c)
    /\ input' = Tail(input) /\ parsed_string' = Append(parsed_string, Head(input).char)
    /\ UNCHANGED <<state, request, style, lines, param, isQsPresent, uriName, tokenMap>>

UriEnd ==
    /\ state = "uri" /\ input = <<>>
    /\ state' = "mime"
    /\ Clear
    /\ UNCHANGED <<request, style, lines, uriVars, tokenMap>>

-----------------------------------------------------------------------------
(* parse_mime_header, line by line.  Up to the first ':' is the key, after *)
(* what earlier lines without one have left; one character behind the ':'  *)
(* is dropped, and all blanks and the CR.                                  *)

Colon(line) == SelectInSeq(line, LAMBDA c : c = ":")
Squeezed(text) ==
    LET dense[i \in 1..(Len(text) + 1)] ==
            IF i = Len(text) + 1 THEN <<>>
            ELSE (IF text[i] \in {SP, CR} THEN <<>> ELSE <<text[i]>>) \o dense[i + 1]
    IN dense[1]
MimeLine_KeepText ==                                              \* mutant
    /\ state = "mime" /\ lines # <<>>
    /\ LET line == Head(lines)
           k == Colon(line)
       IN IF k = 0
          THEN parsed_string' = parsed_string \o line /\ UNCHANGED tokenMap
          ELSE /\ tokenMap' = add_element(parsed_string \o SubSeq(line, 1, k - 1),
                     Squeezed(SubSeq(line, k + 2, Len(line))))
               /\ parsed_string' = SubSeq(line, 1, k - 1)
    /\ lines' = Tail(lines)
    /\ UNCHANGED <<state, request, style, uriVars, param>>
MimeLine ==
    /\ state = "mime" /\ lines # <<>>
    /\ LET line == Head(lines)
           k == Colon(line)
       IN IF k = 0
          THEN parsed_string' = parsed_string \o line /\ UNCHANGED tokenMap
          ELSE /\ tokenMap' = add_element(parsed_string \o SubSeq(line, 1, k - 1),
                     Squeezed(SubSeq(line, k + 2, Len(line))))
               /\ parsed_string' = <<>>
    /\ lines' = Tail(lines)
    /\ UNCHANGED <<state, request, style, uriVars, param>>

MimeEnd ==
    /\ state = "mime" /\ lines = <<>>
    /\ state' = "done"
    /\ UNCHANGED <<request, style, uriVars, lines, parsed_string, param, tokenMap>>

Next ==
    \/ Blank \/ Plus \/ Question \/ Ampersand \/ Equals \/ Percent \/ Other \/ UriEnd
    \/ MimeLine \/ MimeEnd

Spec == Init /\ [][Next]_vars

-----------------------------------------------------------------------------
(* Properties.                                                             *)

Named(fields, k) == {i \in 1..Len(fields) : fields[i].name = k}
FirstNamed(fields, k) == fields[CHOOSE i \in Named(fields, k) :
                                   \A j \in Named(fields, k) : i <= j].value
Names(fields) == {fields[i].name : i \in 1..Len(fields)}

(* Whatever characters a client puts into the path and the parameters, and *)
(* however it escapes them, the handlers find that path and those          *)
(* parameters, of a repeated one the first; no request that is escaped     *)
(* correctly ends the process, not even when it has headers of the same    *)
(* names.                                                                  *)
QueryAsSent ==
    /\ style # "broken" => state # "thrown"
    /\ state = "done" =>
          /\ uriName = request.path
          /\ \A k \in Names(request.query) : get_element(k) = FirstNamed(request.query, k)

(* A header is found under its name with its value, of a repeated one the  *)
(* first, whatever stands in the body of the request; it is hidden by a    *)
(* parameter of the query that has its name (insert keeps the first).      *)
(* Holds for values without blanks, which the parser takes out.            *)
Dense(text) == \A i \in 1..Len(text) : text[i] # SP
HeadersAsSent ==
    state = "done" =>
        \A k \in Names(request.headers) \ Names(request.query) :
            Dense(FirstNamed(request.headers, k)) =>
                get_element(k) = FirstNamed(request.headers, k)

=============================================================================
