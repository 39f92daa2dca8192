-------------------------- MODULE HttpParserProofs --------------------------
(***************************************************************************)
(* Theorems about HttpParser, for every request of a client and every      *)
(* style of encoding.                                                      *)
(***************************************************************************)
EXTENDS HttpParser, SequenceTheorems, WellFoundedInduction, TLAPS

-----------------------------------------------------------------------------
(* Induction over the naturals by a set, and the least of some naturals.   *)

Below == {p \in Nat \X Nat : p[1] < p[2]}

LEMMA BelowWellFounded == IsWellFoundedOn(Below, Nat)
<1>1. OpToRel(<, Nat) = Below
  BY Zenon DEF OpToRel, Below
<1> QED
  BY <1>1, NatLessThanWellFounded, Zenon

LEMMA LeastExists ==
  ASSUME NEW S, S \subseteq Nat, S # {}
  PROVE  \E x \in S : \A y \in S : x <= y
<1>1. PICK x \in S : \A y \in S : <<y, x>> \notin Below
  BY BelowWellFounded, WFMin, Zenon
<1>2. ASSUME NEW y \in S PROVE x <= y
  <2>1. x \in Nat /\ y \in Nat /\ <<y, x>> \notin Below
    BY <1>1
  <2>2. y < x => <<y, x>> \in Below
    BY <2>1 DEF Below
  <2> QED
    BY <2>1, <2>2
<1> QED
  BY <1>2

LEMMA NatSetInduction ==
  ASSUME NEW S, S \subseteq Nat, 0 \in S, \A n \in S : n + 1 \in S
  PROVE  S = Nat
<1> SUFFICES ASSUME Nat \ S # {} PROVE FALSE
  OBVIOUS
<1>1. PICK x \in Nat \ S : \A y \in Nat \ S : x <= y
  BY LeastExists
<1>2. x # 0 /\ x - 1 \in Nat
  OBVIOUS
<1>3. x - 1 \notin S
  BY <1>2
<1> QED
  BY <1>1, <1>2, <1>3

-----------------------------------------------------------------------------
(* The characters with a meaning.                                          *)

LEMMA Blanks == SP \notin {"+", "?", "&", "=", "%", "/", "G", ":", CR, HTTP, Malformed}
BY Zenon DEF SP, CR, HTTP, Malformed

LEMMA Chars ==
  /\ SP \in Char /\ "+" \in Char /\ "?" \in Char /\ "&" \in Char /\ "=" \in Char
  /\ "/" \in Char /\ "G" \in Char
  /\ ":" \notin Char /\ CR \notin Char /\ HTTP \notin Char /\ Malformed \notin Char
  /\ "G" \in Letter /\ SP \notin Letter /\ "+" \notin Letter /\ "?" \notin Letter
  /\ "&" \notin Letter /\ "=" \notin Letter /\ "%" \notin Letter
BY LetterAssumption DEF Char, Reserved

LEMMA SymbolIs ==
  /\ \A c \in Char : Plain(c) \in Symbol /\ Escaped(c) \in Symbol
  /\ Escaped(Malformed) \in Symbol /\ Plain(HTTP) \in Symbol
  /\ \A c, d : Plain(c) = Plain(d) => c = d
  /\ \A c, d : Plain(c) # Escaped(d)
  /\ \A c : ~Plain(c).escaped /\ Escaped(c).escaped
            /\ Plain(c).char = c /\ Escaped(c).char = c
BY DEF Symbol, Plain, Escaped

(* A character reaches the parser as itself, as a '+' for a blank, or as   *)
(* an escape; only a client that encodes wrongly sends a malformed one.    *)
LEMMA EncodedIs ==
  ASSUME NEW c \in Char, NEW st \in Styles
  PROVE  /\ EncodeChar(c, st) \in Symbol
         /\ \/ c = SP /\ EncodeChar(c, st) = Plain("+")
            \/ st = "broken" /\ EncodeChar(c, st) = Escaped(Malformed)
            \/ EncodeChar(c, st) = Escaped(c)
            \/ c \in Letter \cup {"/"} /\ EncodeChar(c, st) = Plain(c)
<1>1. CASE c = SP /\ st = "plus"
  <2>1. EncodeChar(c, st) = Plain("+")
    BY <1>1, Blanks, Zenon DEF EncodeChar
  <2> QED
    BY <1>1, <2>1, Chars, SymbolIs
<1>2. CASE ~(c = SP /\ st = "plus") /\ c = "%" /\ st = "broken"
  <2>1. EncodeChar(c, st) = Escaped(Malformed)
    BY <1>2, Blanks, Zenon DEF EncodeChar
  <2> QED
    BY <1>2, <2>1, SymbolIs
<1>3. CASE ~(c = SP /\ st = "plus") /\ ~(c = "%" /\ st = "broken") /\ c \in Reserved \ {"/"}
  <2>1. EncodeChar(c, st) = Escaped(c)
    BY <1>3, Zenon DEF EncodeChar
  <2> QED
    BY <2>1, SymbolIs
<1>4. CASE c \notin Reserved \ {"/"}
  <2>1. c # SP /\ c # "%"
    <3>1. SP \in Reserved \ {"/"} /\ "%" \in Reserved \ {"/"}
      BY Blanks DEF Reserved
    <3> QED
      BY <1>4, <3>1
  <2>2. EncodeChar(c, st) = Plain(c)
    BY <1>4, <2>1, Zenon DEF EncodeChar
  <2>3. c \in Letter \cup {"/"}
    BY <1>4 DEF Char
  <2> QED
    BY <2>2, <2>3, SymbolIs
<1> QED
  BY <1>1, <1>2, <1>3, <1>4

LEMMA EncodeIs ==
  ASSUME NEW x \in Text, NEW st \in Styles
  PROVE  /\ Encode(x, st) \in Seq(Symbol) /\ Len(Encode(x, st)) = Len(x)
         /\ \A i \in 1..Len(x) : Encode(x, st)[i] = EncodeChar(x[i], st)
<1>1. \A i \in 1..Len(x) : EncodeChar(x[i], st) \in Symbol
  <2>1. \A i \in 1..Len(x) : x[i] \in Char
    BY DEF Text
  <2> QED
    BY <2>1, EncodedIs
<1>2. Len(x) \in Nat
  BY DEF Text
<1> QED
  BY <1>1, <1>2 DEF Encode

LEMMA EncodeEmpty ==
  ASSUME NEW st \in Styles PROVE Encode(<<>>, st) = <<>>
<1>1. <<>> \in Text
  BY DEF Text
<1>2. Encode(<<>>, st) \in Seq(Symbol) /\ Len(Encode(<<>>, st)) = 0
  BY <1>1, EncodeIs
<1> QED
  BY <1>2

(* The symbols of a text that is followed by something.                    *)
LEMMA EncodeCons ==
  ASSUME NEW x \in Text, x # <<>>, NEW st \in Styles, NEW rest \in Seq(Symbol)
  PROVE  LET in == Encode(x, st) \o rest
         IN /\ Head(x) \in Char /\ Tail(x) \in Text
            /\ in \in Seq(Symbol) /\ in # <<>> /\ Head(in) = EncodeChar(Head(x), st)
            /\ Tail(in) = Encode(Tail(x), st) \o rest
<1> DEFINE e == Encode(x, st)
           t == Encode(Tail(x), st)
           in == e \o rest
<1>1. Len(x) \in Nat \ {0} /\ Head(x) = x[1] /\ Head(x) \in Char /\ Tail(x) \in Text
      /\ Len(Tail(x)) = Len(x) - 1 /\ \A i \in 1..(Len(x) - 1) : Tail(x)[i] = x[i + 1]
  BY DEF Text
<1>2. /\ e \in Seq(Symbol) /\ Len(e) = Len(x)
      /\ \A i \in 1..Len(x) : e[i] = EncodeChar(x[i], st)
  BY EncodeIs
<1>3. /\ t \in Seq(Symbol) /\ Len(t) = Len(x) - 1
      /\ \A i \in 1..(Len(x) - 1) : t[i] = EncodeChar(x[i + 1], st)
  <2>1. /\ t \in Seq(Symbol) /\ Len(t) = Len(Tail(x))
        /\ \A i \in 1..Len(Tail(x)) : t[i] = EncodeChar(Tail(x)[i], st)
    BY <1>1, EncodeIs
  <2> HIDE DEF t
  <2>2. \A i \in 1..(Len(x) - 1) : t[i] = EncodeChar(Tail(x)[i], st)
    BY <1>1, <2>1
  <2> QED
    BY <1>1, <2>1, <2>2
<1> HIDE DEF e, t
<1>4. in \in Seq(Symbol) /\ in # <<>> /\ Head(in) = e[1]
  BY <1>1, <1>2
<1>5. Tail(in) = t \o rest
  <2>1. Tail(e) = t
    BY <1>1, <1>2, <1>3
  <2>2. Tail(in) = Tail(e) \o rest
    BY <1>1, <1>2
  <2> QED
    BY <2>1, <2>2
<1> QED
  BY <1>1, <1>2, <1>4, <1>5 DEF e, t

-----------------------------------------------------------------------------
(* The request line behind the path.                                       *)

(* f[i] are the texts of p from the i-th on, and e.                        *)
Backward(f, n, e, p) == f[n + 1] = e /\ \A i \in 1..n : f[i] = p[i] \o f[i + 1]

LEMMA BackwardExists ==
  ASSUME NEW S, NEW n \in Nat, NEW e \in Seq(S), NEW p, \A i \in 1..n : p[i] \in Seq(S)
  PROVE  \E f \in [1..(n + 1) -> Seq(S)] : Backward(f, n, e, p)
<1> DEFINE Built(k, f) == \A i \in (n + 1 - k)..(n + 1) :
                             f[i] = IF i = n + 1 THEN e ELSE p[i] \o f[i + 1]
           Exists(k) == \E f \in [(n + 1 - k)..(n + 1) -> Seq(S)] : Built(k, f)
           T == {k \in Nat : k <= n => Exists(k)}
<1>1. 0 \in T
  <2> DEFINE f == [i \in (n + 1 - 0)..(n + 1) |-> e]
  <2>1. f \in [(n + 1 - 0)..(n + 1) -> Seq(S)] /\ Built(0, f)
    OBVIOUS
  <2> QED
    BY <2>1
<1>2. ASSUME NEW k \in T PROVE k + 1 \in T
  <2> HIDE DEF Exists
  <2> SUFFICES ASSUME k + 1 <= n PROVE Exists(k + 1)
    OBVIOUS
  <2>k. Exists(k)
    OBVIOUS
  <2> HIDE DEF T
  <2>1. PICK f \in [(n + 1 - k)..(n + 1) -> Seq(S)] : Built(k, f)
    BY <2>k DEF Exists
  <2> DEFINE v == p[n - k] \o f[n - k + 1]
             g == [i \in (n - k)..(n + 1) |-> IF i = n - k THEN v ELSE f[i]]
  <2>0. k \in Nat /\ n - k \in 1..n /\ n + 1 - (k + 1) = n - k /\ n + 1 - k = n - k + 1
    BY DEF T
  <2>2. v \in Seq(S)
    <3>1. p[n - k] \in Seq(S) /\ f[n - k + 1] \in Seq(S)
      BY <2>0
    <3> QED
      BY <3>1
  <2> HIDE DEF v
  <2>3. g \in [(n - k)..(n + 1) -> Seq(S)]
    BY <2>0, <2>2
  <2>4. ASSUME NEW i \in (n - k)..(n + 1)
        PROVE  g[i] = IF i = n + 1 THEN e ELSE p[i] \o g[i + 1]
    <3>1. CASE i = n - k
      <4>1. g[i] = v /\ g[i + 1] = f[i + 1] /\ i # n + 1
        BY <2>0, <3>1
      <4> QED
        BY <3>1, <4>1 DEF v
    <3>2. CASE i # n - k
      <4>1. g[i] = f[i] /\ (i # n + 1 => g[i + 1] = f[i + 1])
        BY <2>0, <3>2
      <4>2. i \in (n + 1 - k)..(n + 1)
        BY <2>0, <3>2
      <4>3. f[i] = IF i = n + 1 THEN e ELSE p[i] \o f[i + 1]
        BY <2>1, <4>2
      <4> HIDE DEF g
      <4> QED
        BY <4>1, <4>3
    <3> QED
      BY <3>1, <3>2
  <2> HIDE DEF g
  <2>5. Built(k + 1, g)
    BY <2>0, <2>4
  <2> HIDE DEF Built
  <2> QED
    BY <2>0, <2>3, <2>5 DEF Exists
<1>3. T = Nat
  <2>1. T \subseteq Nat
    OBVIOUS
  <2> HIDE DEF T
  <2> QED
    BY <1>1, <1>2, <2>1, NatSetInduction, Zenon
<1>4. PICK f \in [(n + 1 - n)..(n + 1) -> Seq(S)] : Built(n, f)
  <2>1. n \in T
    <3> HIDE DEF T
    <3> QED
      BY <1>3
  <2>2. Exists(n)
    <3> HIDE DEF Exists
    <3> QED
      BY <2>1
  <2> QED
    BY <2>2
<1>5. n + 1 - n = 1 /\ n + 1 \in 1..(n + 1) /\ \A i \in 1..n : i \in 1..(n + 1) /\ i # n + 1
  OBVIOUS
<1>6. Backward(f, n, e, p)
  BY <1>4, <1>5 DEF Backward
<1>7. f \in [1..(n + 1) -> Seq(S)]
  BY <1>4, <1>5
<1> QED
  BY <1>6, <1>7

LEMMA BackwardTyped ==
  ASSUME NEW S, NEW n \in Nat, NEW e \in Seq(S), NEW p, \A i \in 1..n : p[i] \in Seq(S),
         NEW R, Backward(R, n, e, p)
  PROVE  \A i \in 1..(n + 1) : R[i] \in Seq(S)
<1>1. n \in Nat
  OBVIOUS
<1>6. R[n + 1] = e /\ \A i \in 1..n : R[i] = p[i] \o R[i + 1]
  BY DEF Backward
<1> DEFINE T == {k \in Nat : k <= n => R[n + 1 - k] \in Seq(S)}
<1>7. 0 \in T
  BY <1>1, <1>6
<1>8. ASSUME NEW k \in T PROVE k + 1 \in T
  <2> SUFFICES ASSUME k + 1 <= n PROVE R[n + 1 - (k + 1)] \in Seq(S)
    BY <1>1
  <2>1. k \in Nat /\ n + 1 - (k + 1) = n - k /\ n - k \in 1..n /\ n - k + 1 = n + 1 - k
    BY <1>1
  <2>2. R[n - k] = p[n - k] \o R[n + 1 - k]
    BY <1>6, <2>1
  <2>3. p[n - k] \in Seq(S)
    BY <2>1
  <2>4. R[n + 1 - k] \in Seq(S)
    BY <1>1, <2>1
  <2> DEFINE a == p[n - k]
             b == R[n + 1 - k]
  <2>5. a \o b \in Seq(S)
    <3> HIDE DEF a, b
    <3> QED
      BY <2>3, <2>4 DEF a, b
  <2> QED
    BY <2>1, <2>2, <2>5
<1>9. T = Nat
  <2>1. T \subseteq Nat
    OBVIOUS
  <2> HIDE DEF T
  <2> QED
    BY <1>7, <1>8, <2>1, NatSetInduction, Zenon
<1>10. ASSUME NEW i \in 1..(n + 1) PROVE R[i] \in Seq(S)
  <2>1. n + 1 - i \in Nat /\ n + 1 - i <= n /\ n + 1 - (n + 1 - i) = i
    BY <1>1
  <2>2. n + 1 - i \in T
    <3> HIDE DEF T
    <3> QED
      BY <1>9, <2>1
  <2> QED
    BY <2>1, <2>2
<1> QED
  BY <1>10

End == <<Plain(SP), Plain(HTTP), Plain("/")>>

LEMMA EndIs ==
  /\ End \in Seq(Symbol) /\ End # <<>> /\ Head(End) = Plain(SP)
  /\ Len(End) > 1 /\ End[2] = Plain(HTTP) /\ Tail(Tail(End)) = <<Plain("/")>>
<1>1. Plain(SP) \in Symbol /\ Plain(HTTP) \in Symbol /\ Plain("/") \in Symbol
  BY Chars, SymbolIs
<1> QED
  BY <1>1 DEF End

LEMMA FieldIs ==
  ASSUME NEW fields \in Seq(Field)
  PROVE  /\ Len(fields) \in Nat
         /\ \A i \in 1..Len(fields) : fields[i].name \in Text /\ fields[i].value \in Text
<1>1. ASSUME NEW i \in 1..Len(fields) PROVE fields[i] \in Field
  BY ElementOfSeq
<1> QED
  BY <1>1 DEF Field

(* What follows the name of a parameter.                                   *)
Valued(query, i, st) ==
    <<Plain("=")>> \o (Encode(query[i].value, st) \o Rest(query, st)[i + 1])

LEMMA ParamIs ==
  ASSUME NEW query \in Seq(Field), NEW st \in Styles, NEW i \in 1..Len(query)
  PROVE  EncodeParam(query, i, st) \in Seq(Symbol)
<1>1. /\ Encode(query[i].name, st) \in Seq(Symbol)
      /\ Encode(query[i].value, st) \in Seq(Symbol)
  BY FieldIs, EncodeIs
<1>2. Plain(IF i = 1 THEN "?" ELSE "&") \in Symbol /\ Plain("=") \in Symbol
  BY Chars, SymbolIs
<1> QED
  BY <1>1, <1>2 DEF EncodeParam

LEMMA RestIs ==
  ASSUME NEW query \in Seq(Field), NEW st \in Styles
  PROVE  LET R == Rest(query, st)
             n == Len(query)
         IN /\ \A i \in 1..(n + 1) : R[i] \in Seq(Symbol)
            /\ R[n + 1] = End
            /\ \A i \in 1..n : R[i] = EncodeParam(query, i, st) \o R[i + 1]
<1> DEFINE n == Len(query)
           p == [i \in 1..n |-> EncodeParam(query, i, st)]
           R == Rest(query, st)
           Is(f) == f = [i \in 1..(n + 1) |-> IF i = n + 1 THEN End
                                              ELSE EncodeParam(query, i, st) \o f[i + 1]]
<1>1. n \in Nat
  OBVIOUS
<1>2. PICK f \in [1..(n + 1) -> Seq(Symbol)] : Backward(f, n, End, p)
  <2>1. \A i \in 1..n : p[i] \in Seq(Symbol)
    BY ParamIs
  <2>2. End \in Seq(Symbol)
    BY EndIs
  <2> HIDE DEF p, n
  <2> QED
    BY <1>1, <2>1, <2>2, BackwardExists
<1>3. Is(f)
  <2>1. f = [i \in 1..(n + 1) |-> f[i]]
    BY <1>2
  <2>2. \A i \in 1..(n + 1) :
           f[i] = IF i = n + 1 THEN End ELSE EncodeParam(query, i, st) \o f[i + 1]
    <3>1. \A i \in 1..n : p[i] = EncodeParam(query, i, st)
      BY <1>1
    <3>2. \A i \in 1..(n + 1) : i # n + 1 => i \in 1..n
      BY <1>1
    <3> HIDE DEF p, n
    <3> QED
      BY <1>2, <3>1, <3>2 DEF Backward
  <2> QED
    BY <2>1, <2>2
<1>4. Is(R)
  <2>1. R = CHOOSE g : Is(g)
    BY Zenon DEF Rest, End
  <2> HIDE DEF R, Is
  <2> QED
    BY <1>3, <2>1, Zenon
<1> HIDE DEF R
<1>5. \A i \in 1..(n + 1) :
         R[i] = IF i = n + 1 THEN End ELSE EncodeParam(query, i, st) \o R[i + 1]
  BY <1>4, Zenon
<1>6. R[n + 1] = End /\ \A i \in 1..n : R[i] = EncodeParam(query, i, st) \o R[i + 1]
  <2>1. n + 1 \in 1..(n + 1) /\ \A i \in 1..n : i \in 1..(n + 1) /\ i # n + 1
    BY <1>1
  <2> HIDE DEF n
  <2> QED
    BY <1>5, <2>1
<1>7. \A i \in 1..(n + 1) : R[i] \in Seq(Symbol)
  <2>1. \A i \in 1..n : p[i] \in Seq(Symbol)
    BY ParamIs
  <2>2. \A i \in 1..n : p[i] = EncodeParam(query, i, st)
    OBVIOUS
  <2> HIDE DEF p, n
  <2>3. Backward(R, n, End, p)
    BY <1>6, <2>2 DEF Backward
  <2> QED
    BY <1>1, <2>1, <2>3, EndIs, BackwardTyped
<1> QED
  BY <1>6, <1>7 DEF R

LEMMA ConsIs ==
  ASSUME NEW S, NEW a \in S, NEW t \in Seq(S)
  PROVE  LET s == <<a>> \o t
         IN s \in Seq(S) /\ s # <<>> /\ Head(s) = a /\ Tail(s) = t
<1> DEFINE s == <<a>> \o t
<1>1. /\ s \in Seq(S) /\ Len(s) = Len(t) + 1 /\ s[1] = a
      /\ \A i \in 1..Len(t) : s[i + 1] = t[i]
  OBVIOUS
<1> HIDE DEF s
<1>2. s # <<>> /\ Head(s) = a
  BY <1>1
<1>3. Tail(s) = t
  BY <1>1, <1>2
<1> QED
  BY <1>1, <1>2, <1>3 DEF s

LEMMA ValuedIs ==
  ASSUME NEW query \in Seq(Field), NEW st \in Styles, NEW i \in 1..Len(query)
  PROVE  LET v == Valued(query, i, st)
         IN /\ v \in Seq(Symbol) /\ v # <<>> /\ Head(v) = Plain("=")
            /\ Tail(v) = Encode(query[i].value, st) \o Rest(query, st)[i + 1]
<1> DEFINE e == Encode(query[i].value, st)
           r == Rest(query, st)[i + 1]
<1>1. e \in Seq(Symbol)
  BY FieldIs, EncodeIs
<1>2. r \in Seq(Symbol)
  <2>1. i + 1 \in 1..(Len(query) + 1)
    OBVIOUS
  <2> QED
    BY <2>1, RestIs
<1>3. Plain("=") \in Symbol
  BY Chars, SymbolIs
<1>4. Valued(query, i, st) = <<Plain("=")>> \o (e \o r)
  BY Zenon DEF Valued
<1> HIDE DEF e, r
<1> DEFINE t == e \o r
           eq == Plain("=")
<1>5. t \in Seq(Symbol) /\ eq \in Symbol
  BY <1>1, <1>2, <1>3
<1> HIDE DEF t, eq
<1>6. LET v == <<eq>> \o t
      IN v \in Seq(Symbol) /\ v # <<>> /\ Head(v) = eq /\ Tail(v) = t
  BY <1>5, ConsIs
<1> QED
  BY <1>4, <1>6, Zenon DEF e, r, t, eq

LEMMA RestOfParam ==
  ASSUME NEW query \in Seq(Field), NEW st \in Styles, NEW i \in 1..Len(query)
  PROVE  LET r == Rest(query, st)[i]
         IN /\ r \in Seq(Symbol) /\ r # <<>>
            /\ Head(r) = Plain(IF i = 1 THEN "?" ELSE "&")
            /\ Tail(r) = Encode(query[i].name, st) \o Valued(query, i, st)
<1> DEFINE d == Plain(IF i = 1 THEN "?" ELSE "&")
           a == Encode(query[i].name, st)
           q == Plain("=")
           e == Encode(query[i].value, st)
           r == Rest(query, st)[i + 1]
<1>1. a \in Seq(Symbol) /\ e \in Seq(Symbol)
  BY FieldIs, EncodeIs
<1>2. r \in Seq(Symbol)
  <2>1. i + 1 \in 1..(Len(query) + 1)
    OBVIOUS
  <2> QED
    BY <2>1, RestIs
<1>3. d \in Symbol /\ q \in Symbol
  BY Chars, SymbolIs
<1>4. Rest(query, st)[i] = (<<d>> \o a \o <<q>> \o e) \o r
  BY RestIs, Zenon DEF EncodeParam
<1>5. Valued(query, i, st) = <<q>> \o (e \o r)
  BY Zenon DEF Valued
<1> HIDE DEF d, a, q, e, r
<1>6. <<d>> \in Seq(Symbol) /\ <<q>> \in Seq(Symbol)
  BY <1>3
<1>7. (<<d>> \o a \o <<q>> \o e) \o r = <<d>> \o (a \o (<<q>> \o (e \o r)))
  <2>1. (<<d>> \o a \o <<q>> \o e) \o r = (<<d>> \o a \o <<q>>) \o (e \o r)
    <3>1. <<d>> \o a \o <<q>> \in Seq(Symbol)
      BY <1>1, <1>6
    <3> QED
      BY <1>1, <1>2, <3>1, ConcatAssociative
  <2>2. (<<d>> \o a \o <<q>>) \o (e \o r) = (<<d>> \o a) \o (<<q>> \o (e \o r))
    <3>1. <<d>> \o a \in Seq(Symbol) /\ e \o r \in Seq(Symbol)
      BY <1>1, <1>2, <1>6
    <3> DEFINE u == <<d>> \o a
               v == e \o r
               w == <<q>>
    <3> HIDE DEF u, v, w
    <3>2. u \in Seq(Symbol) /\ v \in Seq(Symbol) /\ w \in Seq(Symbol)
      BY <1>6, <3>1 DEF u, v, w
    <3>3. (u \o w) \o v = u \o (w \o v)
      BY <3>2, ConcatAssociative
    <3> QED
      BY <3>3, Zenon DEF u, v, w
  <2>3. (<<d>> \o a) \o (<<q>> \o (e \o r)) = <<d>> \o (a \o (<<q>> \o (e \o r)))
    <3>1. <<q>> \o (e \o r) \in Seq(Symbol)
      BY <1>1, <1>2, <1>6
    <3> QED
      BY <1>1, <1>6, <3>1, ConcatAssociative
  <2> QED
    BY <2>1, <2>2, <2>3
<1>8. a \o (<<q>> \o (e \o r)) \in Seq(Symbol)
  BY <1>1, <1>2, <1>6
<1>9. a \o Valued(query, i, st) \in Seq(Symbol)
      /\ Rest(query, st)[i] = <<d>> \o (a \o Valued(query, i, st))
  BY <1>4, <1>5, <1>7, <1>8
<1> QED
  BY <1>3, <1>9, ConsIs DEF d, a

(* The request line: "G", a blank, the path and the rest.                  *)
LEMMA RequestLineIs ==
  ASSUME NEW r \in Requests, NEW st \in Styles
  PROVE  LET in == RequestLine(r, st)
         IN /\ in \in Seq(Symbol) /\ in # <<>> /\ Head(in) = Plain("G")
            /\ Tail(in) # <<>> /\ Head(Tail(in)) = Plain(SP)
            /\ Tail(Tail(in)) = Encode(r.path, st) \o Rest(r.query, st)[1]
            /\ Tail(Tail(in)) = <<>> \/ Tail(in)[2] # Plain(HTTP)
<1> DEFINE g == Plain("G")
           b == Plain(SP)
           e == Encode(r.path, st)
           t == Rest(r.query, st)[1]
<1>1. r.path \in Text /\ r.query \in Seq(Field) /\ Len(r.query) \in Nat
  BY RequestsAssumption
<1>2. e \in Seq(Symbol)
  BY <1>1, EncodeIs
<1>3. t \in Seq(Symbol)
  <2>1. 1 \in 1..(Len(r.query) + 1)
    BY <1>1
  <2> QED
    BY <1>1, <2>1, RestIs
<1>4. g \in Symbol /\ b \in Symbol
  BY Chars, SymbolIs
<1>5. RequestLine(r, st) = <<g, b>> \o e \o t
  BY Zenon DEF RequestLine
<1>6. e \o t = <<>> \/ (e \o t)[1] # Plain(HTTP)
  <2>1. CASE r.path # <<>>
    <3>1. Head(r.path) \in Char /\ e \o t # <<>> /\ e \o t \in Seq(Symbol)
          /\ Head(e \o t) = EncodeChar(Head(r.path), st)
      BY <1>1, <1>3, <2>1, EncodeCons
    <3>2. EncodeChar(Head(r.path), st) # Plain(HTTP)
      <4>1. HTTP # "+" /\ HTTP \notin Letter \cup {"/"}
        BY Chars, LetterAssumption DEF Char, HTTP, Reserved
      <4> HIDE DEF e, t
      <4> QED
        BY <3>1, <4>1, EncodedIs, SymbolIs
    <3> HIDE DEF e, t
    <3> QED
      BY <3>1, <3>2
  <2>2. CASE r.path = <<>>
    <3>1. e \o t = t
      <4>1. e = <<>>
        BY <2>2, EncodeEmpty
      <4> HIDE DEF e, t
      <4> QED
        BY <1>3, <4>1
    <3>2. t # <<>> /\ Head(t) \in {Plain(SP), Plain("?")}
      <4>1. CASE Len(r.query) = 0
        <5>1. t = End
          BY <1>1, <4>1, RestIs
        <5> QED
          BY <5>1, EndIs
      <4>2. CASE Len(r.query) # 0
        <5>1. 1 \in 1..Len(r.query)
          BY <1>1, <4>2
        <5> QED
          BY <1>1, <5>1, RestOfParam
      <4> QED
        BY <4>1, <4>2
    <3>3. SP # HTTP /\ "?" # HTTP
      BY Chars
    <3> HIDE DEF e, t
    <3> QED
      BY <1>3, <3>1, <3>2, <3>3, SymbolIs
  <2> QED
    BY <2>1, <2>2
<1> HIDE DEF g, b, e, t
<1>7. e \o t \in Seq(Symbol)
  BY <1>2, <1>3
<1>8. <<g, b>> \o e \o t = <<g>> \o (<<b>> \o (e \o t))
  <2>1. <<g>> \in Seq(Symbol) /\ <<b>> \in Seq(Symbol) /\ <<g, b>> \in Seq(Symbol)
        /\ <<g, b>> = <<g>> \o <<b>>
    <3>1. <<g>> \in Seq(Symbol) /\ <<b>> \in Seq(Symbol)
      BY <1>4
    <3>2. <<g, b>> \in Seq(Symbol) /\ Len(<<g, b>>) = 2 /\ <<g, b>>[1] = g /\ <<g, b>>[2] = b
      BY <1>4
    <3>3. <<g>> \o <<b>> \in Seq(Symbol) /\ Len(<<g>> \o <<b>>) = 2
          /\ (<<g>> \o <<b>>)[1] = g /\ (<<g>> \o <<b>>)[2] = b
      BY <1>4, <3>1
    <3>4. <<g, b>> = <<g>> \o <<b>>
      <4>1. \A i \in 1..2 : i = 1 \/ i = 2
        OBVIOUS
      <4> QED
        BY <3>2, <3>3, <4>1, SeqEqual
    <3> QED
      BY <3>1, <3>2, <3>4
  <2>2. <<g, b>> \o e \o t = <<g, b>> \o (e \o t)
    BY <1>2, <1>3, <2>1, ConcatAssociative
  <2>3. (<<g>> \o <<b>>) \o (e \o t) = <<g>> \o (<<b>> \o (e \o t))
    BY <1>7, <2>1, ConcatAssociative
  <2> QED
    BY <2>1, <2>2, <2>3
<1>9. <<b>> \o (e \o t) \in Seq(Symbol) /\ <<b>> \o (e \o t) # <<>>
      /\ Head(<<b>> \o (e \o t)) = b /\ Tail(<<b>> \o (e \o t)) = e \o t
  BY <1>4, <1>7, ConsIs
<1>10. e \o t # <<>> => (<<b>> \o (e \o t))[2] = (e \o t)[1]
  BY <1>4, <1>7
<1>11. /\ RequestLine(r, st) \in Seq(Symbol) /\ RequestLine(r, st) # <<>>
       /\ Head(RequestLine(r, st)) = g /\ Tail(RequestLine(r, st)) = <<b>> \o (e \o t)
  BY <1>4, <1>5, <1>8, <1>9, ConsIs
<1> QED
  BY <1>6, <1>9, <1>10, <1>11 DEF g, b, e, t

-----------------------------------------------------------------------------
(* The value of a header: the text behind the ':' without blanks and CR.   *)

Piece(c) == IF c \in {SP, CR} THEN <<>> ELSE <<c>>

LEMMA SqueezedIs ==
  ASSUME NEW text \in Seq(Char \cup {CR})
  PROVE  \E R : /\ Squeezed(text) = R[1]
                /\ \A i \in 1..(Len(text) + 1) : R[i] \in Text
                /\ R[Len(text) + 1] = <<>>
                /\ \A i \in 1..Len(text) : R[i] = Piece(text[i]) \o R[i + 1]
<1> DEFINE n == Len(text)
           p == [i \in 1..n |-> Piece(text[i])]
           Is(f) == f = [i \in 1..(n + 1) |->
                           IF i = n + 1 THEN <<>>
                           ELSE (IF text[i] \in {SP, CR} THEN <<>> ELSE <<text[i]>>) \o f[i + 1]]
           R == CHOOSE f : Is(f)
<1>1. n \in Nat
  OBVIOUS
<1>2. \A i \in 1..n : p[i] = Piece(text[i]) /\ p[i] \in Seq(Char)
  <2>1. ASSUME NEW i \in 1..n PROVE Piece(text[i]) \in Seq(Char)
    <3>1. text[i] \in Char \cup {CR}
      OBVIOUS
    <3> QED
      BY <3>1 DEF Piece
  <2> QED
    BY <2>1
<1>3. PICK f \in [1..(n + 1) -> Seq(Char)] : Backward(f, n, <<>>, p)
  <2>1. \A i \in 1..n : p[i] \in Seq(Char)
    BY <1>2
  <2>2. <<>> \in Seq(Char)
    OBVIOUS
  <2> HIDE DEF p, n
  <2> QED
    BY <1>1, <2>1, <2>2, BackwardExists
<1>4. Is(f)
  <2>1. f = [i \in 1..(n + 1) |-> f[i]]
    BY <1>3
  <2>2. ASSUME NEW i \in 1..(n + 1)
        PROVE  f[i] = IF i = n + 1 THEN <<>>
                      ELSE (IF text[i] \in {SP, CR} THEN <<>> ELSE <<text[i]>>) \o f[i + 1]
    <3>1. i # n + 1 => i \in 1..n
      BY <1>1
    <3>2. i \in 1..n => p[i] = Piece(text[i])
      BY <1>2
    <3> HIDE DEF p, n
    <3> QED
      BY <1>3, <3>1, <3>2 DEF Backward, Piece
  <2> QED
    BY <2>1, <2>2
<1>5. Is(R)
  <2> HIDE DEF Is
  <2> QED
    BY <1>4, Zenon
<1>6. Squeezed(text) = R[1]
  BY Zenon DEF Squeezed
<1> HIDE DEF R
<1>7. \A i \in 1..(n + 1) : R[i] = IF i = n + 1 THEN <<>>
                               ELSE (IF text[i] \in {SP, CR} THEN <<>> ELSE <<text[i]>>) \o R[i + 1]
  BY <1>5, Zenon
<1>8. R[n + 1] = <<>> /\ \A i \in 1..n : R[i] = Piece(text[i]) \o R[i + 1]
  <2>1. n + 1 \in 1..(n + 1) /\ \A i \in 1..n : i \in 1..(n + 1) /\ i # n + 1
    BY <1>1
  <2> HIDE DEF n
  <2> QED
    BY <1>7, <2>1 DEF Piece
<1>9. \A i \in 1..(n + 1) : R[i] \in Seq(Char)
  <2>1. \A i \in 1..n : p[i] \in Seq(Char) /\ p[i] = Piece(text[i])
    BY <1>2
  <2>2. <<>> \in Seq(Char)
    OBVIOUS
  <2> HIDE DEF p, n
  <2>3. Backward(R, n, <<>>, p)
    BY <1>8, <2>1 DEF Backward
  <2> QED
    BY <1>1, <2>1, <2>2, <2>3, BackwardTyped
<1> HIDE DEF n
<1> QED
  BY <1>6, <1>8, <1>9 DEF Text, n

LEMMA SqueezedType ==
  ASSUME NEW text \in Seq(Char \cup {CR}) PROVE Squeezed(text) \in Text
<1>1. 1 \in 1..(Len(text) + 1)
  OBVIOUS
<1> QED
  BY <1>1, SqueezedIs

(* A value without blanks comes out as it is, also in front of a CR.       *)
LEMMA SqueezedDense ==
  ASSUME NEW v \in Text, Dense(v)
  PROVE  Squeezed(v \o <<CR>>) = v
<1> DEFINE text == v \o <<CR>>
           n == Len(v)
<1>1. /\ n \in Nat /\ text \in Seq(Char \cup {CR}) /\ Len(text) = n + 1
      /\ text[n + 1] = CR /\ \A i \in 1..n : text[i] = v[i] /\ v[i] \in Char
  BY DEF Text
<1> HIDE DEF text
<1>2. PICK R : /\ Squeezed(text) = R[1]
               /\ \A i \in 1..(Len(text) + 1) : R[i] \in Text
               /\ R[Len(text) + 1] = <<>>
               /\ \A i \in 1..Len(text) : R[i] = Piece(text[i]) \o R[i + 1]
  BY <1>1, SqueezedIs
<1>3. \A i \in 1..(n + 1) : R[i] \in Seq(Char)
  BY <1>1, <1>2 DEF Text
<1>4. R[n + 1] = <<>>
  <2>1. n + 1 \in 1..Len(text) /\ n + 2 = Len(text) + 1
    BY <1>1
  <2>2. R[n + 1] = Piece(CR) \o R[n + 2] /\ R[n + 2] = <<>>
    BY <1>1, <1>2, <2>1
  <2>3. Piece(CR) = <<>>
    BY Zenon DEF Piece
  <2> QED
    BY <2>2, <2>3
<1>5. \A i \in 1..n : R[i] = <<v[i]>> \o R[i + 1]
  <2>1. ASSUME NEW i \in 1..n PROVE R[i] = <<v[i]>> \o R[i + 1]
    <3>1. i \in 1..Len(text) /\ text[i] = v[i] /\ v[i] \in Char
      BY <1>1
    <3>2. v[i] # SP /\ v[i] # CR
      BY <3>1, Chars DEF Dense
    <3>3. Piece(v[i]) = <<v[i]>>
      BY <3>2, Zenon DEF Piece
    <3> QED
      BY <1>2, <3>1, <3>3
  <2> QED
    BY <2>1
<1> DEFINE T == {k \in Nat : k <= n => /\ Len(R[n + 1 - k]) = k
                                      /\ \A j \in 1..k : R[n + 1 - k][j] = v[n - k + j]}
<1>6. 0 \in T
  BY <1>1, <1>4
<1>7. ASSUME NEW k \in T PROVE k + 1 \in T
  <2> SUFFICES ASSUME k + 1 <= n
               PROVE  /\ Len(R[n + 1 - (k + 1)]) = k + 1
                      /\ \A j \in 1..(k + 1) : R[n + 1 - (k + 1)][j] = v[n - (k + 1) + j]
    BY <1>1
  <2> DEFINE s == R[n + 1 - k]
             a == v[n - k]
  <2>1. k \in Nat /\ n - k \in 1..n /\ n + 1 - (k + 1) = n - k /\ n - k + 1 = n + 1 - k
    BY <1>1
  <2>2. Len(s) = k /\ \A j \in 1..k : s[j] = v[n - k + j]
    BY <1>1, <2>1
  <2>3. R[n - k] = <<a>> \o s
    BY <1>5, <2>1
  <2>4. s \in Seq(Char) /\ a \in Char
    BY <1>1, <1>3, <2>1
  <2> HIDE DEF s, a
  <2>5. Len(<<a>> \o s) = k + 1 /\ (<<a>> \o s)[1] = a
        /\ \A j \in 2..(k + 1) : (<<a>> \o s)[j] = s[j - 1]
    BY <2>1, <2>2, <2>4
  <2>6. ASSUME NEW j \in 1..(k + 1) PROVE (<<a>> \o s)[j] = v[n - (k + 1) + j]
    <3>1. CASE j = 1
      <4>1. n - (k + 1) + j = n - k
        BY <1>1, <2>1, <3>1
      <4> QED
        BY <2>5, <3>1, <4>1 DEF a
    <3>2. CASE j # 1
      <4>1. j \in 2..(k + 1) /\ j - 1 \in 1..k /\ n - (k + 1) + j = n - k + (j - 1)
        BY <1>1, <2>1, <3>2
      <4> QED
        BY <2>2, <2>5, <4>1
    <3> QED
      BY <3>1, <3>2
  <2> QED
    BY <2>1, <2>3, <2>5, <2>6
<1>8. T = Nat
  <2>1. T \subseteq Nat
    OBVIOUS
  <2> HIDE DEF T
  <2> QED
    BY <1>6, <1>7, <2>1, NatSetInduction, Zenon
<1>9. Len(R[1]) = n /\ \A j \in 1..n : R[1][j] = v[j]
  <2>1. n \in T
    <3> HIDE DEF T
    <3> QED
      BY <1>1, <1>8
  <2>2. n + 1 - n = 1 /\ \A j \in 1..n : n - n + j = j
    BY <1>1
  <2> QED
    BY <1>1, <2>1, <2>2
<1>10. R[1] = v
  <2>1. R[1] \in Seq(Char) /\ v \in Seq(Char)
    BY <1>1, <1>3 DEF Text
  <2> QED
    BY <1>9, <2>1, SeqEqual
<1> QED
  BY <1>2, <1>10 DEF text

-----------------------------------------------------------------------------
(* Fields and lines.                                                       *)

(* No earlier field has the name of the j-th.                              *)
First(fields, j) == \A i \in 1..(j - 1) : fields[i].name # fields[j].name

LEMMA FirstIs ==
  ASSUME NEW fields \in Seq(Field), NEW k \in Names(fields)
  PROVE  \E j \in 1..Len(fields) : /\ First(fields, j) /\ fields[j].name = k
                                   /\ FirstNamed(fields, k) = fields[j].value
<1> DEFINE j == CHOOSE i \in Named(fields, k) : \A l \in Named(fields, k) : i <= l
<1>1. \E i \in Named(fields, k) : \A l \in Named(fields, k) : i <= l
  <2>1. Named(fields, k) \subseteq Nat /\ Named(fields, k) # {}
    BY DEF Named, Names
  <2> QED
    BY <2>1, LeastExists
<1>2. j \in Named(fields, k) /\ \A l \in Named(fields, k) : j <= l
  BY <1>1, Zenon
<1>3. FirstNamed(fields, k) = fields[j].value
  BY Zenon DEF FirstNamed
<1> HIDE DEF j
<1>4. First(fields, j)
  BY <1>2 DEF First, Named
<1> QED
  BY <1>2, <1>3, <1>4 DEF Named

LEMMA FirstOnly ==
  ASSUME NEW fields, NEW n \in Nat, NEW i \in 1..n, NEW j \in 1..n,
         First(fields, i), First(fields, j), fields[i].name = fields[j].name
  PROVE  i = j
BY DEF First

LineSymbol == Char \cup {":", CR}

(* A line is the name n, the ':' and a blank, and what follows, w.         *)
Splits(line, n, w) ==
    /\ line \in Seq(LineSymbol) /\ Colon(line) = Len(n) + 1
    /\ SubSeq(line, 1, Len(n)) = n
    /\ SubSeq(line, Len(n) + 3, Len(line)) = w

LEMMA LineIs ==
  ASSUME NEW n \in Text, NEW w \in Seq(Char \cup {CR}), NEW line,
         line = n \o <<":", SP>> \o w
  PROVE  Splits(line, n, w)
<1>1. /\ n \in Seq(Char) /\ n \in Seq(LineSymbol) /\ Len(n) \in Nat
      /\ \A i \in 1..Len(n) : n[i] # ":"
  <2>1. n \in Seq(Char)
    BY DEF Text
  <2>2. \A i \in 1..Len(n) : n[i] \in Char
    BY <2>1
  <2> QED
    BY <2>1, <2>2, Chars DEF LineSymbol
<1>2. w \in Seq(LineSymbol) /\ Len(w) \in Nat
  <2>1. Char \cup {CR} \subseteq LineSymbol
    BY DEF LineSymbol
  <2> QED
    BY <2>1
<1>3. <<":", SP>> \in Seq(LineSymbol) /\ Len(<<":", SP>>) = 2 /\ <<":", SP>>[1] = ":"
  <2>1. ":" \in LineSymbol /\ SP \in LineSymbol
    BY Chars DEF LineSymbol
  <2> QED
    BY <2>1
<1> DEFINE m == <<":", SP>>
           h == n \o m
<1> HIDE DEF m
<1>4. /\ h \in Seq(LineSymbol) /\ Len(h) = Len(n) + 2 /\ h[Len(n) + 1] = ":"
      /\ \A i \in 1..Len(n) : h[i] = n[i]
  BY <1>1, <1>3 DEF m
<1>5. line = h \o w
  BY Zenon DEF m
<1> HIDE DEF h
<1>6. /\ line \in Seq(LineSymbol) /\ Len(line) = Len(n) + 2 + Len(w)
      /\ \A i \in 1..(Len(n) + 2) : line[i] = h[i]
      /\ \A i \in 1..Len(w) : line[Len(n) + 2 + i] = w[i]
  <2>1. /\ h \o w \in Seq(LineSymbol) /\ Len(h \o w) = Len(h) + Len(w)
        /\ \A i \in 1..(Len(h) + Len(w)) : (h \o w)[i] = IF i <= Len(h) THEN h[i] ELSE w[i - Len(h)]
    BY <1>2, <1>4, ConcatProperties
  <2>2. Len(h) \in Nat /\ Len(h) + Len(w) = Len(n) + 2 + Len(w)
    BY <1>1, <1>2, <1>4
  <2>3. \A i \in 1..(Len(n) + 2) : i \in 1..(Len(h) + Len(w)) /\ i <= Len(h)
    BY <1>1, <1>2, <1>4
  <2>4. ASSUME NEW i \in 1..Len(w) PROVE line[Len(n) + 2 + i] = w[i]
    <3> DEFINE k == Len(n) + 2 + i
    <3>1. k \in 1..(Len(h) + Len(w)) /\ ~(k <= Len(h)) /\ k - Len(h) = i
      BY <1>1, <1>2, <1>4
    <3> HIDE DEF k
    <3>2. (h \o w)[k] = w[k - Len(h)]
      BY <2>1, <3>1
    <3> QED
      BY <1>5, <3>1, <3>2 DEF k
  <2>5. \A i \in 1..(Len(n) + 2) : line[i] = h[i]
    BY <1>5, <2>1, <2>3
  <2> QED
    BY <1>5, <2>1, <2>2, <2>4, <2>5
<1>7. line[Len(n) + 1] = ":" /\ \A i \in 1..Len(n) : line[i] = n[i]
  BY <1>1, <1>4, <1>6
<1>8. Colon(line) = Len(n) + 1
  <2> DEFINE I == {i \in 1..Len(line) : line[i] = ":"}
  <2>1. Len(n) + 1 \in I /\ \A i \in I : Len(n) + 1 <= i
    BY <1>1, <1>2, <1>6, <1>7
  <2>2. Colon(line) = Min(I)
    <3>1. I # {}
      BY <2>1
    <3> QED
      BY <3>1, Zenon DEF Colon, SelectInSeq
  <2>3. I \subseteq Nat
    OBVIOUS
  <2> HIDE DEF I
  <2>4. Min(I) \in I /\ \A i \in I : Min(I) <= i
    BY <2>1, Zenon DEF Min
  <2>5. Min(I) <= Len(n) + 1 /\ Len(n) + 1 <= Min(I) /\ Min(I) \in Nat
    BY <2>1, <2>3, <2>4, Zenon
  <2> DEFINE x == Min(I)
  <2> HIDE DEF x
  <2>6. x = Len(n) + 1
    BY <1>1, <2>5 DEF x
  <2> QED
    BY <2>2, <2>6 DEF x
<1>9. SubSeq(line, 1, Len(n)) = n
  <2>1. /\ SubSeq(line, 1, Len(n)) \in Seq(LineSymbol) /\ Len(SubSeq(line, 1, Len(n))) = Len(n)
        /\ \A i \in 1..Len(n) : SubSeq(line, 1, Len(n))[i] = line[i]
    BY <1>1, <1>2, <1>6
  <2> QED
    BY <1>1, <1>7, <2>1, SeqEqual
<1>10. SubSeq(line, Len(n) + 3, Len(line)) = w
  <2> DEFINE r == SubSeq(line, Len(n) + 3, Len(line))
  <2>1. /\ r \in Seq(LineSymbol) /\ Len(r) = Len(w)
        /\ \A i \in 1..Len(w) : r[i] = line[Len(n) + 2 + i]
    BY <1>1, <1>2, <1>6
  <2> HIDE DEF r
  <2> QED
    BY <1>2, <1>6, <2>1, SeqEqual DEF r
<1> QED
  BY <1>6, <1>8, <1>9, <1>10 DEF Splits

LEMMA WiderSeq ==
  ASSUME NEW A, NEW B, A \subseteq B, NEW s \in Seq(A)
  PROVE  s \in Seq(B)
<1>1. Len(s) \in Nat /\ \A i \in 1..Len(s) : s[i] \in B
  BY ElementOfSeq
<1>2. s = [i \in 1..Len(s) |-> s[i]]
  OBVIOUS
<1> QED
  BY <1>1, <1>2

LEMMA TextWithCR ==
  ASSUME NEW v \in Text
  PROVE  v \in Seq(Char \cup {CR}) /\ v \o <<CR>> \in Seq(Char \cup {CR})
<1> DEFINE S == Char \cup {CR}
           e == <<CR>>
<1>1. v \in Seq(S)
  BY WiderSeq DEF Text
<1>2. e \in Seq(S)
  OBVIOUS
<1> HIDE DEF S, e
<1>3. v \o e \in Seq(S)
  BY <1>1, <1>2
<1> QED
  BY <1>1, <1>3, Zenon DEF S, e

LEMMA ReadLine ==
  ASSUME NEW f \in Field
  PROVE  /\ Splits(HeaderLine(f), f.name, f.value \o <<CR>>)
         /\ Splits(BodyLine(f), f.name, f.value)
<1> DEFINE n == f.name
           v == f.value
           m == <<":", SP>>
           S == LineSymbol
<1>1. n \in Text /\ v \in Text
  BY DEF Field
<1>2. v \in Seq(Char \cup {CR}) /\ v \o <<CR>> \in Seq(Char \cup {CR})
  BY <1>1, TextWithCR
<1>3. n \in Seq(S) /\ m \in Seq(S) /\ v \in Seq(S) /\ <<CR>> \in Seq(S)
  <2>1. Char \subseteq S /\ CR \in S /\ ":" \in S /\ SP \in S
    BY Chars DEF LineSymbol
  <2> HIDE DEF S
  <2> QED
    BY <1>1, <2>1 DEF Text
<1>4. HeaderLine(f) = n \o m \o v \o <<CR>> /\ BodyLine(f) = n \o m \o v
  BY Zenon DEF HeaderLine, BodyLine
<1>5. n \o m \o v \o <<CR>> = n \o m \o (v \o <<CR>>)
  <2> DEFINE h == n \o m
             e == <<CR>>
  <2>1. h \in Seq(S)
    <3> HIDE DEF n, m, S
    <3> QED
      BY <1>3
  <2> HIDE DEF h, e, v, S
  <2>2. (h \o v) \o e = h \o (v \o e)
    BY <1>3, <2>1, ConcatAssociative DEF e
  <2> QED
    BY <2>2, Zenon DEF h, e, v
<1>6. HeaderLine(f) = n \o m \o (v \o <<CR>>)
  BY <1>4, <1>5
<1> HIDE DEF n, v
<1>7. Splits(HeaderLine(f), n, v \o <<CR>>)
  BY <1>1, <1>2, <1>6, LineIs, Zenon
<1>8. Splits(BodyLine(f), n, v)
  BY <1>1, <1>2, <1>4, LineIs, Zenon
<1> QED
  BY <1>7, <1>8, Zenon DEF n, v

LEMMA EmptyLine == <<CR>> \in Seq(LineSymbol) /\ Colon(<<CR>>) = 0
<1>1. \A i \in 1..Len(<<CR>>) : <<CR>>[i] # ":"
  BY Chars, LetterAssumption DEF CR
<1>2. Colon(<<CR>>) = 0
  BY <1>1, Zenon DEF Colon, SelectInSeq
<1> QED
  BY <1>2 DEF LineSymbol

IsLine(line) == line = <<CR>> \/ \E f \in Field : line = HeaderLine(f) \/ line = BodyLine(f)

LEMMA HeaderTextIs ==
  ASSUME NEW r \in Requests
  PROVE  LET H == HeaderText(r)
         IN /\ H \in Seq(Seq(LineSymbol)) /\ Len(r.headers) + 1 <= Len(H)
            /\ \A i \in 1..Len(r.headers) : H[i] = HeaderLine(r.headers[i])
            /\ \A i \in 1..Len(H) : IsLine(H[i])
<1> DEFINE h == Len(r.headers)
           a == [i \in 1..h |-> HeaderLine(r.headers[i])]
           e == <<<<CR>>>>
           b == IF r.json THEN <<>> ELSE [i \in 1..Len(r.body) |-> BodyLine(r.body[i])]
           L == {l \in Seq(LineSymbol) : IsLine(l)}
           H == HeaderText(r)
<1>1. r.headers \in Seq(Field) /\ r.body \in Seq(Field) /\ h \in Nat /\ Len(r.body) \in Nat
  BY RequestsAssumption
<1>2. \A f \in Field : HeaderLine(f) \in L /\ BodyLine(f) \in L
  BY ReadLine DEF IsLine, Splits
<1>3. <<CR>> \in L
  BY EmptyLine DEF IsLine
<1> HIDE DEF L
<1>4. a \in Seq(L) /\ Len(a) = h /\ \A i \in 1..h : a[i] = HeaderLine(r.headers[i])
  <2>1. \A i \in 1..h : HeaderLine(r.headers[i]) \in L
    BY <1>1, <1>2, ElementOfSeq
  <2> HIDE DEF h
  <2> QED
    BY <1>1, <2>1
<1>5. b \in Seq(L)
  <2>1. \A i \in 1..Len(r.body) : BodyLine(r.body[i]) \in L
    BY <1>1, <1>2, ElementOfSeq
  <2> QED
    BY <1>1, <2>1
<1>6. e \in Seq(L) /\ Len(e) = 1
  BY <1>3
<1>7. H = (a \o e) \o b
  BY Zenon DEF HeaderText
<1> HIDE DEF a, e, b, H
<1>8. /\ H \in Seq(L) /\ h + 1 <= Len(H) /\ \A i \in 1..h : H[i] = a[i]
  <2> DEFINE c == a \o e
  <2> HIDE DEF h
  <2>1. c \in Seq(L) /\ Len(c) = h + 1 /\ \A i \in 1..h : c[i] = a[i]
    <3>1. /\ c \in Seq(L) /\ Len(c) = Len(a) + Len(e)
          /\ \A i \in 1..(Len(a) + Len(e)) : c[i] = IF i <= Len(a) THEN a[i] ELSE e[i - Len(a)]
      BY <1>4, <1>6, ConcatProperties
    <3> HIDE DEF c
    <3> QED
      BY <1>1, <1>4, <1>6, <3>1
  <2> HIDE DEF c
  <2>2. c \o b \in Seq(L) /\ h + 1 <= Len(c \o b) /\ \A i \in 1..h : (c \o b)[i] = c[i]
    BY <1>1, <1>5, <2>1
  <2> QED
    BY <1>7, <2>1, <2>2 DEF c
<1>9. \A i \in 1..Len(H) : H[i] \in L
  BY <1>8
<1>10. L \subseteq Seq(LineSymbol)
  BY DEF L
<1> QED
  BY <1>4, <1>8, <1>9, <1>10 DEF L, H

-----------------------------------------------------------------------------
(* The types.                                                              *)

LEMMA RequestIs ==
  ASSUME NEW r \in Requests
  PROVE  /\ r.path \in Text /\ r.query \in Seq(Field) /\ r.headers \in Seq(Field)
         /\ Len(r.query) \in Nat /\ Len(r.headers) \in Nat
BY RequestsAssumption

(* What is read of the request line is text; the lines that are left are   *)
(* the last ones of the header text.                                       *)
TextRead == state = "uri" => parsed_string \in Text
LinesLeft ==
    \E m \in 0..Len(HeaderText(request)) :
        /\ Len(lines) = Len(HeaderText(request)) - m
        /\ \A i \in 1..Len(lines) : lines[i] = HeaderText(request)[m + i]
TInv == TypeOK /\ TextRead /\ LinesLeft

LEMMA Guards ==
  /\ Blank => Reads(SP)
  /\ Plus => Reads("+")
  /\ Question => Reads("?")
  /\ Ampersand => Reads("&")
  /\ Equals => Reads("=")
BY Zenon DEF Blank, Plus, Question, Ampersand, Equals

LEMMA OtherGuards ==
  /\ Percent => state = "uri" /\ input # <<>> /\ Head(input).escaped
  /\ Other => \E c \in Letter \cup {"/"} : Reads(c)
  /\ UriEnd => state = "uri" /\ input = <<>>
  /\ MimeLine => state = "mime" /\ lines # <<>>
  /\ MimeEnd => state = "mime"
BY Zenon DEF Percent, Other, UriEnd, MimeLine, MimeEnd

LEMMA TextAppend ==
  ASSUME NEW x \in Text, NEW c \in Char PROVE Append(x, c) \in Text
BY DEF Text

LEMMA HeadSymbol ==
  ASSUME NEW in \in Seq(Symbol), in # <<>>
  PROVE  /\ Tail(in) \in Seq(Symbol) /\ Head(in) \in Symbol
         /\ Head(in).escaped => Head(in).char \in Char \cup {Malformed}
         /\ \A c : Head(in) = Plain(c) => ~Head(in).escaped /\ Head(in).char = c
<1>1. Tail(in) \in Seq(Symbol) /\ Head(in) \in Symbol
  OBVIOUS
<1> DEFINE s == Head(in)
<1> HIDE DEF s
<1>2. s \in Symbol
  BY <1>1 DEF s
<1>3. s.escaped => s.char \in Char \cup {Malformed}
  BY <1>2 DEF Symbol, Plain, Escaped
<1>4. \A c : s = Plain(c) => ~s.escaped /\ s.char = c
  BY DEF Plain
<1> QED
  BY <1>1, <1>3, <1>4 DEF s

(* The map with one more element.                                          *)
LEMMA AddedIs ==
  ASSUME NEW k, NEW v
  PROVE  /\ DOMAIN add_element(k, v) = DOMAIN tokenMap \cup {k}
         /\ \A x \in DOMAIN tokenMap : add_element(k, v)[x] = tokenMap[x]
         /\ k \notin DOMAIN tokenMap => add_element(k, v)[k] = v
         /\ \A x \in DOMAIN add_element(k, v) : x \in DOMAIN tokenMap \/ x = k
<1>1. CASE k \in DOMAIN tokenMap
  <2>1. add_element(k, v) = tokenMap
    BY <1>1, Zenon DEF add_element
  <2> QED
    BY <1>1, <2>1
<1>2. CASE k \notin DOMAIN tokenMap
  <2>1. add_element(k, v)
          = [x \in DOMAIN tokenMap \cup {k} |-> IF x = k THEN v ELSE tokenMap[x]]
    BY <1>2, Zenon DEF add_element
  <2> QED
    BY <1>2, <2>1
<1> QED
  BY <1>1, <1>2

KeyType == Seq(Char \cup {CR})
TokensTyped == \A k \in DOMAIN tokenMap : tokenMap[k] \in Text /\ k \in KeyType

LEMMA AddedTyped ==
  ASSUME NEW k \in KeyType, NEW v \in Text, TokensTyped, NEW m, m = add_element(k, v)
  PROVE  \A x \in DOMAIN m : m[x] \in Text /\ x \in KeyType
<1>1. CASE k \in DOMAIN tokenMap
  <2>1. add_element(k, v) = tokenMap
    BY <1>1, Zenon DEF add_element
  <2> QED
    BY <2>1 DEF TokensTyped
<1>2. CASE k \notin DOMAIN tokenMap
  <2>1. add_element(k, v)
          = [x \in DOMAIN tokenMap \cup {k} |-> IF x = k THEN v ELSE tokenMap[x]]
    BY <1>2, Zenon DEF add_element
  <2> QED
    BY <2>1 DEF TokensTyped
<1> QED
  BY <1>1, <1>2

LEMMA TextIsKey == ASSUME NEW x \in Text PROVE x \in KeyType
BY DEF Text, KeyType

LEMMA TInvInit == Init => TInv
<1> SUFFICES ASSUME Init PROVE TInv
  OBVIOUS
<1>1. request \in Requests /\ style \in Styles
  BY DEF Init
<1>2. input \in Seq(Symbol)
  BY <1>1, RequestLineIs DEF Init
<1>3. /\ HeaderText(request) \in Seq(Seq(LineSymbol)) /\ lines = HeaderText(request)
      /\ Len(lines) \in Nat
  BY <1>1, HeaderTextIs DEF Init
<1>4. <<>> \in Text /\ <<>> \in Seq(Char \cup {CR})
  BY DEF Text
<1>5. DOMAIN tokenMap = {}
  BY DEF Init
<1>6. TypeOK
  BY <1>1, <1>2, <1>3, <1>4, <1>5 DEF Init, TypeOK, LineSymbol
<1>7. LinesLeft
  <2>1. 0 \in 0..Len(HeaderText(request)) /\ Len(lines) = Len(HeaderText(request)) - 0
        /\ \A i \in 1..Len(lines) : 0 + i = i
    BY <1>3
  <2> QED
    BY <1>3, <2>1 DEF LinesLeft
<1> QED
  BY <1>4, <1>6, <1>7 DEF TInv, TextRead, Init

(* A step on the request line keeps the types, action by action.           *)
LEMMA UriTypes ==
  ASSUME TInv, state' = "thrown" => style = "broken",
         \/ Blank \/ Plus \/ Question \/ Ampersand \/ Equals \/ Percent \/ Other \/ UriEnd
  PROVE  TInv'
<1>1. /\ state = "uri" /\ request \in Requests /\ style \in Styles
      /\ input \in Seq(Symbol) /\ parsed_string \in Text /\ param \in Text
      /\ isQsPresent \in BOOLEAN /\ uriName \in Text /\ TokensTyped
  <2>1. state = "uri"
    BY Guards, OtherGuards DEF Reads
  <2> QED
    BY <2>1 DEF TInv, TypeOK, TextRead, TokensTyped, KeyType
<1>2. /\ UNCHANGED <<request, style, lines>>
  BY DEF Blank, Plus, Question, Ampersand, Equals, Percent, Other, UriEnd
<1>3. <<>> \in Text
  BY DEF Text
<1>4. input # <<>> => Tail(input) \in Seq(Symbol)
  BY <1>1
<1>5. parsed_string \in KeyType /\ param \in KeyType
  BY <1>1, TextIsKey
<1> DEFINE Map == tokenMap' = add_element(param, parsed_string) \/ UNCHANGED tokenMap
           Kept == /\ state' \in {"uri", "mime", "thrown"} /\ input' \in Seq(Symbol)
                   /\ parsed_string' \in Text /\ param' \in Text /\ isQsPresent' \in BOOLEAN
                   /\ uriName' \in Text /\ Map
<1>6. ASSUME Kept PROVE TInv'
  <2>1. TokensTyped'
    <3>1. \A m : m = add_element(param, parsed_string) =>
             \A x \in DOMAIN m : m[x] \in Text /\ x \in KeyType
      BY <1>1, <1>5, AddedTyped
    <3>2. CASE tokenMap' = add_element(param, parsed_string)
      BY <3>1, <3>2 DEF TokensTyped
    <3>3. CASE UNCHANGED tokenMap
      BY <1>1, <3>3 DEF TokensTyped
    <3> QED
      BY <1>6, <3>2, <3>3
  <2>2. parsed_string' \in Seq(Char \cup {CR})
    BY <1>6, TextIsKey DEF KeyType
  <2>3. lines' \in Seq(Seq(Char \cup {":", CR}))
    BY <1>2 DEF TInv, TypeOK
  <2>4. TypeOK'
    BY <1>1, <1>2, <1>6, <2>1, <2>2, <2>3 DEF TypeOK, TokensTyped, KeyType
  <2>5. LinesLeft'
    BY <1>2 DEF TInv, LinesLeft
  <2> QED
    BY <1>6, <2>4, <2>5 DEF TInv, TextRead
<1>7. CASE Blank
  <2>1. input # <<>>
    BY <1>7, Guards DEF Reads
  <2>2. Len(input) > 1 => Tail(Tail(input)) \in Seq(Symbol)
    <3> DEFINE t == Tail(input)
    <3>1. t \in Seq(Symbol) /\ (Len(input) > 1 => t # <<>>)
      <4>1. t \in Seq(Symbol) /\ Len(t) = Len(input) - 1 /\ Len(input) \in Nat
        BY <1>1, <2>1, HeadTailProperties
      <4> HIDE DEF t
      <4> QED
        BY <4>1
    <3> HIDE DEF t
    <3>2. Len(input) > 1 => Tail(t) \in Seq(Symbol)
      BY <3>1
    <3> QED
      BY <3>2 DEF t
  <2>3. input' \in Seq(Symbol)
    BY <1>4, <1>7, <2>1, <2>2 DEF Blank
  <2>4. Map /\ uriName' \in Text
    BY <1>1, <1>7 DEF Blank
  <2>5. /\ UNCHANGED <<state, isQsPresent>> /\ parsed_string' = <<>> /\ param' = <<>>
    BY <1>7 DEF Blank, Clear
  <2> QED
    BY <1>1, <1>3, <1>6, <2>3, <2>4, <2>5
<1>8. CASE Plus
  <2>1. Append(parsed_string, SP) \in Text
    BY <1>1, TextAppend, Chars
  <2> QED
    BY <1>1, <1>4, <1>6, <1>8, <2>1 DEF Plus, Reads
<1>9. CASE Question
  BY <1>1, <1>3, <1>4, <1>6, <1>9 DEF Question, Reads
<1>10. CASE Ampersand
  BY <1>1, <1>3, <1>4, <1>6, <1>10 DEF Ampersand, Reads, Clear
<1>11. CASE Equals
  BY <1>1, <1>3, <1>4, <1>6, <1>11 DEF Equals, Reads
<1>12. CASE Percent
  <2>1. input # <<>> /\ Head(input).escaped
    BY <1>12, OtherGuards
  <2>2. Head(input).char \in Char \cup {Malformed}
    BY <1>1, <2>1, HeadSymbol
  <2>3. UNCHANGED <<param, isQsPresent, uriName, tokenMap>>
    BY <1>12 DEF Percent
  <2>4. CASE Head(input).char = Malformed
    <3>1. state' = "thrown" /\ UNCHANGED <<input, parsed_string>>
      BY <1>12, <2>4 DEF Percent
    <3> QED
      BY <1>1, <1>6, <2>3, <3>1
  <2>5. CASE Head(input).char # Malformed
    <3>1. /\ input' = Tail(input) /\ parsed_string' = Append(parsed_string, Head(input).char)
          /\ state' = state
      BY <1>12, <2>5 DEF Percent
    <3>2. parsed_string' \in Text
      BY <1>1, <2>2, <2>5, <3>1, TextAppend
    <3> QED
      BY <1>1, <1>4, <1>6, <2>1, <2>3, <3>1, <3>2
  <2> QED
    BY <2>4, <2>5
<1>13. CASE Other
  <2>1. PICK c \in Letter \cup {"/"} : Reads(c)
    BY <1>13, OtherGuards
  <2>2. input # <<>> /\ Head(input).char = c /\ c \in Char
    BY <1>1, <2>1, HeadSymbol, Chars DEF Reads, Char
  <2>3. Append(parsed_string, Head(input).char) \in Text
    BY <1>1, <2>2, TextAppend
  <2>4. /\ UNCHANGED <<state, param, isQsPresent, uriName, tokenMap>>
        /\ input' = Tail(input) /\ parsed_string' = Append(parsed_string, Head(input).char)
    BY <1>13 DEF Other
  <2> QED
    BY <1>1, <1>4, <1>6, <2>2, <2>3, <2>4
<1>14. CASE UriEnd
  <2>1. /\ state' = "mime" /\ UNCHANGED <<input, isQsPresent, uriName, tokenMap>>
        /\ parsed_string' = <<>> /\ param' = <<>>
    BY <1>14 DEF UriEnd, Clear, uriVars
  <2> QED
    BY <1>1, <1>3, <1>6, <2>1
<1> QED
  BY <1>7, <1>8, <1>9, <1>10, <1>11, <1>12, <1>13, <1>14

(* What a line of the header text does.                                    *)
LEMMA LineRead ==
  ASSUME MimeLine, NEW n \in Text, NEW w, Splits(Head(lines), n, w)
  PROVE  parsed_string' = <<>> /\ tokenMap' = add_element(parsed_string \o n, Squeezed(w))
<1> DEFINE line == Head(lines)
           k == Colon(line)
<1>1. Len(n) \in Nat /\ k = Len(n) + 1
  BY DEF Text, Splits
<1>2. k # 0 /\ k - 1 = Len(n) /\ k + 2 = Len(n) + 3
  BY <1>1
<1>3. /\ parsed_string' = <<>>
      /\ tokenMap' = add_element(parsed_string \o SubSeq(line, 1, k - 1),
                                 Squeezed(SubSeq(line, k + 2, Len(line))))
  BY <1>2, Zenon DEF MimeLine
<1>4. SubSeq(line, 1, k - 1) = n /\ SubSeq(line, k + 2, Len(line)) = w
  BY <1>2, Zenon DEF Splits
<1> QED
  BY <1>3, <1>4, Zenon

LEMMA EmptyRead ==
  ASSUME MimeLine, Head(lines) = <<CR>>
  PROVE  parsed_string' = parsed_string \o <<CR>> /\ UNCHANGED tokenMap
BY EmptyLine, Zenon DEF MimeLine

(* The first of the lines that are left is taken.                          *)
Left(m) == /\ Len(lines) = Len(HeaderText(request)) - m
           /\ \A i \in 1..Len(lines) : lines[i] = HeaderText(request)[m + i]

LEMMA LineTaken ==
  ASSUME TypeOK, MimeLine, NEW m \in 0..Len(HeaderText(request)), Left(m)
  PROVE  /\ m + 1 \in 1..Len(HeaderText(request)) /\ Left(m + 1)'
         /\ Head(lines) = HeaderText(request)[m + 1] /\ IsLine(Head(lines))
<1> DEFINE H == HeaderText(request)
           N == Len(H)
<1>1. H \in Seq(Seq(LineSymbol)) /\ \A i \in 1..N : IsLine(H[i])
  BY HeaderTextIs DEF TypeOK
<1>2. /\ lines \in Seq(Seq(LineSymbol)) /\ lines # <<>> /\ lines' = Tail(lines)
      /\ UNCHANGED request
  BY DEF TypeOK, MimeLine, LineSymbol
<1>3. N \in Nat /\ Len(lines) \in Nat /\ Len(lines) # 0 /\ m \in Nat
  BY <1>1, <1>2
<1>4. Len(lines) = N - m /\ \A i \in 1..Len(lines) : lines[i] = H[m + i]
  BY DEF Left
<1>5. m + 1 \in 1..N
  <2> HIDE DEF N
  <2> QED
    BY <1>3, <1>4
<1>6. Head(lines) = H[m + 1]
  <2>1. Head(lines) = lines[1] /\ 1 \in 1..Len(lines)
    BY <1>2, <1>3
  <2> QED
    BY <1>4, <2>1
<1>7. /\ Len(lines') = Len(lines) - 1
      /\ \A i \in 1..Len(lines') : lines'[i] = lines[i + 1]
  BY <1>2, HeadTailProperties
<1>8. Len(lines') = N - (m + 1)
  <2> HIDE DEF N
  <2> QED
    BY <1>3, <1>4, <1>7
<1>9. ASSUME NEW i \in 1..Len(lines') PROVE lines'[i] = H[m + 1 + i]
  <2>1. i + 1 \in 1..Len(lines) /\ m + (i + 1) = m + 1 + i
    BY <1>3, <1>7
  <2> QED
    BY <1>4, <1>7, <2>1
<1>10. Left(m + 1)'
  <2>1. HeaderText(request)' = H
    BY <1>2
  <2> QED
    BY <1>8, <1>9, <2>1 DEF Left
<1> QED
  BY <1>1, <1>5, <1>6, <1>10

LEMMA MimeTypes ==
  ASSUME TInv, MimeLine \/ MimeEnd
  PROVE  TInv'
<1>1. /\ state = "mime" /\ request \in Requests /\ style \in Styles
      /\ input \in Seq(Symbol) /\ parsed_string \in KeyType /\ param \in Text
      /\ isQsPresent \in BOOLEAN /\ uriName \in Text /\ TokensTyped
      /\ lines \in Seq(Seq(LineSymbol))
  BY OtherGuards DEF TInv, TypeOK, TokensTyped, KeyType, LineSymbol
<1>2. UNCHANGED <<request, style, input, isQsPresent, uriName, param>>
  BY DEF MimeLine, MimeEnd, uriVars
<1>3. CASE MimeEnd
  <2>1. state' = "done" /\ UNCHANGED <<lines, parsed_string, tokenMap>>
    BY <1>3 DEF MimeEnd
  <2>2. TypeOK'
    BY <1>1, <1>2, <2>1 DEF TypeOK, TokensTyped, KeyType, LineSymbol
  <2> QED
    BY <1>2, <2>1, <2>2 DEF TInv, TextRead, LinesLeft
<1>4. CASE MimeLine
  <2>1. /\ state' = "mime" /\ lines' = Tail(lines) /\ lines # <<>>
    BY <1>1, <1>4 DEF MimeLine
  <2>2. lines' \in Seq(Seq(LineSymbol))
    BY <1>1, <2>1
  <2>3. PICK m \in 0..Len(HeaderText(request)) : Left(m)
    BY DEF TInv, LinesLeft, Left
  <2>4. /\ m + 1 \in 1..Len(HeaderText(request)) /\ Left(m + 1)'
        /\ IsLine(Head(lines))
    BY <1>4, <2>3, LineTaken DEF TInv
  <2>5. parsed_string' \in KeyType /\ TokensTyped'
    <3>1. CASE Head(lines) = <<CR>>
      <4>1. parsed_string' = parsed_string \o <<CR>> /\ UNCHANGED tokenMap
        BY <1>4, <3>1, EmptyRead
      <4>2. parsed_string \o <<CR>> \in KeyType
        BY <1>1 DEF KeyType
      <4> QED
        BY <1>1, <4>1, <4>2 DEF TokensTyped
    <3>2. CASE Head(lines) # <<CR>>
      <4>1. PICK f \in Field : Head(lines) = HeaderLine(f) \/ Head(lines) = BodyLine(f)
        BY <2>4, <3>2 DEF IsLine
      <4>2. f.name \in Text /\ f.value \in Text
        BY DEF Field
      <4>3. PICK w \in {f.value, f.value \o <<CR>>} : Splits(Head(lines), f.name, w)
        BY <4>1, ReadLine
      <4>4. parsed_string' = <<>>
            /\ tokenMap' = add_element(parsed_string \o f.name, Squeezed(w))
        BY <1>4, <4>2, <4>3, LineRead
      <4>5. Squeezed(w) \in Text
        <5>1. f.value \in Seq(Char \cup {CR})
              /\ f.value \o <<CR>> \in Seq(Char \cup {CR})
          BY <4>2, TextWithCR
        <5>2. w = f.value \/ w = f.value \o <<CR>>
          OBVIOUS
        <5>3. w \in Seq(Char \cup {CR})
          BY <5>1, <5>2, Zenon
        <5> QED
          BY <5>3, SqueezedType
      <4>6. parsed_string \o f.name \in KeyType /\ <<>> \in KeyType
        <5>1. f.name \in KeyType
          BY <4>2, TextIsKey
        <5> QED
          BY <1>1, <5>1 DEF KeyType
      <4>7. \A a : a = add_element(parsed_string \o f.name, Squeezed(w)) =>
               \A x \in DOMAIN a : a[x] \in Text /\ x \in KeyType
        BY <1>1, <4>5, <4>6, AddedTyped
      <4> QED
        BY <4>4, <4>6, <4>7 DEF TokensTyped
    <3> QED
      BY <3>1, <3>2
  <2>6. TypeOK'
    BY <1>1, <1>2, <2>1, <2>2, <2>5 DEF TypeOK, TokensTyped, KeyType, LineSymbol
  <2>7. LinesLeft'
    <3>1. m + 1 \in 0..Len(HeaderText(request))
      BY <2>4
    <3>2. HeaderText(request)' = HeaderText(request)
      BY <1>2
    <3> QED
      BY <2>4, <3>1, <3>2 DEF LinesLeft, Left
  <2> QED
    BY <2>1, <2>6, <2>7 DEF TInv, TextRead
<1> QED
  BY <1>3, <1>4

-----------------------------------------------------------------------------
(* The request line: where the parser is in what the client encoded.       *)

(* The first i parameters are in the map, and nothing else.                *)
QueryRead(i) ==
    /\ DOMAIN tokenMap = {request.query[j].name : j \in 1..i}
    /\ \A j \in 1..i : First(request.query, j) =>
          tokenMap[request.query[j].name] = request.query[j].value

InPath(text, rest) ==
    /\ text = request.path /\ rest = Rest(request.query, style)[1]
    /\ ~isQsPresent /\ QueryRead(0)
InName(text, rest, i) ==
    /\ text = request.query[i].name /\ rest = Valued(request.query, i, style)
    /\ isQsPresent /\ uriName = request.path /\ QueryRead(i - 1)
InValue(text, rest, i) ==
    /\ text = request.query[i].value /\ rest = Rest(request.query, style)[i + 1]
    /\ param = request.query[i].name
    /\ isQsPresent /\ uriName = request.path /\ QueryRead(i - 1)
Context(text, rest) ==
    \/ InPath(text, rest)
    \/ \E i \in 1..Len(request.query) : InName(text, rest, i) \/ InValue(text, rest, i)

(* The parser has read a part of the text, and not yet x and the rest.     *)
Reading(text, x, rest) ==
    parsed_string \o x = text /\ input = Encode(x, style) \o rest

AtStart == /\ ~isQsPresent /\ QueryRead(0)
           /\ \/ input = RequestLine(request, style)
              \/ input = Tail(RequestLine(request, style))
InTarget == \E text \in Text, x \in Text, rest \in Seq(Symbol) :
               Reading(text, x, rest) /\ Context(text, rest)
AtEnd == /\ input \in {<<Plain("/")>>, <<>>}
         /\ uriName = request.path /\ QueryRead(Len(request.query))
UriPlace == AtStart \/ InTarget \/ AtEnd

(* The symbol that is read decides which action reads it.                  *)
LEMMA UriStep ==
  ASSUME state = "uri", Next
  PROVE  \/ input = <<>> /\ UriEnd
         \/ input # <<>> /\ Head(input).escaped /\ Percent
         \/ /\ input # <<>>
            /\ \/ Head(input) = Plain(SP) /\ Blank
               \/ Head(input) = Plain("+") /\ Plus
               \/ Head(input) = Plain("?") /\ Question
               \/ Head(input) = Plain("&") /\ Ampersand
               \/ Head(input) = Plain("=") /\ Equals
               \/ (\E c \in Letter \cup {"/"} : Head(input) = Plain(c)) /\ Other
<1>1. /\ ~MimeLine /\ ~MimeEnd
  BY OtherGuards
<1> QED
  BY <1>1, Guards, OtherGuards, Zenon DEF Next, Reads

LEMMA ReadsPlain ==
  ASSUME state = "uri", Next, NEW c, input # <<>>, Head(input) = Plain(c)
  PROVE  /\ c = SP => Blank
         /\ c = "?" => Question
         /\ c = "&" => Ampersand
         /\ c = "=" => Equals
         /\ c = "+" => Plus
         /\ c \in Letter \cup {"/"} => Other
<1>1. ~Head(input).escaped /\ \A d : Head(input) = Plain(d) => d = c
  <2>1. ~Plain(c).escaped /\ \A d : Plain(d) = Plain(c) => d = c
    BY SymbolIs, Zenon
  <2> QED
    BY <2>1, Zenon
<1>2. \/ c = SP /\ Blank
      \/ c = "+" /\ Plus
      \/ c = "?" /\ Question
      \/ c = "&" /\ Ampersand
      \/ c = "=" /\ Equals
      \/ c \in Letter \cup {"/"} /\ Other
  BY <1>1, UriStep, Zenon
<1>3. SP \notin {"+", "?", "&", "=", "/"} \cup Letter
  BY Blanks, Chars
<1>4. {"+", "?", "&", "="} \cap (Letter \cup {"/"}) = {}
  BY Chars
<1> QED
  BY <1>2, <1>3, <1>4

(* A character of a text is read as itself.                                *)
LEMMA CharRead ==
  ASSUME state = "uri", style \in Styles, Next, NEW x \in Text, x # <<>>,
         NEW rest \in Seq(Symbol), input = Encode(x, style) \o rest
  PROVE  \/ state' = "thrown" /\ style = "broken"
         \/ /\ input' = Encode(Tail(x), style) \o rest
            /\ parsed_string' = Append(parsed_string, Head(x))
            /\ UNCHANGED <<state, request, style, param, isQsPresent, uriName, tokenMap>>
<1> DEFINE c == Head(x)
<1>1. /\ c \in Char /\ input # <<>> /\ Head(input) = EncodeChar(c, style)
      /\ Tail(input) = Encode(Tail(x), style) \o rest
  BY EncodeCons
<1> HIDE DEF c
<1> DEFINE Read == /\ input' = Tail(input) /\ parsed_string' = Append(parsed_string, c)
                   /\ UNCHANGED <<state, request, style, param, isQsPresent, uriName, tokenMap>>
<1>2. Read => /\ input' = Encode(Tail(x), style) \o rest
              /\ parsed_string' = Append(parsed_string, Head(x))
              /\ UNCHANGED <<state, request, style, param, isQsPresent, uriName, tokenMap>>
  BY <1>1 DEF c
<1>3. CASE c = SP /\ EncodeChar(c, style) = Plain("+")
  <2>1. Plus
    BY <1>1, <1>3, ReadsPlain
  <2> QED
    BY <1>2, <1>3, <2>1 DEF Plus
<1>4. ASSUME NEW d, EncodeChar(c, style) = Escaped(d)
      PROVE  Percent /\ Head(input).char = d
  <2>1. Head(input) = Escaped(d)
    BY <1>1, <1>4
  <2>2. Head(input).escaped /\ Head(input).char = d /\ \A e : Head(input) # Plain(e)
    BY <2>1, SymbolIs
  <2> QED
    BY <1>1, <2>2, UriStep, Zenon
<1>5. CASE style = "broken" /\ EncodeChar(c, style) = Escaped(Malformed)
  <2>1. Percent /\ Head(input).char = Malformed
    BY <1>4, <1>5
  <2> QED
    BY <1>5, <2>1 DEF Percent
<1>6. CASE EncodeChar(c, style) = Escaped(c)
  <2>1. Percent /\ Head(input).char = c /\ c # Malformed
    BY <1>1, <1>4, <1>6, Chars
  <2> QED
    BY <1>2, <2>1 DEF Percent
<1>7. CASE c \in Letter \cup {"/"} /\ EncodeChar(c, style) = Plain(c)
  <2>1. Other
    BY <1>1, <1>7, ReadsPlain
  <2>2. Head(input).char = c
    BY <1>1, <1>7, SymbolIs
  <2> QED
    BY <1>2, <2>1, <2>2 DEF Other
<1> QED
  BY <1>1, <1>3, <1>5, <1>6, <1>7, EncodedIs

LEMMA QuerySame ==
  ASSUME NEW i, QueryRead(i), UNCHANGED <<request, tokenMap>>
  PROVE  QueryRead(i)'
BY DEF QueryRead

LEMMA ContextSame ==
  ASSUME NEW text, NEW rest, Context(text, rest),
         UNCHANGED <<request, style, param, isQsPresent, uriName, tokenMap>>
  PROVE  Context(text, rest)'
<1>1. \A i : QueryRead(i) => QueryRead(i)'
  BY QuerySame
<1>2. InPath(text, rest) => InPath(text, rest)'
  BY <1>1 DEF InPath
<1>3. ASSUME NEW i, InName(text, rest, i) PROVE InName(text, rest, i)'
  <2>1. QueryRead(i - 1)'
    BY <1>1, <1>3 DEF InName
  <2> QED
    BY <1>3, <2>1 DEF InName
<1>4. ASSUME NEW i, InValue(text, rest, i) PROVE InValue(text, rest, i)'
  <2>1. QueryRead(i - 1)'
    BY <1>1, <1>4 DEF InValue
  <2> QED
    BY <1>4, <2>1 DEF InValue
<1>5. Len(request.query)' = Len(request.query)
  OBVIOUS
<1>6. CASE InPath(text, rest)
  BY <1>2, <1>6, Zenon DEF Context
<1>7. ASSUME NEW i \in 1..Len(request.query), InName(text, rest, i) \/ InValue(text, rest, i)
      PROVE  Context(text, rest)'
  <2>1. i \in (1..Len(request.query))'
    BY <1>5
  <2>2. InName(text, rest, i)' \/ InValue(text, rest, i)'
    BY <1>3, <1>4, <1>7
  <2> QED
    BY <2>1, <2>2, Zenon DEF Context
<1> QED
  BY <1>6, <1>7, Zenon DEF Context

(* A text begins with all of it unread.                                    *)
LEMMA BeginsAt ==
  ASSUME NEW text \in Text, NEW rest \in Seq(Symbol), style' \in Styles,
         parsed_string' = <<>>, input' = Encode(text, style') \o rest, Context(text, rest)'
  PROVE  InTarget'
<1>1. <<>> \o text = text
  BY DEF Text
<1> QED
  BY <1>1 DEF InTarget, Reading

LEMMA FromStart ==
  ASSUME TInv, state = "uri", Next, AtStart
  PROVE  state' = "uri" /\ UriPlace'
<1> DEFINE in == RequestLine(request, style)
           rest == Rest(request.query, style)[1]
<1>1. request \in Requests /\ style \in Styles
  BY DEF TInv, TypeOK
<1>2. /\ in # <<>> /\ Head(in) = Plain("G") /\ Tail(in) # <<>> /\ Head(Tail(in)) = Plain(SP)
      /\ Tail(Tail(in)) = Encode(request.path, style) \o rest
      /\ Tail(Tail(in)) = <<>> \/ Tail(in)[2] # Plain(HTTP)
      /\ in \in Seq(Symbol)
  BY <1>1, RequestLineIs
<1>3. ~isQsPresent /\ QueryRead(0)
  BY DEF AtStart
<1> HIDE DEF in, rest
<1>4. CASE input = in
  <2>1. Other
    BY <1>2, <1>4, ReadsPlain, Chars
  <2>2. input' = Tail(in) /\ UNCHANGED <<state, request, style, isQsPresent, tokenMap>>
    BY <1>4, <2>1 DEF Other
  <2>3. QueryRead(0)'
    BY <1>3, <2>2, QuerySame
  <2> QED
    BY <1>3, <2>2, <2>3 DEF UriPlace, AtStart, in
<1>5. CASE input = Tail(in)
  <2>1. Blank
    BY <1>2, <1>5, ReadsPlain
  <2>2. ~(Len(input) > 1 /\ input[2] = Plain(HTTP))
    <3> DEFINE t == Tail(in)
    <3>1. t \in Seq(Symbol) /\ t # <<>>
      BY <1>2
    <3> HIDE DEF t
    <3>2. Len(Tail(t)) = Len(t) - 1 /\ Len(t) \in Nat
      BY <3>1, HeadTailProperties
    <3>3. Tail(t) = <<>> => Len(t) = 1
      <4>1. Len(<<>>) = 0
        OBVIOUS
      <4>2. Tail(t) = <<>> => Len(Tail(t)) = 0
        BY <4>1, Zenon
      <4> DEFINE k == Len(Tail(t))
                 l == Len(t)
      <4>3. k = l - 1 /\ l \in Nat
        BY <3>2
      <4> HIDE DEF k, l
      <4>4. k = 0 => l = 1
        BY <4>3
      <4> QED
        BY <4>2, <4>4, Zenon DEF k, l
    <3> QED
      BY <1>2, <1>5, <3>3 DEF t
  <2>3. /\ input' = Encode(request.path, style) \o rest /\ parsed_string' = <<>>
        /\ UNCHANGED <<state, request, style, isQsPresent, uriName, tokenMap>>
    BY <1>2, <1>5, <2>1, <2>2 DEF Blank, Clear
  <2>4. QueryRead(0)'
    BY <1>3, <2>3, QuerySame
  <2>5. PICK text \in Text : text = request.path
    BY <1>1, RequestIs
  <2>6. PICK r \in Seq(Symbol) : r = rest
    <3>1. 1 \in 1..(Len(request.query) + 1)
      BY <1>1, RequestIs
    <3> QED
      BY <1>1, <3>1, RequestIs, RestIs DEF rest
  <2>7. Context(text, r)'
    BY <1>3, <2>3, <2>4, <2>5, <2>6 DEF Context, InPath, rest
  <2>8. InTarget'
    BY <1>1, <2>3, <2>5, <2>6, <2>7, BeginsAt
  <2> QED
    BY <2>3, <2>8 DEF UriPlace
<1> QED
  BY <1>4, <1>5 DEF AtStart, in

(* In the middle of a text.                                                *)
LEMMA MidText ==
  ASSUME TInv, state = "uri", Next, NEW text \in Text, NEW x \in Text, NEW rest \in Seq(Symbol),
         Reading(text, x, rest), Context(text, rest), x # <<>>
  PROVE  \/ state' = "thrown" /\ style = "broken"
         \/ state' = "uri" /\ InTarget'
<1>1. style \in Styles /\ parsed_string \in Text
  BY DEF TInv, TypeOK, TextRead
<1>2. parsed_string \o x = text /\ input = Encode(x, style) \o rest
  BY DEF Reading
<1>3. CASE /\ input' = Encode(Tail(x), style) \o rest
           /\ parsed_string' = Append(parsed_string, Head(x))
           /\ UNCHANGED <<state, request, style, param, isQsPresent, uriName, tokenMap>>
  <2>1. Context(text, rest)'
    BY <1>3, ContextSame
  <2>2. Tail(x) \in Text /\ Append(parsed_string, Head(x)) \o Tail(x) = text
    <3>1. Append(parsed_string, Head(x)) \o Tail(x) = parsed_string \o x
      BY <1>1 DEF Text
    <3> QED
      BY <1>2, <3>1 DEF Text
  <2>3. Reading(text, Tail(x), rest)'
    BY <1>3, <2>2 DEF Reading
  <2> QED
    BY <1>3, <2>1, <2>2, <2>3 DEF InTarget
<1> QED
  BY <1>1, <1>2, <1>3, CharRead

LEMMA FromEnd ==
  ASSUME state = "uri", Next, AtEnd
  PROVE  \/ state' = "uri" /\ AtEnd'
         \/ UriEnd
<1>1. uriName = request.path /\ QueryRead(Len(request.query))
  BY DEF AtEnd
<1>2. CASE input = <<>>
  BY <1>2, UriStep, Zenon
<1>3. CASE input = <<Plain("/")>>
  <2>1. input # <<>> /\ Head(input) = Plain("/") /\ Tail(input) = <<>>
    BY <1>3
  <2>2. Other
    BY <2>1, ReadsPlain
  <2>3. input' = <<>> /\ UNCHANGED <<state, request, uriName, tokenMap>>
    BY <2>1, <2>2 DEF Other
  <2>4. PICK n : n = Len(request.query)
    OBVIOUS
  <2>5. QueryRead(n)'
    BY <1>1, <2>3, <2>4, QuerySame
  <2> QED
    BY <1>1, <2>3, <2>4, <2>5 DEF AtEnd
<1> QED
  BY <1>2, <1>3 DEF AtEnd

(* The map with the i-th parameter.                                        *)
LEMMA QueryAdded ==
  ASSUME NEW i \in Nat \ {0}, QueryRead(i - 1), UNCHANGED request,
         param = request.query[i].name, parsed_string = request.query[i].value,
         tokenMap' = add_element(param, parsed_string)
  PROVE  QueryRead(i)'
<1> DEFINE q == request.query
           k == q[i].name
           v == q[i].value
           m == add_element(k, v)
<1>1. /\ DOMAIN tokenMap = {q[j].name : j \in 1..(i - 1)}
      /\ \A j \in 1..(i - 1) : First(q, j) => tokenMap[q[j].name] = q[j].value
  BY DEF QueryRead
<1>2. tokenMap' = m /\ q' = q
  OBVIOUS
<1>3. /\ DOMAIN m = DOMAIN tokenMap \cup {k}
      /\ \A x \in DOMAIN tokenMap : m[x] = tokenMap[x]
      /\ k \notin DOMAIN tokenMap => m[k] = v
  <2> HIDE DEF k, v
  <2>1. /\ DOMAIN m = DOMAIN tokenMap \cup {k}
        /\ \A x \in DOMAIN tokenMap : m[x] = tokenMap[x]
    BY AddedIs, Zenon
  <2>2. k \notin DOMAIN tokenMap => m[k] = v
    BY AddedIs, Zenon
  <2> QED
    BY <2>1, <2>2, Zenon
<1>4. i \in Nat /\ 1..i = (1..(i - 1)) \cup {i}
  OBVIOUS
<1>5. First(q, i) => k \notin DOMAIN tokenMap
  BY <1>1 DEF First
<1> HIDE DEF m, q
<1>6. DOMAIN m = {q[j].name : j \in 1..i}
  BY <1>1, <1>3, <1>4
<1>7. ASSUME NEW j \in 1..i, First(q, j) PROVE m[q[j].name] = q[j].value
  <2>1. CASE j = i
    BY <1>3, <1>5, <1>7, <2>1
  <2>2. CASE j # i
    <3>1. j \in 1..(i - 1)
      BY <1>4, <2>2
    <3>2. q[j].name \in DOMAIN tokenMap
      BY <1>1, <3>1
    <3> QED
      BY <1>1, <1>3, <1>7, <3>1, <3>2
  <2> QED
    BY <2>1, <2>2
<1> QED
  BY <1>2, <1>6, <1>7 DEF QueryRead, q

(* What is left when the parameter before the i-th has been read.          *)
LEMMA NextParam ==
  ASSUME TInv, NEW i \in 1..Len(request.query), UNCHANGED <<request, style>>,
         input' = Tail(Rest(request.query, style)[i]), parsed_string' = <<>>,
         isQsPresent', uriName' = request.path, QueryRead(i - 1)'
  PROVE  InTarget'
<1>1. request \in Requests /\ style \in Styles
  BY DEF TInv, TypeOK
<1>2. /\ input' = Encode(request.query[i].name, style) \o Valued(request.query, i, style)
      /\ Valued(request.query, i, style) \in Seq(Symbol)
  BY <1>1, RequestIs, RestOfParam, ValuedIs
<1>3. PICK text \in Text : text = request.query[i].name
  BY <1>1, RequestIs, FieldIs
<1>4. PICK rest \in Seq(Symbol) : rest = Valued(request.query, i, style)
  BY <1>2
<1>5. InName(text, rest, i)'
  BY <1>3, <1>4 DEF InName
<1>6. Context(text, rest)'
  <2>1. i \in (1..Len(request.query))'
    OBVIOUS
  <2> QED
    BY <1>5, <2>1, Zenon DEF Context
<1>7. style' \in Styles /\ input' = Encode(text, style') \o rest
  BY <1>1, <1>2, <1>3, <1>4
<1> QED
  BY <1>6, <1>7, BeginsAt

(* The blank in front of "HTTP".                                           *)
LEMMA VersionRead ==
  ASSUME input = End, Blank
  PROVE  /\ input' = <<Plain("/")>> /\ UNCHANGED <<state, request, style>>
         /\ IF isQsPresent
            THEN tokenMap' = add_element(param, parsed_string) /\ UNCHANGED uriName
            ELSE uriName' = parsed_string /\ UNCHANGED tokenMap
<1>1. Len(input) > 1 /\ input[2] = Plain(HTTP)
  BY EndIs
<1> QED
  BY <1>1, EndIs, Zenon DEF Blank

LEMMA PathEnds ==
  ASSUME TInv, state = "uri", Next, NEW text, NEW rest, InPath(text, rest),
         parsed_string = text, input = rest
  PROVE  state' = "uri" /\ UriPlace'
<1> DEFINE n == Len(request.query)
<1>1. /\ request \in Requests /\ style \in Styles /\ n \in Nat
      /\ request.query \in Seq(Field)
  BY RequestIs DEF TInv, TypeOK
<1>2. /\ parsed_string = request.path /\ input = Rest(request.query, style)[1]
      /\ ~isQsPresent /\ QueryRead(0)
  BY DEF InPath
<1>3. CASE n = 0
  <2>1. input = End
    BY <1>1, <1>2, <1>3, RestIs
  <2>2. Blank
    BY <2>1, EndIs, ReadsPlain
  <2>3. /\ input' = <<Plain("/")>> /\ uriName' = request.path
        /\ UNCHANGED <<state, request, tokenMap>>
    BY <1>2, <2>1, <2>2, VersionRead
  <2>4. QueryRead(0)' /\ Len(request'.query) = 0
    BY <1>2, <1>3, <2>3, QuerySame
  <2> QED
    BY <2>3, <2>4 DEF UriPlace, AtEnd
<1>4. CASE n # 0
  <2>1. 1 \in 1..n
    BY <1>1, <1>4
  <2>2. input # <<>> /\ Head(input) = Plain("?")
    BY <1>1, <1>2, <2>1, RestOfParam
  <2>3. Question
    BY <2>2, ReadsPlain
  <2>4. /\ input' = Tail(input) /\ parsed_string' = <<>> /\ isQsPresent'
        /\ uriName' = parsed_string /\ UNCHANGED <<state, request, style, tokenMap>>
    BY <2>3 DEF Question
  <2>5. QueryRead(0)'
    BY <1>2, <2>4, QuerySame
  <2>6. PICK i \in 1..n : i = 1 /\ i - 1 = 0
    BY <2>1
  <2>7. InTarget'
    BY <1>2, <2>4, <2>5, <2>6, NextParam
  <2> QED
    BY <2>4, <2>7 DEF UriPlace
<1> QED
  BY <1>3, <1>4

LEMMA NameEnds ==
  ASSUME TInv, state = "uri", Next, NEW text, NEW rest, NEW i \in 1..Len(request.query),
         InName(text, rest, i), parsed_string = text, input = rest
  PROVE  state' = "uri" /\ UriPlace'
<1>1. /\ request \in Requests /\ style \in Styles /\ request.query \in Seq(Field)
  BY RequestIs DEF TInv, TypeOK
<1>2. /\ parsed_string = request.query[i].name /\ input = Valued(request.query, i, style)
      /\ isQsPresent /\ uriName = request.path /\ QueryRead(i - 1)
  BY DEF InName
<1>3. /\ input # <<>> /\ Head(input) = Plain("=")
      /\ Tail(input) = Encode(request.query[i].value, style) \o Rest(request.query, style)[i + 1]
  BY <1>1, <1>2, ValuedIs
<1>4. Equals
  BY <1>3, ReadsPlain
<1>5. /\ input' = Tail(input) /\ param' = parsed_string /\ parsed_string' = <<>>
      /\ UNCHANGED <<state, request, style, isQsPresent, uriName, tokenMap>>
  BY <1>4 DEF Equals
<1>6. QueryRead(i - 1)'
  BY <1>2, <1>5, QuerySame
<1>7. PICK v \in Text : v = request.query[i].value
  BY <1>1, FieldIs
<1>8. PICK r \in Seq(Symbol) : r = Rest(request.query, style)[i + 1]
  <2>1. i + 1 \in 1..(Len(request.query) + 1)
    BY <1>1
  <2> QED
    BY <1>1, <2>1, RestIs
<1>9. InValue(v, r, i)'
  BY <1>2, <1>5, <1>6, <1>7, <1>8 DEF InValue
<1>10. Context(v, r)'
  <2>1. i \in (1..Len(request.query))'
    BY <1>5
  <2> QED
    BY <1>9, <2>1, Zenon DEF Context
<1>11. style' \in Styles /\ input' = Encode(v, style') \o r
  BY <1>1, <1>3, <1>5, <1>7, <1>8
<1> QED
  BY <1>5, <1>10, <1>11, BeginsAt DEF UriPlace

LEMMA ValueEnds ==
  ASSUME TInv, state = "uri", Next, NEW text, NEW rest, NEW i \in 1..Len(request.query),
         InValue(text, rest, i), parsed_string = text, input = rest
  PROVE  state' = "uri" /\ UriPlace'
<1> DEFINE n == Len(request.query)
<1>1. /\ request \in Requests /\ style \in Styles /\ request.query \in Seq(Field)
      /\ n \in Nat /\ i \in Nat \ {0}
  BY RequestIs DEF TInv, TypeOK
<1>2. /\ parsed_string = request.query[i].value
      /\ input = Rest(request.query, style)[i + 1]
      /\ param = request.query[i].name
      /\ isQsPresent /\ uriName = request.path /\ QueryRead(i - 1)
  BY DEF InValue
<1>3. CASE i = n
  <2>1. input = End
    BY <1>1, <1>2, <1>3, RestIs
  <2>2. Blank
    BY <2>1, EndIs, ReadsPlain
  <2>3. /\ input' = <<Plain("/")>> /\ tokenMap' = add_element(param, parsed_string)
        /\ UNCHANGED <<state, request, uriName>>
    BY <1>2, <2>1, <2>2, VersionRead
  <2>4. QueryRead(i)'
    BY <1>1, <1>2, <2>3, QueryAdded
  <2>5. Len(request'.query) = i
    BY <1>3, <2>3
  <2> QED
    BY <1>2, <2>3, <2>4, <2>5 DEF UriPlace, AtEnd
<1>4. CASE i # n
  <2>1. i + 1 \in 1..n /\ i + 1 # 1 /\ (i + 1) - 1 = i
    BY <1>1, <1>4
  <2>2. input # <<>> /\ Head(input) = Plain("&")
    BY <1>1, <1>2, <2>1, RestOfParam
  <2>3. Ampersand
    BY <2>2, ReadsPlain
  <2>4. /\ input' = Tail(input) /\ parsed_string' = <<>>
        /\ tokenMap' = add_element(param, parsed_string)
        /\ UNCHANGED <<state, request, style, isQsPresent, uriName>>
    BY <2>3 DEF Ampersand, Clear
  <2>5. QueryRead(i)'
    BY <1>1, <1>2, <2>4, QueryAdded
  <2>6. PICK j \in 1..n : j = i + 1 /\ j - 1 = i
    BY <2>1
  <2>7. InTarget'
    BY <1>2, <2>4, <2>5, <2>6, NextParam
  <2> QED
    BY <2>4, <2>7 DEF UriPlace
<1> QED
  BY <1>3, <1>4

(* Wherever the parser is, a step leads on, or the client encoded wrongly. *)
LEMMA UriMoves ==
  ASSUME TInv, state = "uri", Next, UriPlace
  PROVE  \/ state' = "thrown" /\ style = "broken"
         \/ state' = "uri" /\ UriPlace'
         \/ UriEnd /\ AtEnd
<1>1. CASE AtStart
  BY <1>1, FromStart
<1>2. CASE AtEnd
  BY <1>2, FromEnd DEF UriPlace
<1>3. CASE InTarget
  <2>1. PICK text \in Text, x \in Text, rest \in Seq(Symbol) :
           Reading(text, x, rest) /\ Context(text, rest)
    BY <1>3 DEF InTarget
  <2>2. CASE x # <<>>
    BY <2>1, <2>2, MidText DEF UriPlace
  <2>3. CASE x = <<>>
    <3>1. parsed_string = text /\ input = rest
      <4>1. style \in Styles /\ parsed_string \in Text
        BY DEF TInv, TypeOK, TextRead
      <4>2. Encode(<<>>, style) = <<>>
        BY <4>1, EncodeEmpty
      <4>3. parsed_string \o <<>> = parsed_string /\ <<>> \o rest = rest
        BY <4>1 DEF Text
      <4> QED
        BY <2>1, <2>3, <4>2, <4>3 DEF Reading
    <3> QED
      BY <2>1, <3>1, PathEnds, NameEnds, ValueEnds DEF Context
  <2> QED
    BY <2>2, <2>3
<1> QED
  BY <1>1, <1>2, <1>3 DEF UriPlace

-----------------------------------------------------------------------------
(* The lines.                                                              *)

QueryKept ==
    \A j \in 1..Len(request.query) : First(request.query, j) =>
        /\ request.query[j].name \in DOMAIN tokenMap
        /\ tokenMap[request.query[j].name] = request.query[j].value

(* Of the headers that no parameter hides, the first m are in the map, and *)
(* the names of the others are not.                                        *)
Shown(j) == First(request.headers, j) /\ request.headers[j].name \notin Names(request.query)
HeaderKept(j) ==
    /\ request.headers[j].name \in DOMAIN tokenMap
    /\ Dense(request.headers[j].value) =>
          tokenMap[request.headers[j].name] = request.headers[j].value
HeadersRead(m) ==
    \A j \in 1..Len(request.headers) : Shown(j) =>
        /\ j <= m => HeaderKept(j)
        /\ j > m => request.headers[j].name \notin DOMAIN tokenMap

MimePlace(m) ==
    /\ uriName = request.path /\ QueryKept /\ Left(m) /\ HeadersRead(m)
    /\ m <= Len(request.headers) => parsed_string = <<>>

HInv ==
    /\ state = "uri" => UriPlace /\ Left(0)
    /\ state \in {"mime", "done"} =>
          \E m \in 0..Len(HeaderText(request)) : MimePlace(m)
    /\ state = "done" => lines = <<>>

LEMMA HInvInit == Init => HInv
<1> SUFFICES ASSUME Init PROVE HInv
  OBVIOUS
<1>1. /\ state = "uri" /\ ~isQsPresent /\ input = RequestLine(request, style)
      /\ lines = HeaderText(request) /\ DOMAIN tokenMap = {} /\ request \in Requests
  BY DEF Init
<1>2. QueryRead(0)
  BY <1>1 DEF QueryRead
<1>3. UriPlace
  BY <1>1, <1>2 DEF UriPlace, AtStart
<1>4. Left(0)
  <2>1. Len(lines) \in Nat
    BY <1>1, HeaderTextIs
  <2>2. Len(lines) = Len(lines) - 0 /\ \A i \in 1..Len(lines) : 0 + i = i
    BY <2>1
  <2> QED
    BY <1>1, <2>2 DEF Left
<1> QED
  BY <1>1, <1>3, <1>4 DEF HInv

(* At the end of the request line the map holds the parameters.            *)
LEMMA UriIsRead ==
  ASSUME TInv, AtEnd, Left(0), UriEnd
  PROVE  MimePlace(0)'
<1>1. /\ request \in Requests /\ request.query \in Seq(Field)
      /\ Len(request.query) \in Nat /\ Len(request.headers) \in Nat
  BY RequestIs DEF TInv, TypeOK
<1>2. uriName = request.path /\ QueryRead(Len(request.query))
  BY DEF AtEnd
<1>3. UNCHANGED <<request, lines, uriName, tokenMap>> /\ parsed_string' = <<>>
  BY DEF UriEnd, Clear, uriVars
<1>4. QueryKept
  BY <1>2 DEF QueryRead, QueryKept
<1>5. HeadersRead(0)
  <2>1. DOMAIN tokenMap = Names(request.query)
    BY <1>2 DEF QueryRead, Names
  <2>2. \A j \in 1..Len(request.headers) : ~(j <= 0)
    BY <1>1
  <2> QED
    BY <2>1, <2>2 DEF HeadersRead, Shown
<1>6. QueryKept'
  BY <1>3, <1>4 DEF QueryKept
<1>7. HeadersRead(0)'
  BY <1>3, <1>5 DEF HeadersRead, Shown, HeaderKept
<1>8. Left(0)'
  BY <1>3 DEF Left
<1> QED
  BY <1>2, <1>3, <1>6, <1>7, <1>8 DEF MimePlace

(* A line adds at most one key.                                            *)
OneAdded(k, v) ==
    /\ DOMAIN tokenMap' = DOMAIN tokenMap \cup {k}
    /\ \A x \in DOMAIN tokenMap : tokenMap'[x] = tokenMap[x]
    /\ k \notin DOMAIN tokenMap => tokenMap'[k] = v

LEMMA QueryStays ==
  ASSUME QueryKept, UNCHANGED request, DOMAIN tokenMap \subseteq DOMAIN tokenMap',
         \A x \in DOMAIN tokenMap : tokenMap'[x] = tokenMap[x]
  PROVE  QueryKept'
BY DEF QueryKept

LEMMA HeaderStays ==
  ASSUME UNCHANGED request, DOMAIN tokenMap \subseteq DOMAIN tokenMap',
         \A x \in DOMAIN tokenMap : tokenMap'[x] = tokenMap[x]
  PROVE  \A j : HeaderKept(j) => HeaderKept(j)'
BY DEF HeaderKept

(* Once the headers are read, no line changes what is found of them.       *)
LEMMA PastHeaders ==
  ASSUME TInv, MimeLine, NEW m \in Nat, m >= Len(request.headers),
         HeadersRead(m), UNCHANGED request, DOMAIN tokenMap \subseteq DOMAIN tokenMap',
         \A x \in DOMAIN tokenMap : tokenMap'[x] = tokenMap[x]
  PROVE  HeadersRead(m + 1)'
<1>1. Len(request.headers) \in Nat
  BY RequestIs DEF TInv, TypeOK
<1>2. \A j \in 1..Len(request.headers) : j <= m /\ ~(j > m + 1)
  BY <1>1
<1>3. \A j : HeaderKept(j) => HeaderKept(j)'
  BY HeaderStays
<1>4. \A j : Shown(j)' => Shown(j)
  BY DEF Shown
<1>5. Len(request'.headers) = Len(request.headers)
  OBVIOUS
<1> QED
  BY <1>2, <1>3, <1>4, <1>5 DEF HeadersRead

(* The line of the m+1st header.                                           *)
LEMMA HeaderLineRead ==
  ASSUME TInv, MimeLine, NEW m \in Nat, m + 1 \in 1..Len(request.headers),
         HeadersRead(m), UNCHANGED request,
         OneAdded(request.headers[m + 1].name, Squeezed(request.headers[m + 1].value \o <<CR>>))
  PROVE  HeadersRead(m + 1)'
<1> DEFINE hs == request.headers
           k == hs[m + 1].name
           v == hs[m + 1].value
<1>1. /\ Len(hs) \in Nat /\ hs \in Seq(Field) /\ v \in Text
  BY RequestIs, FieldIs DEF TInv, TypeOK
<1>2. /\ DOMAIN tokenMap \subseteq DOMAIN tokenMap'
      /\ \A x \in DOMAIN tokenMap : tokenMap'[x] = tokenMap[x]
  BY DEF OneAdded
<1>3. \A j : HeaderKept(j) => HeaderKept(j)'
  BY <1>2, HeaderStays
<1>4. ASSUME NEW j \in 1..Len(hs), Shown(j)
      PROVE  /\ j <= m + 1 => HeaderKept(j)'
             /\ j > m + 1 => hs[j].name \notin DOMAIN tokenMap'
  <2>1. j <= m => HeaderKept(j)
    BY <1>4 DEF HeadersRead
  <2>2. j > m => hs[j].name \notin DOMAIN tokenMap
    BY <1>4 DEF HeadersRead
  <2>3. CASE j <= m
    BY <1>1, <1>3, <2>1, <2>3
  <2>4. CASE j = m + 1
    <3>1. hs[j].name = k /\ k \notin DOMAIN tokenMap
      BY <1>1, <2>2, <2>4
    <3>2. k \in DOMAIN tokenMap' /\ tokenMap'[k] = Squeezed(v \o <<CR>>)
      BY <3>1 DEF OneAdded
    <3>3. Dense(v) => Squeezed(v \o <<CR>>) = v
      BY <1>1, SqueezedDense
    <3>4. HeaderKept(j)'
      BY <2>4, <3>1, <3>2, <3>3 DEF HeaderKept
    <3> QED
      BY <1>1, <2>4, <3>4
  <2>5. CASE j > m + 1
    <3>1. hs[j].name # k
      <4>1. m + 1 \in 1..(j - 1)
        BY <1>1, <2>5
      <4> QED
        BY <1>4, <4>1 DEF Shown, First
    <3>2. hs[j].name \notin DOMAIN tokenMap'
      <4>1. j > m
        BY <1>1, <2>5
      <4> QED
        BY <2>2, <3>1, <4>1 DEF OneAdded
    <3> QED
      BY <1>1, <2>5, <3>2
  <2> QED
    BY <1>1, <2>3, <2>4, <2>5
<1>5. \A j : Shown(j)' => Shown(j)
  BY DEF Shown
<1>6. request' = request
  OBVIOUS
<1> QED
  BY <1>4, <1>5, <1>6 DEF HeadersRead

LEMMA AddedOne ==
  ASSUME NEW k, NEW v, tokenMap' = add_element(k, v)
  PROVE  OneAdded(k, v)
<1> DEFINE m == add_element(k, v)
<1>1. /\ DOMAIN m = DOMAIN tokenMap \cup {k}
      /\ \A x \in DOMAIN tokenMap : m[x] = tokenMap[x]
  BY AddedIs, Zenon
<1>2. k \notin DOMAIN tokenMap => m[k] = v
  BY AddedIs, Zenon
<1>3. tokenMap' = m
  OBVIOUS
<1> HIDE DEF m
<1> QED
  BY <1>1, <1>2, <1>3, Zenon DEF OneAdded

LEMMA MimeMoves ==
  ASSUME TInv, MimeLine, NEW m \in 0..Len(HeaderText(request)), MimePlace(m)
  PROVE  m + 1 \in 0..Len(HeaderText(request)) /\ MimePlace(m + 1)'
<1> DEFINE hs == request.headers
<1>1. /\ request \in Requests /\ hs \in Seq(Field) /\ Len(hs) \in Nat /\ m \in Nat
  BY RequestIs DEF TInv, TypeOK
<1>2. /\ uriName = request.path /\ QueryKept /\ Left(m) /\ HeadersRead(m)
      /\ m <= Len(hs) => parsed_string = <<>>
  BY DEF MimePlace
<1>3. /\ m + 1 \in 1..Len(HeaderText(request)) /\ Left(m + 1)'
      /\ Head(lines) = HeaderText(request)[m + 1] /\ IsLine(Head(lines))
  BY <1>2, LineTaken DEF TInv
<1>4. UNCHANGED <<request, uriName>>
  BY DEF MimeLine, uriVars
<1>5. m + 1 \in 0..Len(HeaderText(request))
  BY <1>3
<1>6. CASE m < Len(hs)
  <2>1. m + 1 \in 1..Len(hs)
    BY <1>1, <1>6
  <2>2. PICK f \in Field : f = hs[m + 1]
    BY <1>1, <2>1, ElementOfSeq
  <2>3. Head(lines) = HeaderLine(f)
    BY <1>1, <1>3, <2>1, <2>2, HeaderTextIs
  <2>4. f.name \in Text /\ Splits(Head(lines), f.name, f.value \o <<CR>>)
    BY <2>3, ReadLine DEF Field
  <2>5. /\ parsed_string' = <<>>
        /\ tokenMap' = add_element(parsed_string \o f.name, Squeezed(f.value \o <<CR>>))
    BY <2>4, LineRead, Zenon
  <2>6. parsed_string \o f.name = f.name
    BY <1>1, <1>2, <1>6, <2>4 DEF Text
  <2>7. OneAdded(f.name, Squeezed(f.value \o <<CR>>))
    BY <2>5, <2>6, AddedOne
  <2>8. HeadersRead(m + 1)'
    BY <1>1, <1>2, <1>4, <2>1, <2>2, <2>7, HeaderLineRead
  <2>9. QueryKept'
    BY <1>2, <1>4, <2>7, QueryStays DEF OneAdded
  <2> QED
    BY <1>2, <1>3, <1>4, <1>5, <2>5, <2>8, <2>9 DEF MimePlace
<1>7. CASE ~(m < Len(hs))
  <2>1. m >= Len(hs) /\ ~(m + 1 <= Len(hs))
    BY <1>1, <1>7
  <2>2. /\ DOMAIN tokenMap \subseteq DOMAIN tokenMap'
        /\ \A x \in DOMAIN tokenMap : tokenMap'[x] = tokenMap[x]
    <3>1. CASE Head(lines) = <<CR>>
      BY <3>1, EmptyRead
    <3>2. CASE Head(lines) # <<CR>>
      <4>1. PICK f \in Field : Head(lines) = HeaderLine(f) \/ Head(lines) = BodyLine(f)
        BY <1>3, <3>2 DEF IsLine
      <4>2. PICK w \in {f.value, f.value \o <<CR>>} : Splits(Head(lines), f.name, w)
        BY <4>1, ReadLine
      <4>3. tokenMap' = add_element(parsed_string \o f.name, Squeezed(w))
        <5>1. f.name \in Text
          BY DEF Field
        <5> QED
          BY <4>2, <5>1, LineRead
      <4>4. PICK k, v : tokenMap' = add_element(k, v)
        BY <4>3
      <4>5. OneAdded(k, v)
        BY <4>4, AddedOne
      <4> QED
        BY <4>5 DEF OneAdded
    <3> QED
      BY <3>1, <3>2
  <2>3. HeadersRead(m + 1)'
    BY <1>1, <1>2, <1>4, <2>1, <2>2, PastHeaders
  <2>4. QueryKept'
    BY <1>2, <1>4, <2>2, QueryStays
  <2>5. ~(m + 1 <= Len(request'.headers))
    BY <1>4, <2>1
  <2> QED
    BY <1>2, <1>3, <1>4, <1>5, <2>3, <2>4, <2>5 DEF MimePlace
<1> QED
  BY <1>6, <1>7

-----------------------------------------------------------------------------
(* The theorems.                                                           *)

Inv == TInv /\ HInv

LEMMA PlaceSame ==
  ASSUME NEW m, MimePlace(m), UNCHANGED <<request, lines, uriName, tokenMap, parsed_string>>
  PROVE  MimePlace(m)'
<1>1. QueryKept' /\ HeadersRead(m)'
  BY DEF MimePlace, QueryKept, HeadersRead, Shown, HeaderKept
<1>2. Left(m)'
  BY DEF MimePlace, Left
<1> QED
  BY <1>1, <1>2 DEF MimePlace

LEMMA UriPlaceSame ==
  ASSUME UriPlace, UNCHANGED <<request, style, input, isQsPresent, uriName, parsed_string,
                               param, tokenMap>>
  PROVE  UriPlace'
<1>1. \A i : QueryRead(i) => QueryRead(i)'
  BY QuerySame
<1>2. AtStart => AtStart'
  BY <1>1 DEF AtStart
<1>3. AtEnd => AtEnd'
  <2>1. PICK n : n = Len(request.query)
    OBVIOUS
  <2>2. QueryRead(n) => QueryRead(n)'
    BY <1>1
  <2> QED
    BY <2>1, <2>2 DEF AtEnd
<1>4. ASSUME InTarget PROVE InTarget'
  <2>1. PICK text \in Text, x \in Text, rest \in Seq(Symbol) :
           Reading(text, x, rest) /\ Context(text, rest)
    BY <1>4 DEF InTarget
  <2>2. Context(text, rest)'
    BY <2>1, ContextSame
  <2>3. Reading(text, x, rest)'
    BY <2>1 DEF Reading
  <2> QED
    BY <2>2, <2>3 DEF InTarget
<1> QED
  BY <1>2, <1>3, <1>4 DEF UriPlace

LEMMA InvStep == Inv /\ [Next]_vars => Inv'
<1> SUFFICES ASSUME Inv, [Next]_vars PROVE Inv'
  OBVIOUS
<1> USE DEF Inv
<1>1. CASE UNCHANGED vars
  <2>1. UNCHANGED <<state, request, style, input, isQsPresent, uriName, lines, parsed_string,
                    param, tokenMap>>
    BY <1>1 DEF vars, uriVars
  <2>2. TInv'
    BY <2>1 DEF TInv, TypeOK, TextRead, LinesLeft
  <2>3. UriPlace => UriPlace'
    BY <2>1, UriPlaceSame
  <2>4. Left(0) => Left(0)'
    BY <2>1 DEF Left
  <2>5. \A m : MimePlace(m) => MimePlace(m)'
    BY <2>1, PlaceSame
  <2>6. HeaderText(request)' = HeaderText(request)
    BY <2>1
  <2> QED
    BY <2>1, <2>2, <2>3, <2>4, <2>5, <2>6 DEF HInv
<1>2. CASE state = "uri" /\ Next
  <2>1. \/ Blank \/ Plus \/ Question \/ Ampersand \/ Equals \/ Percent \/ Other \/ UriEnd
    BY <1>2, OtherGuards DEF Next
  <2>2. UriPlace /\ Left(0)
    BY <1>2 DEF HInv
  <2>3. \/ state' = "thrown" /\ style = "broken"
        \/ state' = "uri" /\ UriPlace'
        \/ UriEnd /\ AtEnd
    BY <1>2, <2>2, UriMoves
  <2>4. UriEnd => state' = "mime"
    BY DEF UriEnd
  <2>5. TInv'
    BY <2>1, <2>3, <2>4, UriTypes
  <2>6. UNCHANGED <<request, lines>>
    BY <2>1 DEF Blank, Plus, Question, Ampersand, Equals, Percent, Other, UriEnd
  <2>7. Left(0)'
    BY <2>2, <2>6 DEF Left
  <2>8. CASE UriEnd /\ AtEnd
    <3>1. MimePlace(0)'
      BY <2>2, <2>8, UriIsRead
    <3>2. 0 \in (0..Len(HeaderText(request)))'
      <4>1. Len(HeaderText(request)) \in Nat
        BY HeaderTextIs DEF TInv, TypeOK
      <4> QED
        BY <2>6, <4>1
    <3> QED
      BY <2>4, <2>5, <2>8, <3>1, <3>2 DEF HInv
  <2> QED
    BY <2>3, <2>5, <2>7, <2>8 DEF HInv
<1>3. CASE MimeLine
  <2>1. state = "mime" /\ state' = "mime" /\ UNCHANGED request
    BY <1>3 DEF MimeLine
  <2>2. PICK m \in 0..Len(HeaderText(request)) : MimePlace(m)
    BY <2>1 DEF HInv
  <2>3. m + 1 \in 0..Len(HeaderText(request)) /\ MimePlace(m + 1)'
    BY <1>3, <2>2, MimeMoves
  <2>4. HeaderText(request)' = HeaderText(request)
    BY <2>1
  <2>5. TInv'
    BY <1>3, MimeTypes
  <2>6. \E k \in (0..Len(HeaderText(request)))' : MimePlace(k)'
    BY <2>3, <2>4
  <2> QED
    BY <2>1, <2>5, <2>6 DEF HInv
<1>4. CASE MimeEnd
  <2>1. /\ state = "mime" /\ state' = "done" /\ lines = <<>>
        /\ UNCHANGED <<request, lines, uriName, tokenMap, parsed_string>>
    BY <1>4 DEF MimeEnd, uriVars
  <2>2. PICK m \in 0..Len(HeaderText(request)) : MimePlace(m)
    BY <2>1 DEF HInv
  <2>3. MimePlace(m)'
    BY <2>1, <2>2, PlaceSame
  <2>4. m \in (0..Len(HeaderText(request)))'
    BY <2>1, <2>2
  <2>5. TInv'
    BY <1>4, MimeTypes
  <2> QED
    BY <2>1, <2>3, <2>4, <2>5 DEF HInv
<1>5. Next => state = "uri" \/ MimeLine \/ MimeEnd
  BY Guards, OtherGuards DEF Next, Reads
<1> QED
  BY <1>1, <1>2, <1>3, <1>4, <1>5

LEMMA Invariance == Spec => []Inv
<1>1. Init => Inv
  BY TInvInit, HInvInit DEF Inv
<1> QED
  BY <1>1, InvStep, PTL DEF Spec

(* The parser holds what its types say, and only a request that is encoded *)
(* wrongly makes it throw.                                                 *)
THEOREM Typed == Spec => []TypeOK
<1>1. Inv => TypeOK
  BY DEF Inv, TInv
<1> QED
  BY <1>1, Invariance, PTL

(* For any path and parameters, of any length and from any alphabet, and   *)
(* whichever way the client escapes them: the handlers find the path and,  *)
(* under each name, the first value it was given; no well-encoded request  *)
(* ends the process.                                                       *)
THEOREM QueryIsAsSent == Spec => []QueryAsSent
<1>1. Inv => QueryAsSent
  <2> SUFFICES ASSUME Inv PROVE QueryAsSent
    OBVIOUS
  <2>1. style # "broken" => state # "thrown"
    BY DEF Inv, TInv, TypeOK
  <2>2. ASSUME state = "done"
        PROVE  /\ uriName = request.path
               /\ \A k \in Names(request.query) :
                     get_element(k) = FirstNamed(request.query, k)
    <3>1. uriName = request.path /\ QueryKept
      BY <2>2 DEF Inv, HInv, MimePlace
    <3>2. request.query \in Seq(Field)
      BY RequestIs DEF Inv, TInv, TypeOK
    <3>3. ASSUME NEW k \in Names(request.query)
          PROVE  get_element(k) = FirstNamed(request.query, k)
      <4>1. PICK j \in 1..Len(request.query) :
               /\ First(request.query, j) /\ request.query[j].name = k
               /\ FirstNamed(request.query, k) = request.query[j].value
        BY <3>2, FirstIs
      <4>2. k \in DOMAIN tokenMap /\ tokenMap[k] = request.query[j].value
        BY <3>1, <4>1 DEF QueryKept
      <4> QED
        BY <4>1, <4>2 DEF get_element
    <3> QED
      BY <3>1, <3>3
  <2> QED
    BY <2>1, <2>2 DEF QueryAsSent
<1> QED
  BY <1>1, Invariance, PTL

(* For any headers and body: a header that no parameter hides is found     *)
(* with the first value it was given, if that has no blanks.               *)
THEOREM HeadersAreAsSent == Spec => []HeadersAsSent
<1>1. Inv => HeadersAsSent
  <2> SUFFICES ASSUME Inv, state = "done",
                      NEW k \in Names(request.headers) \ Names(request.query),
                      Dense(FirstNamed(request.headers, k))
               PROVE  get_element(k) = FirstNamed(request.headers, k)
    BY DEF HeadersAsSent
  <2>1. request \in Requests /\ request.headers \in Seq(Field) /\ Len(request.headers) \in Nat
    BY RequestIs DEF Inv, TInv, TypeOK
  <2>2. PICK m \in 0..Len(HeaderText(request)) : MimePlace(m)
    BY DEF Inv, HInv
  <2>3. m \in Nat /\ Len(request.headers) + 1 <= m
    <3>1. Len(HeaderText(request)) \in Nat /\ Len(request.headers) + 1 <= Len(HeaderText(request))
      BY <2>1, HeaderTextIs
    <3>2. Len(lines) = 0 /\ Len(lines) = Len(HeaderText(request)) - m
      BY <2>2 DEF Inv, HInv, MimePlace, Left
    <3> QED
      BY <3>1, <3>2
  <2>4. PICK j \in 1..Len(request.headers) :
           /\ First(request.headers, j) /\ request.headers[j].name = k
           /\ FirstNamed(request.headers, k) = request.headers[j].value
    BY <2>1, FirstIs
  <2>5. Shown(j) /\ j <= m
    BY <2>1, <2>3, <2>4 DEF Shown
  <2>6. HeaderKept(j)
    BY <2>2, <2>5 DEF MimePlace, HeadersRead
  <2> QED
    BY <2>4, <2>6 DEF HeaderKept, get_element
<1> QED
  BY <1>1, Invariance, PTL

=============================================================================
