------------------------ MODULE WebConnectionProofs ------------------------
(***************************************************************************)
(* Theorems about WebConnection.                                           *)
(***************************************************************************)
EXTENDS WebConnection, SequenceTheorems, WellFoundedInduction, TLAPS

-----------------------------------------------------------------------------
(* Induction over the naturals, in a form the provers can instantiate: by  *)
(* a set, not by an operator.                                              *)

Below == {p \in Nat \X Nat : p[1] < p[2]}

LEMMA BelowWellFounded == IsWellFoundedOn(Below, Nat)
<1>1. OpToRel(<, Nat) = Below
  BY Zenon DEF OpToRel, Below
<1> QED
  BY <1>1, NatLessThanWellFounded, Zenon

LEMMA NatSetInduction ==
  ASSUME NEW S, S \subseteq Nat, 0 \in S, \A n \in S : n + 1 \in S
  PROVE  S = Nat
<1> SUFFICES ASSUME Nat \ S # {} PROVE FALSE
  OBVIOUS
<1>1. PICK x \in Nat \ S : \A y \in Nat \ S : <<y, x>> \notin Below
  <2>1. Nat \ S \subseteq Nat
    OBVIOUS
  <2> QED
    BY <2>1, BelowWellFounded, WFMin, Zenon
<1>2. x # 0 /\ x - 1 \in Nat
  OBVIOUS
<1>3. x - 1 \notin S
  BY <1>2
<1>4. <<x - 1, x>> \in Below
  BY <1>2 DEF Below
<1> QED
  BY <1>1, <1>2, <1>3, <1>4

-----------------------------------------------------------------------------
(* What FlattenSeq of the community modules computes.                      *)

(* f lists the concatenations of the first sequences of s.                 *)
Concatenates(f, s, k) ==
    f = [i \in 1..k |-> IF i = 1 THEN s[i] ELSE f[i - 1] \o s[i]]

LEMMA ConcatenationExists ==
  ASSUME NEW S, NEW s \in Seq(Seq(S)), NEW k \in 0..Len(s)
  PROVE  \E f \in [1..k -> Seq(S)] : Concatenates(f, s, k)
<1> DEFINE T == {n \in Nat : n <= Len(s) =>
                    \E f \in [1..n -> Seq(S)] : Concatenates(f, s, n)}
<1>1. 0 \in T
  <2> DEFINE e == [i \in 1..0 |-> s[i]]
  <2>1. e \in [1..0 -> Seq(S)] /\ Concatenates(e, s, 0)
    BY DEF Concatenates
  <2> QED
    BY <2>1
<1>2. ASSUME NEW n \in T PROVE n + 1 \in T
  <2> SUFFICES ASSUME n + 1 <= Len(s)
               PROVE  \E f \in [1..(n + 1) -> Seq(S)] : Concatenates(f, s, n + 1)
    OBVIOUS
  <2>1. PICK f \in [1..n -> Seq(S)] : Concatenates(f, s, n)
    OBVIOUS
  <2> DEFINE v == IF n = 0 THEN s[1] ELSE f[n] \o s[n + 1]
             g == [i \in 1..(n + 1) |-> IF i = n + 1 THEN v ELSE f[i]]
  <2>2. \A i \in 1..(n + 1) : s[i] \in Seq(S)
    OBVIOUS
  <2>3. v \in Seq(S)
    BY <2>2
  <2>4. g \in [1..(n + 1) -> Seq(S)]
    BY <2>3
  <2>5. \A i \in 1..n : f[i] = IF i = 1 THEN s[i] ELSE f[i - 1] \o s[i]
    BY <2>1 DEF Concatenates
  <2>6. \A i \in 1..(n + 1) : g[i] = IF i = 1 THEN s[i] ELSE g[i - 1] \o s[i]
    <3>0. n \in Nat
      OBVIOUS
    <3> HIDE DEF v
    <3>1. \A i \in 1..n : g[i] = f[i]
      BY <3>0
    <3>2. \A i \in 1..n : i # 1 => g[i - 1] = f[i - 1]
      BY <3>0
    <3>3. g[n + 1] = v
      BY <3>0
    <3>4. v = IF n + 1 = 1 THEN s[n + 1] ELSE g[(n + 1) - 1] \o s[n + 1]
      <4>1. n # 0 => g[(n + 1) - 1] = f[n]
        BY <3>0
      <4> QED
        BY <3>0, <4>1 DEF v
    <3> HIDE DEF g
    <3>5. \A i \in 1..(n + 1) : i \in 1..n \/ i = n + 1
      BY <3>0
    <3> QED
      BY <2>5, <3>1, <3>2, <3>3, <3>4, <3>5, Zenon
  <2>7. Concatenates(g, s, n + 1)
    BY <2>4, <2>6, Zenon DEF Concatenates
  <2> QED
    BY <2>4, <2>7
<1>3. T = Nat
  <2>1. T \subseteq Nat
    OBVIOUS
  <2> HIDE DEF T
  <2> QED
    BY <1>1, <1>2, <2>1, NatSetInduction, Zenon
<1>4. k \in T /\ k <= Len(s)
  <2>1. k \in Nat /\ k <= Len(s)
    OBVIOUS
  <2> HIDE DEF T
  <2> QED
    BY <1>3, <2>1
<1> QED
  BY <1>4

(* The concatenations of the same sequences are the same.                  *)
LEMMA ConcatenationUnique ==
  ASSUME NEW f, NEW g, NEW s, NEW t, NEW k \in Nat, NEW m \in Nat, k <= m,
         Concatenates(f, s, k), Concatenates(g, t, m),
         \A i \in 1..k : s[i] = t[i]
  PROVE  \A i \in 1..k : f[i] = g[i]
<1> DEFINE T == {n \in Nat : n \in 1..k => f[n] = g[n]}
<1>1. 0 \in T
  OBVIOUS
<1>2. ASSUME NEW n \in T PROVE n + 1 \in T
  <2> SUFFICES ASSUME n + 1 \in 1..k PROVE f[n + 1] = g[n + 1]
    OBVIOUS
  <2>1. f[n + 1] = IF n + 1 = 1 THEN s[n + 1] ELSE f[(n + 1) - 1] \o s[n + 1]
    BY Zenon DEF Concatenates
  <2>2. g[n + 1] = IF n + 1 = 1 THEN t[n + 1] ELSE g[(n + 1) - 1] \o t[n + 1]
    <3>1. n + 1 \in 1..m
      OBVIOUS
    <3> QED
      BY <3>1, Zenon DEF Concatenates
  <2>3. n + 1 # 1 => f[n] = g[n] /\ (n + 1) - 1 = n
    OBVIOUS
  <2> QED
    BY <2>1, <2>2, <2>3, Zenon
<1>3. T = Nat
  <2>1. T \subseteq Nat
    OBVIOUS
  <2> HIDE DEF T
  <2> QED
    BY <1>1, <1>2, <2>1, NatSetInduction, Zenon
<1> QED
  BY <1>3

LEMMA FlattenIs ==
  ASSUME NEW S, NEW s \in Seq(Seq(S)), Len(s) # 0, NEW f, Concatenates(f, s, Len(s))
  PROVE  FlattenSeq(s) = f[Len(s)]
<1> DEFINE h == CHOOSE g : g = [i \in 1..Len(s) |-> IF i = 1 THEN s[i] ELSE g[i - 1] \o s[i]]
<1>1. Concatenates(h, s, Len(s))
  BY Zenon DEF Concatenates
<1>2. FlattenSeq(s) = h[Len(s)]
  BY Zenon DEF FlattenSeq
<1>3. Len(s) \in Nat /\ Len(s) \in 1..Len(s)
  OBVIOUS
<1> HIDE DEF h
<1>4. \A i \in 1..Len(s) : h[i] = f[i]
  BY <1>1, <1>3, ConcatenationUnique
<1> QED
  BY <1>2, <1>3, <1>4, Zenon

LEMMA FlattenEmpty == FlattenSeq(<<>>) = <<>>
BY DEF FlattenSeq

LEMMA FlattenType ==
  ASSUME NEW S, NEW s \in Seq(Seq(S))
  PROVE  FlattenSeq(s) \in Seq(S)
<1>1. CASE Len(s) = 0
  <2>1. s = <<>> /\ <<>> \in Seq(S)
    BY <1>1
  <2> QED
    BY <2>1, FlattenEmpty
<1>2. CASE Len(s) # 0
  <2>1. Len(s) \in 0..Len(s) /\ Len(s) \in 1..Len(s)
    BY <1>2
  <2>2. PICK f \in [1..Len(s) -> Seq(S)] : Concatenates(f, s, Len(s))
    BY <2>1, ConcatenationExists
  <2>3. FlattenSeq(s) = f[Len(s)]
    BY <1>2, <2>2, FlattenIs
  <2> QED
    BY <2>1, <2>2, <2>3
<1> QED
  BY <1>1, <1>2

(* One more sequence comes last.                                           *)
LEMMA FlattenAppend ==
  ASSUME NEW S, NEW s \in Seq(Seq(S)), NEW x \in Seq(S)
  PROVE  FlattenSeq(Append(s, x)) = FlattenSeq(s) \o x
<1> DEFINE t == Append(s, x)
           n == Len(s)
<1>1. t \in Seq(Seq(S)) /\ Len(t) = n + 1 /\ n \in Nat /\ t[n + 1] = x
      /\ \A i \in 1..n : s[i] = t[i]
  OBVIOUS
<1> HIDE DEF t
<1>2. PICK g \in [1..(n + 1) -> Seq(S)] : Concatenates(g, t, n + 1)
  <2>1. n + 1 \in 0..Len(t)
    BY <1>1
  <2> QED
    BY <1>1, <2>1, ConcatenationExists
<1>3. FlattenSeq(t) = g[n + 1]
  BY <1>1, <1>2, FlattenIs
<1>4. g[n + 1] = IF n + 1 = 1 THEN t[n + 1] ELSE g[(n + 1) - 1] \o t[n + 1]
  <2>1. n + 1 \in 1..(n + 1)
    BY <1>1
  <2> QED
    BY <1>2, <2>1, Zenon DEF Concatenates
<1>5. CASE n = 0
  <2>1. s = <<>>
    BY <1>5
  <2> QED
    BY <1>1, <1>3, <1>4, <1>5, <2>1, FlattenEmpty DEF t
<1>6. CASE n # 0
  <2>1. PICK f \in [1..n -> Seq(S)] : Concatenates(f, s, n)
    BY ConcatenationExists
  <2>2. FlattenSeq(s) = f[n]
    BY <1>6, <2>1, FlattenIs
  <2>3. f[n] = g[n]
    <3>1. n \in Nat /\ n + 1 \in Nat /\ n <= n + 1 /\ n \in 1..n
      BY <1>1, <1>6
    <3>2. \A i \in 1..n : s[i] = t[i]
      BY <1>1
    <3>3. \A i \in 1..n : f[i] = g[i]
      <4>1. n \in Nat /\ n + 1 \in Nat /\ n <= n + 1
        BY <3>1
      <4> QED
        BY <1>2, <2>1, <3>2, <4>1, ConcatenationUnique, SMTT(30)
    <3> QED
      BY <3>1, <3>3
  <2> QED
    BY <1>1, <1>3, <1>4, <1>6, <2>2, <2>3 DEF t
<1> QED
  BY <1>5, <1>6

-----------------------------------------------------------------------------
(* Sequences, the least number and the parser.                             *)

LEMMA Cut ==
  ASSUME NEW S, NEW s \in Seq(S), NEW n \in 0..Len(s)
  PROVE  /\ SubSeq(s, 1, n) \in Seq(S) /\ Len(SubSeq(s, 1, n)) = n
         /\ \A j \in 1..n : SubSeq(s, 1, n)[j] = s[j]
         /\ SubSeq(s, n + 1, Len(s)) \in Seq(S)
         /\ Len(SubSeq(s, n + 1, Len(s))) = Len(s) - n
         /\ \A j \in 1..(Len(s) - n) : SubSeq(s, n + 1, Len(s))[j] = s[n + j]
         /\ SubSeq(s, 1, n) \o SubSeq(s, n + 1, Len(s)) = s
<1>1. n \in Int /\ n + 1 \in Int /\ 1 \in Int /\ Len(s) \in Nat
  OBVIOUS
<1>2. \A i \in 1..n : s[i] \in S
  OBVIOUS
<1>3. \A i \in (n + 1)..Len(s) : s[i] \in S
  OBVIOUS
<1>4. /\ SubSeq(s, 1, n) \in Seq(S) /\ Len(SubSeq(s, 1, n)) = n
      /\ \A j \in 1..n : SubSeq(s, 1, n)[j] = s[j]
  BY <1>1, <1>2, SubSeqProperties
<1>5. /\ SubSeq(s, n + 1, Len(s)) \in Seq(S)
      /\ Len(SubSeq(s, n + 1, Len(s))) = Len(s) - n
      /\ \A j \in 1..(Len(s) - n) : SubSeq(s, n + 1, Len(s))[j] = s[n + j]
  BY <1>1, <1>3, SubSeqProperties
<1>6. SubSeq(s, 1, n) \o SubSeq(s, n + 1, Len(s)) = SubSeq(s, 1, Len(s))
  <2>1. 1 \in 1..(Len(s) + 1) /\ n \in (1 - 1)..Len(s) /\ Len(s) \in n..Len(s)
    BY <1>1
  <2> QED
    BY <2>1, ConcatAdjacentSubSeq
<1>7. SubSeq(s, 1, Len(s)) = s
  BY SubSeqFull
<1> QED
  BY <1>4, <1>5, <1>6, <1>7

LEMMA LeastIs ==
  ASSUME NEW S, S \subseteq Nat, S # {}
  PROVE  Least(S) \in S /\ \A j \in S : Least(S) <= j
<1>1. PICK x \in S : \A y \in S : <<y, x>> \notin Below
  BY BelowWellFounded, WFMin, Zenon
<1>2. ASSUME NEW y \in S PROVE x <= y
  <2>1. x \in Nat /\ y \in Nat /\ <<y, x>> \notin Below
    BY <1>1
  <2>2. y < x => <<y, x>> \in Below
    BY <2>1 DEF Below
  <2> QED
    BY <2>1, <2>2
<1> QED
  BY <1>2, Zenon DEF Least

LEMMA RequestIs ==
  ASSUME NEW c \in Conn
  PROVE  /\ Len(Requests[c]) \in Nat /\ DOMAIN Requests[c] = 1..Len(Requests[c])
         /\ \A r \in 1..Len(Requests[c]) :
               /\ Requests[c][r].body \in Nat /\ Requests[c][r].json \in BOOLEAN
               /\ Requests[c][r].cl \in BOOLEAN
               /\ Length(c, r) \in Nat /\ Length(c, r) >= HdrLen
<1>1. Requests[c] \in Seq([json : BOOLEAN, cl : BOOLEAN, body : Nat])
  BY RequestsAssumption
<1>2. ASSUME NEW r \in 1..Len(Requests[c])
      PROVE  Requests[c][r] \in [json : BOOLEAN, cl : BOOLEAN, body : Nat]
  BY <1>1, ElementOfSeq
<1> QED
  BY <1>1, <1>2, HdrLenAssumption DEF Length

LEMMA ByteIs ==
  ASSUME NEW c \in Conn, NEW b \in Byte(c)
  PROVE  /\ b[1] \in 1..Len(Requests[c])
         /\ b[2] \in 1..Length(c, b[1])
         /\ b = <<b[1], b[2]>>
BY RequestIs DEF Byte

LEMMA IsByte ==
  ASSUME NEW c \in Conn, NEW r \in 1..Len(Requests[c]), NEW i \in 1..Length(c, r)
  PROVE  <<r, i>> \in Byte(c)
BY RequestIs DEF Byte

LEMMA WholeIs ==
  ASSUME NEW c \in Conn, NEW r \in 1..Len(Requests[c])
  PROVE  /\ Whole(c, r) \in Seq(Byte(c)) /\ Len(Whole(c, r)) = Length(c, r)
         /\ \A j \in 1..Length(c, r) : Whole(c, r)[j] = <<r, j>>
<1>1. \A j \in 1..Length(c, r) : <<r, j>> \in Byte(c)
  BY IsByte
<1> QED
  BY <1>1, RequestIs DEF Whole

(* The header of what is read is the beginning of it.                      *)
LEMMA HeaderIs ==
  ASSUME NEW c \in Conn, NEW in \in Seq(Byte(c)), in # <<>>
  PROVE  LET header == get_header(c, in)
         IN /\ header \in Seq(Byte(c)) /\ Len(header) \in 1..Len(in)
            /\ \A j \in 1..Len(header) : header[j] = in[j]
<1> DEFINE ends == {k \in 1..Len(in) : AtEnd(in[k])}
<1>1. Len(in) \in Nat \ {0}
  OBVIOUS
<1>2. CASE (\E k \in 1..Len(in) : AtCT(c, in[k])) /\ ends # {}
  <2>1. ends \subseteq Nat /\ ends \subseteq 1..Len(in)
    OBVIOUS
  <2> DEFINE n == Least(ends)
  <2>2. n \in 1..Len(in)
    <3> HIDE DEF ends
    <3> QED
      BY <1>2, <2>1, LeastIs
  <2>3. get_header(c, in) = SubSeq(in, 1, n)
    BY <1>2, Zenon DEF get_header
  <2> HIDE DEF n
  <2>4. n \in 0..Len(in)
    BY <2>2
  <2> QED
    BY <2>2, <2>3, <2>4, Cut
<1>3. CASE ~((\E k \in 1..Len(in) : AtCT(c, in[k])) /\ ends # {})
  <2>1. get_header(c, in) = in
    BY <1>3, Zenon DEF get_header
  <2> QED
    BY <1>1, <2>1
<1> QED
  BY <1>2, <1>3

LEMMA ExpectedPositive ==
  ASSUME NEW c \in Conn, NEW in \in Seq(Byte(c)), in # <<>>
  PROVE  ExpectedLength(c, in) \in Nat \ {0}
<1> DEFINE header == get_header(c, in)
<1>1. header \in Seq(Byte(c)) /\ Len(header) \in Nat \ {0}
  BY HeaderIs
<1>2. Len(in) \in Nat \ {0}
  OBVIOUS
<1> HIDE DEF header
<1>3. CASE HasJsonLength(c, header)
  <2> DEFINE ks == {j \in 1..Len(header) : AtCL(c, header[j])}
             k == Least(ks)
  <2>1. ks # {} /\ ks \subseteq Nat /\ ks \subseteq 1..Len(header)
    BY <1>3 DEF HasJsonLength
  <2>2. k \in 1..Len(header)
    <3> HIDE DEF ks
    <3> QED
      BY <2>1, LeastIs
  <2>3. ContentLength(c, header) = Requests[c][header[k][1]].body
    BY Zenon DEF ContentLength
  <2> HIDE DEF k
  <2>4. header[k] \in Byte(c)
    BY <1>1, <2>2
  <2>5. ContentLength(c, header) \in Nat
    BY <2>3, <2>4, ByteIs, RequestIs, SMTT(30)
  <2>6. ExpectedLength(c, in) = Len(header) + ContentLength(c, header)
    BY <1>3, Zenon DEF ExpectedLength, header
  <2> QED
    BY <1>1, <2>5, <2>6
<1>4. CASE ~HasJsonLength(c, header)
  <2>1. ExpectedLength(c, in) = Len(in)
    BY <1>4, Zenon DEF ExpectedLength, header
  <2> QED
    BY <1>2, <2>1
<1> QED
  BY <1>3, <1>4

(* A read that begins with the header of request r, and has nothing but    *)
(* bytes of it.                                                            *)
Starts(c, r, in) ==
    /\ in \in Seq(Byte(c)) /\ Len(in) >= HdrLen
    /\ \A j \in 1..Len(in) : in[j] = <<r, j>>

LEMMA HeaderOfJson ==
  ASSUME NEW c \in Conn, NEW r \in 1..Len(Requests[c]), NEW in, Starts(c, r, in),
         Requests[c][r].json
  PROVE  get_header(c, in) = SubSeq(in, 1, HdrLen)
<1> DEFINE ends == {k \in 1..Len(in) : AtEnd(in[k])}
<1>1. Len(in) \in Nat /\ HdrLen \in 1..Len(in) /\ CTPos \in 1..Len(in)
  BY HdrLenAssumption DEF Starts, CTPos
<1>2. AtCT(c, in[CTPos])
  BY <1>1 DEF Starts, AtCT, IsJson
<1>3. ends = {HdrLen}
  BY <1>1 DEF Starts, AtEnd
<1>4. Least(ends) = HdrLen
  <2>1. {HdrLen} \subseteq Nat /\ {HdrLen} # {}
    BY HdrLenAssumption
  <2>2. Least({HdrLen}) \in {HdrLen}
    BY <2>1, LeastIs
  <2> QED
    BY <1>3, <2>2
<1>5. (\E k \in 1..Len(in) : AtCT(c, in[k])) /\ ends # {}
  BY <1>1, <1>2, <1>3
<1> QED
  BY <1>4, <1>5, Zenon DEF get_header

LEMMA LengthOfJson ==
  ASSUME NEW c \in Conn, NEW r \in 1..Len(Requests[c]), NEW in, Starts(c, r, in),
         Requests[c][r].json, Requests[c][r].cl
  PROVE  LET header == get_header(c, in)
         IN /\ header = SubSeq(in, 1, HdrLen) /\ Len(header) = HdrLen
            /\ HasJsonLength(c, header)
            /\ ContentLength(c, header) = Requests[c][r].body
            /\ ExpectedLength(c, in) = Length(c, r)
<1> DEFINE header == get_header(c, in)
           ks == {j \in 1..Len(header) : AtCL(c, header[j])}
<1>1. header = SubSeq(in, 1, HdrLen)
  BY HeaderOfJson
<1>2. Len(header) = HdrLen /\ \A j \in 1..HdrLen : header[j] = <<r, j>>
  <2>1. in \in Seq(Byte(c)) /\ HdrLen \in 0..Len(in)
    BY HdrLenAssumption DEF Starts
  <2>2. Len(header) = HdrLen /\ \A j \in 1..HdrLen : header[j] = in[j]
    BY <1>1, <2>1, Cut
  <2> QED
    BY <2>1, <2>2 DEF Starts
<1> HIDE DEF header
<1>3. CTPos \in 1..HdrLen /\ CLPos \in 1..HdrLen
  BY HdrLenAssumption DEF CTPos, CLPos
<1>4. HasJsonLength(c, header)
  BY <1>2, <1>3 DEF HasJsonLength, AtCT, AtCL, IsJson
<1>5. ks = {CLPos}
  BY <1>2, <1>3 DEF AtCL, IsJson
<1>6. Least(ks) = CLPos
  <2>1. {CLPos} \subseteq Nat /\ {CLPos} # {}
    BY <1>3
  <2>2. Least({CLPos}) \in {CLPos}
    BY <2>1, LeastIs
  <2> QED
    BY <1>5, <2>2
<1>7. ContentLength(c, header) = Requests[c][header[CLPos][1]].body
  BY <1>6, Zenon DEF ContentLength
<1>8. header[CLPos][1] = r
  BY <1>2, <1>3
<1>9. ExpectedLength(c, in) = Len(header) + ContentLength(c, header)
  BY <1>4, Zenon DEF ExpectedLength, header
<1> QED
  BY <1>1, <1>2, <1>4, <1>7, <1>8, <1>9 DEF Length, header

LEMMA LengthOfOther ==
  ASSUME NEW c \in Conn, NEW r \in 1..Len(Requests[c]), NEW in, Starts(c, r, in),
         ~(Requests[c][r].json /\ Requests[c][r].cl)
  PROVE  ExpectedLength(c, in) = Len(in)
<1> DEFINE header == get_header(c, in)
<1>1. in # <<>> /\ in \in Seq(Byte(c))
  BY HdrLenAssumption DEF Starts
<1>2. \A j \in 1..Len(header) : header[j] = <<r, j>>
  BY <1>1, HeaderIs DEF Starts
<1> HIDE DEF header
<1>3. ~HasJsonLength(c, header)
  BY <1>2 DEF HasJsonLength, AtCL, IsJson
<1> QED
  BY <1>3, Zenon DEF ExpectedLength, header

(* The worker's parser finds the body in a whole JSON request.             *)
LEMMA BodyFound ==
  ASSUME NEW c \in Conn, NEW r \in 1..Len(Requests[c]),
         Requests[c][r].json, Requests[c][r].cl
  PROVE  get_body(c, Whole(c, r)) = SubSeq(Whole(c, r), HdrLen + 1, Length(c, r))
<1> DEFINE in == Whole(c, r)
           header == get_header(c, in)
<1>1. Starts(c, r, in) /\ Len(in) = Length(c, r)
  BY WholeIs, RequestIs DEF Starts
<1>2. /\ Len(header) = HdrLen /\ HasJsonLength(c, header)
      /\ ContentLength(c, header) = Requests[c][r].body
  <2> HIDE DEF in
  <2> QED
    BY <1>1, LengthOfJson
<1>3. Len(in) = Len(header) + ContentLength(c, header)
  BY <1>1, <1>2 DEF Length
<1>4. get_body(c, in) = SubSeq(in, Len(header) + 1, Len(in))
  BY <1>2, <1>3, Zenon DEF get_body
<1> HIDE DEF in, header
<1> QED
  BY <1>1, <1>2, <1>4 DEF in

-----------------------------------------------------------------------------
(* The inductive invariant.                                                *)

Arrays ==
    /\ DOMAIN expected = Conn /\ DOMAIN req = Conn /\ DOMAIN buf = Conn
    /\ DOMAIN messages = Conn /\ DOMAIN peer = Conn /\ DOMAIN inbox = Conn
    /\ DOMAIN next = Conn

(* The reactor thread; in its loop the request is longer than what it has. *)
Reader ==
    /\ reactor \in {"idle", "recv", "spin", "overrun", "crashed"}
    /\ current \in Conn \cup {NoConn}
    /\ reactor \in {"recv", "spin", "overrun"} <=> current # NoConn
    /\ registered \subseteq Conn /\ manners \in Manners
    /\ reactor \in {"recv", "spin"} =>
          req[current] = "live" /\ expected[current] > Len(buf[current])

ConnTyped(c) ==
    /\ expected[c] \in Int /\ expected[c] >= -1
    /\ req[c] \in {"null", "live", "released"}
    /\ peer[c] \in {"open", "closed", "reset"}
    /\ buf[c] \in Seq(Byte(c)) /\ inbox[c] \in Seq(Byte(c))
    /\ messages[c] \in Seq(Seq(Byte(c)))
    /\ next[c][1] \in 1..(Len(Requests[c]) + 1)
    /\ expected[c] > 0 <=> req[c] = "live"
    /\ next[c][2] \in Nat \ {0}
    /\ Sending(c) => next[c][2] <= Length(c, next[c][1])
    /\ ~Sending(c) => next[c][2] = 1
    /\ req[c] # "live" => buf[c] = <<>>

HasLength(c, r) == Requests[c][r].json /\ Requests[c][r].cl

(* A tidy client's connection: the requests before, each whole, then what  *)
(* was sent of the one after them, part of it buffered and part not read.  *)
Framed(c) ==
    LET m == Len(messages[c])
    IN /\ peer[c] # "reset"
       /\ m <= Len(Requests[c])
       /\ \A r \in 1..m : messages[c][r] = Whole(c, r)
       /\ \/ next[c][1] = m + 1 /\ Len(buf[c]) + Len(inbox[c]) = next[c][2] - 1
          \/ /\ next[c][1] = m + 2 /\ next[c][2] = 1
             /\ Len(buf[c]) + Len(inbox[c]) = Length(c, m + 1)
       /\ \A j \in 1..Len(buf[c]) : buf[c][j] = <<m + 1, j>>
       /\ \A j \in 1..Len(inbox[c]) : inbox[c][j] = <<m + 1, Len(buf[c]) + j>>
       /\ req[c] = "live" =>
             HasLength(c, m + 1) /\ buf[c] # <<>> /\ expected[c] = Length(c, m + 1)
       /\ req[c] # "live" /\ inbox[c] # <<>> =>
             IF HasLength(c, m + 1) THEN Len(inbox[c]) >= HdrLen
             ELSE Len(inbox[c]) = Length(c, m + 1) /\ Length(c, m + 1) <= MaxRecv

(* None of the bytes of the connection is lost, repeated or moved.         *)
Kept(c) == FlattenSeq(messages[c]) \o buf[c] \o inbox[c] = Sent(c)

Tidy(c) == manners[c] = {}

OnConn(c) == ConnTyped(c) /\ (Tidy(c) => Framed(c)) /\ Kept(c)

ConnInv == Arrays /\ Reader /\ \A c \in Conn : OnConn(c)

-----------------------------------------------------------------------------
(* What the actions do to a connection, and to the others.                 *)

Same(c) ==
    /\ expected'[c] = expected[c] /\ req'[c] = req[c] /\ buf'[c] = buf[c]
    /\ messages'[c] = messages[c] /\ peer'[c] = peer[c] /\ inbox'[c] = inbox[c]
    /\ next'[c] = next[c] /\ manners'[c] = manners[c]
Only(c) == Arrays' /\ \A d \in Conn \ {c} : Same(d)

LEMMA SameKept ==
  ASSUME NEW c \in Conn, OnConn(c), Same(c)
  PROVE  OnConn(c)'
<1>1. ConnTyped(c)'
  BY DEF OnConn, ConnTyped, Same, Sending
<1>2. Tidy(c)' => Framed(c)'
  BY DEF OnConn, Framed, Same, Tidy
<1>3. Kept(c)'
  BY DEF OnConn, Kept, Same, Sent
<1> QED
  BY <1>1, <1>2, <1>3 DEF OnConn

Handed(c, s) ==
    /\ messages'[c] = Append(messages[c], s) /\ req'[c] = "released"
    /\ expected'[c] = -1 /\ buf'[c] = <<>>
Held(c, s, len) ==
    /\ messages'[c] = messages[c] /\ req'[c] = "live"
    /\ expected'[c] = len /\ buf'[c] = s
(* n more bytes were read; all bytes of the request that are there then.   *)
Took(c, n) ==
    /\ n \in 0..Len(inbox[c])
    /\ inbox'[c] = SubSeq(inbox[c], n + 1, Len(inbox[c]))
    /\ next'[c] = next[c] /\ peer'[c] = peer[c] /\ manners' = manners
Taken(c, n) == buf[c] \o SubSeq(inbox[c], 1, n)
Buffered(c, n, len) ==
    /\ Len(Taken(c, n)) = len => Handed(c, Taken(c, n))
    /\ Len(Taken(c, n)) # len => Held(c, Taken(c, n), len)

LEMMA TakenIs ==
  ASSUME NEW c \in Conn, ConnTyped(c), NEW n \in 0..Len(inbox[c])
  PROVE  /\ Taken(c, n) \in Seq(Byte(c)) /\ Len(Taken(c, n)) = Len(buf[c]) + n
         /\ \A j \in 1..Len(buf[c]) : Taken(c, n)[j] = buf[c][j]
         /\ \A j \in 1..n : Taken(c, n)[Len(buf[c]) + j] = inbox[c][j]
         /\ Taken(c, n) \o SubSeq(inbox[c], n + 1, Len(inbox[c])) = buf[c] \o inbox[c]
<1> DEFINE x == SubSeq(inbox[c], 1, n)
           y == SubSeq(inbox[c], n + 1, Len(inbox[c]))
           b == buf[c]
<1>1. b \in Seq(Byte(c)) /\ inbox[c] \in Seq(Byte(c))
  BY DEF ConnTyped
<1>2. /\ x \in Seq(Byte(c)) /\ Len(x) = n /\ \A j \in 1..n : x[j] = inbox[c][j]
      /\ y \in Seq(Byte(c)) /\ x \o y = inbox[c]
  BY <1>1, Cut
<1>3. Taken(c, n) = b \o x
  BY DEF Taken
<1> HIDE DEF x, y, b
<1>4. /\ b \o x \in Seq(Byte(c)) /\ Len(b \o x) = Len(b) + n
      /\ \A i \in 1..(Len(b) + n) : (b \o x)[i] = IF i <= Len(b) THEN b[i] ELSE x[i - Len(b)]
  BY <1>1, <1>2, ConcatProperties
<1>5. (b \o x) \o y = b \o inbox[c]
  <2>0. b \in Seq(Byte(c)) /\ x \in Seq(Byte(c)) /\ y \in Seq(Byte(c))
    BY <1>1, <1>2
  <2>1. (b \o x) \o y = b \o (x \o y)
    BY <2>0, ConcatAssociative, SMTT(30)
  <2> QED
    BY <1>2, <2>1, Zenon
<1>6. \A j \in 1..n : (b \o x)[Len(b) + j] = x[j]
  BY <1>1, <1>4
<1>7. \A j \in 1..Len(b) : (b \o x)[j] = b[j]
  BY <1>1, <1>4
<1> QED
  BY <1>2, <1>3, <1>4, <1>5, <1>6, <1>7 DEF b, y

(* The byte stream is kept when bytes are read, whether the request is     *)
(* then handed to a worker or not.                                         *)
LEMMA TookKeeps ==
  ASSUME NEW c \in Conn, ConnTyped(c), Kept(c), NEW n, Took(c, n), NEW len,
         Handed(c, Taken(c, n)) \/ Held(c, Taken(c, n), len)
  PROVE  Kept(c)'
<1> DEFINE S == Byte(c)
           t == Taken(c, n)
           y == inbox'[c]
           f == FlattenSeq(messages[c])
           b == buf[c]
           in == inbox[c]
<1>1. /\ t \in Seq(S) /\ y \in Seq(S) /\ t \o y = buf[c] \o inbox[c]
      /\ buf[c] \in Seq(S) /\ inbox[c] \in Seq(S) /\ messages[c] \in Seq(Seq(S))
  <2>1. /\ buf[c] \in Seq(S) /\ inbox[c] \in Seq(S) /\ messages[c] \in Seq(Seq(S))
        /\ n \in 0..Len(inbox[c]) /\ y = SubSeq(inbox[c], n + 1, Len(inbox[c]))
    BY DEF Took, ConnTyped
  <2>2. t \in Seq(S) /\ t \o SubSeq(inbox[c], n + 1, Len(inbox[c])) = buf[c] \o inbox[c]
    BY <2>1, TakenIs
  <2>3. SubSeq(inbox[c], n + 1, Len(inbox[c])) \in Seq(S)
    BY <2>1, Cut
  <2> QED
    BY <2>1, <2>2, <2>3, Zenon
<1>2. f \in Seq(S)
  BY <1>1, FlattenType
<1>3. Sent(c)' = Sent(c)
  BY DEF Took, Sent
<1>4. Kept(c)' <=> FlattenSeq(messages'[c]) \o buf'[c] \o y = Sent(c)'
  BY DEF Kept
<1>5. (f \o buf[c]) \o inbox[c] = Sent(c)
  BY DEF Kept
<1> HIDE DEF S, t, y, f
<1>6. (f \o t) \o y = Sent(c)
  <2>0. f \in Seq(S) /\ t \in Seq(S) /\ y \in Seq(S)
    BY <1>1, <1>2
  <2>1. (f \o t) \o y = f \o (t \o y)
    BY <2>0, ConcatAssociative
  <2>3. f \in Seq(S) /\ b \in Seq(S) /\ in \in Seq(S)
    BY <1>1, <1>2
  <2> HIDE DEF b, in
  <2>2. (f \o b) \o in = f \o (b \o in)
    BY <2>3, ConcatAssociative
  <2> QED
    BY <1>1, <1>5, <2>1, <2>2, Zenon DEF b, in
<1>7. CASE Handed(c, t)
  <2>1. FlattenSeq(messages'[c]) = f \o t
    <3>1. messages'[c] = Append(messages[c], t)
      BY <1>7 DEF Handed
    <3> QED
      BY <1>1, <3>1, FlattenAppend DEF f
  <2>2. buf'[c] = <<>>
    BY <1>7 DEF Handed
  <2>3. (f \o t) \o <<>> = f \o t
    BY <1>1, <1>2, ConcatEmptySeq
  <2> QED
    BY <1>3, <1>4, <1>6, <2>1, <2>2, <2>3, Zenon
<1>8. CASE Held(c, t, len)
  <2>1. FlattenSeq(messages'[c]) = f /\ buf'[c] = t
    BY <1>8 DEF Held, f
  <2> QED
    BY <1>3, <1>4, <1>6, <2>1, Zenon
<1> QED
  BY <1>7, <1>8 DEF t

LEMMA TookTyped ==
  ASSUME NEW c \in Conn, ConnTyped(c), NEW n, Took(c, n), NEW len \in Nat \ {0},
         Handed(c, Taken(c, n)) \/ Held(c, Taken(c, n), len)
  PROVE  ConnTyped(c)'
<1> DEFINE S == Byte(c)
           t == Taken(c, n)
<1>1. t \in Seq(S)
  BY TakenIs DEF Took
<1>2. inbox'[c] \in Seq(S)
  <2>1. inbox[c] \in Seq(S) /\ n \in 0..Len(inbox[c])
    BY DEF ConnTyped, Took
  <2> QED
    BY <2>1, Cut DEF Took
<1>3. /\ peer'[c] \in {"open", "closed", "reset"}
      /\ next'[c][1] \in 1..(Len(Requests[c]) + 1) /\ next'[c][2] \in Nat \ {0}
      /\ Sending(c)' => next'[c][2] <= Length(c, next'[c][1])
      /\ ~Sending(c)' => next'[c][2] = 1
  BY DEF ConnTyped, Took, Sending
<1> HIDE DEF S, t
<1>4. /\ expected'[c] \in Int /\ expected'[c] >= -1
      /\ req'[c] \in {"null", "live", "released"}
      /\ buf'[c] \in Seq(S) /\ messages'[c] \in Seq(Seq(S))
      /\ expected'[c] > 0 <=> req'[c] = "live"
      /\ req'[c] # "live" => buf'[c] = <<>>
  <2>1. messages[c] \in Seq(Seq(S))
    BY DEF ConnTyped, S
  <2>2. CASE Handed(c, t)
    BY <1>1, <2>1, <2>2 DEF Handed
  <2>3. CASE Held(c, t, len)
    BY <1>1, <2>1, <2>3 DEF Held
  <2> QED
    BY <2>2, <2>3 DEF t
<1> QED
  BY <1>2, <1>3, <1>4 DEF ConnTyped, S

(* A tidy client's request is kept or handed on whole.                     *)
LEMMA TookFramed ==
  ASSUME NEW c \in Conn, ConnTyped(c), Framed(c), NEW n, Took(c, n), n > 0,
         NEW len, len = Length(c, Len(messages[c]) + 1),
         Buffered(c, n, len),
         Len(Taken(c, n)) # len => HasLength(c, Len(messages[c]) + 1)
  PROVE  Framed(c)'
<1> DEFINE m == Len(messages[c])
           t == Taken(c, n)
           b == Len(buf[c])
           k == Len(inbox[c])
<1>0. m \in Nat /\ b \in Nat /\ k \in Nat /\ n \in Int /\ 1 <= n /\ n <= k
  BY DEF ConnTyped, Took
<1>1. /\ m \in Nat /\ b \in Nat /\ k \in Nat /\ n \in 1..k
      /\ inbox[c] \in Seq(Byte(c)) /\ n \in 0..k
      /\ messages[c] \in Seq(Seq(Byte(c)))
  BY DEF ConnTyped, Took
<1>2. /\ t \in Seq(Byte(c)) /\ Len(t) = b + n
      /\ \A j \in 1..b : t[j] = buf[c][j]
      /\ \A j \in 1..n : t[b + j] = inbox[c][j]
  BY <1>1, TakenIs
<1>3. /\ Len(inbox'[c]) = k - n
      /\ \A j \in 1..(k - n) : inbox'[c][j] = inbox[c][n + j]
  BY <1>1, Cut, SMTT(30) DEF Took
<1> HIDE DEF t
<1>4. \A j \in 1..(b + n) : t[j] = <<m + 1, j>>
  <2> SUFFICES ASSUME NEW j \in 1..(b + n) PROVE t[j] = <<m + 1, j>>
    OBVIOUS
  <2>1. CASE j <= b
    <3>1. j \in 1..b
      BY <1>1, <2>1
    <3> QED
      BY <1>2, <3>1 DEF Framed
  <2>2. CASE j > b
    <3>1. j - b \in 1..n /\ j - b \in 1..k /\ b + (j - b) = j
      BY <1>1, <2>2
    <3>2. t[b + (j - b)] = inbox[c][j - b]
      BY <1>2, <3>1
    <3>3. inbox[c][j - b] = <<m + 1, b + (j - b)>>
      BY <3>1 DEF Framed
    <3> QED
      BY <3>1, <3>2, <3>3
  <2> QED
    BY <1>1, <2>1, <2>2
<1>a. \/ next[c][1] = m + 1 /\ b + k = next[c][2] - 1
      \/ next[c][1] = m + 2 /\ next[c][2] = 1 /\ b + k = Length(c, m + 1)
  BY Zenon DEF Framed
<1>b. /\ next[c][1] \in 1..(Len(Requests[c]) + 1) /\ next[c][2] \in Nat \ {0}
      /\ next[c][1] <= Len(Requests[c]) => next[c][2] <= Length(c, next[c][1])
      /\ ~(next[c][1] <= Len(Requests[c])) => next[c][2] = 1
  BY DEF ConnTyped, Sending
<1>c. Len(Requests[c]) \in Nat
  BY RequestIs
<1>5. m + 1 \in 1..Len(Requests[c])
  <2> HIDE DEF m, b, k
  <2> QED
    BY <1>0, <1>a, <1>b, <1>c
<1>6. len \in Nat /\ b + k <= len /\ (b + k = len => next[c][1] = m + 2 /\ next[c][2] = 1)
  <2>1. len \in Nat /\ len = Length(c, m + 1)
    BY <1>5, RequestIs
  <2> HIDE DEF m, b, k
  <2> QED
    BY <1>0, <1>a, <1>b, <1>c, <1>5, <2>1
<1>7. CASE Len(t) = len
  <2>1. Handed(c, t) /\ k = n
    <3>1. Handed(c, t)
      BY <1>7 DEF Buffered, t
    <3>2. k = n
      <4> HIDE DEF b, k
      <4> QED
        BY <1>0, <1>2, <1>6, <1>7
    <3> QED
      BY <3>1, <3>2
  <2>2. t = Whole(c, m + 1)
    <3>1. /\ Whole(c, m + 1) \in Seq(Byte(c)) /\ Len(Whole(c, m + 1)) = len
          /\ \A j \in 1..len : Whole(c, m + 1)[j] = <<m + 1, j>>
      BY <1>5, WholeIs
    <3>2. \A j \in 1..Len(t) : t[j] = Whole(c, m + 1)[j]
      BY <1>2, <1>4, <1>7, <3>1
    <3> QED
      BY <1>2, <1>7, <3>1, <3>2, SeqEqual
  <2>3. /\ Len(messages'[c]) = m + 1 /\ messages'[c][m + 1] = t
        /\ \A r \in 1..m : messages'[c][r] = messages[c][r]
    BY <1>1, <1>2, <2>1 DEF Handed
  <2>4. Len(buf'[c]) = 0 /\ Len(inbox'[c]) = 0 /\ req'[c] # "live"
    BY <1>1, <1>3, <2>1 DEF Handed
  <2>5. next'[c][1] = m + 2 /\ next'[c][2] = 1
    <3>1. b + k = len
      BY <1>2, <1>7, <2>1
    <3> QED
      BY <1>6, <3>1 DEF Took
  <2>6. inbox'[c] = <<>>
    <3>1. inbox'[c] \in Seq(Byte(c))
      BY <1>1, Cut DEF Took
    <3> QED
      BY <2>4, <3>1
  <2>7. \A r \in 1..(m + 1) : messages'[c][r] = Whole(c, r)
    <3>1. \A r \in 1..m : messages'[c][r] = Whole(c, r)
      BY <2>3 DEF Framed
    <3> QED
      BY <1>1, <2>2, <2>3, <3>1
  <2>8. peer'[c] # "reset"
    BY DEF Framed, Took
  <2> QED
    BY <1>1, <1>5, <2>3, <2>4, <2>5, <2>6, <2>7, <2>8 DEF Framed
<1>8. CASE Len(t) # len
  <2>1. Held(c, t, len) /\ HasLength(c, m + 1)
    BY <1>8 DEF Buffered, t
  <2>2. messages'[c] = messages[c] /\ next'[c] = next[c] /\ peer'[c] = peer[c]
    BY <2>1 DEF Held, Took
  <2>3. Len(buf'[c]) = b + n /\ buf'[c] # <<>> /\ req'[c] = "live" /\ expected'[c] = len
    BY <1>1, <1>2, <2>1 DEF Held
  <2>4. \A j \in 1..(b + n) : buf'[c][j] = <<m + 1, j>>
    BY <1>4, <2>1 DEF Held
  <2>5. \A j \in 1..(k - n) : inbox'[c][j] = <<m + 1, (b + n) + j>>
    <3> SUFFICES ASSUME NEW j \in 1..(k - n)
                 PROVE  inbox'[c][j] = <<m + 1, (b + n) + j>>
      OBVIOUS
    <3>1. n + j \in 1..k /\ b + (n + j) = (b + n) + j
      <4> HIDE DEF b, k
      <4> QED
        BY <1>0
    <3>2. inbox[c][n + j] = <<m + 1, b + (n + j)>>
      BY <3>1 DEF Framed
    <3> QED
      BY <1>3, <3>1, <3>2
  <2>6. (b + n) + (k - n) = b + k
    <3> HIDE DEF b, k
    <3> QED
      BY <1>0
  <2> QED
    BY <1>1, <1>3, <2>1, <2>2, <2>3, <2>4, <2>5, <2>6 DEF Framed
<1> QED
  BY <1>7, <1>8

-----------------------------------------------------------------------------
(* The actions, one by one.                                                *)

LEMMA ProcessIs ==
  ASSUME Arrays, NEW c \in Conn, NEW s, Process(c, s)
  PROVE  /\ Handed(c, s)
         /\ DOMAIN messages' = Conn /\ DOMAIN req' = Conn
         /\ DOMAIN expected' = Conn /\ DOMAIN buf' = Conn
         /\ \A d \in Conn \ {c} : /\ messages'[d] = messages[d] /\ req'[d] = req[d]
                                  /\ expected'[d] = expected[d] /\ buf'[d] = buf[d]
BY DEF Arrays, Process, Handed

LEMMA ReadFirstIs ==
  ASSUME Arrays, Reader, NEW c \in Conn, OnConn(c), ReadFirst(c)
  PROVE  OnConn(c)' /\ Only(c) /\ Reader'
<1> DEFINE k == Len(inbox[c])
           n == Shorter(MaxRecv, k)
           chunk == SubSeq(inbox[c], 1, n)
           len == ExpectedLength(c, chunk)
<1>1. /\ ConnTyped(c) /\ Kept(c) /\ (Tidy(c) => Framed(c))
      /\ inbox[c] \in Seq(Byte(c)) /\ inbox[c] # <<>> /\ k \in Nat \ {0}
      /\ buf[c] = <<>> /\ req[c] # "live"
  BY DEF OnConn, ConnTyped, ReadFirst
<1>2. n \in 1..k /\ n \in 0..k /\ n <= MaxRecv /\ (n = MaxRecv \/ n = k)
  BY <1>1, MaxRecvAssumption, HdrLenAssumption DEF Shorter
<1>3. /\ inbox' = [inbox EXCEPT ![c] = SubSeq(inbox[c], n + 1, k)]
      /\ len = n => Process(c, chunk)
      /\ len # n => /\ expected' = [expected EXCEPT ![c] = len]
                    /\ req' = [req EXCEPT ![c] = "live"]
                    /\ buf' = [buf EXCEPT ![c] = chunk]
                    /\ messages' = messages
      /\ reactor' = reactor /\ current' = current /\ registered' = registered
      /\ peer' = peer /\ next' = next /\ manners' = manners
      /\ reactor = "idle"
  BY DEF ReadFirst, Dispatch
<1> HIDE DEF n
<1>4. /\ chunk \in Seq(Byte(c)) /\ Len(chunk) = n
      /\ \A j \in 1..n : chunk[j] = inbox[c][j]
  BY <1>1, <1>2, Cut
<1>5. Taken(c, n) = chunk
  BY <1>1, <1>4, ConcatEmptySeq DEF Taken
<1>6. len \in Nat \ {0}
  <2>1. chunk # <<>>
    BY <1>2, <1>4
  <2> HIDE DEF chunk
  <2> QED
    BY <1>4, <2>1, ExpectedPositive
<1> HIDE DEF chunk, len
<1>7. Took(c, n)
  BY <1>2, <1>3 DEF Took, Arrays
<1>8. Buffered(c, n, len)
  <2>1. len = n => Handed(c, chunk)
    BY <1>3, ProcessIs
  <2>2. len # n => Held(c, chunk, len)
    BY <1>3 DEF Held, Arrays
  <2> QED
    BY <1>4, <1>5, <2>1, <2>2 DEF Buffered
<1>9. Handed(c, Taken(c, n)) \/ Held(c, Taken(c, n), len)
  BY <1>8 DEF Buffered
<1>10. ConnTyped(c)' /\ Kept(c)'
  BY <1>1, <1>6, <1>7, <1>9, TookTyped, TookKeeps
<1>11. ASSUME Tidy(c) PROVE Framed(c)'
  <2> DEFINE m == Len(messages[c])
  <2>1. /\ \A j \in 1..k : inbox[c][j] = <<m + 1, j>>
        /\ IF HasLength(c, m + 1) THEN k >= HdrLen
           ELSE k = Length(c, m + 1) /\ Length(c, m + 1) <= MaxRecv
    <3>1. Framed(c) /\ Len(buf[c]) = 0
      BY <1>1, <1>11
    <3>2. \A j \in 1..k : inbox[c][j] = <<m + 1, 0 + j>>
      BY <3>1 DEF Framed
    <3> QED
      BY <1>1, <3>1, <3>2 DEF Framed
  <2>2. m + 1 \in 1..Len(Requests[c]) /\ m \in Nat
    <3>1. inbox[c][1] \in Byte(c) /\ inbox[c][1] = <<m + 1, 1>>
      BY <1>1, <2>1
    <3>2. m \in Nat
      BY <1>1 DEF ConnTyped
    <3> QED
      BY <3>1, <3>2, ByteIs
  <2>3. Length(c, m + 1) \in Nat /\ Length(c, m + 1) >= HdrLen
    BY <2>2, RequestIs
  <2>4. n >= HdrLen
    BY <1>2, <2>1, <2>3, MaxRecvAssumption, HdrLenAssumption
  <2>5. Starts(c, m + 1, chunk)
    BY <1>2, <1>4, <2>1, <2>4 DEF Starts
  <2>6. CASE HasLength(c, m + 1)
    <3>1. len = Length(c, m + 1)
      BY <2>2, <2>5, <2>6, LengthOfJson DEF HasLength, len
    <3>2. Framed(c)
      BY <1>1, <1>11
    <3> QED
      BY <1>1, <1>2, <1>7, <1>8, <2>6, <3>1, <3>2, TookFramed
  <2>7. CASE ~HasLength(c, m + 1)
    <3>1. len = n
      BY <1>4, <2>2, <2>5, <2>7, LengthOfOther DEF HasLength, len
    <3>2. n = k /\ k = Length(c, m + 1)
      BY <1>2, <2>1, <2>7
    <3>3. Framed(c)
      BY <1>1, <1>11
    <3>4. Len(Taken(c, n)) = len
      BY <1>4, <1>5, <3>1
    <3> QED
      BY <1>1, <1>2, <1>7, <1>8, <3>1, <3>2, <3>3, <3>4, TookFramed
  <2> QED
    BY <2>6, <2>7
<1>12. OnConn(c)'
  BY <1>3, <1>10, <1>11 DEF OnConn, Tidy
<1>13. Only(c)
  <2>1. CASE len = n
    BY <1>3, <2>1, ProcessIs DEF Only, Same, Arrays
  <2>2. CASE len # n
    BY <1>3, <2>2 DEF Only, Same, Arrays
  <2> QED
    BY <2>1, <2>2
<1>14. Reader'
  BY <1>3 DEF Reader
<1> QED
  BY <1>12, <1>13, <1>14

LEMMA ReadEofIs ==
  ASSUME Arrays, Reader, NEW c \in Conn, OnConn(c), ReadEof(c)
  PROVE  OnConn(c)' /\ Only(c) /\ Reader'
<1>1. /\ expected' = [expected EXCEPT ![c] = 0] /\ registered' = registered \ {c}
      /\ reactor' = reactor /\ current' = current /\ req' = req /\ buf' = buf
      /\ messages' = messages /\ peer' = peer /\ inbox' = inbox /\ next' = next
      /\ manners' = manners /\ expected[c] < 0 /\ reactor = "idle"
  BY DEF ReadEof, Dispatch, clientVars
<1>2. ConnTyped(c) /\ Kept(c) /\ (Tidy(c) => Framed(c)) /\ req[c] # "live"
  BY <1>1 DEF OnConn, ConnTyped
<1>3. expected'[c] = 0
  BY <1>1 DEF Arrays
<1>4. ConnTyped(c)'
  BY <1>1, <1>2, <1>3 DEF ConnTyped, Sending
<1>5. Kept(c)'
  BY <1>1, <1>2 DEF Kept, Sent
<1>6. Tidy(c)' => Framed(c)'
  BY <1>1, <1>2 DEF Tidy, Framed
<1> QED
  BY <1>1, <1>4, <1>5, <1>6 DEF OnConn, Only, Same, Arrays, Reader

(* Steps of the reactor thread that leave the connections as they are.     *)
LEMMA NothingRead ==
  ASSUME Arrays, NEW c \in Conn, OnConn(c),
         UNCHANGED <<expected, req, buf, messages, clientVars>>
  PROVE  OnConn(c)' /\ Only(c)
<1>1. \A d \in Conn : Same(d)
  BY DEF Same, clientVars
<1>2. Arrays'
  BY DEF Arrays, clientVars
<1> QED
  BY <1>1, <1>2, SameKept DEF Only

LEMMA EnterLoopIs ==
  ASSUME Arrays, Reader, NEW c \in Conn, OnConn(c), EnterLoop(c)
  PROVE  OnConn(c)' /\ Only(c) /\ Reader'
<1>1. UNCHANGED <<expected, req, buf, messages, clientVars>>
  BY DEF EnterLoop
<1>2. OnConn(c)' /\ Only(c)
  BY <1>1, NothingRead
<1>3. Reader'
  <2>1. expected[c] > 0 /\ expected[c] \in Int /\ req[c] = "live" /\ Len(buf[c]) \in Nat
    BY DEF EnterLoop, OnConn, ConnTyped
  <2>2. /\ reactor' = IF expected[c] > Len(buf[c]) THEN "recv" ELSE "overrun"
        /\ current' = c /\ registered' = registered /\ manners' = manners
    BY DEF EnterLoop, clientVars
  <2> QED
    BY <1>1, <2>1, <2>2, NoConnAssumption DEF Reader
<1> QED
  BY <1>2, <1>3

LEMMA ReadErrorIs ==
  ASSUME Arrays, Reader, NEW c \in Conn, OnConn(c), ReadError(c) \/ ReadGarbled(c)
  PROVE  OnConn(c)' /\ Only(c) /\ Reader'
<1>1. UNCHANGED <<expected, req, buf, messages, clientVars>>
  BY DEF ReadError, ReadGarbled
<1>2. OnConn(c)' /\ Only(c)
  BY <1>1, NothingRead
<1>3. Reader'
  BY DEF ReadError, ReadGarbled, Dispatch, Reader, clientVars
<1> QED
  BY <1>2, <1>3

LEMMA LoopRecvIs ==
  ASSUME Arrays, Reader, NEW c \in Conn, current = c, OnConn(c), LoopRecv
  PROVE  OnConn(c)' /\ Only(c) /\ Reader'
<1> DEFINE k == Len(inbox[c])
           len == expected[c]
           n == Shorter(len - Len(buf[c]), k)
<1>1. /\ ConnTyped(c) /\ Kept(c) /\ (Tidy(c) => Framed(c))
      /\ inbox[c] \in Seq(Byte(c)) /\ inbox[c] # <<>> /\ k \in Nat \ {0}
      /\ req[c] = "live" /\ len > Len(buf[c]) /\ len \in Int /\ Len(buf[c]) \in Nat
  BY DEF OnConn, ConnTyped, LoopRecv, Reader
<1>2. n \in 1..k /\ n \in 0..k /\ n <= len - Len(buf[c]) /\ len \in Nat \ {0}
  BY <1>1 DEF Shorter
<1>3. /\ inbox' = [inbox EXCEPT ![c] = SubSeq(inbox[c], n + 1, k)]
      /\ Len(Taken(c, n)) = len =>
            Process(c, Taken(c, n)) /\ reactor' = "idle" /\ current' = NoConn
      /\ Len(Taken(c, n)) # len =>
            /\ buf' = [buf EXCEPT ![c] = Taken(c, n)]
            /\ reactor' = reactor /\ current' = current /\ expected' = expected
            /\ req' = req /\ messages' = messages
      /\ registered' = registered /\ peer' = peer /\ next' = next /\ manners' = manners
      /\ reactor = "recv"
  BY DEF LoopRecv, Taken
<1> HIDE DEF n
<1>4. Taken(c, n) \in Seq(Byte(c)) /\ Len(Taken(c, n)) = Len(buf[c]) + n
  BY <1>1, <1>2, TakenIs
<1>5. Took(c, n)
  BY <1>2, <1>3 DEF Took, Arrays
<1>6. Buffered(c, n, len)
  <2>1. Len(Taken(c, n)) = len => Handed(c, Taken(c, n))
    BY <1>3, ProcessIs
  <2>2. Len(Taken(c, n)) # len => Held(c, Taken(c, n), len)
    BY <1>1, <1>3 DEF Held, Arrays
  <2> QED
    BY <2>1, <2>2 DEF Buffered
<1>7. Handed(c, Taken(c, n)) \/ Held(c, Taken(c, n), len)
  BY <1>6 DEF Buffered
<1>8. ConnTyped(c)' /\ Kept(c)'
  <2> HIDE DEF len
  <2> QED
    BY <1>1, <1>2, <1>5, <1>7, TookTyped, TookKeeps
<1>9. ASSUME Tidy(c) PROVE Framed(c)'
  <2>0. Framed(c) /\ req[c] = "live"
    BY <1>1, <1>9
  <2>1. len = Length(c, Len(messages[c]) + 1) /\ HasLength(c, Len(messages[c]) + 1)
    BY <2>0 DEF Framed
  <2>2. n > 0
    BY <1>1, <1>2
  <2> HIDE DEF len
  <2> QED
    BY <1>1, <1>5, <1>6, <2>0, <2>1, <2>2, TookFramed
<1>10. OnConn(c)'
  <2>1. manners' = manners
    BY <1>3
  <2> QED
    BY <1>8, <1>9, <2>1 DEF OnConn, Tidy
<1>11. Only(c)
  <2>1. CASE Len(Taken(c, n)) = len
    BY <1>3, <2>1, ProcessIs DEF Only, Same, Arrays
  <2>2. CASE Len(Taken(c, n)) # len
    BY <1>3, <2>2 DEF Only, Same, Arrays
  <2> QED
    BY <2>1, <2>2
<1>12. Reader'
  <2>1. CASE Len(Taken(c, n)) = len
    BY <1>3, <2>1 DEF Reader
  <2>2. CASE Len(Taken(c, n)) # len
    <3>1. Len(Taken(c, n)) < len
      BY <1>1, <1>2, <1>4, <2>2, SMTT(30)
    <3>2. buf'[c] = Taken(c, n) /\ expected' = expected /\ req' = req /\ current' = current
      BY <1>3, <2>2 DEF Arrays
    <3> QED
      BY <1>1, <1>3, <2>2, <3>1, <3>2 DEF Reader
  <2> QED
    BY <2>1, <2>2
<1> QED
  BY <1>10, <1>11, <1>12

LEMMA LoopErrorIs ==
  ASSUME Arrays, Reader, NEW c \in Conn, current = c, OnConn(c), LoopError
  PROVE  OnConn(c)' /\ Only(c) /\ Reader'
<1>1. /\ ConnTyped(c) /\ Kept(c) /\ (Tidy(c) => Framed(c)) /\ peer[c] = "reset"
      /\ inbox[c] = <<>> /\ buf[c] \in Seq(Byte(c))
  BY DEF OnConn, ConnTyped, LoopError
<1>2. /\ Process(c, buf[c]) /\ reactor' = "idle" /\ current' = NoConn
      /\ registered' = registered /\ peer' = peer /\ inbox' = inbox /\ next' = next
      /\ manners' = manners
  BY DEF LoopError, clientVars
<1>3. Taken(c, 0) = buf[c]
  <2>1. SubSeq(inbox[c], 1, 0) = <<>>
    BY SubSeqEmpty
  <2> QED
    BY <1>1, <2>1, ConcatEmptySeq DEF Taken
<1>4. Took(c, 0)
  <2>1. Len(inbox[c]) = 0
    BY <1>1
  <2>2. SubSeq(inbox[c], 0 + 1, Len(inbox[c])) = <<>>
    BY <2>1, SubSeqEmpty
  <2>3. 0 \in 0..Len(inbox[c])
    BY <2>1
  <2> QED
    BY <1>1, <1>2, <2>2, <2>3, Zenon DEF Took
<1>5. Handed(c, Taken(c, 0))
  BY <1>2, <1>3, ProcessIs
<1>6. ConnTyped(c)' /\ Kept(c)'
  <2>1. 1 \in Nat \ {0}
    OBVIOUS
  <2> QED
    BY <1>1, <1>4, <1>5, <2>1, TookTyped, TookKeeps
<1>7. ~Tidy(c)
  BY <1>1 DEF Framed
<1> QED
  BY <1>2, <1>6, <1>7, ProcessIs DEF OnConn, Tidy, Only, Same, Arrays, Reader

LEMMA LoopEofIs ==
  ASSUME Arrays, Reader, NEW c \in Conn, current = c, OnConn(c), LoopEof
  PROVE  OnConn(c)' /\ Only(c) /\ Reader'
<1>1. UNCHANGED <<expected, req, buf, messages, clientVars>>
  BY DEF LoopEof
<1>2. OnConn(c)' /\ Only(c)
  BY <1>1, NothingRead
<1>3. Reader'
  BY DEF LoopEof, Reader, clientVars
<1> QED
  BY <1>2, <1>3

LEMMA CloseIs ==
  ASSUME Arrays, Reader, NEW c \in Conn, OnConn(c), Close(c) \/ Reset(c)
  PROVE  OnConn(c)' /\ Only(c) /\ Reader'
<1>1. /\ reactor' = reactor /\ current' = current /\ registered' = registered
      /\ expected' = expected /\ req' = req /\ buf' = buf /\ messages' = messages
      /\ inbox' = inbox /\ next' = next /\ manners' = manners
  BY DEF Close, Reset, serverVars
<1>2. \/ peer' = [peer EXCEPT ![c] = "closed"]
      \/ peer' = [peer EXCEPT ![c] = "reset"] /\ ~Tidy(c)
  BY DEF Close, Reset, Tidy
<1>3. peer'[c] \in {"closed", "reset"} /\ (peer'[c] = "reset" => ~Tidy(c))
  BY <1>2 DEF Arrays
<1>4. ConnTyped(c)'
  BY <1>1, <1>3 DEF OnConn, ConnTyped, Sending
<1>5. Kept(c)'
  BY <1>1 DEF OnConn, Kept, Sent
<1>6. ASSUME Tidy(c)' PROVE Framed(c)'
  <2>1. Tidy(c) /\ Framed(c) /\ peer'[c] # "reset"
    BY <1>1, <1>3, <1>6 DEF OnConn, Tidy
  <2> QED
    BY <1>1, <2>1 DEF Framed
<1>7. Only(c)
  BY <1>1, <1>2 DEF Only, Same, Arrays
<1>8. Reader'
  BY <1>1 DEF Reader
<1> QED
  BY <1>4, <1>5, <1>6, <1>7, <1>8 DEF OnConn

(* What is sent grows by the segment that arrives.                         *)
Wholes(c, n) == [r \in 1..n |-> Whole(c, r)]
Part(r, n) == [i \in 1..n |-> <<r, i>>]
Segment(r, i, k) == [j \in 1..k |-> <<r, i + j - 1>>]

LEMMA WholesType ==
  ASSUME NEW c \in Conn, NEW n \in 0..Len(Requests[c])
  PROVE  Wholes(c, n) \in Seq(Seq(Byte(c)))
<1>1. \A r \in 1..n : Whole(c, r) \in Seq(Byte(c))
  <2>1. \A r \in 1..n : r \in 1..Len(Requests[c])
    BY RequestIs
  <2> QED
    BY <2>1, WholeIs
<1> QED
  BY <1>1 DEF Wholes

LEMMA OneMoreWhole ==
  ASSUME NEW c \in Conn, NEW n \in Nat, n + 1 <= Len(Requests[c])
  PROVE  Wholes(c, n + 1) = Append(Wholes(c, n), Whole(c, n + 1))
<1> DEFINE S == Seq(Byte(c))
           a == Wholes(c, n + 1)
           b == Append(Wholes(c, n), Whole(c, n + 1))
<1>1. n \in 0..Len(Requests[c]) /\ n + 1 \in 0..Len(Requests[c])
      /\ n + 1 \in 1..Len(Requests[c])
  BY RequestIs
<1>2. a \in Seq(S) /\ Wholes(c, n) \in Seq(S) /\ Whole(c, n + 1) \in S
  BY <1>1, WholesType, WholeIs
<1>3. Len(a) = n + 1 /\ Len(Wholes(c, n)) = n
  BY DEF Wholes
<1>4. b \in Seq(S) /\ Len(b) = n + 1
  BY <1>2, <1>3
<1>5. \A i \in 1..(n + 1) : a[i] = b[i]
  <2> SUFFICES ASSUME NEW i \in 1..(n + 1) PROVE a[i] = b[i]
    OBVIOUS
  <2>1. a[i] = Whole(c, i)
    BY DEF Wholes
  <2>2. CASE i = n + 1
    BY <1>2, <1>3, <2>1, <2>2
  <2>3. CASE i # n + 1
    <3>1. i \in 1..n
      BY <2>3
    <3>2. b[i] = Wholes(c, n)[i]
      BY <1>2, <1>3, <3>1
    <3> QED
      BY <2>1, <3>1, <3>2 DEF Wholes
  <2> QED
    BY <2>2, <2>3
<1> HIDE DEF a, b, S
<1>6. a = b
  BY <1>2, <1>3, <1>4, <1>5, SeqEqual
<1> QED
  BY <1>6 DEF a, b

LEMMA PartType ==
  ASSUME NEW c \in Conn, NEW r \in 1..Len(Requests[c]), NEW n \in 0..Length(c, r)
  PROVE  Part(r, n) \in Seq(Byte(c)) /\ Len(Part(r, n)) = n
<1>1. \A i \in 1..n : <<r, i>> \in Byte(c)
  BY RequestIs, IsByte
<1> QED
  BY <1>1 DEF Part

LEMMA SegmentType ==
  ASSUME NEW c \in Conn, NEW r \in 1..Len(Requests[c]), NEW i \in Nat \ {0},
         NEW k \in 1..(Length(c, r) - i + 1)
  PROVE  /\ Segment(r, i, k) \in Seq(Byte(c)) /\ Len(Segment(r, i, k)) = k
         /\ Part(r, i - 1) \o Segment(r, i, k) = Part(r, i + k - 1)
<1> DEFINE s == Segment(r, i, k)
           p == Part(r, i - 1)
           q == Part(r, i + k - 1)
<1>1. Length(c, r) \in Nat
  BY RequestIs
<1>2. \A j \in 1..k : i + j - 1 \in 1..Length(c, r)
  BY <1>1
<1>3. s \in Seq(Byte(c)) /\ Len(s) = k /\ \A j \in 1..k : s[j] = <<r, i + j - 1>>
  <2>1. \A j \in 1..k : <<r, i + j - 1>> \in Byte(c)
    BY <1>2, IsByte
  <2>2. s = [j \in 1..k |-> <<r, i + j - 1>>] /\ k \in Nat
    BY <1>1 DEF Segment
  <2> HIDE DEF s
  <2>3. \A j \in 1..k : s[j] = <<r, i + j - 1>>
    BY <2>2
  <2>4. s \in [1..k -> Byte(c)]
    BY <2>1, <2>2, Zenon
  <2>5. k \in Nat
    BY <2>2
  <2>6. s \in Seq(Byte(c)) /\ Len(s) = k
    BY <2>4, <2>5
  <2> QED
    BY <2>3, <2>6
<1>4. i - 1 \in 0..Length(c, r) /\ i + k - 1 \in 0..Length(c, r)
  BY <1>1
<1>5. /\ p \in Seq(Byte(c)) /\ Len(p) = i - 1
      /\ q \in Seq(Byte(c)) /\ Len(q) = i + k - 1
  BY <1>4, PartType
<1>6. (\A j \in 1..(i - 1) : p[j] = <<r, j>>) /\ (\A j \in 1..(i + k - 1) : q[j] = <<r, j>>)
  BY DEF Part
<1> HIDE DEF s, p, q
<1>7. /\ p \o s \in Seq(Byte(c)) /\ Len(p \o s) = (i - 1) + k
      /\ \A j \in 1..((i - 1) + k) : (p \o s)[j] = IF j <= i - 1 THEN p[j] ELSE s[j - (i - 1)]
  <2>1. /\ p \o s \in Seq(Byte(c)) /\ Len(p \o s) = Len(p) + Len(s)
        /\ \A j \in 1..(Len(p) + Len(s)) :
              (p \o s)[j] = IF j <= Len(p) THEN p[j] ELSE s[j - Len(p)]
    BY <1>3, <1>5, ConcatProperties
  <2> QED
    BY <1>3, <1>5, <2>1, Zenon
<1>8. \A j \in 1..Len(p \o s) : (p \o s)[j] = q[j]
  <2> SUFFICES ASSUME NEW j \in 1..((i - 1) + k) PROVE (p \o s)[j] = q[j]
    BY <1>7
  <2>1. q[j] = <<r, j>>
    <3>1. j \in 1..(i + k - 1)
      OBVIOUS
    <3> QED
      BY <1>6, <3>1
  <2>2. CASE j <= i - 1
    <3>1. j \in 1..(i - 1)
      BY <2>2
    <3> QED
      BY <1>6, <1>7, <2>1, <2>2, <3>1
  <2>3. CASE ~(j <= i - 1)
    <3>1. j - (i - 1) \in 1..k /\ i + (j - (i - 1)) - 1 = j
      BY <2>3
    <3>2. s[j - (i - 1)] = <<r, j>>
      BY <1>3, <3>1
    <3> QED
      BY <1>7, <2>1, <2>3, <3>2
  <2> QED
    BY <2>2, <2>3
<1>9. p \o s = q
  <2>1. Len(p \o s) = Len(q)
    BY <1>5, <1>7
  <2> QED
    BY <1>5, <1>7, <1>8, <2>1, SeqEqual
<1> QED
  BY <1>3, <1>9 DEF s, p, q

LEMMA SentIs ==
  ASSUME NEW c \in Conn
  PROVE  Sent(c) = FlattenSeq(Wholes(c, next[c][1] - 1)) \o Part(next[c][1], next[c][2] - 1)
BY Zenon DEF Sent, Wholes, Part

LEMMA SendIs ==
  ASSUME Arrays, Reader, NEW c \in Conn, OnConn(c), Send(c)
  PROVE  OnConn(c)' /\ Only(c) /\ Reader'
<1> DEFINE r == next[c][1]
           i == next[c][2]
           total == Length(c, r)
           m == Len(messages[c])
<1>1. /\ ConnTyped(c) /\ Kept(c) /\ (Tidy(c) => Framed(c))
      /\ Sending(c) /\ peer[c] = "open"
  BY DEF OnConn, Send
<1>2. /\ r \in 1..Len(Requests[c]) /\ i \in Nat \ {0} /\ i <= total
      /\ total \in Nat /\ Len(Requests[c]) \in Nat
  <2>1. Len(Requests[c]) \in Nat
    BY RequestIs
  <2>2. r \in 1..Len(Requests[c])
    BY <1>1, <2>1 DEF ConnTyped, Sending
  <2>3. total \in Nat
    BY <2>2, RequestIs
  <2> QED
    BY <1>1, <2>1, <2>2, <2>3 DEF ConnTyped
<1>3. PICK k \in 1..(total - i + 1) :
        /\ i = 1 => ("pipeline" \in manners[c] \/ m = r - 1)
        /\ i = 1 /\ "split" \notin manners[c] =>
              IF HasLength(c, r) THEN k >= HdrLen ELSE k = total /\ k <= MaxRecv
        /\ inbox' = [inbox EXCEPT ![c] = inbox[c] \o Segment(r, i, k)]
        /\ next' = [next EXCEPT ![c] = IF i + k > total THEN <<r + 1, 1>> ELSE <<r, i + k>>]
  BY DEF Send, HasLength, Segment
<1>4. /\ reactor' = reactor /\ current' = current /\ registered' = registered
      /\ expected' = expected /\ req' = req /\ buf' = buf /\ messages' = messages
      /\ peer' = peer /\ manners' = manners
  BY DEF Send, serverVars
<1> DEFINE seg == Segment(r, i, k)
<1>5. /\ inbox'[c] = inbox[c] \o seg
      /\ next'[c] = IF i + k > total THEN <<r + 1, 1>> ELSE <<r, i + k>>
  BY <1>3 DEF Arrays
<1>6. /\ seg \in Seq(Byte(c)) /\ Len(seg) = k /\ k \in Nat \ {0}
      /\ Part(r, i - 1) \o seg = Part(r, i + k - 1)
  <2>1. /\ r \in 1..Len(Requests[c]) /\ i \in Nat \ {0}
        /\ k \in 1..(Length(c, r) - i + 1) /\ k \in Nat \ {0}
    BY <1>2
  <2> HIDE DEF r, i
  <2> QED
    BY <2>1, SegmentType
<1>7. \A j \in 1..k : seg[j] = <<r, i + j - 1>>
  BY DEF Segment
<1>8. i + k > total => i + k - 1 = total
  <2> HIDE DEF i, total
  <2> QED
    BY <1>2
<1> HIDE DEF seg
<1>9. /\ inbox'[c] \in Seq(Byte(c)) /\ Len(inbox'[c]) = Len(inbox[c]) + k
      /\ \A j \in 1..(Len(inbox[c]) + k) :
            inbox'[c][j] = IF j <= Len(inbox[c]) THEN inbox[c][j] ELSE seg[j - Len(inbox[c])]
  <2>1. inbox[c] \in Seq(Byte(c))
    BY <1>1 DEF ConnTyped
  <2> DEFINE in == inbox[c]
  <2>2. in \in Seq(Byte(c))
    BY <2>1
  <2> HIDE DEF in
  <2>3. /\ in \o seg \in Seq(Byte(c)) /\ Len(in \o seg) = Len(in) + Len(seg)
        /\ \A j \in 1..(Len(in) + Len(seg)) :
              (in \o seg)[j] = IF j <= Len(in) THEN in[j] ELSE seg[j - Len(in)]
    BY <1>6, <2>2, ConcatProperties
  <2> QED
    BY <1>5, <1>6, <2>3, Zenon DEF in
<1>10. ConnTyped(c)'
  <2>1. CASE i + k > total
    <3>1. next'[c][1] = r + 1 /\ next'[c][2] = 1
      BY <1>5, <2>1
    <3>2. next'[c][1] \in 1..(Len(Requests[c]) + 1) /\ next'[c][2] \in Nat \ {0}
      BY <1>2, <3>1
    <3>3. /\ Sending(c)' => next'[c][2] <= Length(c, next'[c][1])
          /\ ~Sending(c)' => next'[c][2] = 1
      <4>1. ASSUME Sending(c)' PROVE 1 <= Length(c, r + 1)
        <5>1. r + 1 \in 1..Len(Requests[c])
          BY <1>2, <3>1, <4>1 DEF Sending
        <5> QED
          BY <5>1, RequestIs, HdrLenAssumption
      <4> QED
        BY <3>1, <4>1
    <3> QED
      BY <1>1, <1>4, <1>9, <3>2, <3>3 DEF ConnTyped
  <2>2. CASE ~(i + k > total)
    <3>1. next'[c][1] = r /\ next'[c][2] = i + k
      BY <1>5, <2>2
    <3>2. /\ next'[c][1] \in 1..(Len(Requests[c]) + 1) /\ next'[c][2] \in Nat \ {0}
          /\ Sending(c)' /\ next'[c][2] <= Length(c, next'[c][1])
      <4> HIDE DEF i, r, total
      <4>1. r <= Len(Requests[c]) /\ r + 0 = r
        BY <1>2
      <4>2. Sending(c)'
        BY <3>1, <4>1 DEF Sending
      <4> QED
        BY <1>2, <1>6, <2>2, <3>1, <4>2 DEF total
    <3> QED
      BY <1>1, <1>4, <1>9, <3>2 DEF ConnTyped
  <2> QED
    BY <2>1, <2>2
<1>11. Kept(c)'
  <2> DEFINE S == Byte(c)
             f == FlattenSeq(messages[c])
             b == buf[c]
             in == inbox[c]
             w == FlattenSeq(Wholes(c, r - 1))
             p == Part(r, i - 1)
  <2>1. /\ f \in Seq(S) /\ b \in Seq(S) /\ in \in Seq(S) /\ seg \in Seq(S)
    <3>1. messages[c] \in Seq(Seq(S)) /\ b \in Seq(S) /\ in \in Seq(S)
      BY <1>1 DEF ConnTyped
    <3> QED
      BY <1>6, <3>1, FlattenType
  <2>2. w \in Seq(S) /\ p \in Seq(S)
    <3>1. r - 1 \in 0..Len(Requests[c]) /\ i - 1 \in 0..total
      <4> HIDE DEF r, i, total
      <4> QED
        BY <1>2
    <3>2. Wholes(c, r - 1) \in Seq(Seq(S))
      BY <3>1, WholesType
    <3> QED
      BY <1>2, <3>1, <3>2, FlattenType, PartType
  <2>3. (f \o b) \o in = w \o p
    BY <1>1, SentIs DEF Kept
  <2>4. Sent(c)' = w \o Part(r, i + k - 1)
    <3>1. Sent(c)' = FlattenSeq(Wholes(c, next'[c][1] - 1))
                     \o Part(next'[c][1], next'[c][2] - 1)
      BY Zenon DEF Sent, Wholes, Part
    <3>2. CASE i + k > total
      <4>1. next'[c][1] - 1 = r /\ next'[c][1] = r + 1 /\ next'[c][2] - 1 = 0
        <5>1. next'[c][1] = r + 1 /\ next'[c][2] = 1
          BY <1>5, <3>2
        <5> HIDE DEF r
        <5> QED
          BY <1>2, <5>1
      <4>2. Part(r + 1, 0) = <<>>
        BY DEF Part
      <4>3. Wholes(c, r) = Append(Wholes(c, r - 1), Whole(c, r))
        <5>1. r - 1 \in Nat /\ (r - 1) + 1 = r /\ (r - 1) + 1 <= Len(Requests[c])
          <6> HIDE DEF r
          <6> QED
            BY <1>2
        <5>2. Wholes(c, (r - 1) + 1) = Append(Wholes(c, r - 1), Whole(c, (r - 1) + 1))
          <6> HIDE DEF r
          <6> QED
            BY <5>1, OneMoreWhole
        <5> QED
          BY <5>1, <5>2
      <4>4. Whole(c, r) = Part(r, i + k - 1) /\ Whole(c, r) \in Seq(S)
        <5>1. Whole(c, r) = Part(r, total)
          BY DEF Whole, Part
        <5> QED
          BY <1>2, <1>8, <3>2, <5>1, WholeIs
      <4>5. FlattenSeq(Wholes(c, r)) = w \o Whole(c, r)
        <5>1. r - 1 \in 0..Len(Requests[c])
          <6> HIDE DEF r
          <6> QED
            BY <1>2
        <5>2. Wholes(c, r - 1) \in Seq(Seq(S))
          BY <5>1, WholesType
        <5> QED
          BY <4>3, <4>4, <5>2, FlattenAppend
      <4>6. w \o Whole(c, r) \in Seq(S)
        BY <2>2, <4>4, ConcatProperties
      <4>7. (w \o Whole(c, r)) \o <<>> = w \o Whole(c, r)
        BY <4>6, ConcatEmptySeq
      <4> HIDE DEF w, r
      <4> QED
        BY <3>1, <4>1, <4>2, <4>4, <4>5, <4>7, Zenon
    <3>3. CASE ~(i + k > total)
      <4>1. next'[c][1] = r /\ next'[c][2] - 1 = i + k - 1
        <5> HIDE DEF r, i
        <5>1. next'[c] = <<r, i + k>>
          BY <1>5, <3>3
        <5> QED
          BY <1>2, <1>6, <5>1
      <4> QED
        BY <3>1, <4>1, Zenon
    <3> QED
      BY <3>2, <3>3
  <2>5. Kept(c)' <=> (f \o b) \o (in \o seg) = Sent(c)'
    BY <1>4, <1>5, Zenon DEF Kept
  <2> HIDE DEF S, f, b, in, w, p
  <2>6. f \o b \in Seq(S)
    BY <2>1, ConcatProperties
  <2>7. (f \o b) \o (in \o seg) = ((f \o b) \o in) \o seg
    <3> DEFINE e == f \o b
    <3>1. e \in Seq(S)
      BY <2>6
    <3> HIDE DEF e
    <3>2. (e \o in) \o seg = e \o (in \o seg)
      BY <2>1, <3>1, ConcatAssociative, SMTT(30)
    <3> QED
      BY <3>2, Zenon DEF e
  <2>8. (w \o p) \o seg = w \o (p \o seg)
    BY <2>1, <2>2, ConcatAssociative, SMTT(30)
  <2>9. p \o seg = Part(r, i + k - 1)
    BY <1>6 DEF p
  <2> QED
    BY <2>3, <2>4, <2>5, <2>7, <2>8, <2>9, Zenon
<1>12. ASSUME Tidy(c)' PROVE Framed(c)'
  <2> DEFINE b == Len(buf[c])
             h == Len(inbox[c])
  <2>1. Framed(c) /\ "pipeline" \notin manners[c] /\ "split" \notin manners[c]
    BY <1>1, <1>4, <1>12 DEF Tidy
  <2>2. b \in Nat /\ h \in Nat /\ m \in Nat
    BY <1>1 DEF ConnTyped
  <2>3. \/ r = m + 1 /\ b + h = i - 1
        \/ r = m + 2 /\ i = 1
    BY <2>1, Zenon DEF Framed
  <2>4. r = m + 1 /\ b + h = i - 1
    <3>1. i = 1 => m = r - 1
      BY <1>3, <2>1
    <3> HIDE DEF r, i, m, b, h
    <3> QED
      BY <1>2, <2>2, <2>3, <3>1
  <2>5. b + (h + k) = i + k - 1
    <3> HIDE DEF r, i, m, b, h
    <3> QED
      BY <1>2, <1>6, <2>2, <2>4
  <2>6. \/ next'[c][1] = m + 1 /\ b + (h + k) = next'[c][2] - 1
        \/ next'[c][1] = m + 2 /\ next'[c][2] = 1 /\ b + (h + k) = Length(c, m + 1)
    <3>1. CASE i + k > total
      <4>1. next'[c][1] = r + 1 /\ next'[c][2] = 1
        BY <1>5, <3>1
      <4>2. r + 1 = m + 2 /\ total = Length(c, m + 1)
        BY <2>2, <2>4
      <4> QED
        BY <1>8, <2>5, <3>1, <4>1, <4>2, Zenon
    <3>2. CASE ~(i + k > total)
      <4>1. next'[c][1] = r /\ next'[c][2] = i + k
        BY <1>5, <3>2
      <4> HIDE DEF r, i, m, b, h
      <4> QED
        BY <1>2, <1>6, <2>2, <2>4, <2>5, <4>1
    <3> QED
      BY <3>1, <3>2
  <2>7. \A j \in 1..(h + k) : inbox'[c][j] = <<m + 1, b + j>>
    <3> SUFFICES ASSUME NEW j \in 1..(h + k) PROVE inbox'[c][j] = <<m + 1, b + j>>
      OBVIOUS
    <3>1. CASE j <= h
      <4>1. j \in 1..h
        BY <2>2, <3>1
      <4>2. inbox[c][j] = <<m + 1, b + j>>
        BY <2>1, <4>1 DEF Framed
      <4> QED
        BY <1>9, <3>1, <4>2
    <3>2. CASE ~(j <= h)
      <4>1. j - h \in 1..k /\ i + (j - h) - 1 = b + j
        <5> HIDE DEF r, i, m, b, h
        <5> QED
          BY <1>2, <1>6, <2>2, <2>4, <3>2
      <4>2. seg[j - h] = <<r, i + (j - h) - 1>>
        BY <1>7, <4>1
      <4>3. inbox'[c][j] = seg[j - h]
        BY <1>9, <3>2
      <4> QED
        BY <2>4, <4>1, <4>2, <4>3
    <3> QED
      BY <3>1, <3>2
  <2>8. ASSUME req[c] # "live"
        PROVE  IF HasLength(c, m + 1) THEN h + k >= HdrLen
               ELSE h + k = Length(c, m + 1) /\ Length(c, m + 1) <= MaxRecv
    <3>1. CASE inbox[c] = <<>>
      <4>1. b = 0 /\ h = 0
        BY <1>1, <2>8, <3>1 DEF ConnTyped
      <4>2. i = 1 /\ h + k = k
        <5> HIDE DEF r, i, m, b, h
        <5> QED
          BY <1>2, <1>6, <2>4, <4>1
      <4>3. IF HasLength(c, r) THEN k >= HdrLen ELSE k = total /\ k <= MaxRecv
        BY <1>3, <2>1, <4>2
      <4> QED
        BY <2>4, <4>2, <4>3
    <3>2. CASE inbox[c] # <<>>
      <4>1. IF HasLength(c, m + 1) THEN h >= HdrLen
            ELSE h = Length(c, m + 1) /\ Length(c, m + 1) <= MaxRecv
        BY <2>1, <2>8, <3>2 DEF Framed
      <4>2. CASE HasLength(c, m + 1)
        <5> HIDE DEF h
        <5> QED
          BY <1>6, <2>2, <4>1, <4>2, HdrLenAssumption
      <4>3. CASE ~HasLength(c, m + 1)
        <5>1. h = total
          BY <2>4, <4>1, <4>3
        <5> HIDE DEF r, i, m, b, h, total
        <5> QED
          BY <1>2, <2>2, <2>4, <5>1
      <4> QED
        BY <4>2, <4>3
    <3> QED
      BY <3>1, <3>2
  <2> QED
    BY <1>4, <1>9, <2>1, <2>6, <2>7, <2>8 DEF Framed
<1>13. Only(c)
  BY <1>3, <1>4 DEF Only, Same, Arrays
<1>14. Reader'
  BY <1>4 DEF Reader
<1> QED
  BY <1>10, <1>11, <1>12, <1>13, <1>14 DEF OnConn

-----------------------------------------------------------------------------
(* The invariant.                                                          *)

LEMMA ConnInvInit == Init => ConnInv
<1> SUFFICES ASSUME Init PROVE ConnInv
  OBVIOUS
<1>1. Arrays
  BY DEF Init, Arrays
<1>2. Reader
  BY NoConnAssumption DEF Init, Reader
<1>3. ASSUME NEW c \in Conn PROVE OnConn(c)
  <2>1. /\ expected[c] = -1 /\ req[c] = "null" /\ buf[c] = <<>> /\ messages[c] = <<>>
        /\ peer[c] = "open" /\ inbox[c] = <<>> /\ next[c] = <<1, 1>>
    BY DEF Init
  <2>2. Len(Requests[c]) \in Nat
    BY RequestIs
  <2>3. ConnTyped(c)
    <3>1. next[c][1] = 1 /\ next[c][2] = 1
      BY <2>1
    <3>2. Sending(c) => 1 <= Length(c, next[c][1])
      BY <2>2, <3>1, RequestIs, HdrLenAssumption DEF Sending
    <3> QED
      BY <2>1, <2>2, <3>1, <3>2 DEF ConnTyped
  <2>4. Framed(c)
    <3>1. Len(messages[c]) = 0 /\ Len(buf[c]) = 0 /\ Len(inbox[c]) = 0
      BY <2>1
    <3> QED
      BY <2>1, <2>2, <3>1 DEF Framed
  <2>5. Kept(c)
    <3> DEFINE e == <<>>
    <3>1. Wholes(c, 0) = <<>> /\ Part(1, 0) = <<>>
      BY DEF Wholes, Part
    <3>2. Sent(c) = FlattenSeq(Wholes(c, 0)) \o Part(1, 0)
      <4>1. next[c][1] - 1 = 0 /\ next[c][2] - 1 = 0 /\ next[c][1] = 1
        BY <2>1
      <4> QED
        BY <4>1, SentIs
    <3>3. <<>> \o <<>> = <<>>
      BY ConcatEmptySeq
    <3> QED
      BY <2>1, <3>1, <3>2, <3>3, FlattenEmpty, Zenon DEF Kept
  <2> QED
    BY <2>3, <2>4, <2>5 DEF OnConn
<1> QED
  BY <1>1, <1>2, <1>3 DEF ConnInv

LEMMA ConnInvKept == ConnInv /\ [Next]_vars => ConnInv'
<1> SUFFICES ASSUME ConnInv, [Next]_vars PROVE ConnInv'
  OBVIOUS
<1>1. Arrays /\ Reader /\ \A c \in Conn : OnConn(c)
  BY DEF ConnInv
<1>2. ASSUME NEW c \in Conn, OnConn(c)' /\ Only(c) /\ Reader'
      PROVE  ConnInv'
  <2>1. ASSUME NEW d \in Conn PROVE OnConn(d)'
    <3>1. CASE d = c
      BY <1>2, <3>1
    <3>2. CASE d # c
      <4>1. Same(d)
        BY <1>2, <3>2 DEF Only
      <4> QED
        BY <1>1, <4>1, SameKept
    <3> QED
      BY <3>1, <3>2
  <2> QED
    BY <1>2, <2>1 DEF ConnInv, Only
<1>3. ASSUME NEW c \in Conn, Serve(c) \/ Send(c) \/ Close(c) \/ Reset(c)
      PROVE  ConnInv'
  <2>1. OnConn(c)
    BY <1>1
  <2>2. OnConn(c)' /\ Only(c) /\ Reader'
    <3>1. CASE ReadFirst(c)
      BY <1>1, <2>1, <3>1, ReadFirstIs
    <3>2. CASE ReadEof(c)
      BY <1>1, <2>1, <3>2, ReadEofIs
    <3>3. CASE ReadError(c) \/ ReadGarbled(c)
      BY <1>1, <2>1, <3>3, ReadErrorIs
    <3>4. CASE EnterLoop(c)
      BY <1>1, <2>1, <3>4, EnterLoopIs
    <3>5. CASE Send(c)
      BY <1>1, <2>1, <3>5, SendIs
    <3>6. CASE Close(c) \/ Reset(c)
      BY <1>1, <2>1, <3>6, CloseIs
    <3> QED
      BY <1>3, <3>1, <3>2, <3>3, <3>4, <3>5, <3>6 DEF Serve
  <2> QED
    BY <1>2, <2>2
<1>4. ASSUME Loop PROVE ConnInv'
  <2>1. current \in Conn
    BY <1>1, <1>4 DEF Reader, Loop, LoopRecv, LoopEof, LoopError
  <2>2. PICK c \in Conn : current = c
    BY <2>1
  <2>3. OnConn(c)
    BY <1>1
  <2>4. OnConn(c)' /\ Only(c) /\ Reader'
    <3>1. CASE LoopRecv
      BY <1>1, <2>2, <2>3, <3>1, LoopRecvIs
    <3>2. CASE LoopEof
      BY <1>1, <2>2, <2>3, <3>2, LoopEofIs
    <3>3. CASE LoopError
      BY <1>1, <2>2, <2>3, <3>3, LoopErrorIs
    <3> QED
      BY <1>4, <3>1, <3>2, <3>3 DEF Loop
  <2> QED
    BY <1>2, <2>4
<1>5. ASSUME UNCHANGED vars PROVE ConnInv'
  <2>1. Arrays'
    BY <1>1, <1>5 DEF Arrays, vars, serverVars, clientVars
  <2>2. Reader'
    BY <1>1, <1>5 DEF Reader, vars, serverVars, clientVars
  <2>3. \A c \in Conn : Same(c)
    BY <1>5 DEF Same, vars, serverVars, clientVars
  <2> QED
    BY <1>1, <2>1, <2>2, <2>3, SameKept DEF ConnInv
<1> QED
  BY <1>3, <1>4, <1>5 DEF Next

LEMMA ConnInvAlways == Spec => []ConnInv
BY ConnInvInit, ConnInvKept, PTL DEF Spec

(* The type invariant: whatever the clients do, an expected length is      *)
(* positive exactly while m_req holds a part of a request, and what is     *)
(* buffered, unread or queued consists of bytes the client sends.          *)
THEOREM Typed == Spec => []TypeOK
<1>1. ConnInv => TypeOK
  BY DEF ConnInv, Reader, OnConn, ConnTyped, TypeOK
<1> QED
  BY <1>1, ConnInvAlways, PTL

(* What the workers get of a tidy client's connection is its requests, in  *)
(* order, each whole and alone, with the body where their parser looks,    *)
(* for requests of any length and segments of any length, whatever the     *)
(* other clients do meanwhile.                                             *)
THEOREM FramingIsExact == Spec => []FramingExact
<1>1. ConnInv => FramingExact
  <2> SUFFICES ASSUME ConnInv, NEW c \in Conn, manners[c] = {}
               PROVE  /\ Len(messages[c]) <= Len(Requests[c])
                      /\ \A r \in 1..Len(messages[c]) :
                            /\ messages[c][r] = Whole(c, r)
                            /\ Requests[c][r].json /\ Requests[c][r].cl =>
                                  get_body(c, messages[c][r])
                                    = SubSeq(Whole(c, r), HdrLen + 1, Length(c, r))
    BY DEF FramingExact
  <2>1. Framed(c) /\ ConnTyped(c)
    BY DEF ConnInv, OnConn, Tidy
  <2>2. /\ Len(messages[c]) <= Len(Requests[c]) /\ Len(messages[c]) \in Nat
        /\ \A r \in 1..Len(messages[c]) : messages[c][r] = Whole(c, r)
    BY <2>1 DEF Framed, ConnTyped
  <2>3. ASSUME NEW r \in 1..Len(messages[c]), Requests[c][r].json, Requests[c][r].cl
        PROVE  get_body(c, Whole(c, r)) = SubSeq(Whole(c, r), HdrLen + 1, Length(c, r))
    <3>1. r \in 1..Len(Requests[c])
      BY <2>2, RequestIs
    <3> QED
      BY <2>3, <3>1, BodyFound
  <2> QED
    BY <2>2, <2>3
<1> QED
  BY <1>1, ConnInvAlways, PTL

(* No byte is lost, repeated or moved on its way from a client to the      *)
(* workers, however the bytes arrive and whatever the clients do: the      *)
(* queued messages, the buffer and what is not read yet are together       *)
(* exactly what was sent.                                                  *)
THEOREM BytesAreKept == Spec => []BytesKept
<1>1. ConnInv => BytesKept
  BY DEF ConnInv, OnConn, Kept, BytesKept
<1> QED
  BY <1>1, ConnInvAlways, PTL

=============================================================================
