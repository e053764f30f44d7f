------------------------- MODULE RedisSession_proof -------------------------
(***************************************************************************)
(* Theorems about RedisSession, for any calls of the tables, any stored    *)
(* values, any size of read_line's buffer and any pieces in which the      *)
(* bytes are written and arrive.  The inductive invariant IInv says what   *)
(* is in the stream at each point of a reader: what the reader has, what   *)
(* waits in the socket and what is under way make up the rest of the       *)
(* replies that are owed, and what the server has and what is still to be  *)
(* written make up the requests that are due.  RequestExact, StreamSafe    *)
(* and AnswerExact follow from it; none is inductive by itself.            *)
(* OnlyErrorsThrow is kept by every step from a state with IInv.           *)
(***************************************************************************)
EXTENDS RedisSession, ProofLemmas

-----------------------------------------------------------------------------
(* Sequences of symbols                                                    *)

Strings == Seq(STRING)
Plain(w) == \A i \in 1..Len(w) : w[i] \notin {"CR", "LF"}
NoLF(s) == \A i \in 1..Len(s) : s[i] # "LF"
From(s, i) == SubSeq(s, i, Len(s))

\* b begins with a.
Starts(a, b) == Len(a) <= Len(b) /\ a = SubSeq(b, 1, Len(a))

\* What begins with a is a and the rest.
LEMMA StartsThen ==
  ASSUME NEW S, NEW a \in Seq(S), NEW b \in Seq(S)
  PROVE  /\ Starts(a, b) => b = a \o From(b, Len(a) + 1) /\ From(b, Len(a) + 1) \in Seq(S)
         /\ \A c \in Seq(S) : a \o c = b => Starts(a, b)
<1>1. Len(a) \in Nat /\ Len(b) \in Nat BY LenProperties
<1>2. ASSUME Starts(a, b)
      PROVE  b = a \o From(b, Len(a) + 1) /\ From(b, Len(a) + 1) \in Seq(S)
  <2>1. Len(a) \in 0..Len(b) /\ a = SubSeq(b, 1, Len(a)) BY <1>1, <1>2 DEF Starts
  <2>2. SubSeq(b, 1, Len(a)) \o SubSeq(b, Len(a) + 1, Len(b)) = b
        /\ SubSeq(b, Len(a) + 1, Len(b)) \in Seq(S)
    BY <2>1, CutAt
  <2> QED BY <2>1, <2>2 DEF From
<1>3. ASSUME NEW c \in Seq(S), a \o c = b PROVE Starts(a, b)
  <2>1. Len(b) = Len(a) + Len(c) /\ Len(c) \in Nat BY <1>3, ConcatProperties, LenProperties
  <2>2. SubSeq(a \o c, 1, Len(a)) = a BY CutConcat
  <2> QED BY <1>1, <1>3, <2>1, <2>2 DEF Starts
<1> QED BY <1>2, <1>3

\* The same beginning may be taken off or put on.
LEMMA StartsAfter ==
  ASSUME NEW S, NEW a \in Seq(S), NEW b \in Seq(S), NEW c \in Seq(S)
  PROVE  Starts(a \o b, a \o c) <=> Starts(b, c)
<1> DEFINE x == a \o b
           y == a \o c
<1>0. x \in Seq(S) /\ y \in Seq(S) BY ConcatProperties
<1>1. ASSUME Starts(b, c) PROVE Starts(x, y)
  <2> DEFINE d == From(c, Len(b) + 1)
  <2>1. c = b \o d /\ d \in Seq(S) BY <1>1, StartsThen
  <2> HIDE DEF d
  <2>2. x \o d = y BY <2>1, ConcatAssociative
  <2> HIDE DEF x, y
  <2> QED BY <1>0, <2>1, <2>2, StartsThen
<1>2. ASSUME Starts(x, y) PROVE Starts(b, c)
  <2> DEFINE d == From(y, Len(x) + 1)
  <2>1. y = x \o d /\ d \in Seq(S)
    <3> HIDE DEF x, y
    <3> QED BY <1>0, <1>2, StartsThen
  <2> HIDE DEF d
  <2>2. a \o c = a \o (b \o d) BY SMTT(60), <2>1, ConcatAssociative
  <2>3. b \o d \in Seq(S) BY <2>1, ConcatProperties
  <2>4. c = b \o d BY <2>2, <2>3, ConcatSimplifications
  <2> QED BY <2>1, <2>4, StartsThen
<1> QED BY <1>1, <1>2

\* A line end is a carriage return and a line feed.
LEMMA LineEnd == EOL \in Strings /\ Len(EOL) = 2 /\ EOL[1] = "CR" /\ EOL[2] = "LF"
<1>1. ASSUME NEW S, NEW x \in S, NEW y \in S PROVE <<x, y>> \in Seq(S) /\ Len(<<x, y>>) = 2
  OBVIOUS
<1>2. "CR" \in STRING /\ "LF" \in STRING BY Zenon, WordsAssumption
<1>3. EOL \in Seq(STRING) /\ Len(EOL) = 2 BY <1>1, <1>2 DEF EOL
<1> QED BY <1>3 DEF EOL, Strings

\* A line that has no line end before its last symbol is the first line.
IsLine(l) == l \in Strings /\ l # <<>> /\ NoLF(Front(l)) /\ Last(l) = "LF"
BeginsWith(l, y, h, x) ==
  l = h \o EOL /\ Starts(y, x) /\ (l \o y = (h \o EOL) \o x => y = x)

\* A line that is read from a stream that begins with the line h is h.
LEMMA FirstLine ==
  ASSUME NEW h \in Strings, Plain(h), NEW x \in Strings, NEW l, IsLine(l), NEW y \in Strings,
         Starts(l \o y, (h \o EOL) \o x)
  PROVE  BeginsWith(l, y, h, x)
<1>0. l \in Strings /\ l # <<>> /\ NoLF(Front(l)) /\ Last(l) = "LF" BY DEF IsLine
<1> DEFINE e == h \o EOL
           a == l \o y
           b == e \o x
           n == Len(l)
           m == Len(h) + 2
<1>1. /\ e \in Strings /\ Len(e) = m /\ Len(h) \in Nat
      /\ (\A i \in 1..Len(h) : e[i] = h[i]) /\ e[m] = "LF" /\ e[m - 1] = "CR"
  <2>1. e \in Strings /\ Len(e) = Len(h) + 2
        /\ \A i \in 1..(Len(h) + 2) : e[i] = IF i <= Len(h) THEN h[i] ELSE EOL[i - Len(h)]
    <3>1. EOL \in Seq(STRING) /\ h \in Seq(STRING) /\ Len(EOL) = 2 BY LineEnd DEF Strings
    <3>2. /\ h \o EOL \in Seq(STRING) /\ Len(h \o EOL) = Len(h) + Len(EOL)
          /\ \A i \in 1..(Len(h) + Len(EOL)) :
               (h \o EOL)[i] = IF i <= Len(h) THEN h[i] ELSE EOL[i - Len(h)]
      BY <3>1, ConcatProperties
    <3> QED BY <3>1, <3>2 DEF Strings
  <2>2. Len(h) \in Nat BY LenProperties DEF Strings
  <2>3. m \in 1..(Len(h) + 2) /\ m - 1 \in 1..(Len(h) + 2) /\ m - Len(h) = 2 /\ m - 1 - Len(h) = 1
    BY <2>2
  <2> HIDE DEF e
  <2> QED BY <2>1, <2>2, <2>3, LineEnd
<1>2. /\ a \in Strings /\ b \in Strings /\ Len(a) = n + Len(y) /\ Len(b) = m + Len(x)
      /\ n \in Nat \ {0} /\ Len(x) \in Nat /\ Len(y) \in Nat
      /\ (\A i \in 1..n : a[i] = l[i]) /\ (\A i \in 1..m : b[i] = e[i])
  <2>1. /\ a \in Strings /\ Len(a) = Len(l) + Len(y)
        /\ \A i \in 1..(Len(l) + Len(y)) : a[i] = IF i <= Len(l) THEN l[i] ELSE y[i - Len(l)]
    BY <1>0, ConcatProperties DEF Strings
  <2>2. /\ b \in Strings /\ Len(b) = Len(e) + Len(x)
        /\ \A i \in 1..(Len(e) + Len(x)) : b[i] = IF i <= Len(e) THEN e[i] ELSE x[i - Len(e)]
    <3> HIDE DEF e
    <3> QED BY <1>1, ConcatProperties DEF Strings
  <2>3. n \in Nat \ {0} /\ Len(x) \in Nat /\ Len(y) \in Nat BY <1>0, EmptySeq, LenProperties DEF Strings
  <2>4. \A i \in 1..n : i \in 1..(Len(l) + Len(y)) /\ i <= Len(l) BY <2>3
  <2>5. \A i \in 1..m : i \in 1..(Len(e) + Len(x)) /\ i <= Len(e) BY <1>1, <2>3
  <2> HIDE DEF a, b, e
  <2> QED BY <1>1, <2>1, <2>2, <2>3, <2>4, <2>5
<1>3. Len(a) <= Len(b) /\ \A i \in 1..Len(a) : a[i] = b[i]
  <2>1. Len(a) <= Len(b) /\ a = SubSeq(b, 1, Len(a)) BY DEF Starts
  <2>2. Len(a) \in 0..Len(b)
    <3> HIDE DEF a, b
    <3> QED BY <1>2, <2>1
  <2>3. \A i \in 1..Len(a) : SubSeq(b, 1, Len(a))[i] = b[i]
    <3> HIDE DEF a, b
    <3> QED BY <1>2, <2>2, CutAt DEF Strings
  <2> HIDE DEF a, b
  <2> QED BY <2>1, <2>3
<1>4. l[n] = "LF" /\ \A i \in 1..(n - 1) : l[i] # "LF"
  <2>1. n - 1 \in 0..n BY <1>2
  <2>2. Front(l) = SubSeq(l, 1, n - 1) /\ Last(l) = l[n] BY DEF Front, Last
  <2>3. Len(SubSeq(l, 1, n - 1)) = n - 1 /\ \A i \in 1..(n - 1) : SubSeq(l, 1, n - 1)[i] = l[i]
    BY <1>0, <2>1, CutAt, ZenonT(60) DEF Strings
  <2> QED BY <1>0, <2>2, <2>3 DEF NoLF
<1>5. n = m
  <2>1. n < m => FALSE
    <3> SUFFICES ASSUME n < m PROVE FALSE OBVIOUS
    <3>1. n \in 1..m /\ n \in 1..n /\ n \in 1..Len(a) BY <1>1, <1>2
    <3>2. e[n] = "LF"
      <4> HIDE DEF a, b, e
      <4> QED BY <1>2, <1>3, <1>4, <3>1
    <3>3. n = m - 1 \/ n \in 1..Len(h) BY <1>1, <1>2
    <3> HIDE DEF a, b, e
    <3> QED BY <1>1, <3>2, <3>3 DEF Plain
  <2>2. m < n => FALSE
    <3> SUFFICES ASSUME m < n PROVE FALSE OBVIOUS
    <3>1. m \in 1..m /\ m \in 1..n /\ m \in 1..(n - 1) /\ m \in 1..Len(a) BY <1>1, <1>2
    <3> HIDE DEF a, b, e, m, n
    <3> QED BY <1>1, <1>2, <1>3, <1>4, <3>1
  <2> QED BY <1>1, <1>2, <2>1, <2>2
<1>6. l = e
  <2>1. \A i \in 1..n : l[i] = e[i]
    <3> SUFFICES ASSUME NEW i \in 1..n PROVE l[i] = e[i] OBVIOUS
    <3>1. i \in 1..m /\ i \in 1..Len(a) BY <1>2, <1>5
    <3> HIDE DEF a, b, e, m
    <3> QED BY <1>2, <1>3, <3>1
  <2>2. Len(l) = Len(e) BY <1>1, <1>5
  <2> HIDE DEF e
  <2> QED BY <1>0, <1>1, <2>1, <2>2, SeqEqual DEF Strings
<1>7. Starts(y, x)
  <2>1. Starts(e \o y, e \o x) BY <1>6
  <2> HIDE DEF e
  <2> QED BY <1>1, <2>1, StartsAfter DEF Strings
<1>8. l \o y = e \o x => y = x
  <2> HIDE DEF e
  <2> QED BY <1>0, <1>1, <1>6, ConcatSimplifications DEF Strings
<1> QED BY <1>6, <1>7, <1>8 DEF BeginsWith

-----------------------------------------------------------------------------
(* A request                                                               *)

\* A parameter, and its bytes in a request.
ParamSet == {p \in Strings : Len(p) <= Most}
Piece(p) == <<"$", Numerals[Len(p)]>> \o EOL \o p \o EOL
PieceOf == [p \in ParamSet |-> Piece(p)]

\* A numeral is one symbol, no line end, and is read as the number it was written for.
LEMMA NumeralIs ==
  ASSUME NEW n \in 0..Most
  PROVE  /\ Numerals[n] \in STRING /\ Numerals[n] \notin {"CR", "LF", "-1"}
         /\ n # 0 => Numerals[n] # "0"
         /\ Numeric(<<Numerals[n]>>) /\ Number(Numerals[n]) = n
<1>1. n \in -1..Most /\ -1 \in -1..Most /\ 0 \in -1..Most /\ n # -1 BY NumeralAssumption
<1>2. Numerals[n] \in STRING \ {"CR", "LF"} BY <1>1, NumeralAssumption
<1>3. Numerals[n] # "-1" /\ (n # 0 => Numerals[n] # "0") BY <1>1, NumeralAssumption
<1>4. Numerals[n] \in {Numerals[k] : k \in -1..Most} BY <1>1
<1>5. Numbers[Numerals[n]] = CHOOSE k \in -1..Most : Numerals[k] = Numerals[n]
  BY <1>4 DEF Numbers
<1>6. \A k \in -1..Most : Numerals[k] = Numerals[n] <=> k = n BY <1>1, NumeralAssumption
<1>7. (CHOOSE k \in -1..Most : Numerals[k] = Numerals[n]) = n BY <1>1, <1>6
<1>8. Numerals[n] \in DOMAIN Numbers BY <1>4 DEF Numbers
<1>9. Numeric(<<Numerals[n]>>) BY <1>8 DEF Numeric
<1> QED BY <1>2, <1>3, <1>5, <1>7, <1>9 DEF Number

\* A numeric text is the numeral of its number.
LEMMA NumericIs ==
  ASSUME NEW text, Numeric(text)
  PROVE  /\ Number(text[1]) \in -1..Most /\ Numerals[Number(text[1])] = text[1]
         /\ text[1] # "-1" => Number(text[1]) \in Nat
         /\ text[1] # "-1" /\ text[1] # "0" => Number(text[1]) > 0
<1> DEFINE w == text[1]
<1>1. w \in {Numerals[n] : n \in -1..Most} BY DEF Numeric, Numbers
<1>2. Number(w) = CHOOSE n \in -1..Most : Numerals[n] = w BY <1>1 DEF Number, Numbers
<1>3. \E n \in -1..Most : Numerals[n] = w BY <1>1
<1>4. Number(w) \in -1..Most /\ Numerals[Number(w)] = w BY <1>2, <1>3
<1>5. w # "-1" => Number(w) # -1 BY <1>4, NumeralAssumption
<1>6. w # "0" => Number(w) # 0 BY <1>4, NumeralAssumption
<1> HIDE DEF w
<1>7. Number(w) \in Int /\ Number(w) >= -1 BY <1>4, NumeralAssumption
<1>8. w # "-1" => Number(w) \in Nat BY <1>5, <1>7
<1> QED BY <1>4, <1>5, <1>6, <1>7, <1>8 DEF w

\* A parameter of a request has six symbols besides its own.
LEMMA PieceIs ==
  ASSUME NEW p \in ParamSet
  PROVE  /\ Piece(p) \in Strings /\ Len(Piece(p)) = Len(p) + 6 /\ Len(p) \in 0..Most
         /\ Piece(p)[2] = Numerals[Len(p)]
         /\ \A k \in 1..Len(p) : Piece(p)[4 + k] = p[k]
<1>0. p \in Seq(STRING) /\ Len(p) \in Nat /\ Len(p) \in 0..Most
  BY LenProperties, NumeralAssumption DEF ParamSet, Strings
<1> DEFINE a == <<"$", Numerals[Len(p)]>>
<1>1. a \in Seq(STRING) /\ Len(a) = 2 /\ a[2] = Numerals[Len(p)]
  <2>1. "$" \in STRING /\ Numerals[Len(p)] \in STRING BY Zenon, <1>0, NumeralIs, WordsAssumption
  <2> QED BY <2>1
<1>2. EOL \in Seq(STRING) /\ Len(EOL) = 2 BY LineEnd DEF Strings
<1> HIDE DEF a
<1> DEFINE b == a \o EOL
<1>3. b \in Seq(STRING) /\ Len(b) = 4 /\ b[2] = a[2]
  <2>1. /\ b \in Seq(STRING) /\ Len(b) = 2 + 2
        /\ \A i \in 1..(2 + 2) : b[i] = IF i <= 2 THEN a[i] ELSE EOL[i - 2]
    BY SMTT(60), <1>1, <1>2, ConcatProperties
  <2> HIDE DEF b
  <2> QED BY <2>1
<1> HIDE DEF b
<1> DEFINE c == b \o p
<1>4. c \in Seq(STRING) /\ Len(c) = 4 + Len(p) /\ c[2] = b[2]
      /\ \A k \in 1..Len(p) : c[4 + k] = p[k]
  <2>1. /\ c \in Seq(STRING) /\ Len(c) = 4 + Len(p)
        /\ \A i \in 1..(4 + Len(p)) : c[i] = IF i <= 4 THEN b[i] ELSE p[i - 4]
    <3>1. /\ c \in Seq(STRING) /\ Len(c) = Len(b) + Len(p)
          /\ \A i \in 1..(Len(b) + Len(p)) : c[i] = IF i <= Len(b) THEN b[i] ELSE p[i - Len(b)]
      <4>1. b \in Seq(STRING) /\ p \in Seq(STRING) BY <1>0, <1>3
      <4> QED BY <4>1, ConcatProperties
    <3> HIDE DEF c
    <3> QED BY <1>3, <3>1
  <2>2. 2 \in 1..(4 + Len(p)) BY <1>0
  <2>3. \A k \in 1..Len(p) : 4 + k \in 1..(4 + Len(p)) /\ ~ (4 + k <= 4) /\ 4 + k - 4 = k
    BY <1>0
  <2> HIDE DEF c
  <2> QED BY <2>1, <2>2, <2>3
<1> HIDE DEF c
<1> DEFINE d == c \o EOL
<1>5. d \in Seq(STRING) /\ Len(d) = 6 + Len(p) /\ \A i \in 1..(4 + Len(p)) : d[i] = c[i]
  <2>1. /\ d \in Seq(STRING) /\ Len(d) = Len(c) + 2
        /\ \A i \in 1..(Len(c) + 2) : d[i] = IF i <= Len(c) THEN c[i] ELSE EOL[i - Len(c)]
    <3>1. /\ d \in Seq(STRING) /\ Len(d) = Len(c) + Len(EOL)
          /\ \A i \in 1..(Len(c) + Len(EOL)) : d[i] = IF i <= Len(c) THEN c[i] ELSE EOL[i - Len(c)]
      <4>1. c \in Seq(STRING) /\ EOL \in Seq(STRING) BY <1>2, <1>4
      <4> QED BY <4>1, ConcatProperties
    <3> HIDE DEF d
    <3> QED BY <1>2, <3>1
  <2> HIDE DEF d
  <2> QED BY <1>0, <1>4, <2>1
<1> HIDE DEF d
<1>6. Piece(p) = d BY DEF Piece, a, b, c, d
<1>7. 2 \in 1..(4 + Len(p)) /\ \A k \in 1..Len(p) : 4 + k \in 1..(4 + Len(p)) BY <1>0
<1> QED BY <1>0, <1>1, <1>3, <1>4, <1>5, <1>6, <1>7 DEF Strings

\* Every parameter of a request is a sequence of symbols.
LEMMA PieceOfWrites == Writes(PieceOf, ParamSet, STRING)
BY PieceIs DEF Writes, PieceOf, Strings

Top(n) == <<"*", Numerals[n]>> \o EOL

\* The first line of a request has four symbols, the second is the number of parameters.
LEMMA TopIs ==
  ASSUME NEW n \in 0..Most
  PROVE  Top(n) \in Strings /\ Len(Top(n)) = 4 /\ Top(n)[2] = Numerals[n]
<1> DEFINE a == <<"*", Numerals[n]>>
<1>1. a \in Seq(STRING) /\ Len(a) = 2 /\ a[2] = Numerals[n]
  <2>1. "*" \in STRING /\ Numerals[n] \in STRING BY Zenon, NumeralIs, WordsAssumption
  <2> QED BY <2>1
<1>2. EOL \in Seq(STRING) /\ Len(EOL) = 2 BY LineEnd DEF Strings
<1> HIDE DEF a
<1>3. /\ a \o EOL \in Seq(STRING) /\ Len(a \o EOL) = Len(a) + Len(EOL)
      /\ \A i \in 1..(Len(a) + Len(EOL)) :
           (a \o EOL)[i] = IF i <= Len(a) THEN a[i] ELSE EOL[i - Len(a)]
  BY <1>1, <1>2, ConcatProperties
<1>4. (a \o EOL)[2] = a[2] /\ Len(a \o EOL) = 4 BY <1>1, <1>2, <1>3
<1> QED BY <1>1, <1>3, <1>4 DEF Top, Strings, a

\* A request is its first line and its parameters.
LEMMA EncodeIs ==
  ASSUME NEW ps \in Seq(ParamSet)
  PROVE  Encode(ps) = Top(Len(ps)) \o FlatOf(PieceOf, ps)
<1>1. \A i \in DOMAIN ps : PieceOf[ps[i]] = Piece(ps[i])
  BY ElementOfSeq, LenProperties DEF PieceOf
<1>2. [i \in DOMAIN ps |-> PieceOf[ps[i]]] = [i \in DOMAIN ps |-> Piece(ps[i])] BY <1>1
<1> QED BY <1>2 DEF Encode, FlatOf, Top, Piece

\* A request is a sequence of symbols.
LEMMA EncodeType ==
  ASSUME NEW ps \in Seq(ParamSet), Len(ps) <= Most
  PROVE  Encode(ps) \in Strings /\ Len(Encode(ps)) >= 4
<1>1. Len(ps) \in 0..Most BY LenProperties, NumeralAssumption
<1>2. FlatOf(PieceOf, ps) \in Seq(STRING) BY PieceOfWrites, FlatOfIs
<1>3. Top(Len(ps)) \in Seq(STRING) /\ Len(Top(Len(ps))) = 4 BY <1>1, TopIs DEF Strings
<1>4. Encode(ps) \in Seq(STRING)
      /\ Len(Encode(ps)) = Len(Top(Len(ps))) + Len(FlatOf(PieceOf, ps))
  BY ZenonT(60), <1>2, <1>3, EncodeIs, ConcatProperties
<1>5. Len(FlatOf(PieceOf, ps)) \in Nat BY <1>2, LenProperties
<1> QED BY <1>3, <1>4, <1>5 DEF Strings

-----------------------------------------------------------------------------
(* Where its parameters are                                                *)

\* A sequence with one element more.
LEMMA SubSeqNext ==
  ASSUME NEW A, NEW s \in Seq(A), NEW i \in 1..Len(s)
  PROVE  /\ SubSeq(s, 1, i - 1) \in Seq(A) /\ s[i] \in A
         /\ SubSeq(s, 1, i) = SubSeq(s, 1, i - 1) \o <<s[i]>>
<1>0. Len(s) \in Nat /\ i \in Int /\ i \in 0..Len(s) /\ i - 1 \in 0..Len(s) BY LenProperties
<1>1. s[i] \in A BY ElementOfSeq
<1> DEFINE a == SubSeq(s, 1, i - 1)
           b == SubSeq(s, 1, i)
<1>2. a \in Seq(A) /\ Len(a) = i - 1 /\ \A j \in 1..(i - 1) : a[j] = s[j] BY <1>0, CutAt
<1>3. b \in Seq(A) /\ Len(b) = i /\ \A j \in 1..i : b[j] = s[j] BY <1>0, CutAt
<1> HIDE DEF a, b
<1> DEFINE c == Append(a, s[i])
<1>4. c \in Seq(A) /\ Len(c) = Len(a) + 1 /\ (\A j \in 1..Len(a) : c[j] = a[j]) /\ c[Len(a) + 1] = s[i]
  <2>1. a \in Seq(A) /\ s[i] \in A BY <1>1, <1>2
  <2> QED BY <2>1, AppendProperties
<1>5. c = a \o <<s[i]>>
  <2>1. a \in Seq(A) /\ s[i] \in A BY <1>1, <1>2
  <2> QED BY <2>1, AppendIsConcat
<1> HIDE DEF c
<1>6. Len(c) = i /\ c[i] = s[i] /\ \A j \in 1..(i - 1) : c[j] = a[j] BY <1>0, <1>2, <1>4
<1>7. \A j \in 1..i : b[j] = c[j]
  <2> SUFFICES ASSUME NEW j \in 1..i PROVE b[j] = c[j] OBVIOUS
  <2>1. j = i \/ j \in 1..(i - 1) BY <1>0
  <2> QED BY <1>2, <1>3, <1>6, <2>1
<1>8. b = c BY <1>3, <1>4, <1>6, <1>7, SeqEqual
<1> QED BY <1>1, <1>2, <1>5, <1>8 DEF a, b

\* What a request begins with before its parameter i.
Pre(ps, i) == Top(Len(ps)) \o FlatOf(PieceOf, SubSeq(ps, 1, i - 1))

\* The parameters begin behind the first line and end with the request.
LEMMA PreFirst ==
  ASSUME NEW ps \in Seq(ParamSet), Len(ps) <= Most
  PROVE  Len(Pre(ps, 1)) = 4 /\ Pre(ps, Len(ps) + 1) = Encode(ps)
<1>0. Len(ps) \in 0..Most /\ Len(ps) \in Nat BY LenProperties, NumeralAssumption
<1>1. SubSeq(ps, 1, 1 - 1) = <<>> BY <1>0
<1>2. Top(Len(ps)) \in Seq(STRING) /\ Len(Top(Len(ps))) = 4 BY <1>0, TopIs DEF Strings
<1>3. Pre(ps, 1) = Top(Len(ps)) BY <1>1, <1>2, FlatOfEmpty, ConcatEmptySeq DEF Pre
<1>4. SubSeq(ps, 1, Len(ps)) = ps BY SubSeqFull
<1>5. Pre(ps, Len(ps) + 1) = Encode(ps)
  <2> DEFINE k == Len(ps) + 1
  <2>1. k - 1 = Len(ps) BY <1>0
  <2> HIDE DEF k
  <2>2. Pre(ps, k) = Encode(ps) BY <1>4, <2>1, EncodeIs DEF Pre
  <2> QED BY <2>2 DEF k
<1> QED BY <1>2, <1>3, <1>5

\* Where a parameter ends the next one begins.
LEMMA PreNext ==
  ASSUME NEW ps \in Seq(ParamSet), Len(ps) <= Most, NEW i \in 1..Len(ps)
  PROVE  /\ Pre(ps, i) \in Strings /\ ps[i] \in ParamSet
         /\ Pre(ps, i + 1) = Pre(ps, i) \o Piece(ps[i])
         /\ \E z \in Strings : Encode(ps) = Pre(ps, i + 1) \o z
<1>0. Len(ps) \in 0..Most /\ Len(ps) \in Nat /\ i \in Int /\ i + 1 - 1 = i /\ i \in 0..Len(ps)
  BY LenProperties, NumeralAssumption
<1> DEFINE a == SubSeq(ps, 1, i - 1)
           b == SubSeq(ps, 1, i)
           d == SubSeq(ps, i + 1, Len(ps))
           t == Top(Len(ps))
           x == ps[i]
<1>1. a \in Seq(ParamSet) /\ x \in ParamSet /\ b = a \o <<x>> BY SubSeqNext
<1>2. b \in Seq(ParamSet) /\ d \in Seq(ParamSet) /\ b \o d = ps BY <1>0, CutAt
<1>3. t \in Seq(STRING) BY <1>0, TopIs DEF Strings
<1>4. Encode(ps) = t \o FlatOf(PieceOf, ps) BY EncodeIs
<1>5. Pre(ps, i) = t \o FlatOf(PieceOf, a) BY DEF Pre
<1>6. Pre(ps, i + 1) = t \o FlatOf(PieceOf, b) BY <1>0 DEF Pre
<1> HIDE DEF a, b, d, t, x
<1>7. FlatOf(PieceOf, b) = FlatOf(PieceOf, a) \o Piece(x)
  <2> DEFINE o == <<x>>
  <2>1. o \in Seq(ParamSet) BY <1>1
  <2>2. FlatOf(PieceOf, o) = Piece(x) BY <1>1, FlatOfOne, PieceOfWrites DEF PieceOf
  <2> HIDE DEF o
  <2>3. FlatOf(PieceOf, a \o o) = FlatOf(PieceOf, a) \o FlatOf(PieceOf, o)
    BY <1>1, <2>1, FlatOfConcat, PieceOfWrites
  <2> QED BY <1>1, <2>2, <2>3 DEF o
<1>8. FlatOf(PieceOf, ps) = FlatOf(PieceOf, b) \o FlatOf(PieceOf, d)
  <2>1. b \in Seq(ParamSet) /\ d \in Seq(ParamSet) BY <1>2
  <2>2. FlatOf(PieceOf, b \o d) = FlatOf(PieceOf, b) \o FlatOf(PieceOf, d)
    BY <2>1, FlatOfConcat, PieceOfWrites
  <2> QED BY <1>2, <2>2
<1>9. /\ FlatOf(PieceOf, a) \in Seq(STRING) /\ FlatOf(PieceOf, b) \in Seq(STRING)
      /\ FlatOf(PieceOf, d) \in Seq(STRING) /\ Piece(x) \in Seq(STRING)
  <2>1. a \in Seq(ParamSet) /\ b \in Seq(ParamSet) /\ d \in Seq(ParamSet) /\ x \in ParamSet
    BY <1>1, <1>2
  <2> QED BY <2>1, FlatOfIs, PieceOfWrites, PieceIs DEF Strings
<1> DEFINE fa == FlatOf(PieceOf, a)
           fb == FlatOf(PieceOf, b)
           fd == FlatOf(PieceOf, d)
           px == Piece(x)
<1>10. Pre(ps, i + 1) = Pre(ps, i) \o Piece(x)
  <2>1. t \in Seq(STRING) /\ fa \in Seq(STRING) /\ px \in Seq(STRING) BY <1>3, <1>9
  <2> HIDE DEF fa, px
  <2>2. t \o (fa \o px) = (t \o fa) \o px BY SMTT(60), <2>1, ConcatAssociative
  <2> QED BY <1>5, <1>6, <1>7, <2>2 DEF fa, px
<1>11. Encode(ps) = Pre(ps, i + 1) \o FlatOf(PieceOf, d)
  <2>1. t \in Seq(STRING) /\ fb \in Seq(STRING) /\ fd \in Seq(STRING) BY <1>3, <1>9
  <2> HIDE DEF fb, fd
  <2>2. t \o (fb \o fd) = (t \o fb) \o fd BY SMTT(60), <2>1, ConcatAssociative
  <2> QED BY <1>4, <1>6, <1>8, <2>2 DEF fb, fd
<1>12. Pre(ps, i) \in Strings BY <1>3, <1>5, <1>9, ConcatProperties DEF Strings
<1> QED BY <1>1, <1>9, <1>10, <1>11, <1>12 DEF Strings, x

\* Parameter i is the part of all that is k long and comes after n symbols.
IsPlace(ps, i, all, n, k) ==
  /\ n \in Nat /\ k \in 0..Most /\ all \in Strings /\ Len(all) >= n + k + 6
  /\ Len(Pre(ps, i + 1)) = n + k + 6
  /\ all[n + 2] = Numerals[k]
  /\ \A j \in 1..k : all[n + 4 + j] = ps[i][j]

\* Where parameter i stands in bytes that begin with the request.
LEMMA Place ==
  ASSUME NEW ps \in Seq(ParamSet), Len(ps) <= Most, NEW i \in 1..Len(ps), NEW rest \in Strings
  PROVE  IsPlace(ps, i, Encode(ps) \o rest, Len(Pre(ps, i)), Len(ps[i]))
<1> DEFINE a == Pre(ps, i)
           p == Piece(ps[i])
           n == Len(Pre(ps, i))
           k == Len(ps[i])
           all == Encode(ps) \o rest
<1>1. a \in Seq(STRING) /\ ps[i] \in ParamSet /\ Pre(ps, i + 1) = a \o p BY PreNext DEF Strings
<1>2. PICK z \in Seq(STRING) : Encode(ps) = Pre(ps, i + 1) \o z BY PreNext DEF Strings
<1>3. /\ p \in Seq(STRING) /\ Len(p) = k + 6 /\ k \in 0..Most /\ p[2] = Numerals[k]
      /\ \A j \in 1..k : p[4 + j] = ps[i][j]
  <2>1. ps[i] \in ParamSet BY <1>1
  <2> QED BY <2>1, PieceIs DEF Strings
<1>30. k \in Nat BY <1>3, NumeralAssumption
<1>4. n \in Nat BY <1>1, LenProperties
<1>5. rest \in Seq(STRING) BY DEF Strings
<1> DEFINE b == a \o p
           y == z \o rest
<1>6. /\ b \in Seq(STRING) /\ Len(b) = Len(a) + Len(p)
      /\ \A j \in 1..(Len(a) + Len(p)) : b[j] = IF j <= Len(a) THEN a[j] ELSE p[j - Len(a)]
  <2>1. a \in Seq(STRING) /\ p \in Seq(STRING) BY <1>1, <1>3
  <2> HIDE DEF a, p
  <2> QED BY <2>1, ConcatProperties
<1>7. y \in Seq(STRING) /\ Len(y) \in Nat BY <1>2, <1>5, ConcatProperties, LenProperties
<1>8. all = b \o y
  <2>1. b \in Seq(STRING) /\ Encode(ps) = b \o z BY <1>1, <1>2, <1>6
  <2> HIDE DEF b
  <2>2. (b \o z) \o rest = b \o (z \o rest) BY SMTT(60), <1>5, <2>1, ConcatAssociative
  <2> QED BY <2>1, <2>2
<1>9. /\ all \in Seq(STRING) /\ Len(all) = Len(b) + Len(y)
      /\ \A j \in 1..(Len(b) + Len(y)) : all[j] = IF j <= Len(b) THEN b[j] ELSE y[j - Len(b)]
  <2>1. b \in Seq(STRING) /\ y \in Seq(STRING) BY <1>6, <1>7
  <2> HIDE DEF b, y, all
  <2> QED BY <1>8, <2>1, ConcatProperties
<1> HIDE DEF a, b, y, all, p
<1>10. Len(a) = n /\ Len(b) = n + k + 6 BY <1>3, <1>4, <1>6, <1>30 DEF a
<1> HIDE DEF n, k
<1>11. \A j \in 1..(k + 6) : all[n + j] = p[j]
  <2> SUFFICES ASSUME NEW j \in 1..(k + 6) PROVE all[n + j] = p[j] OBVIOUS
  <2> DEFINE w == n + j
  <2>1. w \in 1..Len(b) /\ w \in 1..(Len(b) + Len(y)) /\ w <= Len(b)
        /\ w \in 1..(Len(a) + Len(p)) /\ ~ (w <= Len(a)) /\ w - Len(a) = j
    BY <1>3, <1>4, <1>7, <1>10, <1>30
  <2> HIDE DEF w
  <2>2. all[w] = b[w] BY <1>9, <2>1
  <2>3. b[w] = p[w - Len(a)] BY <1>6, <2>1
  <2>4. all[w] = p[j] BY <2>1, <2>2, <2>3
  <2> QED BY <2>4 DEF w
<1>12. 2 \in 1..(k + 6) /\ \A j \in 1..k : 4 + j \in 1..(k + 6) /\ n + (4 + j) = n + 4 + j
  BY <1>30, <1>4
<1>13. all[n + 2] = Numerals[k] BY <1>3, <1>11, <1>12
<1>14. \A j \in 1..k : all[n + 4 + j] = ps[i][j]
  <2> SUFFICES ASSUME NEW j \in 1..k PROVE all[n + 4 + j] = ps[i][j] OBVIOUS
  <2>1. 4 + j \in 1..(k + 6) /\ n + (4 + j) = n + 4 + j BY <1>12
  <2>2. all[n + (4 + j)] = p[4 + j] BY <1>11, <2>1
  <2> QED BY <1>3, <2>1, <2>2
<1>15. Len(all) >= n + k + 6 BY <1>4, <1>7, <1>9, <1>10, <1>30
<1>16. Len(Pre(ps, i + 1)) = n + k + 6 BY <1>1, <1>10 DEF b
<1> QED BY <1>3, <1>4, <1>9, <1>13, <1>14, <1>15, <1>16 DEF Strings, IsPlace, n, k, all

-----------------------------------------------------------------------------
(* What the server makes of it                                             *)

\* What follows a place in the bytes.
LEMMA ParamEndInt ==
  ASSUME NEW s, NEW p \in Int PROVE ParamEnd(s, p) \in Int
<1> DEFINE w == <<s[p + 1]>>
           end == p + Number(s[p + 1]) + 6
<1>1. Numeric(w) => end \in Int
  <2>1. Numeric(w) => Number(w[1]) \in -1..Most /\ w[1] = s[p + 1] BY NumericIs
  <2>2. Numeric(w) => Number(s[p + 1]) \in Int BY <2>1, NumeralAssumption
  <2> QED BY <2>2
<1> HIDE DEF end, w
<1>2. ParamEnd(s, p) = IF p = 0 \/ Len(s) < p + 3 \/ ~Numeric(w) THEN 0
                       ELSE IF Len(s) < end - 1 THEN 0 ELSE end
  BY DEF ParamEnd, end, w
<1> QED BY <1>1, <1>2

\* The places in turn.
LEMMA ParamAtIs ==
  ASSUME NEW s, NEW n \in Nat \ {0}
  PROVE  ParamAt(s, n)[1] = 5 /\ \A i \in 2..n : ParamAt(s, n)[i] = ParamEnd(s, ParamAt(s, n)[i - 1])
<1> DEFINE Is(f) == f = [i \in 1..n |-> IF i = 1 THEN 5
                           ELSE CHOOSE end \in {ParamEnd(s, p) : p \in {f[i - 1]}} : TRUE]
           step == [x \in (1..n) \X Int |-> ParamEnd(s, x[2])]
<1>1. IsStep(step, n, Int) BY ParamEndInt DEF IsStep
<1>2. PICK g : g \in [1..n -> Int] /\ IsRecursive(g, n, 5, step)
  <2> HIDE DEF step, Is
  <2>1. 5 \in Int OBVIOUS
  <2> DEFINE V == Int
  <2>2. 5 \in V /\ IsStep(step, n, V) BY <1>1, <2>1
  <2> HIDE DEF V
  <2>3. \E f : f \in [1..n -> V] /\ IsRecursive(f, n, 5, step) BY <2>2, Recursion
  <2> QED BY <2>3 DEF V
<1>3. \A e : (CHOOSE end \in {e} : TRUE) = e OBVIOUS
<1>4. \A x : {ParamEnd(s, p) : p \in {x}} = {ParamEnd(s, x)} OBVIOUS
<1>5. \A f, i : (CHOOSE end \in {ParamEnd(s, p) : p \in {f[i - 1]}} : TRUE) = ParamEnd(s, f[i - 1])
  BY <1>3, <1>4
<1>6. \A f : Is(f) <=> f = [i \in 1..n |-> IF i = 1 THEN 5 ELSE ParamEnd(s, f[i - 1])]
  BY <1>5
<1> HIDE DEF Is
<1>7. Is(g)
  <2>1. \A i \in 2..n : g[i] = ParamEnd(s, g[i - 1])
    <3> SUFFICES ASSUME NEW i \in 2..n PROVE g[i] = ParamEnd(s, g[i - 1]) OBVIOUS
    <3>1. i - 1 \in 1..n /\ i \in 1..n OBVIOUS
    <3>2. <<i, g[i - 1]>> \in (1..n) \X Int BY <1>2, <3>1
    <3>3. step[<<i, g[i - 1]>>] = ParamEnd(s, g[i - 1]) BY <3>2
    <3> HIDE DEF step
    <3> QED BY <1>2, <3>3 DEF IsRecursive
  <2>2. \A i \in 1..n : g[i] = IF i = 1 THEN 5 ELSE ParamEnd(s, g[i - 1])
    <3> SUFFICES ASSUME NEW i \in 1..n PROVE g[i] = IF i = 1 THEN 5 ELSE ParamEnd(s, g[i - 1])
      OBVIOUS
    <3>1. i = 1 \/ i \in 2..n OBVIOUS
    <3>2. g[1] = 5 BY <1>2 DEF IsRecursive
    <3> HIDE DEF step
    <3> QED BY <2>1, <3>1, <3>2
  <2>3. g = [i \in 1..n |-> g[i]] BY <1>2
  <2> HIDE DEF step
  <2> QED BY <1>6, <2>2, <2>3
<1> DEFINE h == CHOOSE f : Is(f)
<1>8. Is(h) BY <1>7
<1>9. ParamAt(s, n) = h BY DEF ParamAt, Is, h
<1> HIDE DEF h
<1>10. \A i \in 1..n : h[i] = IF i = 1 THEN 5 ELSE ParamEnd(s, h[i - 1]) BY <1>6, <1>8
<1>11. 1 \in 1..n /\ \A i \in 2..n : i \in 1..n /\ i # 1 OBVIOUS
<1>12. h[1] = 5 BY <1>10, <1>11
<1>13. \A i \in 2..n : h[i] = ParamEnd(s, h[i - 1]) BY <1>10, <1>11
<1> QED BY <1>9, <1>12, <1>13

\* The element of a beginning.
LEMMA StartsAre ==
  ASSUME NEW S, NEW a \in Seq(S), NEW b \in Seq(S), Starts(a, b)
  PROVE  Len(a) <= Len(b) /\ Len(a) \in Nat /\ \A i \in 1..Len(a) : a[i] = b[i]
<1>0. Len(a) \in Nat /\ Len(b) \in Nat BY LenProperties
<1>1. Len(a) <= Len(b) /\ a = SubSeq(b, 1, Len(a)) BY DEF Starts
<1>2. Len(a) \in 0..Len(b) BY <1>0, <1>1
<1>3. \A i \in 1..Len(a) : SubSeq(b, 1, Len(a))[i] = b[i] BY <1>2, CutAt
<1> QED BY <1>0, <1>1, <1>3

\* What the server reads out of bytes that begin with a request, or are the
\* beginning of one.
LEMMA FirstCommandIs ==
  ASSUME NEW ps \in Seq(ParamSet), Len(ps) \in 1..Most, NEW rest \in Strings, NEW s \in Strings,
         Starts(s, Encode(ps) \o rest), FirstCommand(s).ok
  PROVE  FirstCommand(s).args = ps /\ FirstCommand(s).next = Len(Encode(ps)) + 1
         /\ Len(Encode(ps)) <= Len(s)
<1> DEFINE N == Len(ps)
           all == Encode(ps) \o rest
           n == IF Len(s) < 4 THEN 0 ELSE Number(s[2])
           at == ParamAt(s, n + 1)
<1>0. N \in Nat /\ N \in 1..Most /\ N \in 0..Most /\ N <= Most /\ Len(s) \in Nat
  BY LenProperties, NumeralAssumption DEF Strings
<1>1. /\ n # 0 /\ at[n + 1] # 0
      /\ FirstCommand(s).args = [i \in 1..n |-> SubSeq(s, at[i] + 4, at[i + 1] - 3)]
      /\ FirstCommand(s).next = at[n + 1]
  <2>1. FirstCommand(s) = IF n = 0 \/ at[n + 1] = 0 THEN [ok |-> FALSE]
      ELSE [ok   |-> TRUE,
            args |-> [i \in 1..n |-> SubSeq(s, at[i] + 4, at[i + 1] - 3)],
            next |-> at[n + 1]]
    BY DEF FirstCommand
  <2> HIDE DEF n, at
  <2>2. ~(n = 0 \/ at[n + 1] = 0) BY <2>1
  <2> QED BY <2>1, <2>2
<1>2. all \in Seq(STRING) /\ s \in Seq(STRING) /\ Encode(ps) \in Seq(STRING) /\ Len(Encode(ps)) \in Nat
      /\ Len(Encode(ps)) >= 4
  <2>1. Encode(ps) \in Seq(STRING) /\ Len(Encode(ps)) >= 4 BY <1>0, EncodeType DEF Strings
  <2>2. rest \in Seq(STRING) BY DEF Strings
  <2> QED BY <2>1, <2>2, ConcatProperties, LenProperties DEF Strings
<1>3. Len(s) <= Len(all) /\ \A i \in 1..Len(s) : s[i] = all[i]
  <2> HIDE DEF all
  <2> QED BY <1>2, StartsAre DEF all
<1>4. n = N
  <2>1. Len(s) >= 4 /\ n = Number(s[2]) BY <1>0, <1>1
  <2>2. s[2] = all[2] BY <1>0, <1>3, <2>1
  <2>3. all[2] = Numerals[N]
    <3> DEFINE f == FlatOf(PieceOf, ps)
               t == Top(N)
    <3>1. f \in Seq(STRING) /\ t \in Seq(STRING) /\ Len(t) = 4 /\ t[2] = Numerals[N]
      BY <1>0, TopIs, FlatOfIs, PieceOfWrites DEF Strings
    <3>2. Encode(ps) = t \o f BY EncodeIs
    <3>3. Len(f) \in Nat BY <3>1, LenProperties
    <3>4. rest \in Seq(STRING) /\ Len(rest) \in Nat BY LenProperties DEF Strings
    <3> DEFINE e == Encode(ps)
    <3>5. e \in Seq(STRING) BY <1>2
    <3> HIDE DEF f, t, N, e
    <3>6. Len(t \o f) = Len(t) + Len(f)
          /\ \A i \in 1..(Len(t) + Len(f)) : (t \o f)[i] = IF i <= Len(t) THEN t[i] ELSE f[i - Len(t)]
      <4>1. t \in Seq(STRING) /\ f \in Seq(STRING) BY <3>1
      <4> QED BY <4>1, ConcatProperties
    <3>7. 2 \in 1..(Len(t) + Len(f)) /\ 2 <= Len(t) BY <3>1, <3>3
    <3>8. e[2] = t[2] /\ Len(e) >= 4 BY <3>1, <3>2, <3>3, <3>6, <3>7 DEF e
    <3>9. \A i \in 1..(Len(e) + Len(rest)) :
            (e \o rest)[i] = IF i <= Len(e) THEN e[i] ELSE rest[i - Len(e)]
      <4>1. e \in Seq(STRING) /\ rest \in Seq(STRING) BY <3>4, <3>5
      <4> QED BY <4>1, ConcatProperties
    <3>11. Len(e) \in Nat BY <3>5, LenProperties
    <3>12. 2 \in 1..(Len(e) + Len(rest)) /\ 2 <= Len(e) BY <3>4, <3>8, <3>11
    <3>13. (e \o rest)[2] = e[2] BY <3>9, <3>12
    <3> QED BY <3>1, <3>8, <3>13 DEF e
  <2>4. Number(Numerals[N]) = N BY <1>0, NumeralIs
  <2> HIDE DEF all, n, N
  <2> QED BY <2>1, <2>2, <2>3, <2>4
<1>5. at[1] = 5 /\ \A i \in 2..(N + 1) : at[i] = ParamEnd(s, at[i - 1])
  <2>1. n + 1 \in Nat \ {0} BY <1>0, <1>4
  <2>2. \A k \in Nat \ {0} : ParamAt(s, k)[1] = 5
          /\ \A i \in 2..k : ParamAt(s, k)[i] = ParamEnd(s, ParamAt(s, k)[i - 1])
    BY ParamAtIs
  <2>3. at[1] = 5 /\ \A i \in 2..(n + 1) : at[i] = ParamEnd(s, at[i - 1])
    <3> HIDE DEF n
    <3> QED BY <2>1, <2>2
  <2> HIDE DEF at, n, N
  <2> QED BY <1>4, <2>3
<1>6. at[N + 1] # 0
  <2> HIDE DEF at, n, N
  <2> QED BY <1>1, <1>4
<1> DEFINE P(i) == Len(Pre(ps, i)) + 1
<1>7. ASSUME NEW i \in 1..N, at[i] = P(i), at[i + 1] # 0
      PROVE  /\ at[i + 1] = P(i + 1) /\ SubSeq(s, at[i] + 4, at[i + 1] - 3) = ps[i]
             /\ at[i + 1] - 1 <= Len(s)
  <2> DEFINE m == Len(Pre(ps, i))
             k == Len(ps[i])
             p == at[i]
             q == at[i + 1]
  <2>1. /\ m \in Nat /\ k \in 0..Most /\ Len(all) >= m + k + 6
        /\ Len(Pre(ps, i + 1)) = m + k + 6 /\ all[m + 2] = Numerals[k]
        /\ \A j \in 1..k : all[m + 4 + j] = ps[i][j]
    <3>1. Len(ps) <= Most /\ i \in 1..Len(ps) BY <1>0
    <3>2. IsPlace(ps, i, all, m, k) BY <3>1, Place
    <3> HIDE DEF all, m, k, at, N
    <3> QED BY <3>2 DEF IsPlace
  <2>2. p = m + 1 /\ k \in Nat BY <1>7, <2>1, NumeralAssumption
  <2>3. q = ParamEnd(s, p)
    <3>1. i + 1 \in 2..(N + 1) /\ i + 1 - 1 = i BY <1>0
    <3>2. \A j \in 2..(N + 1) : at[j] = ParamEnd(s, at[j - 1]) BY <1>5
    <3> DEFINE j == i + 1
    <3>3. j \in 2..(N + 1) /\ j - 1 = i BY <3>1
    <3> HIDE DEF at, N, j
    <3>4. at[j] = ParamEnd(s, at[j - 1]) BY <3>2, <3>3
    <3> QED BY <3>3, <3>4 DEF j
  <2>4. q # 0 BY <1>7
  <2> DEFINE x == Number(s[p + 1])
             end == p + x + 6
  <2>5. p # 0 /\ Len(s) >= p + 3 /\ ~ (Len(s) < end - 1) /\ q = end
    <3>1. p \in Int BY <2>1, <2>2
    <3> DEFINE w == <<s[p + 1]>>
    <3>2. ParamEnd(s, p) = IF p = 0 \/ Len(s) < p + 3 \/ ~Numeric(w) THEN 0
                           ELSE IF Len(s) < end - 1 THEN 0 ELSE end
      BY DEF ParamEnd
    <3> HIDE DEF p, q, w, end
    <3>3. p # 0 /\ ~ (Len(s) < p + 3) /\ ~ (Len(s) < end - 1) /\ q = end
      BY <2>3, <2>4, <3>2
    <3>4. Len(s) >= p + 3 BY <1>0, <3>1, <3>3
    <3> QED BY <3>3, <3>4
  <2>6. s[p + 1] = Numerals[k]
    <3>1. p + 1 \in 1..Len(s) /\ p + 1 = m + 2
      <4> HIDE DEF p, q, m
      <4> QED BY <1>0, <2>1, <2>2, <2>5
    <3> DEFINE w == p + 1
    <3>2. w \in 1..Len(s) /\ w = m + 2 BY <3>1
    <3> HIDE DEF all, w, p, m, k
    <3>3. s[w] = all[w] BY <1>3, <3>2
    <3>4. all[w] = Numerals[k] BY <2>1, <3>2
    <3> QED BY <3>3, <3>4 DEF w
  <2>7. x = k /\ end = m + k + 7
    <3>1. Number(Numerals[k]) = k BY <2>1, NumeralIs
    <3>2. x = k
      <4> HIDE DEF p, k
      <4> QED BY <2>6, <3>1
    <3>3. m \in Nat BY <2>1
    <3> HIDE DEF x, p, k, m
    <3> QED BY <2>2, <3>2, <3>3
  <2>8. q = m + k + 7 /\ Len(s) >= m + k + 6
    <3>1. m \in Nat BY <2>1
    <3> HIDE DEF p, q, m, k, end
    <3> QED BY <1>0, <2>2, <2>5, <2>7, <3>1
  <2>80. m \in Nat /\ k \in Nat /\ p = m + 1 /\ q = m + k + 7 BY <2>1, <2>2, <2>8
  <2>81. Len(Pre(ps, i + 1)) = m + k + 6 BY <2>1
  <2>9. SubSeq(s, p + 4, q - 3) = ps[i]
    <3> DEFINE a == m + 5
               b == m + k + 4
               v == SubSeq(s, a, b)
    <3>1. a \in Int /\ b \in Int /\ p + 4 = a /\ q - 3 = b
      <4> HIDE DEF p, q, m, k, all
      <4> QED BY <2>80
    <3>2. \A j \in a..b : j \in 1..Len(s)
      <4> HIDE DEF m, k
      <4> QED BY <1>0, <2>1, <2>2, <2>8
    <3>3. \A j \in a..b : s[j] \in STRING
      <4>1. s \in Seq(STRING) BY <1>2
      <4> HIDE DEF a, b
      <4> QED BY <3>2, <4>1, ElementOfSeq
    <3>4. b - a + 1 = k /\ \A j \in 1..k : a + j - 1 = m + 4 + j /\ m + 4 + j \in a..b
      <4> HIDE DEF m, k
      <4> QED BY SMTT(60), <2>1, <2>2
    <3>5. v \in Seq(STRING) /\ Len(v) = (IF a <= b THEN b - a + 1 ELSE 0)
          /\ \A j \in 1..(b - a + 1) : v[j] = s[a + j - 1]
      <4> HIDE DEF a, b
      <4> QED BY <3>1, <3>3, SubSeqProperties
    <3>6. Len(v) = k
      <4>1. ~ (a <= b) => k = 0
        <5> HIDE DEF m, k
        <5> QED BY <2>1, <2>2
      <4> HIDE DEF v, a, b, k
      <4> QED BY <3>4, <3>5, <4>1
    <3>7. \A j \in 1..k : v[j] = ps[i][j]
      <4> SUFFICES ASSUME NEW j \in 1..k PROVE v[j] = ps[i][j] OBVIOUS
      <4> DEFINE w == m + 4 + j
      <4>1. w \in a..b /\ a + j - 1 = w BY <3>4
      <4>2. j \in 1..(b - a + 1) BY <3>4
      <4>3. all[w] = ps[i][j] BY <2>1
      <4> HIDE DEF v, a, b, k, w, all
      <4>4. v[j] = s[w] BY <3>5, <4>1, <4>2
      <4>5. s[w] = all[w] BY <1>3, <3>2, <4>1
      <4> QED BY <4>3, <4>4, <4>5
    <3>8. ps[i] \in Seq(STRING)
      <4>1. ps[i] \in ParamSet BY ElementOfSeq
      <4> QED BY <4>1 DEF ParamSet, Strings
    <3>9. v = ps[i]
      <4>1. v \in Seq(STRING) /\ Len(v) = Len(ps[i]) /\ \A j \in 1..Len(v) : v[j] = ps[i][j]
        <5> HIDE DEF v
        <5> QED BY <3>5, <3>6, <3>7
      <4> HIDE DEF v
      <4> QED BY <3>8, <4>1, SeqEqual
    <3> HIDE DEF p, q, m, k
    <3> QED BY <3>1, <3>9
  <2>10. q = P(i + 1)
    <3> HIDE DEF q, m, k, all, p
    <3> QED BY <2>80, <2>81
  <2>11. q - 1 <= Len(s)
    <3> HIDE DEF q, m, k
    <3> QED BY <1>0, <2>1, <2>2, <2>8
  <2> HIDE DEF p, q, m, k, at
  <2> QED BY <2>9, <2>10, <2>11 DEF p, q
<1>8. \A i \in 1..N : at[i + 1] # 0 => at[i] # 0
  <2> SUFFICES ASSUME NEW i \in 1..N, at[i] = 0 PROVE at[i + 1] = 0 OBVIOUS
  <2> DEFINE j == i + 1
  <2>1. j \in 2..(N + 1) /\ j - 1 = i BY <1>0
  <2> HIDE DEF at, N, j
  <2>2. at[j] = ParamEnd(s, at[i]) BY <1>5, <2>1
  <2>3. ParamEnd(s, 0) = 0 BY DEF ParamEnd
  <2> QED BY <2>2, <2>3 DEF j
<1> DEFINE Bad == {k \in Nat : k <= N /\ at[N + 1 - k] = 0}
           Odd == {k \in Nat : k \in 1..(N + 1) /\ at[k] # P(k)}
<1>9. \A i \in 1..(N + 1) : at[i] # 0
  <2> SUFFICES ASSUME NEW i \in 1..(N + 1), at[i] = 0 PROVE FALSE OBVIOUS
  <2>1. N + 1 - i \in Bad
    <3> DEFINE k == N + 1 - i
    <3>1. k \in Nat /\ k <= N /\ N + 1 - k = i BY <1>0
    <3> HIDE DEF at, N, k
    <3>2. k \in Bad BY <3>1
    <3> QED BY <3>2 DEF k
  <2>2. Bad # {} /\ Bad \in SUBSET Nat BY <2>1
  <2>3. PICK k \in Bad : \A j \in Bad : k <= j
    <3> HIDE DEF Bad
    <3> QED BY <2>2, LeastNumber
  <2> HIDE DEF at, N
  <2>4. k \in Nat /\ k <= N /\ at[N + 1 - k] = 0 OBVIOUS
  <2>5. k # 0 BY <1>0, <1>6, <2>4
  <2>6. k - 1 \in Nat /\ k - 1 <= N /\ N + 1 - k \in 1..N /\ N + 1 - k + 1 = N + 1 - (k - 1)
    BY <1>0, <2>4, <2>5
  <2>7. at[N + 1 - (k - 1)] = 0 BY <1>8, <2>4, <2>6
  <2>8. k - 1 \in Bad BY <2>6, <2>7
  <2>9. ~ (k <= k - 1) BY <2>4
  <2> HIDE DEF Bad
  <2> QED BY <2>3, <2>8, <2>9
<1>90. P(1) = 5
  <2> DEFINE l == Len(Pre(ps, 1))
  <2>1. l = 4 BY <1>0, PreFirst
  <2>2. P(1) = l + 1 OBVIOUS
  <2> HIDE DEF l, P
  <2> QED BY <2>1, <2>2
<1>10. \A i \in 1..(N + 1) : at[i] = P(i)
  <2> SUFFICES ASSUME NEW i \in 1..(N + 1), at[i] # P(i) PROVE FALSE OBVIOUS
  <2> HIDE DEF at, N, P
  <2>1. i \in Odd BY <1>0
  <2>2. Odd # {} /\ Odd \in SUBSET Nat BY <2>1
  <2>3. PICK k \in Odd : \A j \in Odd : k <= j
    <3> HIDE DEF Odd
    <3> QED BY <2>2, LeastNumber
  <2>4. k \in Nat /\ k \in 1..(N + 1) /\ at[k] # P(k) OBVIOUS
  <2>5. k # 1 BY <1>5, <1>90, <2>4
  <2> DEFINE j == k - 1
  <2>6. j \in Nat /\ j \in 1..N /\ j \in 1..(N + 1) /\ j + 1 = k /\ ~ (k <= j) BY <1>0, <2>4, <2>5
  <2> HIDE DEF j
  <2>7. j \notin Odd
    <3> HIDE DEF Odd
    <3> QED BY <2>3, <2>6
  <2>8. at[j] = P(j) BY <2>6, <2>7
  <2>9. at[j + 1] # 0 BY <1>9, <2>4, <2>6
  <2>10. at[j + 1] = P(j + 1) BY <1>7, <2>6, <2>8, <2>9
  <2> QED BY <2>4, <2>6, <2>10
<1>11. at[N + 1] = Len(Encode(ps)) + 1
  <2>1. P(N + 1) = Len(Encode(ps)) + 1 BY <1>0, PreFirst
  <2>2. N + 1 \in 1..(N + 1) BY <1>0
  <2> HIDE DEF at, N, P
  <2> QED BY <1>10, <2>1, <2>2
<1>12. \A i \in 1..N : SubSeq(s, at[i] + 4, at[i + 1] - 3) = ps[i] /\ at[i + 1] - 1 <= Len(s)
  <2> SUFFICES ASSUME NEW i \in 1..N
               PROVE  SubSeq(s, at[i] + 4, at[i + 1] - 3) = ps[i] /\ at[i + 1] - 1 <= Len(s)
    OBVIOUS
  <2>1. i \in 1..(N + 1) /\ i + 1 \in 1..(N + 1) BY <1>0
  <2> HIDE DEF at, N, P
  <2> QED BY <1>7, <1>9, <1>10, <2>1
<1>13. FirstCommand(s).args = ps
  <2>1. FirstCommand(s).args = [i \in 1..N |-> SubSeq(s, at[i] + 4, at[i + 1] - 3)]
    <3> HIDE DEF at, N, n
    <3> QED BY <1>1, <1>4
  <2>2. [i \in 1..N |-> SubSeq(s, at[i] + 4, at[i + 1] - 3)] = [i \in 1..N |-> ps[i]]
    <3> HIDE DEF at, N
    <3> QED BY <1>12
  <2>3. ps = [i \in 1..N |-> ps[i]] BY SeqDef
  <2> QED BY <2>1, <2>2, <2>3
<1>14. FirstCommand(s).next = Len(Encode(ps)) + 1
  <2> HIDE DEF at, N, n
  <2> QED BY <1>1, <1>4, <1>11
<1>15. Len(Encode(ps)) <= Len(s)
  <2>1. N \in 1..N BY <1>0
  <2>2. at[N + 1] - 1 <= Len(s)
    <3> HIDE DEF at, N
    <3> QED BY <1>12, <2>1
  <2> HIDE DEF at, N, n
  <2> QED BY <1>2, <1>11, <2>2
<1> QED BY <1>13, <1>14, <1>15

-----------------------------------------------------------------------------
(* Replies and their bytes                                                 *)

\* What the server may say.
LineReplies == [t : {"status", "error", "int", "header"}, v : {w \in Strings : Plain(w) /\ w # <<>>}]
Texts == [t : {"bulk"}, v : ParamSet]
BulkReplies == {Nil} \cup Texts
Multis == [t : {"multi"}, v : {b \in Seq(BulkReplies) : Len(b) <= Most}]
Replies == LineReplies \cup BulkReplies \cup {NilMulti} \cup Multis

\* The first line of a reply, and what comes after it.
Mark(r) == CASE r.t = "status" -> "+" [] r.t = "error" -> "-" [] r.t = "int" -> ":"
             [] r.t \in {"bulk", "nil"} -> "$" [] OTHER -> "*"
Told(r) == IF r.t \in {"status", "error", "int", "header"} THEN r.v
           ELSE IF r.t \in {"nil", "nilmulti"} THEN <<"-1">> ELSE <<Numerals[Len(r.v)]>>

ElementOf == [b \in BulkReplies |-> BulkBytes(b)]
Elements(bs) == FlatOf(ElementOf, bs)

Body(r) == IF r.t = "bulk" THEN r.v \o EOL
           ELSE IF r.t = "multi" THEN Elements(r.v) ELSE <<>>

LineOf(r) == <<Mark(r)>> \o Told(r)

\* A word is a sequence of one symbol.
LEMMA WordIs ==
  ASSUME NEW x \in STRING
  PROVE  <<x>> \in Strings /\ Len(<<x>>) = 1 /\ <<x>>[1] = x
<1>1. ASSUME NEW S, NEW y \in S PROVE <<y>> \in Seq(S) /\ Len(<<y>>) = 1 /\ <<y>>[1] = y
  OBVIOUS
<1> QED BY <1>1, Zenon DEF Strings

\* Concatenation adds the lengths.
LEMMA StringsConcat ==
  ASSUME NEW a \in Strings, NEW b \in Strings
  PROVE  a \o b \in Strings /\ Len(a \o b) = Len(a) + Len(b) /\ Len(a) \in Nat /\ Len(b) \in Nat
BY ConcatProperties, LenProperties DEF Strings

\* Concatenation is associative.
LEMMA StringsAssociative ==
  ASSUME NEW a \in Strings, NEW b \in Strings, NEW c \in Strings
  PROVE  (a \o b) \o c = a \o (b \o c)
BY ConcatAssociative DEF Strings

\* A line without the line end.
LEMMA LineOfMark ==
  ASSUME NEW c \in STRING, c \notin {"CR", "LF"}, NEW v \in Strings, Plain(v)
  PROVE  LET l == <<c>> \o v
         IN  /\ l \in Strings /\ l # <<>> /\ l[1] = c /\ Tail(l) = v /\ Plain(l)
             /\ LineBytes(c, v) = l \o EOL
<1> DEFINE a == <<c>>
           l == a \o v
<1>1. a \in Seq(STRING) /\ Len(a) = 1 /\ a[1] = c /\ v \in Seq(STRING) /\ Len(v) \in Nat
  BY LenProperties DEF Strings
<1> HIDE DEF a
<1>2. /\ l \in Seq(STRING) /\ Len(l) = Len(a) + Len(v)
      /\ \A i \in 1..(Len(a) + Len(v)) : l[i] = IF i <= Len(a) THEN a[i] ELSE v[i - Len(a)]
  <2>1. a \in Seq(STRING) /\ v \in Seq(STRING) BY <1>1
  <2> QED BY <2>1, ConcatProperties
<1> HIDE DEF l
<1>3. Len(l) = 1 + Len(v) /\ 1 \in 1..(1 + Len(v)) /\ l # <<>> BY <1>1, <1>2, EmptySeq
<1>4. l[1] = c BY <1>1, <1>2, <1>3
<1>5. \A i \in 1..Len(v) : l[i + 1] = v[i]
  <2> SUFFICES ASSUME NEW i \in 1..Len(v) PROVE l[i + 1] = v[i] OBVIOUS
  <2> DEFINE j == i + 1
  <2>1. j \in 1..(Len(a) + Len(v)) /\ ~ (j <= Len(a)) /\ j - Len(a) = i BY <1>1
  <2> HIDE DEF j
  <2>2. l[j] = v[j - Len(a)] BY <1>2, <2>1
  <2>3. l[j] = v[i] BY <2>1, <2>2
  <2> QED BY <2>3 DEF j
<1>6. Tail(l) = v
  <2>1. Tail(l) \in Seq(STRING) /\ Len(Tail(l)) = Len(l) - 1
        /\ \A i \in 1..Len(Tail(l)) : Tail(l)[i] = l[i + 1]
    BY <1>2, <1>3, HeadTailProperties
  <2>2. Len(Tail(l)) = Len(v) BY <1>1, <1>3, <2>1
  <2>3. \A i \in 1..Len(Tail(l)) : Tail(l)[i] = v[i] BY <1>5, <2>1, <2>2
  <2> DEFINE t == Tail(l)
  <2>4. t \in Seq(STRING) /\ Len(t) = Len(v) /\ \A i \in 1..Len(t) : t[i] = v[i]
    BY <2>1, <2>2, <2>3
  <2> HIDE DEF t
  <2>5. t = v BY <1>1, <2>4, SeqEqual
  <2> QED BY <2>5 DEF t
<1>7. Plain(l)
  <2> SUFFICES ASSUME NEW i \in 1..Len(l) PROVE l[i] \notin {"CR", "LF"} BY DEF Plain
  <2> DEFINE j == i - 1
  <2>1. i = 1 \/ (j \in 1..Len(v) /\ i = j + 1) BY <1>1, <1>3
  <2> HIDE DEF j
  <2>2. CASE i = 1 BY <1>4, <2>2
  <2>3. CASE j \in 1..Len(v) /\ i = j + 1
    <3>1. l[i] = v[j] BY <1>5, <2>3
    <3> QED BY <2>3, <3>1 DEF Plain
  <2> QED BY <2>1, <2>2, <2>3
<1> QED BY <1>2, <1>3, <1>4, <1>6, <1>7 DEF a, l, Strings, LineBytes

\* Taking the line end off a line leaves the line.
LEMMA RTrimIs ==
  ASSUME NEW h \in Strings, Plain(h)
  PROVE  RTrim(h \o EOL, {"CR", "LF"}) = h
<1> DEFINE e == h \o EOL
           ws == {"CR", "LF"}
           n == Len(h)
           ends == {k \in 0..Len(e) : \A i \in (k + 1)..Len(e) : e[i] \in ws}
<1>0. h \in Seq(STRING) /\ EOL \in Seq(STRING) /\ n \in Nat BY LineEnd, LenProperties DEF Strings
<1>1. /\ e \in Seq(STRING) /\ Len(e) = Len(h) + Len(EOL)
      /\ \A i \in 1..(Len(h) + Len(EOL)) : e[i] = IF i <= Len(h) THEN h[i] ELSE EOL[i - Len(h)]
  <2>1. h \in Seq(STRING) /\ EOL \in Seq(STRING) BY <1>0
  <2> QED BY <2>1, ConcatProperties
<1>2. SubSeq(e, 1, Len(h)) = h
  <2>1. h \in Seq(STRING) /\ EOL \in Seq(STRING) BY <1>0
  <2> QED BY <2>1, CutConcat
<1> HIDE DEF e
<1>3. Len(e) = n + 2 BY <1>1, LineEnd
<1>4. \A i \in (n + 1)..Len(e) : e[i] \in ws
  <2> SUFFICES ASSUME NEW i \in (n + 1)..Len(e) PROVE e[i] \in ws OBVIOUS
  <2>1. i \in 1..(Len(h) + Len(EOL)) /\ ~ (i <= Len(h)) /\ (i - Len(h) = 1 \/ i - Len(h) = 2)
    BY <1>0, <1>1, <1>3, LineEnd
  <2>2. e[i] = EOL[i - Len(h)] BY <1>1, <2>1
  <2> QED BY <2>1, <2>2, LineEnd
<1>5. \A i \in 1..n : e[i] \notin ws
  <2> SUFFICES ASSUME NEW i \in 1..n PROVE e[i] \notin ws OBVIOUS
  <2>1. i \in 1..(Len(h) + Len(EOL)) /\ i <= Len(h) BY <1>0, <1>1, <1>3
  <2>2. e[i] = h[i] BY <1>1, <2>1
  <2> QED BY <2>2 DEF Plain
<1> HIDE DEF n, ws
<1>6. n \in ends BY <1>0, <1>3, <1>4
<1>7. \A m \in ends : n <= m
  <2> SUFFICES ASSUME NEW m \in ends, ~ (n <= m) PROVE FALSE OBVIOUS
  <2>1. m \in 0..Len(e) /\ n \in (m + 1)..Len(e) /\ n \in 1..n BY <1>0, <1>3
  <2> QED BY <1>5, <2>1
<1>8. \A x \in ends : (\A m \in ends : x <= m) => x = n
  <2> SUFFICES ASSUME NEW x \in ends, \A m \in ends : x <= m PROVE x = n OBVIOUS
  <2>1. x \in Int BY <1>0, <1>3
  <2> HIDE DEF ends
  <2>2. x <= n /\ n <= x BY <1>6, <1>7
  <2> QED BY <1>0, <2>1, <2>2
<1> DEFINE c == CHOOSE x \in ends : \A m \in ends : x <= m
<1>9. c = n
  <2> HIDE DEF ends
  <2>1. c \in ends /\ \A m \in ends : c <= m BY <1>6, <1>7
  <2> HIDE DEF c
  <2> QED BY <1>8, <2>1
<1>10. RTrim(e, ws) = SubSeq(e, 1, c) BY DEF RTrim
<1> QED BY <1>2, <1>9, <1>10 DEF e, ws, n

\* The first line of a reply holds no line end.
LEMMA ReplyLine ==
  ASSUME NEW r \in Replies
  PROVE  Mark(r) \in STRING /\ Mark(r) \notin {"CR", "LF"} /\ Told(r) \in Strings /\ Plain(Told(r))
<1>1. Mark(r) \in {"+", "-", ":", "$", "*"} BY DEF Mark
<1>2. Mark(r) \in STRING /\ Mark(r) \notin {"CR", "LF"} BY Zenon, <1>1, WordsAssumption
<1>3. CASE r \in LineReplies
  <2>1. r.t \in {"status", "error", "int", "header"} /\ r.v \in Strings /\ Plain(r.v)
    BY <1>3 DEF LineReplies
  <2> QED BY <1>2, <2>1 DEF Told
<1>4. ASSUME NEW x \in STRING, x \notin {"CR", "LF"} PROVE <<x>> \in Strings /\ Plain(<<x>>)
  BY <1>4, WordIs DEF Plain
<1>5. CASE r \in {Nil, NilMulti}
  <2>1. Told(r) = <<"-1">> BY <1>5 DEF Told, Nil, NilMulti, Reply
  <2>2. "-1" \in STRING BY Zenon, WordsAssumption
  <2> QED BY <1>2, <1>4, <2>1, <2>2
<1>6. CASE r \in Texts \cup Multis
  <2>1. r.t \in {"bulk", "multi"} /\ Len(r.v) \in 0..Most
    <3>1. CASE r \in Texts
      <4>1. r.t = "bulk" /\ r.v \in ParamSet BY <3>1 DEF Texts
      <4> QED BY <4>1, PieceIs
    <3>2. CASE r \in Multis
      <4>1. r.t = "multi" /\ r.v \in Seq(BulkReplies) /\ Len(r.v) <= Most BY <3>2 DEF Multis
      <4> QED BY <4>1, LenProperties, NumeralAssumption
    <3> QED BY <1>6, <3>1, <3>2
  <2>2. Told(r) = <<Numerals[Len(r.v)]>> BY <2>1 DEF Told
  <2>3. Numerals[Len(r.v)] \in STRING /\ Numerals[Len(r.v)] \notin {"CR", "LF"} BY <2>1, NumeralIs
  <2> QED BY <1>2, <1>4, <2>2, <2>3
<1> QED BY <1>3, <1>5, <1>6 DEF Replies, BulkReplies

\* A bulk is a line and its contents.
LEMMA BulkBytesIs ==
  ASSUME NEW r \in BulkReplies
  PROVE  /\ Body(r) \in Strings /\ BulkBytes(r) = LineBytes(Mark(r), Told(r)) \o Body(r)
         /\ BulkBytes(r) \in Strings /\ Bytes(r) = BulkBytes(r)
<1>0. r \in Replies BY DEF Replies
<1> DEFINE l == LineBytes(Mark(r), Told(r))
<1>1. l \in Strings
  <2>1. <<Mark(r)>> \o Told(r) \in Strings /\ l = (<<Mark(r)>> \o Told(r)) \o EOL
    BY <1>0, ReplyLine, LineOfMark
  <2> QED BY <2>1, LineEnd, StringsConcat
<1>2. CASE r = Nil
  <2>1. Body(r) = <<>> /\ BulkBytes(r) = l
    BY <1>2 DEF Body, BulkBytes, Mark, Told, Nil, Reply
  <2>2. l \o <<>> = l BY <1>1, ConcatEmptySeq DEF Strings
  <2>3. <<>> \in Strings BY DEF Strings
  <2>4. Bytes(r) = BulkBytes(r) BY <1>2 DEF Bytes, Nil, Reply
  <2> QED BY <1>1, <2>1, <2>2, <2>3, <2>4
<1>3. CASE r \in Texts
  <2>1. r.t = "bulk" /\ r.v \in Strings BY <1>3 DEF Texts, ParamSet
  <2>2. BulkBytes(r) = (l \o r.v) \o EOL BY <2>1 DEF BulkBytes, Mark, Told
  <2>3. Body(r) = r.v \o EOL BY <2>1 DEF Body
  <2>4. Bytes(r) = BulkBytes(r) BY <2>1 DEF Bytes
  <2> DEFINE v == r.v
  <2>5. v \in Strings BY <2>1
  <2> HIDE DEF l, v
  <2>6. v \o EOL \in Strings /\ (l \o v) \o EOL = l \o (v \o EOL) /\ l \o (v \o EOL) \in Strings
    BY ZenonT(60), <1>1, <2>5, LineEnd, StringsConcat, StringsAssociative
  <2> QED BY <2>2, <2>3, <2>4, <2>6 DEF l, v
<1> QED BY <1>2, <1>3 DEF BulkReplies

\* Every bulk is a sequence of symbols.
LEMMA ElementOfWrites == Writes(ElementOf, BulkReplies, STRING)
BY BulkBytesIs DEF Writes, ElementOf, Strings

\* The elements of a multi bulk, one after the other.
LEMMA ElementsIs ==
  ASSUME NEW bs \in Seq(BulkReplies)
  PROVE  /\ Elements(bs) \in Strings
         /\ Elements(bs) = FlattenSeq([i \in DOMAIN bs |-> BulkBytes(bs[i])])
<1>1. \A i \in DOMAIN bs : ElementOf[bs[i]] = BulkBytes(bs[i])
  BY ElementOfSeq, LenProperties DEF ElementOf
<1>2. [i \in DOMAIN bs |-> ElementOf[bs[i]]] = [i \in DOMAIN bs |-> BulkBytes(bs[i])] BY <1>1
<1>3. Elements(bs) \in Strings BY ElementOfWrites, FlatOfIs DEF Elements, Strings
<1> QED BY <1>2, <1>3 DEF Elements, FlatOf

\* A reply is its first line, a line end and the body.
LEMMA BytesIs ==
  ASSUME NEW r \in Replies
  PROVE  /\ Body(r) \in Strings /\ Bytes(r) = (LineOf(r) \o EOL) \o Body(r) /\ Bytes(r) \in Strings
         /\ LineOf(r) \in Strings /\ LineOf(r) # <<>> /\ LineOf(r)[1] = Mark(r)
         /\ Tail(LineOf(r)) = Told(r) /\ Plain(LineOf(r))
<1> DEFINE l == LineBytes(Mark(r), Told(r))
<1>1. /\ LineOf(r) \in Strings /\ LineOf(r) # <<>> /\ LineOf(r)[1] = Mark(r)
      /\ Tail(LineOf(r)) = Told(r) /\ Plain(LineOf(r)) /\ l = LineOf(r) \o EOL
  BY ReplyLine, LineOfMark DEF LineOf
<1>2. l \in Strings BY <1>1, LineEnd, StringsConcat
<1>3. ASSUME Body(r) = <<>> PROVE l \o Body(r) = l /\ Body(r) \in Strings
  BY <1>2, <1>3, ConcatEmptySeq DEF Strings
<1>4. CASE r \in LineReplies
  <2>1. r.t \in {"status", "error", "int", "header"} BY <1>4 DEF LineReplies
  <2>2. Body(r) = <<>> /\ Bytes(r) = l BY <2>1 DEF Body, Bytes, Mark, Told
  <2> QED BY <1>1, <1>2, <1>3, <2>2
<1>5. CASE r \in BulkReplies
  BY <1>1, <1>5, BulkBytesIs
<1>6. CASE r = NilMulti
  <2>2. Body(r) = <<>> /\ Bytes(r) = l BY <1>6 DEF Body, Bytes, Mark, Told, NilMulti, Reply
  <2> QED BY <1>1, <1>2, <1>3, <2>2
<1>7. CASE r \in Multis
  <2>1. r.t = "multi" /\ r.v \in Seq(BulkReplies) BY <1>7 DEF Multis
  <2>2. Body(r) = Elements(r.v) /\ Mark(r) = "*" /\ Told(r) = <<Numerals[Len(r.v)]>>
    BY <2>1 DEF Body, Mark, Told
  <2>3. Bytes(r) = l \o FlattenSeq([i \in DOMAIN r.v |-> BulkBytes(r.v[i])])
    BY <2>1, <2>2 DEF Bytes
  <2>4. Bytes(r) = l \o Body(r) /\ Body(r) \in Strings BY <2>1, <2>2, <2>3, ElementsIs
  <2> QED BY <1>1, <1>2, <2>4, StringsConcat
<1> QED BY <1>4, <1>5, <1>6, <1>7 DEF Replies

-----------------------------------------------------------------------------
(* The commands and the readers of a call                                  *)

Cmds == {cmd \in Strings : cmd # <<>> /\ Len(cmd) <= Most}
Params(cmd) == [j \in DOMAIN cmd |-> Param(cmd[j])]

\* The replies that reader i of a call may be run for.
Possible(c, i) ==
  IF c # "exec_transaction" THEN Answers(Commands(c)[i]) \cup Errors
  ELSE CASE i = 1        -> {Status("OK")}
         [] i \in {2, 3} -> {Status("QUEUED")} \cup Errors
         [] i = 4        -> {Reply("header", <<"2">>)} \cup Errors
         [] OTHER        -> {Reply("int", <<"2">>)} \cup Errors

\* A reader fits a reply: it takes all of it, or all of the line it throws at.
Fit(reader, r) ==
  /\ reader \in {"ok", "line", "queued", "int", "intok", "header"} => r.t \notin {"bulk", "multi"}
  /\ reader = "header" => r.t # "nilmulti"
  /\ reader = "bulk" => r.t # "multi"
  /\ reader = "multi" => r.t \notin {"bulk", "header"}
  /\ reader = "generic" => r.t \in {"int", "error"}

\* Ranges from 1 are equal if their ends are.
LEMMA SameRange ==
  ASSUME NEW a \in Nat, NEW b \in Nat, 1..a = 1..b PROVE a = b
<1>1. a > 0 => a \in 1..b OBVIOUS
<1>2. b > 0 => b \in 1..a OBVIOUS
<1> QED BY <1>1, <1>2

\* The parameters of a command are as many as its words, and each begins with its word.
LEMMA ParamsType ==
  ASSUME NEW cmd \in Cmds
  PROVE  /\ Params(cmd) \in Seq(ParamSet) /\ Len(Params(cmd)) = Len(cmd) /\ Len(cmd) \in 1..Most
         /\ \A j \in DOMAIN cmd : Params(cmd)[j][1] = cmd[j]
         /\ DOMAIN Params(cmd) = DOMAIN cmd
<1>0. cmd \in Seq(STRING) /\ cmd # <<>> /\ Len(cmd) <= Most BY DEF Cmds, Strings
<1>1. Len(cmd) \in 1..Most /\ DOMAIN cmd = 1..Len(cmd)
  <2>1. Len(cmd) \in Nat /\ Len(cmd) # 0 BY <1>0, LenProperties, EmptySeq
  <2> QED BY <1>0, <2>1, LenProperties, NumeralAssumption
<1>2. \A x \in STRING : Param(x) \in ParamSet /\ Param(x)[1] = x
  <2> SUFFICES ASSUME NEW x \in STRING PROVE Param(x) \in ParamSet /\ Param(x)[1] = x OBVIOUS
  <2> DEFINE a == <<x>>
  <2>1. a \in Strings /\ Len(a) = 1 /\ a[1] = x BY WordIs
  <2>2. Param(x) = a \/ Param(x) = a \o EOL BY DEF Param
  <2> HIDE DEF a
  <2>3. CASE Param(x) = a BY <2>1, <2>3, NumeralAssumption, SMTT(60) DEF ParamSet
  <2>4. CASE Param(x) = a \o EOL
    <3>1. /\ a \o EOL \in Seq(STRING) /\ Len(a \o EOL) = Len(a) + Len(EOL)
          /\ \A i \in 1..(Len(a) + Len(EOL)) : (a \o EOL)[i] = IF i <= Len(a) THEN a[i] ELSE EOL[i - Len(a)]
      <4>1. a \in Seq(STRING) /\ EOL \in Seq(STRING) BY <2>1, LineEnd DEF Strings
      <4> QED BY <4>1, ConcatProperties
    <3>2. 1 \in 1..(Len(a) + Len(EOL)) /\ 1 <= Len(a) /\ Len(a) + Len(EOL) = 3 BY <2>1, LineEnd
    <3>3. (a \o EOL)[1] = x BY <2>1, <3>1, <3>2
    <3>4. 3 <= Most BY NumeralAssumption
    <3> QED BY <2>4, <3>1, <3>2, <3>3, <3>4 DEF ParamSet, Strings
  <2> QED BY <2>2, <2>3, <2>4
<1>3. \A j \in 1..Len(cmd) : cmd[j] \in STRING BY <1>0, ElementOfSeq
<1> DEFINE f == [j \in 1..Len(cmd) |-> Param(cmd[j])]
<1>4. Params(cmd) = f BY <1>1 DEF Params
<1>5. \A j \in 1..Len(cmd) : Param(cmd[j]) \in ParamSet /\ Param(cmd[j])[1] = cmd[j]
  <2> SUFFICES ASSUME NEW j \in 1..Len(cmd)
               PROVE  Param(cmd[j]) \in ParamSet /\ Param(cmd[j])[1] = cmd[j]
    OBVIOUS
  <2> DEFINE x == cmd[j]
  <2>1. x \in STRING BY <1>3
  <2> HIDE DEF x
  <2>2. Param(x) \in ParamSet /\ Param(x)[1] = x BY <1>2, <2>1
  <2> QED BY <2>2 DEF x
<1>6. f \in [1..Len(cmd) -> ParamSet] BY <1>5
<1>7. f \in Seq(ParamSet) /\ Len(f) = Len(cmd) /\ DOMAIN f = 1..Len(cmd)
  <2>1. Len(cmd) \in Nat BY <1>0, LenProperties
  <2>2. f \in Seq(ParamSet) BY <1>6, <2>1, SeqDef
  <2>3. DOMAIN f = 1..Len(cmd) OBVIOUS
  <2>4. Len(f) = Len(cmd)
    <3> HIDE DEF f
    <3> QED BY <2>1, <2>2, <2>3, LenProperties, SameRange
  <2> QED BY <2>2, <2>3, <2>4
<1>8. \A j \in DOMAIN cmd : f[j][1] = cmd[j] BY <1>1, <1>5
<1> QED BY <1>1, <1>4, <1>7, <1>8

-----------------------------------------------------------------------------
(* The commands and the readers of a call                                  *)

ReaderKinds ==
  {"ok", "line", "queued", "int", "intok", "header", "bulk", "multi", "generic"}

\* A call of the table sends one command and runs one reader.
LEMMA SingleIs ==
  ASSUME NEW c \in DOMAIN Calls
  PROVE  /\ SingleCommand(c) \in Cmds /\ SingleCommand(c)[1] = Calls[c].verb
         /\ Commands(c) = <<SingleCommand(c)>> /\ Readers(c) = <<Calls[c].read>>
         /\ Calls[c].read \in ReaderKinds
         /\ c \notin {"msetex", "sadd_range", "exec", "exec_transaction"}
<1>1. /\ c \notin {"msetex", "sadd_range", "exec", "exec_transaction"}
      /\ SingleCommand(c) \in Seq(STRING) /\ Len(SingleCommand(c)) \in 1..10
      /\ SingleCommand(c)[1] = Calls[c].verb
      /\ Calls[c].read \in {"ok", "line", "int", "intok", "bulk", "multi"}
  BY TableAssumption
<1>2. Commands(c) = <<SingleCommand(c)>> /\ Readers(c) = <<Calls[c].read>>
  BY <1>1 DEF Commands, Readers
<1> DEFINE s == SingleCommand(c)
<1>3. s \in Seq(STRING) /\ Len(s) \in 1..10 BY <1>1
<1> HIDE DEF s
<1>4. s # <<>>
  <2>0. \A n \in 1..10 : n # 0 OBVIOUS
  <2>1. Len(s) # 0 BY <1>3, <2>0
  <2> QED BY <1>3, <2>1, EmptySeq
<1>5. Len(s) <= Most BY <1>3, NumeralAssumption
<1>6. s \in Cmds BY <1>3, <1>4, <1>5 DEF Cmds, Strings
<1> QED BY <1>1, <1>2, <1>6 DEF s, ReaderKinds

\* One to three words are a command.
LEMMA FewWords ==
  ASSUME NEW x \in STRING, NEW y \in STRING, NEW z \in STRING
  PROVE  <<x>> \in Cmds /\ <<x, y>> \in Cmds /\ <<x, y, z>> \in Cmds
<1>1. ASSUME NEW S, NEW a \in S, NEW b \in S, NEW c \in S
      PROVE  /\ <<a>> \in Seq(S) /\ <<a, b>> \in Seq(S) /\ <<a, b, c>> \in Seq(S)
             /\ Len(<<a>>) = 1 /\ Len(<<a, b>>) = 2 /\ Len(<<a, b, c>>) = 3
             /\ <<a>> # <<>> /\ <<a, b>> # <<>> /\ <<a, b, c>> # <<>>
  OBVIOUS
<1>2. /\ <<x>> \in Seq(STRING) /\ <<x, y>> \in Seq(STRING) /\ <<x, y, z>> \in Seq(STRING)
      /\ Len(<<x>>) = 1 /\ Len(<<x, y>>) = 2 /\ Len(<<x, y, z>>) = 3
      /\ <<x>> # <<>> /\ <<x, y>> # <<>> /\ <<x, y, z>> # <<>>
  BY Zenon, <1>1
<1>3. 1 <= Most /\ 2 <= Most /\ 3 <= Most BY NumeralAssumption
<1> QED BY <1>2, <1>3 DEF Cmds, Strings

\* A call has a reader for each of its commands; the transaction has six for four.
LEMMA CommandsAre ==
  ASSUME NEW c \in AllCalls
  PROVE  /\ Commands(c) \in Seq(Cmds) /\ Len(Commands(c)) > 0 /\ Readers(c) \in Seq(ReaderKinds)
         /\ c # "exec_transaction" => Len(Readers(c)) = Len(Commands(c))
         /\ c = "exec_transaction" => Len(Commands(c)) = 4 /\ Len(Readers(c)) = 6
         /\ c \in Names => Len(Commands(c)) = 1 /\ c \notin Pipelines
<1>0. \A w \in {"MSET", "key", "value", "EXPIRE", "secs", "MULTI", "EXEC", "INCR"} : w \in STRING
  BY Zenon, WordsAssumption
<1>1. CASE c \in Names
  <2>1. c \in DOMAIN Calls BY <1>1, SessionAssumption
  <2>2. c \notin Pipelines BY <2>1, SingleIs, SessionAssumption
  <2> DEFINE s == SingleCommand(c)
             r == Calls[c].read
  <2>3. s \in Cmds /\ r \in ReaderKinds /\ Commands(c) = <<s>> /\ Readers(c) = <<r>>
        /\ c # "exec_transaction"
    BY <2>1, SingleIs
  <2> HIDE DEF s, r
  <2>4. <<s>> \in Seq(Cmds) /\ Len(<<s>>) = 1 /\ <<r>> \in Seq(ReaderKinds) /\ Len(<<r>>) = 1
    BY <2>3
  <2> QED BY <2>2, <2>3, <2>4
<1>2. CASE c \in Pipelines
  <2>0. c \notin Names
    <3>1. \A n \in Names : n \in DOMAIN Calls BY SessionAssumption
    <3>2. c \in {"msetex", "sadd_range", "exec", "exec_transaction"} BY <1>2, SessionAssumption
    <3> QED BY <3>1, <3>2, SingleIs
  <2>1. CASE c = "msetex"
    <3> DEFINE a == <<"MSET", "key", "value">>
               b == <<"EXPIRE", "key", "secs">>
    <3>1. a \in Cmds /\ b \in Cmds BY <1>0, FewWords
    <3>2. Commands(c) = <<a, b>> BY <2>1 DEF Commands
    <3> HIDE DEF a, b
    <3>3. <<a, b>> \in Seq(Cmds) /\ Len(<<a, b>>) = 2 BY <3>1
    <3>4. Readers(c) = <<"ok", "intok">> BY <2>1 DEF Readers
    <3>5. Readers(c) \in Seq(ReaderKinds) /\ Len(Readers(c)) = 2 BY <3>4 DEF ReaderKinds
    <3>6. Commands(c) \in Seq(Cmds) /\ Len(Commands(c)) = 2 BY <3>2, <3>3
    <3> QED BY <2>0, <2>1, <3>5, <3>6
  <2>2. CASE c = "sadd_range"
    <3> DEFINE a == SingleCommand("sadd")
    <3>1. a \in Cmds BY TableAssumption, SingleIs
    <3>2. Commands(c) = <<a, a>> BY <2>2 DEF Commands
    <3> HIDE DEF a
    <3>3. <<a, a>> \in Seq(Cmds) /\ Len(<<a, a>>) = 2 BY <3>1
    <3>4. Readers(c) = <<"int", "int">> BY <2>2 DEF Readers
    <3>5. Readers(c) \in Seq(ReaderKinds) /\ Len(Readers(c)) = 2 BY <3>4 DEF ReaderKinds
    <3>6. Commands(c) \in Seq(Cmds) /\ Len(Commands(c)) = 2 BY <3>2, <3>3
    <3> QED BY <2>0, <2>2, <3>5, <3>6
  <2>3. CASE c = "exec"
    <3>1. Queued \in Cmds BY <1>0, FewWords DEF Queued
    <3>2. Commands(c) = <<Queued, Queued>> BY <2>3 DEF Commands
    <3>3. <<Queued, Queued>> \in Seq(Cmds) /\ Len(<<Queued, Queued>>) = 2 BY <3>1
    <3>4. Readers(c) = <<"generic", "generic">> BY <2>3 DEF Readers
    <3>5. Readers(c) \in Seq(ReaderKinds) /\ Len(Readers(c)) = 2 BY <3>4 DEF ReaderKinds
    <3>6. Commands(c) \in Seq(Cmds) /\ Len(Commands(c)) = 2 BY <3>2, <3>3
    <3> QED BY <2>0, <2>3, <3>5, <3>6
  <2>4. CASE c = "exec_transaction"
    <3> DEFINE a == <<"MULTI">>
               b == <<"EXEC">>
    <3>1. a \in Cmds /\ b \in Cmds /\ Queued \in Cmds BY <1>0, FewWords DEF Queued
    <3>2. Commands(c) = <<a, Queued, Queued, b>> BY <2>4 DEF Commands
    <3> HIDE DEF a, b
    <3>3. <<a, Queued, Queued, b>> \in Seq(Cmds) /\ Len(<<a, Queued, Queued, b>>) = 4 BY <3>1
    <3>4. Readers(c) = <<"ok", "queued", "queued", "header", "generic", "generic">>
      BY <2>4 DEF Readers
    <3>5. Readers(c) \in Seq(ReaderKinds) /\ Len(Readers(c)) = 6 BY <3>4 DEF ReaderKinds
    <3>6. Commands(c) \in Seq(Cmds) /\ Len(Commands(c)) = 4 BY <3>2, <3>3
    <3>7. Len(Commands(c)) > 0 BY <3>6
    <3> QED BY <2>0, <2>4, <3>5, <3>6, <3>7
  <2> QED BY <1>2, <2>1, <2>2, <2>3, <2>4, SessionAssumption
<1> QED BY <1>1, <1>2 DEF AllCalls

-----------------------------------------------------------------------------
(* What may be said to a command suits its reader                          *)

\* The numbers a server says.
Counts == {"0", "1", "2", "4", Long}

\* A number too long for an int is one word, and so is what an int keeps of it.
LEMMA LongIs == Long \in STRING /\ Long \notin {"CR", "LF"} /\ <<"2">> \in Strings
<1>1. "4294967298" \in STRING /\ "2" \in STRING BY Zenon, WordsAssumption
<1>2. <<"2">> \in Strings BY <1>1, WordIs
<1> QED BY <1>1, <1>2 DEF Long

\* What a reader hands over is what was said, unless it is the generic one.
LEMMA HandedIs ==
  ASSUME NEW reader, NEW r
  PROVE  /\ r.t \notin {"int", "error"} => Handed(reader, r) = Content(r)
         /\ reader # "generic" => Handed(reader, r) = Content(r)
         /\ reader = "generic" /\ r.t = "int" => Handed(reader, r) = ToInt(Content(r))
         /\ reader = "generic" /\ r.t = "error" => Handed(reader, r) = Tail(Content(r))
  BY DEF Handed

\* Replies of each shape.
LEMMA LineReplyIs ==
  ASSUME NEW t \in {"status", "error", "int", "header"}, NEW x \in STRING, x \notin {"CR", "LF"}
  PROVE  Reply(t, <<x>>) \in LineReplies
<1>1. <<x>> \in Strings /\ Len(<<x>>) = 1 /\ <<x>>[1] = x BY WordIs
<1> DEFINE v == <<x>>
<1>2. v # <<>> OBVIOUS
<1>3. v \in Strings /\ Plain(v) BY <1>1 DEF Plain
<1> HIDE DEF v
<1>4. [t |-> t, v |-> v] \in LineReplies BY <1>2, <1>3 DEF LineReplies
<1> QED BY <1>4 DEF v, Reply

\* Errors are replies of one line.
LEMMA ErrorsAre == Errors \subseteq LineReplies /\ \A r \in Errors : r.t = "error"
<1> DEFINE a == <<"ERR ", "text">>
           b == <<"WRON", "GTYPE text">>
<1>1. ASSUME NEW x \in STRING, NEW y \in STRING, x \notin {"CR", "LF"}, y \notin {"CR", "LF"}
      PROVE  Reply("error", <<x, y>>) \in LineReplies
  <2>1. ASSUME NEW S, NEW p \in S, NEW q \in S
        PROVE  <<p, q>> \in Seq(S) /\ Len(<<p, q>>) = 2 /\ <<p, q>>[1] = p /\ <<p, q>>[2] = q
               /\ <<p, q>> # <<>>
    OBVIOUS
  <2> DEFINE v == <<x, y>>
  <2>2. v \in Seq(STRING) /\ Len(v) = 2 /\ v[1] = x /\ v[2] = y /\ v # <<>> BY Zenon, <2>1
  <2> HIDE DEF v
  <2>3. Plain(v)
    <3>1. \A i \in 1..2 : i = 1 \/ i = 2 OBVIOUS
    <3> QED BY <1>1, <2>2, <3>1 DEF Plain
  <2>4. [t |-> "error", v |-> v] \in LineReplies BY <2>2, <2>3 DEF LineReplies, Strings
  <2> QED BY <2>4 DEF v, Reply
<1>2. /\ "ERR " \in STRING /\ "WRON" \in STRING /\ "text" \in STRING
      /\ "GTYPE text" \in STRING
  BY Zenon, WordsAssumption
<1>3. Reply("error", a) \in LineReplies /\ Reply("error", b) \in LineReplies BY Zenon, <1>1, <1>2
<1>4. \A r \in Errors : r = Reply("error", a) \/ r = Reply("error", b) BY Zenon DEF Errors
<1> HIDE DEF a, b
<1>5. Reply("error", a).t = "error" /\ Reply("error", b).t = "error" BY DEF Reply
<1> QED BY <1>3, <1>4, <1>5

\* A stored value is sent as a bulk.
LEMMA BulksAre == \A p \in Payloads : Reply("bulk", p) \in Texts
<1> SUFFICES ASSUME NEW p \in Payloads PROVE Reply("bulk", p) \in Texts OBVIOUS
<1>1. p \in ParamSet BY SessionAssumption DEF ParamSet, Strings
<1> QED BY <1>1 DEF Texts, Reply

\* A word is sent as a bulk.
LEMMA WordBulk == ASSUME NEW x \in STRING PROVE Reply("bulk", <<x>>) \in Texts
<1> DEFINE v == <<x>>
<1>1. v \in Strings /\ Len(v) = 1 BY WordIs
<1> HIDE DEF v
<1>2. v \in ParamSet
  <2>1. Len(v) <= Most BY <1>1, NumeralAssumption
  <2> QED BY <1>1, <2>1 DEF ParamSet
<1> QED BY <1>2 DEF Texts, Reply, v

\* Multi bulks of up to two elements.
LEMMA MultisAre ==
  /\ Reply("multi", <<>>) \in Multis
  /\ \A a \in BulkReplies : Reply("multi", <<a>>) \in Multis
  /\ \A a, b \in BulkReplies : Reply("multi", <<a, b>>) \in Multis
<1>1. ASSUME NEW v \in Seq(BulkReplies), Len(v) <= 2 PROVE Reply("multi", v) \in Multis
  <2>1. Len(v) \in Nat /\ Most \in Nat /\ Most >= 10 BY LenProperties, NumeralAssumption
  <2>2. Len(v) <= Most BY <1>1, <2>1
  <2> QED BY <2>2 DEF Multis, Reply
<1>2. ASSUME NEW S PROVE <<>> \in Seq(S) /\ Len(<<>>) = 0 OBVIOUS
<1>3. ASSUME NEW S, NEW a \in S, NEW b \in S
      PROVE  <<a>> \in Seq(S) /\ <<a, b>> \in Seq(S) /\ Len(<<a>>) = 1 /\ Len(<<a, b>>) = 2
  OBVIOUS
<1>4. Reply("multi", <<>>) \in Multis
  <2>1. <<>> \in Seq(BulkReplies) /\ Len(<<>>) <= 2 BY <1>2
  <2> QED BY <1>1, <2>1
<1>5. ASSUME NEW a \in BulkReplies PROVE Reply("multi", <<a>>) \in Multis
  <2> DEFINE v == <<a>>
  <2>1. v \in Seq(BulkReplies) /\ Len(v) <= 2 BY <1>3
  <2> HIDE DEF v
  <2>2. Reply("multi", v) \in Multis BY <1>1, <2>1
  <2> QED BY <2>2 DEF v
<1>6. ASSUME NEW a \in BulkReplies, NEW b \in BulkReplies PROVE Reply("multi", <<a, b>>) \in Multis
  <2> DEFINE v == <<a, b>>
  <2>1. v \in Seq(BulkReplies) /\ Len(v) <= 2 BY <1>3
  <2> HIDE DEF v
  <2>2. Reply("multi", v) \in Multis BY <1>1, <2>1
  <2> QED BY <2>2 DEF v
<1> QED BY <1>4, <1>5, <1>6

\* The texts of INFO are sent as bulks.
LEMMA InfoBulks == \A x \in InfoTexts : Reply("bulk", x) \in Texts
<1>1. ASSUME NEW S, NEW a \in S, NEW b \in S, NEW c \in S, NEW d \in S, NEW e \in S, NEW f \in S
      PROVE  /\ <<a, b, c, d, e, f, b, c>> \in Seq(S) /\ Len(<<a, b, c, d, e, f, b, c>>) = 8
             /\ <<d, e, b, c>> \in Seq(S) /\ Len(<<d, e, b, c>>) = 4
  OBVIOUS
<1>2. /\ "#" \in STRING /\ "CR" \in STRING /\ "LF" \in STRING /\ "role" \in STRING
      /\ ":" \in STRING /\ "master" \in STRING /\ "config_file" \in STRING
  BY Zenon, WordsAssumption
<1> DEFINE u == <<"#", "CR", "LF", "role", ":", "master", "CR", "LF">>
           w == <<"config_file", ":", "CR", "LF">>
<1>3. u \in Seq(STRING) /\ Len(u) = 8 BY <1>1, <1>2
<1>4. w \in Seq(STRING) /\ Len(w) = 4 BY <1>1, <1>2
<1>5. \A x \in InfoTexts : x = u \/ x = w BY DEF InfoTexts
<1> HIDE DEF u, w
<1>6. 8 <= Most /\ 4 <= Most BY NumeralAssumption
<1>7. u \in ParamSet /\ w \in ParamSet BY <1>3, <1>4, <1>6 DEF ParamSet, Strings
<1> QED BY <1>5, <1>7 DEF Texts, Reply

\* The answers to a command: none is an error or a header, and only the verbs of
\* TextVerbs and of MultiVerbs are answered with bulks and with multi bulks.
LEMMA AnswersAre ==
  ASSUME NEW cmd
  PROVE  \A r \in Answers(cmd) :
           /\ r \in Replies /\ r.t \notin {"error", "header"}
           /\ cmd[1] \notin TextVerbs => r.t # "bulk"
           /\ cmd[1] \notin MultiVerbs => r.t \notin {"multi", "nilmulti"}
<1> DEFINE verb == cmd[1]
           Good(r) == /\ r \in Replies /\ r.t \notin {"error", "header"}
                      /\ verb \notin TextVerbs => r.t # "bulk"
                      /\ verb \notin MultiVerbs => r.t \notin {"multi", "nilmulti"}
<1> SUFFICES ASSUME NEW r \in Answers(cmd) PROVE Good(r) OBVIOUS
<1> DEFINE bulk == \E b \in Texts : r = b
<1>0. /\ "0" \in STRING /\ "1" \in STRING /\ "2" \in STRING /\ "4" \in STRING /\ "key" \in STRING
      /\ Long \in STRING /\ Long \notin {"CR", "LF"}
  BY Zenon, WordsAssumption, LongIs
<1>1. Replies = LineReplies \cup Texts \cup {Nil, NilMulti} \cup Multis BY DEF Replies, BulkReplies
<1>2. \A x \in Counts : Good(Reply("int", <<x>>))
  <2> SUFFICES ASSUME NEW x \in Counts PROVE Good(Reply("int", <<x>>)) OBVIOUS
  <2>1. x \in STRING /\ x \notin {"CR", "LF"} BY <1>0 DEF Counts
  <2>2. Reply("int", <<x>>) \in LineReplies BY <2>1, LineReplyIs
  <2> DEFINE v == <<x>>
  <2> HIDE DEF v
  <2>3. Reply("int", v).t = "int" BY DEF Reply
  <2> QED BY <1>1, <2>2, <2>3 DEF v
<1>3. Good(Nil)
  <2>1. Nil.t = "nil" BY DEF Nil, Reply
  <2> QED BY <1>1, <2>1
<1>4. ASSUME NEW b \in Texts, verb \in TextVerbs PROVE Good(b)
  <2>1. b.t = "bulk" BY DEF Texts
  <2> QED BY <1>1, <1>4, <2>1
<1>5. ASSUME NEW m \in Multis, verb \in MultiVerbs PROVE Good(m)
  <2>1. m.t = "multi" BY DEF Multis
  <2> QED BY <1>1, <1>5, <2>1
<1>6. verb \in MultiVerbs => Good(NilMulti)
  <2>1. NilMulti.t = "nilmulti" BY DEF NilMulti, Reply
  <2> QED BY <1>1, <2>1
<1>7. \A x \in {"none", "hash", "stream", "Background saving started", "OK"} : Good(Status(x))
  <2> SUFFICES ASSUME NEW x \in {"none", "hash", "stream", "Background saving started", "OK"}
               PROVE  Good(Status(x))
    BY Zenon
  <2>1. x \in STRING /\ x \notin {"CR", "LF"} BY Zenon, WordsAssumption
  <2>2. Reply("status", <<x>>) \in LineReplies BY Zenon, <2>1, LineReplyIs
  <2> DEFINE v == <<x>>
  <2> HIDE DEF v
  <2>3. Reply("status", v).t = "status" BY Zenon DEF Reply
  <2> QED BY <1>1, <2>2, <2>3, Zenon DEF v, Status
<1>8. \A b \in Bulks : b \in Texts BY BulksAre DEF Bulks
<1>9. \A m \in Lists : m \in Multis
  <2>1. \A b \in Bulks : b \in BulkReplies BY <1>8 DEF BulkReplies
  <2>2. Nil \in BulkReplies BY DEF BulkReplies
  <2> QED BY <2>1, <2>2, MultisAre DEF Lists
<1>10. \A m \in Scored : m \in Multis
  <2>1. \A b \in Bulks : b \in BulkReplies BY <1>8 DEF BulkReplies
  <2>2. Reply("bulk", <<"2">>) \in BulkReplies BY <1>0, WordBulk DEF BulkReplies
  <2> QED BY <2>1, <2>2, MultisAre DEF Scored
<1> HIDE DEF Good, verb
<1>11. ASSUME NEW ns \in SUBSET Counts, r \in Ints(ns) PROVE Good(r)
  <2>1. \E x \in ns : r = Reply("int", <<x>>) BY <1>11 DEF Ints
  <2> QED BY <1>2, <2>1
<1>12. CASE verb \in TextVerbs /\ r \in TextAnswers(verb)
  <2> DEFINE scored == Reply("bulk", <<"2">>)
             infos == {Reply("bulk", t) : t \in InfoTexts}
  <2>1. scored \in Texts BY <1>0, WordBulk
  <2>2. \A b \in infos : b \in Texts BY InfoBulks
  <2>3. TextAnswers(verb) \in {{scored, Nil}, {scored}, infos, Bulks \cup {Nil}}
    BY DEF TextAnswers
  <2> HIDE DEF scored, infos
  <2>4. r \in Texts \/ r = Nil BY <1>8, <1>12, <2>1, <2>2, <2>3
  <2> QED BY <1>3, <1>4, <1>12, <2>4
<1>13. ASSUME NEW f, verb \in MultiVerbs, r \in MultiAnswers(verb, f) PROVE Good(r)
  <2> DEFINE pairs == {Reply("multi", <<Reply("bulk", <<"key">>), b>>) : b \in Bulks}
             short == Lists \ {Reply("multi", <<Nil>>)}
  <2>1. \A m \in pairs : m \in Multis
    <3> SUFFICES ASSUME NEW b \in Bulks
                 PROVE  Reply("multi", <<Reply("bulk", <<"key">>), b>>) \in Multis
      OBVIOUS
    <3>1. b \in BulkReplies BY <1>8 DEF BulkReplies
    <3>2. Reply("bulk", <<"key">>) \in BulkReplies BY <1>0, WordBulk DEF BulkReplies
    <3> QED BY <3>1, <3>2, MultisAre
  <2>2. MultiAnswers(verb, f) \in {pairs \cup {NilMulti}, Lists, Scored, short}
    BY DEF MultiAnswers
  <2>3. \A m \in short : m \in Multis BY <1>9
  <2> HIDE DEF pairs, short
  <2>4. r \in Multis \/ r = NilMulti BY <1>9, <1>10, <1>13, <2>1, <2>2, <2>3
  <2> QED BY <1>5, <1>6, <1>13, <2>4
<1>14. \A b \in Statuses(verb) : Good(b)
  <2>1. \/ Statuses(verb) = {Status("none"), Status("hash"), Status("stream")}
        \/ Statuses(verb) = {Status("Background saving started")}
        \/ Statuses(verb) = {Status("OK")}
    BY Zenon DEF Statuses
  <2> DEFINE a == Status("none")
             b == Status("hash")
             c == Status("stream")
             d == Status("Background saving started")
             e == Status("OK")
  <2>2. Good(a) /\ Good(b) /\ Good(c) /\ Good(d) /\ Good(e) BY Zenon, <1>7
  <2>3. Statuses(verb) = {a, b, c} \/ Statuses(verb) = {d} \/ Statuses(verb) = {e} BY Zenon, <2>1
  <2> HIDE DEF a, b, c, d, e
  <2> QED BY <2>2, <2>3
<1> DEFINE i01 == Ints({"0", "1"})
           i02 == Ints({"0", "2"})
           i4 == Ints({"4"})
           i2L == Ints({"2", Long})
           st == Statuses(verb)
           text == TextAnswers(verb)
           multis(f) == MultiAnswers(verb, f)
           ranks == i02 \cup {Nil}
<1>15. \/ verb \in TextVerbs /\ r \in text
       \/ \E f : verb \in MultiVerbs /\ r \in multis(f)
       \/ r \in i01 \/ r \in ranks \/ r \in st \/ r \in i4 \/ r \in i2L \/ r \in i02
  <2> DEFINE scores == "WITHSCORES" \in ToSet(cmd)
             A == Answers(cmd)
             m == multis(scores)
  <2>1. A = CASE verb \in TextVerbs             -> text
              [] verb \in MultiVerbs            -> m
              [] verb \in IntVerbs01            -> i01
              [] verb \in {"ZRANK", "ZREVRANK"} -> ranks
              [] verb \in StatusVerbs           -> st
              [] verb = "APPEND"                -> i4
              [] verb = "INCR"                  -> i2L
              [] verb = "SHUTDOWN"              -> {}
              [] OTHER                          -> i02
    BY DEF Answers, verb
  <2>2. r \in A OBVIOUS
  <2> HIDE DEF A, i01, i02, i4, i2L, st, text, m, ranks
  <2>3. \/ verb \in TextVerbs /\ A = text
        \/ verb \in MultiVerbs /\ A = m
        \/ A = i01 \/ A = ranks \/ A = st \/ A = i4 \/ A = i2L \/ A = {} \/ A = i02
    BY <2>1
  <2> QED BY <2>2, <2>3 DEF m
<1>16. CASE r \in i01 \/ r \in i4 \/ r \in i2L \/ r \in i02
  <2>1. {"0", "1"} \subseteq Counts /\ {"4"} \subseteq Counts /\ {"2", Long} \subseteq Counts
        /\ {"0", "2"} \subseteq Counts
    BY DEF Counts
  <2> QED BY <1>11, <1>16, <2>1
<1>17. CASE r \in ranks
  <2>1. {"0", "2"} \subseteq Counts BY DEF Counts
  <2> QED BY <1>3, <1>11, <1>17, <2>1
<1>18. CASE r \in st BY <1>14, <1>18
<1>19. CASE \E f : verb \in MultiVerbs /\ r \in multis(f) BY <1>13, <1>19
<1> QED BY <1>12, <1>15, <1>16, <1>17, <1>18, <1>19

\* The queued commands count something up.
LEMMA QueuedAnswers == \A r \in Answers(Queued) : r.t = "int"
<1> DEFINE verb == Queued[1]
           i01 == Ints({"0", "1"})
           i02 == Ints({"0", "2"})
           i4 == Ints({"4"})
           i2L == Ints({"2", Long})
           ranks == i02 \cup {Nil}
           st == Statuses(verb)
           text == TextAnswers(verb)
           m == MultiAnswers(verb, "WITHSCORES" \in ToSet(Queued))
           A == Answers(Queued)
<1>1. A = CASE verb \in TextVerbs             -> text
            [] verb \in MultiVerbs            -> m
            [] verb \in IntVerbs01            -> i01
            [] verb \in {"ZRANK", "ZREVRANK"} -> ranks
            [] verb \in StatusVerbs           -> st
            [] verb = "APPEND"                -> i4
            [] verb = "INCR"                  -> i2L
            [] verb = "SHUTDOWN"              -> {}
            [] OTHER                          -> i02
  BY DEF Answers
<1>2. verb = "INCR" BY DEF Queued
<1> HIDE DEF A, i01, i02, i4, i2L, st, text, m, ranks, verb
<1>3. verb \notin TextVerbs /\ verb \notin MultiVerbs /\ verb \notin IntVerbs01
  BY <1>2 DEF TextVerbs, MultiVerbs, IntVerbs01, BulkVerbs, ListVerbs, RangeVerbs
<1>4. verb \notin {"ZRANK", "ZREVRANK"} /\ verb \notin StatusVerbs /\ verb # "APPEND"
      /\ verb # "SHUTDOWN"
  BY <1>2 DEF StatusVerbs
<1>5. A = i2L BY <1>1, <1>2, <1>3, <1>4
<1>6. \A r \in i2L : r.t = "int"
  <2>1. \A x : Reply("int", <<x>>).t = "int" BY DEF Reply
  <2> QED BY <2>1 DEF i2L, Ints
<1> QED BY <1>5, <1>6 DEF A

\* Whatever the server answers, it is a reply the reader fits.
LEMMA PossibleFits ==
  ASSUME NEW c \in AllCalls, NEW i \in 1..Len(Readers(c)), NEW r \in Possible(c, i)
  PROVE  r \in Replies /\ Fit(Readers(c)[i], r)
<1> DEFINE reader == Readers(c)[i]
<1>1. ASSUME NEW e \in Errors PROVE e \in Replies /\ Fit(reader, e)
  <2>1. e \in LineReplies /\ e.t = "error" BY ErrorsAre
  <2> HIDE DEF reader
  <2> QED BY <2>1 DEF Fit, Replies
<1>2. CASE c \in Names
  <2>0. c \in DOMAIN Calls BY <1>2, SessionAssumption
  <2> DEFINE s == SingleCommand(c)
             read == Calls[c].read
             verb == Calls[c].verb
  <2>1. /\ s[1] = verb /\ Commands(c) = <<s>> /\ Readers(c) = <<read>> /\ c # "exec_transaction"
    BY <2>0, SingleIs
  <2>2. /\ read \in {"ok", "line", "int", "intok", "bulk", "multi"}
        /\ read = "bulk" => verb \notin MultiVerbs
        /\ read = "multi" => verb \notin TextVerbs
        /\ read \notin {"bulk", "multi"} => verb \notin TextVerbs \cup MultiVerbs
    BY <2>0, TableAssumption
  <2> HIDE DEF s, read, verb
  <2>3. Len(Readers(c)) = 1 /\ i = 1 /\ reader = read /\ Commands(c)[i] = s
    <3>1. Len(<<read>>) = 1 OBVIOUS
    <3>2. Len(Readers(c)) = 1 BY <2>1, <3>1
    <3>3. i = 1 BY <3>2
    <3> QED BY <2>1, <3>2, <3>3
  <2>4. r \in Answers(s) \/ r \in Errors BY <2>1, <2>3 DEF Possible
  <2>5. ASSUME r \in Answers(s) PROVE r \in Replies /\ Fit(reader, r)
    <3>1. /\ r \in Replies /\ r.t \notin {"error", "header"}
          /\ verb \notin TextVerbs => r.t # "bulk"
          /\ verb \notin MultiVerbs => r.t \notin {"multi", "nilmulti"}
      BY <2>1, <2>5, AnswersAre
    <3> HIDE DEF reader
    <3>2. Fit(read, r) BY <2>2, <3>1 DEF Fit
    <3> QED BY <2>3, <3>1, <3>2
  <2> QED BY <1>1, <2>4, <2>5
<1>3. CASE c = "msetex" \/ c = "sadd_range"
  <2> DEFINE cmd == Commands(c)[i]
  <2>1. reader \in {"ok", "int", "intok"} /\ cmd[1] \in {"MSET", "EXPIRE", "SADD"}
    <3>1. CASE c = "msetex"
      <4>1. Readers(c) = <<"ok", "intok">> BY <3>1 DEF Readers
      <4>2. Commands(c) = <<<<"MSET", "key", "value">>, <<"EXPIRE", "key", "secs">>>>
        BY <3>1 DEF Commands
      <4>3. i = 1 \/ i = 2 BY <4>1
      <4> QED BY <4>1, <4>2, <4>3
    <3>2. CASE c = "sadd_range"
      <4>1. Readers(c) = <<"int", "int">> BY <3>2 DEF Readers
      <4>2. Commands(c) = <<SingleCommand("sadd"), SingleCommand("sadd")>> BY <3>2 DEF Commands
      <4>3. i = 1 \/ i = 2 BY <4>1
      <4>4. SingleCommand("sadd")[1] = "SADD" BY TableAssumption
      <4> QED BY <4>1, <4>2, <4>3, <4>4
    <3> QED BY <1>3, <3>1, <3>2
  <2> HIDE DEF reader, cmd
  <2>2. cmd[1] \notin TextVerbs /\ cmd[1] \notin MultiVerbs
    BY <2>1 DEF TextVerbs, MultiVerbs, BulkVerbs, ListVerbs, RangeVerbs
  <2>3. r \in Answers(cmd) \/ r \in Errors BY <1>3 DEF Possible, cmd
  <2>4. ASSUME r \in Answers(cmd) PROVE r \in Replies /\ Fit(reader, r)
    <3>1. r \in Replies /\ r.t \notin {"error", "header", "bulk", "multi"}
      BY <2>2, <2>4, AnswersAre
    <3> QED BY <2>1, <3>1 DEF Fit
  <2> QED BY <1>1, <2>3, <2>4 DEF reader
<1>4. CASE c = "exec"
  <2>1. reader = "generic" /\ Commands(c)[i] = Queued
    <3>1. Readers(c) = <<"generic", "generic">> BY <1>4 DEF Readers
    <3>2. Commands(c) = <<Queued, Queued>> BY <1>4 DEF Commands
    <3>3. i = 1 \/ i = 2 BY <3>1
    <3> QED BY <3>1, <3>2, <3>3
  <2> HIDE DEF reader
  <2>2. r \in Answers(Queued) \/ r \in Errors BY <1>4, <2>1 DEF Possible
  <2>3. ASSUME r \in Answers(Queued) PROVE r \in Replies /\ Fit(reader, r)
    <3>1. r \in Replies /\ r.t = "int" BY <2>3, AnswersAre, QueuedAnswers
    <3> QED BY <2>1, <3>1 DEF Fit
  <2> QED BY <1>1, <2>2, <2>3 DEF reader
<1>5. CASE c = "exec_transaction"
  <2>1. Readers(c) = <<"ok", "queued", "queued", "header", "generic", "generic">>
    BY <1>5 DEF Readers
  <2>2. i \in 1..6 BY <2>1
  <2>3. \A x \in {"OK", "QUEUED", "2"} : x \in STRING /\ x \notin {"CR", "LF"} BY Zenon, WordsAssumption
  <2> DEFINE ok == Status("OK")
             qu == Status("QUEUED")
             he == Reply("header", <<"2">>)
             in == Reply("int", <<"2">>)
  <2>4. ok \in Replies /\ qu \in Replies /\ he \in Replies /\ in \in Replies
    BY <2>3, LineReplyIs DEF Status, Replies
  <2>5. ok.t = "status" /\ qu.t = "status" /\ he.t = "header" /\ in.t = "int"
    BY DEF Status, Reply
  <2>6. \/ i = 1 /\ r = ok
        \/ i \in {2, 3} /\ (r = qu \/ r \in Errors)
        \/ i = 4 /\ (r = he \/ r \in Errors)
        \/ i \in {5, 6} /\ (r = in \/ r \in Errors)
    <3> HIDE DEF ok, qu, he, in
    <3>1. CASE i = 1
      <4>1. Possible(c, i) = {Status("OK")} BY <1>5, <3>1 DEF Possible
      <4> QED BY <3>1, <4>1 DEF ok
    <3>2. CASE i = 2 \/ i = 3
      <4>1. Possible(c, i) = {Status("QUEUED")} \cup Errors BY <1>5, <3>2 DEF Possible
      <4> QED BY <3>2, <4>1 DEF qu
    <3>3. CASE i = 4
      <4>1. Possible(c, i) = {Reply("header", <<"2">>)} \cup Errors BY <1>5, <3>3 DEF Possible
      <4> QED BY <3>3, <4>1 DEF he
    <3>4. CASE i = 5 \/ i = 6
      <4>1. Possible(c, i) = {Reply("int", <<"2">>)} \cup Errors BY <1>5, <3>4 DEF Possible
      <4> QED BY <3>4, <4>1 DEF in
    <3>5. i = 1 \/ i = 2 \/ i = 3 \/ i = 4 \/ i = 5 \/ i = 6 BY <2>2
    <3> QED BY <3>1, <3>2, <3>3, <3>4, <3>5
  <2>7. /\ i = 1 => reader = "ok"
        /\ i \in {2, 3} => reader = "queued"
        /\ i = 4 => reader = "header"
        /\ i \in {5, 6} => reader = "generic"
    BY <2>1
  <2> HIDE DEF reader, ok, qu, he, in
  <2> DEFINE Good == r \in Replies /\ Fit(reader, r)
  <2>8. ASSUME i = 1, r = ok PROVE Good BY <2>4, <2>5, <2>7, <2>8 DEF Fit
  <2>9. ASSUME i \in {2, 3}, r = qu PROVE Good BY <2>4, <2>5, <2>7, <2>9 DEF Fit
  <2>10. ASSUME i = 4, r = he PROVE Good BY <2>4, <2>5, <2>7, <2>10 DEF Fit
  <2>11. ASSUME i \in {5, 6}, r = in PROVE Good BY <2>4, <2>5, <2>7, <2>11 DEF Fit
  <2>13. ASSUME r \in Errors PROVE Good BY <1>1, <2>13 DEF reader
  <2> HIDE DEF Good
  <2>12. Good BY <2>6, <2>8, <2>9, <2>10, <2>11, <2>13
  <2> QED BY <2>12 DEF Good, reader
<1> QED BY <1>2, <1>3, <1>4, <1>5, SessionAssumption DEF AllCalls

-----------------------------------------------------------------------------
(* The commands that are due and the replies that are owed                 *)

Origins == {"own", "old"}
DueItems == [from : Origins, cmd : Cmds]
OwedItems == [from : Origins, reply : Replies]

\* The bytes of these commands and of these replies.
RequestOf == [item \in DueItems |-> Encode(Params(item.cmd))]
ReplyOf == [item \in OwedItems |-> Bytes(item.reply)]
Requests(items) == FlatOf(RequestOf, items)
Cat(items) == FlatOf(ReplyOf, items)

OwnDue(c) == [i \in DOMAIN Commands(c) |-> [from |-> "own", cmd |-> Commands(c)[i]]]
Said(units, whose) == [i \in DOMAIN units |-> [from |-> whose, reply |-> units[i]]]

\* The bytes of a command are a sequence of symbols.
LEMMA RequestOfWrites == Writes(RequestOf, DueItems, STRING)
<1>1. \A item \in DueItems : Encode(Params(item.cmd)) \in Seq(STRING)
  BY ParamsType, EncodeType DEF DueItems, Strings
<1> QED BY <1>1 DEF Writes, RequestOf

\* The bytes of a reply are a sequence of symbols.
LEMMA ReplyOfWrites == Writes(ReplyOf, OwedItems, STRING)
<1>1. \A item \in OwedItems : Bytes(item.reply) \in Seq(STRING)
  BY BytesIs DEF OwedItems, Strings
<1> QED BY <1>1 DEF Writes, ReplyOf

\* A sequence given as a function.
LEMMA Listed ==
  ASSUME NEW T, NEW n \in Nat, NEW f \in [1..n -> T]
  PROVE  f \in Seq(T) /\ Len(f) = n /\ DOMAIN f = 1..n
<1>1. f \in Seq(T) BY SeqDef
<1>2. DOMAIN f = 1..n OBVIOUS
<1> QED BY <1>1, <1>2, LenProperties, SameRange

\* Commands of an earlier call have the bytes they had.
LEMMA AgedDue ==
  ASSUME NEW items \in Seq(DueItems)
  PROVE  /\ Aged(items) \in Seq(DueItems) /\ Len(Aged(items)) = Len(items)
         /\ Requests(Aged(items)) = Requests(items)
         /\ \A i \in 1..Len(items) : Aged(items)[i].from = "old"
<1> DEFINE n == Len(items)
           a == Aged(items)
<1>1. n \in Nat /\ DOMAIN items = 1..n /\ \A i \in 1..n : items[i] \in DueItems
  BY LenProperties, ElementOfSeq
<1>2. /\ a = [i \in 1..n |-> [items[i] EXCEPT !.from = "old"]]
  BY <1>1 DEF Aged
<1>3. \A i \in 1..n : LET x == [items[i] EXCEPT !.from = "old"]
                      IN  x \in DueItems /\ x.from = "old" /\ x.cmd = items[i].cmd
  <2> SUFFICES ASSUME NEW x \in DueItems
               PROVE  LET y == [x EXCEPT !.from = "old"]
                      IN  y \in DueItems /\ y.from = "old" /\ y.cmd = x.cmd
    BY <1>1
  <2> QED BY DEF DueItems, Origins
<1> HIDE DEF n
<1>4. a \in [1..n -> DueItems] BY <1>2, <1>3
<1>5. a \in Seq(DueItems) /\ Len(a) = n /\ DOMAIN a = 1..n BY <1>1, <1>4, Listed
<1>6. \A i \in 1..n : a[i] \in DueItems /\ a[i].from = "old" /\ a[i].cmd = items[i].cmd
  BY <1>2, <1>3
<1> HIDE DEF a
<1>7. \A i \in 1..n : RequestOf[a[i]] = RequestOf[items[i]] BY <1>1, <1>6 DEF RequestOf
<1>8. Requests(a) = Requests(items) BY <1>1, <1>5, <1>7 DEF Requests, FlatOf
<1> QED BY <1>5, <1>6, <1>8 DEF a, n

\* Replies to an earlier call have the bytes they had.
LEMMA AgedOwed ==
  ASSUME NEW items \in Seq(OwedItems)
  PROVE  /\ Aged(items) \in Seq(OwedItems) /\ Len(Aged(items)) = Len(items)
         /\ Cat(Aged(items)) = Cat(items)
         /\ \A i \in 1..Len(items) : Aged(items)[i].from = "old"
<1> DEFINE n == Len(items)
           a == Aged(items)
<1>1. n \in Nat /\ DOMAIN items = 1..n /\ \A i \in 1..n : items[i] \in OwedItems
  BY LenProperties, ElementOfSeq
<1>2. /\ a = [i \in 1..n |-> [items[i] EXCEPT !.from = "old"]]
  BY <1>1 DEF Aged
<1>3. \A i \in 1..n : LET x == [items[i] EXCEPT !.from = "old"]
                      IN  x \in OwedItems /\ x.from = "old" /\ x.reply = items[i].reply
  <2> SUFFICES ASSUME NEW x \in OwedItems
               PROVE  LET y == [x EXCEPT !.from = "old"]
                      IN  y \in OwedItems /\ y.from = "old" /\ y.reply = x.reply
    BY <1>1
  <2> QED BY DEF OwedItems, Origins
<1> HIDE DEF n
<1>4. a \in [1..n -> OwedItems] BY <1>2, <1>3
<1>5. a \in Seq(OwedItems) /\ Len(a) = n /\ DOMAIN a = 1..n BY <1>1, <1>4, Listed
<1>6. \A i \in 1..n : a[i] \in OwedItems /\ a[i].from = "old" /\ a[i].reply = items[i].reply
  BY <1>2, <1>3
<1> HIDE DEF a
<1>7. \A i \in 1..n : ReplyOf[a[i]] = ReplyOf[items[i]] BY <1>1, <1>6 DEF ReplyOf
<1>8. Cat(a) = Cat(items) BY <1>1, <1>5, <1>7 DEF Cat, FlatOf
<1> QED BY <1>5, <1>6, <1>8 DEF a, n

\* The commands of a call have the bytes of its request.
LEMMA OwnDueIs ==
  ASSUME NEW c \in AllCalls
  PROVE  /\ OwnDue(c) \in Seq(DueItems) /\ Len(OwnDue(c)) = Len(Commands(c))
         /\ Requests(OwnDue(c)) = Request(c) /\ Request(c) \in Strings
         /\ \A i \in 1..Len(Commands(c)) : OwnDue(c)[i] = [from |-> "own", cmd |-> Commands(c)[i]]
<1> DEFINE all == Commands(c)
           n == Len(all)
           a == OwnDue(c)
<1>1. all \in Seq(Cmds) BY CommandsAre
<1>2. n \in Nat /\ DOMAIN all = 1..n /\ \A i \in 1..n : all[i] \in Cmds
  BY <1>1, LenProperties, ElementOfSeq
<1>3. a = [i \in 1..n |-> [from |-> "own", cmd |-> all[i]]] BY <1>2 DEF OwnDue
<1>4. Request(c) = FlattenSeq([i \in 1..n |-> Encode(Params(all[i]))])
  BY <1>2 DEF Request, Params
<1> HIDE DEF n, all
<1>5. a \in [1..n -> DueItems] BY <1>2, <1>3 DEF DueItems, Origins
<1>6. a \in Seq(DueItems) /\ Len(a) = n /\ DOMAIN a = 1..n BY <1>2, <1>5, Listed
<1>7. \A i \in 1..n : a[i] \in DueItems /\ a[i] = [from |-> "own", cmd |-> all[i]] BY <1>3, <1>5
<1> HIDE DEF a
<1>8. \A i \in 1..n : RequestOf[a[i]] = Encode(Params(all[i]))
  <2>1. \A i \in 1..n : RequestOf[a[i]] = Encode(Params(a[i].cmd)) BY <1>7 DEF RequestOf
  <2>3. \A x : [from |-> "own", cmd |-> x].cmd = x OBVIOUS
  <2>2. \A i \in 1..n : a[i].cmd = all[i] BY <1>7, <2>3
  <2> QED BY <2>1, <2>2
<1>9. Requests(a) = Request(c) BY <1>4, <1>6, <1>8 DEF Requests, FlatOf
<1>10. Requests(a) \in Strings BY <1>6, RequestOfWrites, FlatOfIs DEF Requests, Strings
<1> QED BY <1>6, <1>7, <1>9, <1>10 DEF a, n, all

\* What the server says has the bytes of the replies.
LEMMA SaidIs ==
  ASSUME NEW units \in Seq(Replies), NEW whose \in Origins
  PROVE  /\ Said(units, whose) \in Seq(OwedItems) /\ Len(Said(units, whose)) = Len(units)
         /\ Cat(Said(units, whose)) = FlattenSeq([i \in DOMAIN units |-> Bytes(units[i])])
         /\ \A i \in 1..Len(units) : Said(units, whose)[i] = [from |-> whose, reply |-> units[i]]
<1> DEFINE n == Len(units)
           a == Said(units, whose)
<1>2. n \in Nat /\ DOMAIN units = 1..n /\ \A i \in 1..n : units[i] \in Replies
  BY LenProperties, ElementOfSeq
<1>3. a = [i \in 1..n |-> [from |-> whose, reply |-> units[i]]] BY <1>2 DEF Said
<1> HIDE DEF n
<1>5. a \in [1..n -> OwedItems] BY <1>2, <1>3 DEF OwedItems
<1>6. a \in Seq(OwedItems) /\ Len(a) = n /\ DOMAIN a = 1..n BY <1>2, <1>5, Listed
<1>7. \A i \in 1..n : a[i] \in OwedItems /\ a[i] = [from |-> whose, reply |-> units[i]] BY <1>3, <1>5
<1> HIDE DEF a
<1>8. \A i \in 1..n : ReplyOf[a[i]] = Bytes(units[i])
  <2>1. \A i \in 1..n : ReplyOf[a[i]] = Bytes(a[i].reply) BY <1>7 DEF ReplyOf
  <2>3. \A x : [from |-> whose, reply |-> x].reply = x OBVIOUS
  <2>2. \A i \in 1..n : a[i].reply = units[i] BY <1>7, <2>3
  <2> QED BY <2>1, <2>2
<1>9. Cat(a) = FlattenSeq([i \in DOMAIN units |-> Bytes(units[i])])
  BY <1>2, <1>6, <1>8 DEF Cat, FlatOf
<1> QED BY <1>6, <1>7, <1>9 DEF a, n

\* The bytes of commands: of none, of the first and the others, of two lists.
LEMMA RequestsIs ==
  /\ Requests(<<>>) = <<>>
  /\ \A s \in Seq(DueItems) :
       /\ Requests(s) \in Strings
       /\ s # <<>> => /\ Head(s) \in DueItems /\ Tail(s) \in Seq(DueItems)
                      /\ Requests(s) = Encode(Params(Head(s).cmd)) \o Requests(Tail(s))
       /\ \A t \in Seq(DueItems) : Requests(s \o t) = Requests(s) \o Requests(t)
<1>1. Requests(<<>>) = <<>> BY FlatOfEmpty DEF Requests
<1> SUFFICES ASSUME NEW s \in Seq(DueItems)
             PROVE  /\ Requests(s) \in Strings
                    /\ s # <<>> => /\ Head(s) \in DueItems /\ Tail(s) \in Seq(DueItems)
                                   /\ Requests(s) = Encode(Params(Head(s).cmd)) \o Requests(Tail(s))
                    /\ \A t \in Seq(DueItems) : Requests(s \o t) = Requests(s) \o Requests(t)
  BY <1>1
<1>2. Requests(s) \in Strings BY RequestOfWrites, FlatOfIs DEF Requests, Strings
<1>3. ASSUME s # <<>>
      PROVE  /\ Head(s) \in DueItems /\ Tail(s) \in Seq(DueItems)
             /\ Requests(s) = Encode(Params(Head(s).cmd)) \o Requests(Tail(s))
  <2>1. Head(s) \in DueItems /\ Tail(s) \in Seq(DueItems) BY <1>3, HeadTailProperties
  <2>2. Requests(s) = RequestOf[Head(s)] \o Requests(Tail(s))
    BY <1>3, RequestOfWrites, FlatOfHead DEF Requests
  <2> QED BY <2>1, <2>2 DEF RequestOf
<1>4. \A t \in Seq(DueItems) : Requests(s \o t) = Requests(s) \o Requests(t)
  BY RequestOfWrites, FlatOfConcat DEF Requests
<1> QED BY <1>2, <1>3, <1>4

\* The bytes of replies: of none, of the first and the others, of two lists.
LEMMA CatIs ==
  /\ Cat(<<>>) = <<>>
  /\ \A s \in Seq(OwedItems) :
       /\ Cat(s) \in Strings
       /\ s # <<>> => /\ Head(s) \in OwedItems /\ Tail(s) \in Seq(OwedItems)
                      /\ Cat(s) = Bytes(Head(s).reply) \o Cat(Tail(s))
       /\ \A t \in Seq(OwedItems) : Cat(s \o t) = Cat(s) \o Cat(t)
<1>1. Cat(<<>>) = <<>> BY FlatOfEmpty DEF Cat
<1> SUFFICES ASSUME NEW s \in Seq(OwedItems)
             PROVE  /\ Cat(s) \in Strings
                    /\ s # <<>> => /\ Head(s) \in OwedItems /\ Tail(s) \in Seq(OwedItems)
                                   /\ Cat(s) = Bytes(Head(s).reply) \o Cat(Tail(s))
                    /\ \A t \in Seq(OwedItems) : Cat(s \o t) = Cat(s) \o Cat(t)
  BY <1>1
<1>2. Cat(s) \in Strings BY ReplyOfWrites, FlatOfIs DEF Cat, Strings
<1>3. ASSUME s # <<>>
      PROVE  /\ Head(s) \in OwedItems /\ Tail(s) \in Seq(OwedItems)
             /\ Cat(s) = Bytes(Head(s).reply) \o Cat(Tail(s))
  <2>1. Head(s) \in OwedItems /\ Tail(s) \in Seq(OwedItems) BY <1>3, HeadTailProperties
  <2>2. Cat(s) = ReplyOf[Head(s)] \o Cat(Tail(s))
    BY <1>3, ReplyOfWrites, FlatOfHead DEF Cat
  <2> QED BY <2>1, <2>2 DEF ReplyOf
<1>4. \A t \in Seq(OwedItems) : Cat(s \o t) = Cat(s) \o Cat(t)
  BY ReplyOfWrites, FlatOfConcat DEF Cat
<1> QED BY <1>2, <1>3, <1>4

\* a is b, or when the rest is lost the beginning of b.
Follows(a, b, lost) == Starts(a, b) /\ (~lost => a = b)

\* A stream follows itself.
LEMMA FollowsSame ==
  ASSUME NEW a \in Strings, NEW lost
  PROVE  Follows(a, a, lost)
<1>1. a = SubSeq(a, 1, Len(a)) /\ Len(a) \in Nat
  <2>1. <<>> \in Seq(STRING) OBVIOUS
  <2>2. a \o <<>> = a /\ Len(a) \in Nat BY ConcatEmptySeq, LenProperties DEF Strings
  <2>3. SubSeq(a \o <<>>, 1, Len(a)) = a BY <2>1, CutConcat DEF Strings
  <2> QED BY <2>2, <2>3
<1> QED BY <1>1 DEF Follows, Starts

\* The same beginning may be taken off or put on.
LEMMA FollowsAfter ==
  ASSUME NEW a \in Strings, NEW b \in Strings, NEW c \in Strings, NEW lost
  PROVE  Follows(a \o b, a \o c, lost) <=> Follows(b, c, lost)
<1>1. Starts(a \o b, a \o c) <=> Starts(b, c) BY StartsAfter DEF Strings
<1>2. a \o b = a \o c => b = c BY CatCancel DEF Strings
<1> QED BY <1>1, <1>2 DEF Follows

\* The beginning of what follows.
LEMMA FollowsLess ==
  ASSUME NEW a \in Strings, NEW b \in Strings, NEW c \in Strings, Follows(a \o b, c, FALSE)
  PROVE  Follows(a, c, TRUE)
<1>1. a \o b = c BY DEF Follows
<1>2. Starts(a, c) BY <1>1, StartsThen DEF Strings
<1> QED BY <1>2 DEF Follows

\* Only an empty stream follows nothing.
LEMMA FollowsNothing ==
  ASSUME NEW a \in Strings, NEW lost, Follows(a, <<>>, lost)
  PROVE  a = <<>>
<1>1. Len(a) <= Len(<<>>) /\ Len(a) \in Nat BY LenProperties DEF Follows, Starts, Strings
<1>2. Len(<<>>) = 0 OBVIOUS
<1>3. Len(a) = 0 BY <1>1, <1>2
<1> QED BY <1>3, EmptySeq DEF Strings

\* Nothing changes when nothing is added.
LEMMA NothingConcat ==
  ASSUME NEW a \in Strings
  PROVE  <<>> \o a = a /\ a \o <<>> = a /\ <<>> \in Strings
BY ConcatEmptySeq DEF Strings

\* Two sequences that make nothing are empty.
LEMMA ConcatNothing ==
  ASSUME NEW a \in Strings, NEW b \in Strings, a \o b = <<>>
  PROVE  a = <<>> /\ b = <<>>
<1>1. Len(a \o b) = Len(a) + Len(b) /\ Len(a) \in Nat /\ Len(b) \in Nat BY StringsConcat
<1>2. Len(a \o b) = 0 OBVIOUS
<1>3. Len(a) = 0 /\ Len(b) = 0 BY <1>1, <1>2
<1> QED BY <1>3, EmptySeq DEF Strings

-----------------------------------------------------------------------------
(* A reader and the stream                                                 *)

Reads == [line : Strings, take : Nat, eol : BOOLEAN, want : Nat, data : Strings,
          left : Nat, elems : Seq(Strings)]

\* The bulk that is read: the reply, or an element of it.
BulkOf(r, f) == IF f.left = 0 THEN r ELSE r.v[Len(f.elems) + 1]

\* What a reader has of its line or bulk, and what is left to read of it and
\* of the replies behind it.
Given(f, p) == IF p = "body" THEN f.data ELSE f.line
Unread(f, p, s, w) == (IF p = "take" THEN From(s, f.take + 1) ELSE s) \o w
Behind(o, f) ==
  (IF f.left = 0 THEN <<>> ELSE Elements(From(Head(o).reply.v, Len(f.elems) + 2)))
    \o Cat(Tail(o))
Expected(o, f, p) ==
  IF o = <<>> THEN <<>>
  ELSE (IF p = "body" THEN BulkOf(Head(o).reply, f).v \o EOL ELSE Bytes(BulkOf(Head(o).reply, f)))
         \o Behind(o, f)

\* A multi bulk of which some elements are read.
Partly(o, f) ==
  LET r == Head(o).reply
  IN  /\ o # <<>> /\ r.t = "multi" /\ Len(r.v) = Len(f.elems) + f.left
      /\ \A i \in 1..Len(f.elems) : f.elems[i] = Content(r.v[i])

Wanted(o, f) ==
  LET b == BulkOf(Head(o).reply, f)
  IN  o # <<>> /\ b.t = "bulk" /\ f.want > 0 /\ f.want + Len(f.data) = Len(b.v) + 2

InStep_(o, f, p, s, w, lost) ==
  /\ Follows(Given(f, p) \o Unread(f, p, s, w), Expected(o, f, p), lost)
  /\ p = "body" => Wanted(o, f)
  /\ f.left = 0 => f.elems = <<>>
  /\ f.left > 0 => Partly(o, f)

-----------------------------------------------------------------------------

\* A reader that has not begun.
LEMMA FreshIs == Fresh \in Reads
<1>1. <<>> \in Strings /\ <<>> \in Seq(Strings) BY DEF Strings
<1> QED BY <1>1 DEF Fresh, Reads

\* The reply a reader is at, and what is behind it.
LEMMA BulkIs ==
  ASSUME NEW o \in Seq(OwedItems), o # <<>>, NEW f \in Reads, f.left > 0 => Partly(o, f)
  PROVE  /\ Head(o).reply \in Replies /\ BulkOf(Head(o).reply, f) \in Replies
         /\ f.left > 0 => /\ Head(o).reply.v \in Seq(BulkReplies)
                          /\ Len(f.elems) + 1 \in 1..Len(Head(o).reply.v)
                          /\ BulkOf(Head(o).reply, f) \in BulkReplies
         /\ Behind(o, f) \in Strings /\ Cat(Tail(o)) \in Strings
         /\ f.left \in Nat /\ Len(f.elems) \in Nat
<1> DEFINE r == Head(o).reply
           k == Len(f.elems)
           v == r.v
<1>1. r \in Replies /\ Tail(o) \in Seq(OwedItems) BY CatIs DEF OwedItems
<1>2. Cat(Tail(o)) \in Strings BY <1>1, CatIs
<1>3. f.left \in Nat /\ k \in Nat BY LenProperties DEF Reads
<1>4. CASE f.left = 0
  <2>1. BulkOf(r, f) = r /\ Behind(o, f) = <<>> \o Cat(Tail(o)) BY <1>4 DEF BulkOf, Behind
  <2>2. <<>> \o Cat(Tail(o)) = Cat(Tail(o)) BY <1>2, NothingConcat
  <2> QED BY <1>1, <1>2, <1>3, <1>4, <2>1, <2>2
<1>5. CASE f.left > 0
  <2>1. r.t = "multi" /\ Len(v) = k + f.left BY <1>5 DEF Partly
  <2>2. v \in Seq(BulkReplies)
    <3>1. r \notin LineReplies /\ r \notin BulkReplies /\ r # NilMulti
      BY <2>1 DEF LineReplies, BulkReplies, Texts, Nil, NilMulti, Reply
    <3>2. r \in Multis BY <1>1, <3>1 DEF Replies
    <3> QED BY <3>2 DEF Multis
  <2>9. f.left # 0 BY <1>3, <1>5
  <2>3. BulkOf(r, f) = v[k + 1] /\ Behind(o, f) = Elements(From(v, k + 2)) \o Cat(Tail(o))
    <3>1. BulkOf(r, f) = v[k + 1] BY <2>9 DEF BulkOf
    <3>2. Behind(o, f) = Elements(From(v, k + 2)) \o Cat(Tail(o)) BY <2>9 DEF Behind
    <3> QED BY <3>1, <3>2
  <2> HIDE DEF r, k, v
  <2>4. k + 1 \in 1..Len(v) BY <1>3, <1>5, <2>1
  <2>5. v[k + 1] \in BulkReplies BY <2>2, <2>4, ElementOfSeq
  <2>6. From(v, k + 2) \in Seq(BulkReplies)
    <3> DEFINE n == k + 1
    <3>1. n \in 0..Len(v) /\ n + 1 = k + 2 BY <1>3, <2>4
    <3> HIDE DEF n
    <3>2. SubSeq(v, n + 1, Len(v)) \in Seq(BulkReplies) BY <2>2, <3>1, CutAt
    <3> QED BY <3>1, <3>2 DEF From
  <2>7. Elements(From(v, k + 2)) \in Strings BY <2>6, ElementsIs
  <2>8. Behind(o, f) \in Strings BY <1>2, <2>3, <2>7, StringsConcat
  <2> QED BY <1>1, <1>2, <1>3, <2>2, <2>3, <2>4, <2>5, <2>8 DEF r, k, v, Replies
<1> QED BY <1>3, <1>4, <1>5

\* What a fresh reader finds are whole replies.
LEMMA FreshStream ==
  ASSUME NEW o \in Seq(OwedItems), NEW s \in Strings, NEW w \in Strings
  PROVE  /\ Given(Fresh, "line") \o Unread(Fresh, "line", s, w) = s \o w
         /\ Expected(o, Fresh, "line") = Cat(o)
<1>1. Fresh.left = 0 /\ Fresh.elems = <<>> /\ Fresh.line = <<>> BY DEF Fresh
<1>2. Given(Fresh, "line") = <<>> /\ Unread(Fresh, "line", s, w) = s \o w
  BY <1>1 DEF Given, Unread
<1>3. <<>> \o (s \o w) = s \o w BY StringsConcat, NothingConcat
<1>4. Expected(o, Fresh, "line") = Cat(o)
  <2>1. CASE o = <<>> BY <2>1, CatIs DEF Expected
  <2>2. CASE o # <<>>
    <3>1. BulkOf(Head(o).reply, Fresh) = Head(o).reply /\ Behind(o, Fresh) = <<>> \o Cat(Tail(o))
      BY <1>1 DEF BulkOf, Behind
    <3>2. Cat(Tail(o)) \in Strings BY <2>2, CatIs
    <3>3. <<>> \o Cat(Tail(o)) = Cat(Tail(o)) BY <3>2, NothingConcat
    <3>4. Expected(o, Fresh, "line") = Bytes(Head(o).reply) \o Cat(Tail(o))
      BY <2>2, <3>1, <3>3 DEF Expected
    <3> QED BY <2>2, <3>4, CatIs
  <2> QED BY <2>1, <2>2
<1> QED BY <1>2, <1>3, <1>4

\* A reader that begins where a reply begins is in step.
LEMMA StreamFresh ==
  ASSUME NEW o \in Seq(OwedItems), NEW s \in Strings, NEW w \in Strings, NEW lost,
         Follows(s \o w, Cat(o), lost)
  PROVE  InStep_(o, Fresh, "line", s, w, lost)
<1>1. Fresh.left = 0 /\ Fresh.elems = <<>> /\ ~(Fresh.left > 0) BY DEF Fresh
<1>2. Follows(Given(Fresh, "line") \o Unread(Fresh, "line", s, w), Expected(o, Fresh, "line"), lost)
  BY FreshStream
<1> QED BY <1>1, <1>2 DEF InStep_

-----------------------------------------------------------------------------
(* A reader stays in step                                                  *)

\* Facts about strings, under names of their own.
Regroup(a, b, c, d) == (a \o b) \o (c \o d) = a \o ((b \o c) \o d)

\* Four sequences may be grouped in either way.
LEMMA FourStrings ==
  ASSUME NEW a \in Strings, NEW b \in Strings, NEW c \in Strings, NEW d \in Strings
  PROVE  Regroup(a, b, c, d)
<1> DEFINE y == c \o d
<1>0. y \in Strings BY StringsConcat
<1>1. (b \o c) \o d = b \o y BY StringsAssociative
<1> HIDE DEF y
<1>2. (a \o b) \o y = a \o (b \o y) BY SMTT(60), <1>0, StringsAssociative
<1> QED BY <1>1, <1>2 DEF y, Regroup

AfterLine(h, b, z) == ((h \o EOL) \o b) \o z = (h \o EOL) \o (b \o z) /\ h \o EOL \in Strings

\* What comes after the line end of a line.
LEMMA RestOfLine ==
  ASSUME NEW h \in Strings, NEW b \in Strings, NEW z \in Strings
  PROVE  AfterLine(h, b, z)
<1> DEFINE y == h \o EOL
<1>1. y \in Strings BY LineEnd, StringsConcat
<1> HIDE DEF y
<1>2. (y \o b) \o z = y \o (b \o z) BY <1>1, StringsAssociative
<1> QED BY <1>1, <1>2 DEF y, AfterLine

\* A line that is read is the first line of the reply.
LEMMA StreamLine ==
  ASSUME NEW o \in Seq(OwedItems), NEW f \in Reads, NEW s \in Strings, NEW w \in Strings, NEW lost,
         f.line # <<>>, NoLF(Front(f.line)), Last(f.line) = "LF", InStep_(o, f, "decode", s, w, lost)
  PROVE  /\ o # <<>>
         /\ f.line = LineOf(BulkOf(Head(o).reply, f)) \o EOL
         /\ Follows(s \o w, Body(BulkOf(Head(o).reply, f)) \o Behind(o, f), lost)
<1> DEFINE l == f.line
           b == BulkOf(Head(o).reply, f)
           x == s \o w
           e == Expected(o, f, "decode")
           z == Behind(o, f)
<1>1. l \in Strings /\ x \in Strings BY StringsConcat DEF Reads
<1>2. Follows(l \o x, e, lost) BY DEF InStep_, Given, Unread
<1>3. o # <<>>
  <2> SUFFICES ASSUME o = <<>> PROVE FALSE OBVIOUS
  <2>1. e = <<>> BY DEF Expected
  <2> HIDE DEF l, x, e
  <2>2. l \o x \in Strings BY <1>1, StringsConcat
  <2>3. l \o x = <<>> BY <1>2, <2>1, <2>2, FollowsNothing
  <2>4. l = <<>> BY <1>1, <2>3, ConcatNothing
  <2> QED BY <2>4 DEF l
<1>4. f.left > 0 => Partly(o, f) BY DEF InStep_
<1>5. b \in Replies /\ z \in Strings BY <1>3, <1>4, BulkIs
<1>6. e = Bytes(b) \o z BY <1>3 DEF Expected
<1> HIDE DEF b, z, e
<1>7. /\ Body(b) \in Strings /\ Bytes(b) = (LineOf(b) \o EOL) \o Body(b)
      /\ LineOf(b) \in Strings /\ Plain(LineOf(b))
  BY <1>5, BytesIs
<1>8. LineOf(b) \o EOL \in Strings /\ Body(b) \o z \in Strings BY <1>5, <1>7, LineEnd, StringsConcat
<1>9. e = (LineOf(b) \o EOL) \o (Body(b) \o z)
  <2> DEFINE h == LineOf(b)
             y == Body(b)
  <2>1. h \in Strings /\ y \in Strings /\ e = ((h \o EOL) \o y) \o z BY <1>6, <1>7
  <2> HIDE DEF h, y
  <2>2. AfterLine(h, y, z) BY <1>5, <2>1, RestOfLine
  <2> QED BY <2>1, <2>2 DEF h, y, AfterLine
<1>10. l # <<>> /\ NoLF(Front(l)) /\ Last(l) = "LF" OBVIOUS
<1>11. Starts(l \o x, (LineOf(b) \o EOL) \o (Body(b) \o z)) BY <1>2, <1>9 DEF Follows
<1> HIDE DEF l, x
<1>12. l = LineOf(b) \o EOL /\ Starts(x, Body(b) \o z)
       /\ (l \o x = (LineOf(b) \o EOL) \o (Body(b) \o z) => x = Body(b) \o z)
  <2> DEFINE h == LineOf(b)
             y == Body(b) \o z
  <2>1. h \in Strings /\ Plain(h) /\ y \in Strings /\ Starts(l \o x, (h \o EOL) \o y)
    BY <1>7, <1>8, <1>11
  <2> HIDE DEF h, y
  <2>2. IsLine(l) BY <1>1, <1>10 DEF IsLine
  <2>3. BeginsWith(l, x, h, y) BY <1>1, <2>1, <2>2, FirstLine
  <2> QED BY <2>3 DEF h, y, BeginsWith
<1>13. Follows(x, Body(b) \o z, lost) BY <1>2, <1>9, <1>12 DEF Follows
<1> QED BY <1>3, <1>12, <1>13 DEF l, x, b, z

\* Readers that are at the same element.
SamePlace(f, g) == g.left = f.left /\ g.elems = f.elems

\* Two readers at the same place of a reply expect the same.
LEMMA SamePlaceIs ==
  ASSUME NEW o, NEW f, NEW g, SamePlace(f, g)
  PROVE  /\ BulkOf(Head(o).reply, g) = BulkOf(Head(o).reply, f) /\ Behind(o, g) = Behind(o, f)
         /\ Partly(o, g) <=> Partly(o, f)
         /\ \A p : Expected(o, g, p) = Expected(o, f, p)
<1>1. BulkOf(Head(o).reply, g) = BulkOf(Head(o).reply, f) BY DEF SamePlace, BulkOf
<1>2. Behind(o, g) = Behind(o, f) BY DEF SamePlace, Behind
<1>3. Partly(o, g) <=> Partly(o, f) BY DEF SamePlace, Partly
<1> QED BY <1>1, <1>2, <1>3 DEF Expected

\* A sequence cut in two.
LEMMA CutString ==
  ASSUME NEW a \in Strings, NEW n \in 0..Len(a)
  PROVE  /\ SubSeq(a, 1, n) \in Strings /\ From(a, n + 1) \in Strings
         /\ SubSeq(a, 1, n) \o From(a, n + 1) = a
         /\ Len(SubSeq(a, 1, n)) = n /\ Len(From(a, n + 1)) = Len(a) - n /\ Len(a) \in Nat
         /\ \A i \in 1..n : SubSeq(a, 1, n)[i] = a[i]
<1>1. a \in Seq(STRING) /\ Len(a) \in Nat BY LenProperties DEF Strings
<1> QED BY <1>1, CutAt DEF Strings, From

\* What was peeked at is part of the line.
LEMMA StreamPeek ==
  ASSUME NEW o \in Seq(OwedItems), NEW f \in Reads, NEW g \in Reads, NEW s \in Strings,
         NEW w \in Strings, NEW lost, NEW n \in 0..Len(s), InStep_(o, f, "line", s, w, lost),
         SamePlace(f, g), g.line = f.line \o SubSeq(s, 1, n), g.take = n
  PROVE  InStep_(o, g, "take", s, w, lost)
<1> DEFINE l == f.line
           a == SubSeq(s, 1, n)
           b == From(s, n + 1)
<1>1. l \in Strings /\ a \in Strings /\ b \in Strings /\ a \o b = s BY CutString DEF Reads
<1>2. Given(g, "take") \o Unread(g, "take", s, w) = (l \o a) \o (b \o w) BY DEF Given, Unread
<1>3. Given(f, "line") \o Unread(f, "line", s, w) = l \o ((a \o b) \o w)
  BY <1>1 DEF Given, Unread
<1> HIDE DEF l, a, b
<1>4. (l \o a) \o (b \o w) = l \o ((a \o b) \o w)
  <2>1. l \in Strings /\ a \in Strings /\ b \in Strings /\ w \in Strings BY <1>1
  <2>2. Regroup(l, a, b, w) BY <2>1, FourStrings
  <2> QED BY <2>2 DEF Regroup
<1>5. Expected(o, g, "take") = Expected(o, f, "line")
  BY SamePlaceIs DEF Expected
<1>6. Follows(Given(g, "take") \o Unread(g, "take", s, w), Expected(o, g, "take"), lost)
  BY <1>2, <1>3, <1>4, <1>5 DEF InStep_
<1>7. (g.left = 0 => g.elems = <<>>) /\ (g.left > 0 => Partly(o, g))
  BY SamePlaceIs DEF InStep_, SamePlace
<1> QED BY <1>6, <1>7 DEF InStep_

\* What was peeked at leaves the socket.
LEMMA StreamTake ==
  ASSUME NEW o \in Seq(OwedItems), NEW f \in Reads, NEW s \in Strings,
         NEW w \in Strings, NEW lost, InStep_(o, f, "take", s, w, lost), NEW p \in {"line", "decode"}
  PROVE  InStep_(o, f, p, From(s, f.take + 1), w, lost)
<1>1. Given(f, p) = Given(f, "take") /\ Unread(f, p, From(s, f.take + 1), w) = Unread(f, "take", s, w)
      /\ Expected(o, f, p) = Expected(o, f, "take")
  BY DEF Given, Unread, Expected
<1> QED BY <1>1 DEF InStep_

\* The body of a bulk comes after its line.
LEMMA StreamBody ==
  ASSUME NEW o \in Seq(OwedItems), o # <<>>, NEW f \in Reads, NEW g \in Reads, NEW s \in Strings,
         NEW w \in Strings, NEW lost, InStep_(o, f, "decode", s, w, lost),
         SamePlace(f, g), g.data = <<>>,
         BulkOf(Head(o).reply, f).t = "bulk", g.want = Len(BulkOf(Head(o).reply, f).v) + 2,
         Follows(s \o w, Body(BulkOf(Head(o).reply, f)) \o Behind(o, f), lost)
  PROVE  InStep_(o, g, "body", s, w, lost)
<1> DEFINE b == BulkOf(Head(o).reply, f)
<1>1. b \in Replies BY BulkIs DEF InStep_
<1>2. b.v \in ParamSet
  <2>1. b \in Texts
    BY <1>1 DEF Replies, BulkReplies, LineReplies, Multis, Nil, NilMulti, Reply
  <2> QED BY <2>1 DEF Texts
<1>3. Len(b.v) \in Nat BY <1>2, LenProperties DEF ParamSet, Strings
<1>4. BulkOf(Head(o).reply, g) = b /\ Behind(o, g) = Behind(o, f) BY SamePlaceIs
<1>5. Wanted(o, g)
  <2>1. Len(g.data) = 0 OBVIOUS
  <2>2. g.want = Len(b.v) + 2 /\ b.t = "bulk" OBVIOUS
  <2> HIDE DEF b
  <2>3. g.want > 0 /\ g.want + Len(g.data) = Len(b.v) + 2 BY <1>3, <2>1, <2>2
  <2> QED BY <1>4, <2>2, <2>3 DEF Wanted
<1>6. Body(b) = b.v \o EOL BY DEF Body
<1>7. Expected(o, g, "body") = Body(b) \o Behind(o, f) BY <1>4, <1>6 DEF Expected
<1>8. Given(g, "body") \o Unread(g, "body", s, w) = s \o w
  BY StringsConcat, NothingConcat DEF Given, Unread
<1>9. (g.left = 0 => g.elems = <<>>) /\ (g.left > 0 => Partly(o, g))
  BY SamePlaceIs DEF InStep_, SamePlace
<1> QED BY <1>5, <1>7, <1>8, <1>9 DEF InStep_

\* Some bytes of a body arrive.
LEMMA StreamPart ==
  ASSUME NEW o \in Seq(OwedItems), NEW f \in Reads, NEW g \in Reads, NEW s \in Strings,
         NEW w \in Strings, NEW lost, NEW n \in 0..Len(s), n < f.want,
         InStep_(o, f, "body", s, w, lost),
         SamePlace(f, g), g.data = f.data \o SubSeq(s, 1, n), g.want = f.want - n
  PROVE  InStep_(o, g, "body", From(s, n + 1), w, lost)
<1> DEFINE l == f.data
           a == SubSeq(s, 1, n)
           b == From(s, n + 1)
<1>1. l \in Strings /\ a \in Strings /\ b \in Strings /\ a \o b = s /\ Len(a) = n
      /\ Len(s) \in Nat
  BY CutString DEF Reads
<1>2. Given(g, "body") \o Unread(g, "body", b, w) = (l \o a) \o (b \o w) BY DEF Given, Unread
<1>3. Given(f, "body") \o Unread(f, "body", s, w) = l \o ((a \o b) \o w)
  BY <1>1 DEF Given, Unread
<1>0. Len(g.data) = Len(l \o a) OBVIOUS
<1> HIDE DEF l, a, b
<1>4. (l \o a) \o (b \o w) = l \o ((a \o b) \o w)
  <2>1. l \in Strings /\ a \in Strings /\ b \in Strings /\ w \in Strings BY <1>1
  <2>2. Regroup(l, a, b, w) BY <2>1, FourStrings
  <2> QED BY <2>2 DEF Regroup
<1>5. Expected(o, g, "body") = Expected(o, f, "body")
  <2>1. \A p : Expected(o, g, p) = Expected(o, f, p) BY SamePlaceIs
  <2> QED BY <2>1
<1>6. Follows(Given(g, "body") \o Unread(g, "body", b, w), Expected(o, g, "body"), lost)
  BY <1>2, <1>3, <1>4, <1>5 DEF InStep_
<1>7. (g.left = 0 => g.elems = <<>>) /\ (g.left > 0 => Partly(o, g))
  BY SamePlaceIs DEF InStep_, SamePlace
<1>8. Wanted(o, g)
  <2>1. Wanted(o, f) BY DEF InStep_
  <2>2. Len(l \o a) = Len(l) + n /\ Len(l) \in Nat BY <1>1, StringsConcat
  <2>3. f.want \in Nat /\ n \in Nat BY DEF Reads
  <2> DEFINE v == BulkOf(Head(o).reply, f).v
             lv == Len(v)
  <2>4. f.want + Len(l) = lv + 2 /\ o # <<>> /\ BulkOf(Head(o).reply, f).t = "bulk"
    BY <2>1 DEF Wanted, l
  <2> HIDE DEF lv
  <2>5. g.want > 0 /\ g.want + Len(g.data) = lv + 2
    <3> DEFINE k == Len(l)
               j == f.want
    <3>1. Len(g.data) = k + n /\ k \in Nat /\ j \in Nat /\ n \in Nat /\ j + k = lv + 2
          /\ g.want = j - n /\ n < j
      BY <1>0, <2>2, <2>3, <2>4
    <3> HIDE DEF k, j
    <3>2. j - n > 0 /\ (j - n) + (k + n) = j + k BY <3>1
    <3> QED BY <3>1, <3>2
  <2>6. BulkOf(Head(o).reply, g) = BulkOf(Head(o).reply, f) BY SamePlaceIs
  <2> QED BY <2>4, <2>5, <2>6 DEF Wanted, lv
<1> QED BY <1>6, <1>7, <1>8 DEF InStep_, b

\* The last bytes of a body arrive.
LEMMA StreamWhole ==
  ASSUME NEW o \in Seq(OwedItems), NEW f \in Reads, NEW s \in Strings,
         NEW w \in Strings, NEW lost, f.want \in 0..Len(s), InStep_(o, f, "body", s, w, lost)
  PROVE  LET data == f.data \o SubSeq(s, 1, f.want)
             b == BulkOf(Head(o).reply, f)
         IN  /\ o # <<>> /\ b \in Texts /\ SubSeq(data, 1, Len(data) - 2) = b.v
             /\ Follows(From(s, f.want + 1) \o w, Behind(o, f), lost)
<1> DEFINE n == f.want
           l == f.data
           a == SubSeq(s, 1, n)
           c == From(s, n + 1)
           data == l \o a
           b == BulkOf(Head(o).reply, f)
           v == b.v
           z == Behind(o, f)
<1>1. l \in Strings /\ a \in Strings /\ c \in Strings /\ a \o c = s /\ Len(a) = n
      /\ Len(s) \in Nat
  BY CutString DEF Reads
<1>2. Wanted(o, f) BY DEF InStep_
<1>3. o # <<>> /\ b.t = "bulk" /\ n + Len(l) = Len(v) + 2 BY <1>2 DEF Wanted
<1>4. b \in Texts /\ z \in Strings
  <2>1. b \in Replies /\ z \in Strings BY <1>3, BulkIs DEF InStep_
  <2> QED BY <1>3, <2>1 DEF Replies, BulkReplies, LineReplies, Multis, Nil, NilMulti, Reply
<1>5. v \in Strings BY <1>4 DEF Texts, ParamSet
<1>6. Expected(o, f, "body") = (v \o EOL) \o z BY <1>3 DEF Expected
<1>7. Given(f, "body") \o Unread(f, "body", s, w) = l \o ((a \o c) \o w)
  BY <1>1 DEF Given, Unread
<1>8. Follows(l \o ((a \o c) \o w), (v \o EOL) \o z, lost) BY <1>6, <1>7 DEF InStep_
<1> HIDE DEF l, a, c, v, z, b, n
<1>9. l \o ((a \o c) \o w) = data \o (c \o w)
  <2>1. l \in Strings /\ a \in Strings /\ c \in Strings /\ w \in Strings BY <1>1
  <2>2. Regroup(l, a, c, w) BY <2>1, FourStrings
  <2> QED BY <2>2 DEF Regroup
<1>10. data \in Strings /\ Len(data) = Len(l) + n /\ Len(l) \in Nat BY <1>1, StringsConcat
<1>11. v \o EOL \in Strings /\ Len(v \o EOL) = Len(v) + 2 /\ Len(v) \in Nat
  <2>1. EOL \in Strings /\ Len(EOL) = 2 BY LineEnd
  <2> QED BY ZenonT(60), <1>5, <2>1, StringsConcat
<1>12. n \in Nat BY <1>1, LenProperties DEF Strings
<1>13. Len(data) = Len(v \o EOL) BY <1>3, <1>10, <1>11, <1>12
<1>14. c \o w \in Strings BY <1>1, StringsConcat
<1>15. data = v \o EOL
  <2> DEFINE x == data \o (c \o w)
             y == (v \o EOL) \o z
  <2>1. x \in Strings /\ y \in Strings BY <1>4, <1>10, <1>11, <1>14, StringsConcat
  <2>2. Starts(x, y) BY <1>8, <1>9 DEF Follows
  <2> HIDE DEF x, y
  <2>3. y = x \o From(y, Len(x) + 1) /\ From(y, Len(x) + 1) \in Strings
    BY <2>1, <2>2, StartsThen DEF Strings
  <2> DEFINE t == From(y, Len(x) + 1)
  <2> HIDE DEF t
  <2>4. t \in Strings /\ y = x \o t BY <2>3 DEF t
  <2>5. x \o t = data \o ((c \o w) \o t)
    BY <1>10, <1>14, <2>4, StringsAssociative, ZenonT(60) DEF x
  <2>6. (c \o w) \o t \in Strings BY <1>14, <2>4, StringsConcat
  <2>7. (v \o EOL) \o z = data \o ((c \o w) \o t) BY <2>4, <2>5 DEF y
  <2> HIDE DEF data
  <2> DEFINE u == v \o EOL
             r == (c \o w) \o t
  <2>8. u \in Seq(STRING) /\ r \in Seq(STRING) /\ data \in Seq(STRING) /\ z \in Seq(STRING)
        /\ u \o z = data \o r /\ Len(u) = Len(data)
    BY <1>4, <1>10, <1>11, <1>13, <2>6, <2>7 DEF Strings
  <2> HIDE DEF u, r
  <2>9. u = data BY <2>8, CatCancel
  <2> QED BY <2>9 DEF u
<1>16. Follows(c \o w, z, lost)
  <2>1. Follows(data \o (c \o w), data \o z, lost) BY <1>8, <1>9, <1>15
  <2> HIDE DEF data
  <2> QED BY <1>4, <1>10, <1>14, <2>1, FollowsAfter
<1>17. SubSeq(data, 1, Len(data) - 2) = v
  <2>1. SubSeq(v \o EOL, 1, Len(v)) = v BY <1>5, LineEnd, CutConcat DEF Strings
  <2>2. Len(data) - 2 = Len(v) BY <1>11, <1>13
  <2> QED BY <1>15, <2>1, <2>2
<1> QED BY <1>3, <1>4, <1>16, <1>17 DEF n, l, a, c, v, z, b

-----------------------------------------------------------------------------
(* Multi bulks                                                             *)

\* An element of a multi bulk is a nil or a text.
LEMMA BulkKinds ==
  ASSUME NEW b \in BulkReplies
  PROVE  /\ b = Nil \/ b \in Texts
         /\ b = Nil => b.t = "nil" /\ b.v = <<>>
         /\ b \in Texts => b.t = "bulk" /\ b.v \in ParamSet /\ b.v \in Strings
BY DEF BulkReplies, Texts, Nil, Reply, ParamSet

\* The value that stands for a missing one.
LEMMA MissingIs == Missing \in Strings
<1>1. "**nonexistent-key**" \in STRING BY Zenon, WordsAssumption
<1> QED BY <1>1, WordIs DEF Missing

\* The contents of a bulk.
LEMMA ContentBulk ==
  ASSUME NEW b \in BulkReplies
  PROVE  /\ Content(b) = IF b.t = "nil" THEN Missing ELSE b.v
         /\ Content(b) \in Strings
<1>1. CASE b = Nil
  <2>1. b.t = "nil" BY <1>1, BulkKinds
  <2>2. Content(b) = Missing BY <2>1 DEF Content
  <2> QED BY <2>1, <2>2, MissingIs
<1>2. CASE b \in Texts
  <2>1. b.t = "bulk" /\ b.v \in Strings BY <1>2, BulkKinds
  <2>2. Content(b) = b.v BY <2>1 DEF Content
  <2> QED BY <2>1, <2>2
<1> QED BY <1>1, <1>2, BulkKinds

\* The contents of a multi bulk are those of its elements.
LEMMA ContentMulti ==
  ASSUME NEW r, r.t = "multi", r.v \in Seq(BulkReplies)
  PROVE  Content(r) = [i \in 1..Len(r.v) |-> Content(r.v[i])]
<1> DEFINE v == r.v
<1>1. Content(r) = [i \in DOMAIN v |-> IF v[i].t = "nil" THEN Missing ELSE v[i].v] BY DEF Content
<1>2. v \in Seq(BulkReplies) OBVIOUS
<1> HIDE DEF v
<1>3. DOMAIN v = 1..Len(v) /\ \A i \in 1..Len(v) : v[i] \in BulkReplies
  BY <1>2, LenProperties, ElementOfSeq
<1>4. \A i \in 1..Len(v) : Content(v[i]) = IF v[i].t = "nil" THEN Missing ELSE v[i].v
  BY <1>3, ContentBulk
<1>5. Content(r) = [i \in 1..Len(v) |-> Content(v[i])] BY <1>1, <1>3, <1>4
<1> QED BY <1>5 DEF v

\* The elements of a multi bulk from m on are the element m and those behind it.
LEMMA SplitElements ==
  ASSUME NEW v \in Seq(BulkReplies)
  PROVE  /\ Elements(From(v, Len(v) + 1)) = <<>> /\ From(v, 1) = v
         /\ \A m \in 1..Len(v) :
              /\ From(v, m + 1) \in Seq(BulkReplies)
              /\ Elements(From(v, m)) = BulkBytes(v[m]) \o Elements(From(v, m + 1))
<1>0. Len(v) \in Nat BY LenProperties
<1>1. From(v, Len(v) + 1) = <<>> /\ From(v, 1) = v
  <2>1. Len(v) \in 0..Len(v) /\ 0 \in 0..Len(v) BY <1>0
  <2>2. /\ SubSeq(v, Len(v) + 1, Len(v)) \in Seq(BulkReplies)
        /\ Len(SubSeq(v, Len(v) + 1, Len(v))) = Len(v) - Len(v)
    BY <2>1, CutAt
  <2>3. Len(v) - Len(v) = 0 BY <1>0
  <2>4. SubSeq(v, Len(v) + 1, Len(v)) = <<>> BY <2>2, <2>3, EmptySeq
  <2>5. SubSeq(v, 1, Len(v)) = v
    <3>1. v \o <<>> = v /\ <<>> \in Seq(BulkReplies) BY ConcatEmptySeq
    <3>2. SubSeq(v \o <<>>, 1, Len(v)) = v BY <3>1, CutConcat
    <3> QED BY <3>1, <3>2
  <2> QED BY <2>4, <2>5 DEF From
<1>2. Elements(<<>>) = <<>> BY FlatOfEmpty DEF Elements
<1>3. ASSUME NEW m \in 1..Len(v)
      PROVE  /\ From(v, m + 1) \in Seq(BulkReplies)
             /\ Elements(From(v, m)) = BulkBytes(v[m]) \o Elements(From(v, m + 1))
  <2> DEFINE t == From(v, m)
             u == From(v, m + 1)
             l == Len(v)
  <2>0. l \in Nat BY <1>0
  <2>1. t \in Seq(BulkReplies) /\ Len(t) = l - (m - 1)
    <3> DEFINE j == m - 1
    <3>1. j \in 0..Len(v) /\ j + 1 = m BY <1>0
    <3> HIDE DEF j
    <3>2. /\ SubSeq(v, j + 1, Len(v)) \in Seq(BulkReplies)
          /\ Len(SubSeq(v, j + 1, Len(v))) = Len(v) - j
      BY <3>1, CutAt
    <3> QED BY <3>1, <3>2 DEF From, j
  <2>2. u \in Seq(BulkReplies) /\ Len(u) = l - m
    <3>1. m \in 0..Len(v) BY <1>0
    <3>2. /\ SubSeq(v, m + 1, Len(v)) \in Seq(BulkReplies)
          /\ Len(SubSeq(v, m + 1, Len(v))) = Len(v) - m
      BY <3>1, CutAt
    <3> QED BY <3>2 DEF From
  <2>3. \A i \in 1..Len(t) : t[i] = v[m + i - 1] BY <1>0, <2>1 DEF From
  <2>4. \A i \in 1..Len(u) : u[i] = v[m + i] BY <1>0, <2>2 DEF From
  <2> HIDE DEF t, u, l
  <2>5. m <= l BY DEF l
  <2>6. t # <<>> /\ Head(t) = v[m] /\ Tail(t) = u
    <3>1. Len(t) > 0 /\ 1 \in 1..Len(t) BY <2>0, <2>1, <2>5
    <3>2. t # <<>> BY <3>1, <2>1
    <3>3. Head(t) = t[1] /\ Tail(t) \in Seq(BulkReplies) /\ Len(Tail(t)) = Len(t) - 1
          /\ \A i \in 1..Len(Tail(t)) : Tail(t)[i] = t[i + 1]
      <4>1. t \in Seq(BulkReplies) BY <2>1
      <4> QED BY <3>2, <4>1, HeadTailProperties
    <3>4. t[1] = v[m]
      <4>1. t[1] = v[m + 1 - 1] BY <2>3, <3>1
      <4>2. m + 1 - 1 = m OBVIOUS
      <4> QED BY <4>1, <4>2
    <3>5. Len(Tail(t)) = Len(u) BY <2>0, <2>1, <2>2, <2>5, <3>3
    <3>6. \A i \in 1..Len(u) : Tail(t)[i] = u[i]
      <4> SUFFICES ASSUME NEW i \in 1..Len(u) PROVE Tail(t)[i] = u[i] OBVIOUS
      <4> DEFINE j == i + 1
                 k == m + i
      <4>1. j \in 1..Len(t) /\ m + j - 1 = k BY <2>0, <2>1, <2>2, <2>5
      <4>2. Tail(t)[i] = t[j] /\ u[i] = v[k] BY <2>4, <3>3, <3>5
      <4> HIDE DEF j, k
      <4>3. t[j] = v[k] BY <2>3, <4>1
      <4> QED BY <4>2, <4>3
    <3>7. Tail(t) = u BY <2>2, <3>3, <3>5, <3>6, SeqEqual
    <3> QED BY <3>2, <3>3, <3>4, <3>7
  <2>7. Elements(t) = ElementOf[v[m]] \o Elements(u)
    <3>1. t \in Seq(BulkReplies) /\ t # <<>> BY <2>1, <2>6
    <3>2. FlatOf(ElementOf, t) = ElementOf[Head(t)] \o FlatOf(ElementOf, Tail(t))
      BY <3>1, ElementOfWrites, FlatOfHead
    <3> QED BY <2>6, <3>2 DEF Elements
  <2>8. v[m] \in BulkReplies BY ElementOfSeq
  <2>9. ElementOf[v[m]] = BulkBytes(v[m]) BY <2>8 DEF ElementOf
  <2> QED BY <2>2, <2>7, <2>9 DEF t, u
<1> QED BY <1>1, <1>2, <1>3

\* A multi bulk: what is still to be read of it are its other elements.
LEMMA StreamElements ==
  ASSUME NEW o \in Seq(OwedItems), NEW g \in Reads, NEW s \in Strings, NEW w \in Strings, NEW lost,
         Partly(o, g), g.left > 0, g.line = <<>>,
         Follows(s \o w, Elements(From(Head(o).reply.v, Len(g.elems) + 1)) \o Cat(Tail(o)), lost)
  PROVE  InStep_(o, g, "line", s, w, lost)
<1> DEFINE r == Head(o).reply
           v == r.v
           m == Len(g.elems) + 1
           z == Cat(Tail(o))
<1>0. o # <<>> BY DEF Partly
<1>1. v \in Seq(BulkReplies) /\ m \in 1..Len(v) /\ z \in Strings /\ BulkOf(r, g) \in BulkReplies
      /\ g.left \in Nat /\ Len(g.elems) \in Nat
  BY <1>0, BulkIs
<1>2. g.left # 0 BY <1>1
<1>3. BulkOf(r, g) = v[m] BY <1>2 DEF BulkOf
<1>4. Behind(o, g) = Elements(From(v, m + 1)) \o z
  <2>1. m + 1 = Len(g.elems) + 2 BY <1>1
  <2>2. Behind(o, g) = Elements(From(v, Len(g.elems) + 2)) \o z BY <1>2 DEF Behind
  <2> HIDE DEF m, v, z
  <2> QED BY <2>1, <2>2
<1>5. Expected(o, g, "line") = Bytes(v[m]) \o (Elements(From(v, m + 1)) \o z)
  BY <1>0, <1>3, <1>4 DEF Expected
<1>6. Follows(s \o w, Elements(From(v, m)) \o z, lost) OBVIOUS
<1> HIDE DEF v, m, z, r
<1>7. From(v, m + 1) \in Seq(BulkReplies)
      /\ Elements(From(v, m)) = BulkBytes(v[m]) \o Elements(From(v, m + 1))
  BY <1>1, SplitElements
<1>8. v[m] \in BulkReplies /\ Bytes(v[m]) = BulkBytes(v[m]) /\ Bytes(v[m]) \in Strings
  <2>1. v[m] \in BulkReplies BY <1>1, ElementOfSeq
  <2> QED BY <2>1, BulkBytesIs
<1>9. Elements(From(v, m + 1)) \in Strings BY <1>7, ElementsIs
<1>10. Elements(From(v, m)) \o z = Expected(o, g, "line")
  <2> DEFINE a == Bytes(v[m])
             b == Elements(From(v, m + 1))
  <2>1. a \in Strings /\ b \in Strings /\ Elements(From(v, m)) = a \o b
        /\ Expected(o, g, "line") = a \o (b \o z)
    BY <1>5, <1>7, <1>8, <1>9
  <2> HIDE DEF a, b
  <2>2. (a \o b) \o z = a \o (b \o z) BY ZenonT(60), <1>1, <2>1, StringsAssociative
  <2> QED BY <2>1, <2>2
<1>11. Given(g, "line") \o Unread(g, "line", s, w) = s \o w
  <2>1. Given(g, "line") = <<>> /\ Unread(g, "line", s, w) = s \o w BY DEF Given, Unread
  <2>2. s \o w \in Strings BY StringsConcat
  <2> QED BY <2>1, <2>2, NothingConcat
<1> QED BY <1>2, <1>6, <1>10, <1>11 DEF InStep_

\* The first element of a multi bulk is next.
LEMMA StreamMulti ==
  ASSUME NEW o \in Seq(OwedItems), o # <<>>, NEW g \in Reads, NEW s \in Strings, NEW w \in Strings,
         NEW lost, Head(o).reply.t = "multi", g.left = Len(Head(o).reply.v), g.left > 0,
         g.elems = <<>>, g.line = <<>>,
         Follows(s \o w, Body(Head(o).reply) \o Cat(Tail(o)), lost)
  PROVE  InStep_(o, g, "line", s, w, lost)
<1> DEFINE r == Head(o).reply
<1>1. Len(g.elems) = 0 OBVIOUS
<1>2. r.v \in Seq(BulkReplies)
  <2>1. r \in Replies BY CatIs DEF OwedItems
  <2>2. r \in Multis
    BY <2>1 DEF Replies, LineReplies, BulkReplies, Texts, Nil, NilMulti, Reply
  <2> QED BY <2>2 DEF Multis
<1>3. Len(r.v) \in Nat BY <1>2, LenProperties
<1>4. Partly(o, g)
  <2>1. Len(r.v) = Len(g.elems) + g.left BY <1>1, <1>3
  <2> QED BY <1>1, <2>1 DEF Partly
<1>5. Body(r) = Elements(From(r.v, Len(g.elems) + 1))
  <2>1. Body(r) = Elements(r.v) BY DEF Body
  <2>2. From(r.v, 1) = r.v BY <1>2, SplitElements
  <2>3. Len(g.elems) + 1 = 1 BY <1>1
  <2> QED BY <2>1, <2>2, <2>3
<1> QED BY <1>4, <1>5, StreamElements

\* An element has been read and others follow.
LEMMA StreamNext ==
  ASSUME NEW o \in Seq(OwedItems), NEW f \in Reads, NEW g \in Reads, NEW s \in Strings,
         NEW w \in Strings, NEW lost, Partly(o, f), f.left > 1, g.left = f.left - 1,
         g.elems = Append(f.elems, Content(BulkOf(Head(o).reply, f))), g.line = <<>>,
         Follows(s \o w, Behind(o, f), lost)
  PROVE  InStep_(o, g, "line", s, w, lost)
<1> DEFINE r == Head(o).reply
           v == r.v
           k == Len(f.elems)
           b == BulkOf(r, f)
           e == f.elems
           c == Content(b)
<1>0. o # <<>> /\ r.t = "multi" /\ Len(v) = k + f.left /\ \A i \in 1..k : e[i] = Content(v[i])
  BY DEF Partly
<1>1. f.left \in Nat /\ k \in Nat /\ e \in Seq(Strings) BY LenProperties DEF Reads
<1>2. v \in Seq(BulkReplies) /\ k + 1 \in 1..Len(v) /\ b \in BulkReplies
  BY <1>0, <1>1, BulkIs
<1>3. b = v[k + 1] /\ Behind(o, f) = Elements(From(v, k + 2)) \o Cat(Tail(o))
  <2>1. f.left # 0 BY <1>1
  <2>2. b = v[k + 1] BY <2>1 DEF BulkOf
  <2>3. Behind(o, f) = Elements(From(v, k + 2)) \o Cat(Tail(o)) BY <2>1 DEF Behind
  <2> QED BY <2>2, <2>3
<1>4. c \in Strings BY <1>2, ContentBulk
<1>9. g.elems = Append(e, c) /\ g.left = f.left - 1 OBVIOUS
<1> HIDE DEF e, c
<1>5. /\ Len(Append(e, c)) = Len(e) + 1 /\ Append(e, c)[Len(e) + 1] = c
      /\ \A i \in 1..Len(e) : Append(e, c)[i] = e[i]
  BY <1>1, <1>4, AppendProperties
<1>6. Len(e) = k BY DEF e
<1>7. Len(g.elems) = k + 1 BY <1>5, <1>6, <1>9
<1>8. Partly(o, g)
  <2>1. Len(v) = Len(g.elems) + g.left
    <3> DEFINE n == f.left
    <3>1. n \in Nat /\ k \in Nat /\ Len(v) = k + n /\ Len(g.elems) = k + 1 /\ g.left = n - 1
      BY <1>0, <1>1, <1>7, <1>9
    <3> HIDE DEF n, k
    <3>2. k + n = (k + 1) + (n - 1) BY <3>1
    <3> QED BY <3>1, <3>2
  <2>2. \A i \in 1..Len(g.elems) : g.elems[i] = Content(v[i])
    <3> SUFFICES ASSUME NEW i \in 1..Len(g.elems) PROVE g.elems[i] = Content(v[i]) OBVIOUS
    <3>1. i \in 1..k \/ i = k + 1 BY <1>1, <1>7
    <3> HIDE DEF k
    <3>2. CASE i \in 1..k BY <1>0, <1>5, <1>6, <1>9, <3>2
    <3>3. CASE i = k + 1
      <4>1. g.elems[i] = c BY <1>5, <1>6, <1>9, <3>3
      <4> QED BY <1>3, <3>3, <4>1 DEF c
    <3> QED BY <3>1, <3>2, <3>3
  <2> QED BY <1>0, <2>1, <2>2 DEF Partly
<1>10. Len(g.elems) + 1 = k + 2 BY <1>1, <1>7
<1>11. g.left > 0 BY <1>1, <1>9
<1>12. Follows(s \o w, Elements(From(v, Len(g.elems) + 1)) \o Cat(Tail(o)), lost)
  BY <1>3, <1>10
<1> QED BY <1>8, <1>11, <1>12, StreamElements

\* The last element has been read.
LEMMA StreamLast ==
  ASSUME NEW o \in Seq(OwedItems), NEW f \in Reads, Partly(o, f), f.left = 1
  PROVE  /\ Append(f.elems, Content(BulkOf(Head(o).reply, f))) = Content(Head(o).reply)
         /\ Behind(o, f) = Cat(Tail(o))
<1> DEFINE r == Head(o).reply
           v == r.v
           k == Len(f.elems)
           b == BulkOf(r, f)
           e == f.elems
           c == Content(b)
<1>0. o # <<>> /\ r.t = "multi" /\ Len(v) = k + 1 /\ \A i \in 1..k : e[i] = Content(v[i])
  BY DEF Partly
<1>1. k \in Nat /\ e \in Seq(Strings) BY LenProperties DEF Reads
<1>2. v \in Seq(BulkReplies) /\ b \in BulkReplies /\ Cat(Tail(o)) \in Strings
  BY <1>0, BulkIs
<1>3. b = v[k + 1] /\ Behind(o, f) = Elements(From(v, k + 2)) \o Cat(Tail(o))
  BY DEF BulkOf, Behind
<1>4. c \in Strings BY <1>2, ContentBulk
<1>5. Behind(o, f) = Cat(Tail(o))
  <2>1. k + 2 = Len(v) + 1 BY <1>0, <1>1
  <2>2. Elements(From(v, Len(v) + 1)) = <<>> BY <1>2, SplitElements
  <2>3. <<>> \o Cat(Tail(o)) = Cat(Tail(o)) BY <1>2, NothingConcat
  <2> QED BY <1>3, <2>1, <2>2, <2>3
<1>6. Content(r) = [i \in 1..Len(v) |-> Content(v[i])] BY <1>0, <1>2, ContentMulti
<1> HIDE DEF e, c, v, r, b
<1>7. /\ Append(e, c) \in Seq(Strings) /\ Len(Append(e, c)) = Len(e) + 1
      /\ Append(e, c)[Len(e) + 1] = c /\ \A i \in 1..Len(e) : Append(e, c)[i] = e[i]
  BY <1>1, <1>4, AppendProperties
<1>8. Len(e) = k BY DEF e
<1> DEFINE a == Append(e, c)
           d == Content(r)
<1>9. DOMAIN a = 1..(k + 1) BY <1>7, <1>8, LenProperties
<1>10. \A i \in 1..(k + 1) : a[i] = Content(v[i])
  <2> SUFFICES ASSUME NEW i \in 1..(k + 1) PROVE a[i] = Content(v[i]) OBVIOUS
  <2>1. i \in 1..k \/ i = k + 1 BY <1>1
  <2> HIDE DEF k
  <2>2. CASE i \in 1..k BY <1>0, <1>7, <1>8, <2>2
  <2>3. CASE i = k + 1 BY <1>3, <1>7, <1>8, <2>3 DEF c
  <2> QED BY <2>1, <2>2, <2>3
<1>11. a = [i \in 1..(k + 1) |-> a[i]]
  <2>1. a \in Seq(Strings) BY <1>7
  <2>2. a = [i \in DOMAIN a |-> a[i]]
    <3> HIDE DEF a
    <3>1. a \in [1..Len(a) -> Strings] BY <2>1, LenProperties
    <3> QED BY <3>1
  <2> HIDE DEF a
  <2> QED BY <1>9, <2>2
<1>12. a = d
  <2> HIDE DEF a
  <2> QED BY <1>0, <1>6, <1>10, <1>11
<1> QED BY <1>5, <1>12 DEF e, c, b, r

-----------------------------------------------------------------------------
(* Bytes arrive, are lost, and replies are added                           *)

\* What is put behind a sequence does not change its head.
LEMMA HeadTailConcat ==
  ASSUME NEW T, NEW s \in Seq(T), NEW t \in Seq(T), s # <<>>
  PROVE  s \o t # <<>> /\ Head(s \o t) = Head(s) /\ Tail(s \o t) = Tail(s) \o t
<1> DEFINE a == <<Head(s)>>
           b == Tail(s)
<1>1. Head(s) \in T /\ b \in Seq(T) BY HeadTailProperties
<1>2. a \in Seq(T) /\ Len(a) = 1 /\ a[1] = Head(s) BY <1>1
<1>3. s = a \o b
  <2>1. Len(b) = Len(s) - 1 /\ \A i \in 1..Len(b) : b[i] = s[i + 1] BY HeadTailProperties
  <2>2. s[1] = Head(s) /\ Len(s) \in Nat /\ Len(s) # 0 BY EmptySeq, LenProperties
  <2> HIDE DEF a, b
  <2>3. /\ a \o b \in Seq(T) /\ Len(a \o b) = Len(a) + Len(b)
        /\ \A i \in 1..(Len(a) + Len(b)) : (a \o b)[i] = IF i <= Len(a) THEN a[i] ELSE b[i - Len(a)]
    <3>1. a \in Seq(T) /\ b \in Seq(T) BY <1>1, <1>2
    <3> QED BY <3>1, ConcatProperties
  <2> DEFINE c == a \o b
  <2> HIDE DEF c
  <2>4. c \in Seq(T) /\ Len(c) = Len(a) + Len(b)
        /\ \A i \in 1..(Len(a) + Len(b)) : c[i] = IF i <= Len(a) THEN a[i] ELSE b[i - Len(a)]
    BY <2>3 DEF c
  <2>5. Len(c) = Len(s) BY <1>2, <2>1, <2>2, <2>4
  <2>6. \A i \in 1..Len(s) : c[i] = s[i]
    <3> SUFFICES ASSUME NEW i \in 1..Len(s) PROVE c[i] = s[i] OBVIOUS
    <3> DEFINE j == i - 1
    <3>1. i = 1 \/ (j \in 1..Len(b) /\ ~(i <= 1) /\ i = j + 1) BY <2>1, <2>2
    <3>2. i \in 1..(Len(a) + Len(b)) BY <2>4, <2>5
    <3>3. CASE i = 1
      <4>1. c[1] = a[1] BY <1>2, <2>4, <3>2, <3>3
      <4> QED BY <1>2, <2>2, <3>3, <4>1
    <3>4. CASE j \in 1..Len(b) /\ ~(i <= 1) /\ i = j + 1
      <4>1. c[i] = b[j] BY <1>2, <2>4, <3>2, <3>4
      <4> HIDE DEF j
      <4>2. b[j] = s[i] BY <2>1, <3>4
      <4> QED BY <4>1, <4>2
    <3> QED BY <3>1, <3>3, <3>4
  <2>7. c = s BY <2>4, <2>5, <2>6, SeqEqual
  <2> QED BY <2>7 DEF c
<1>4. s \o t = a \o (b \o t)
  <2> HIDE DEF a, b
  <2>2. a \in Seq(T) /\ b \in Seq(T) BY <1>1, <1>2
  <2>1. (a \o b) \o t = a \o (b \o t) BY SMTT(60), <2>2, ConcatAssociative
  <2> QED BY <1>3, <2>1
<1> DEFINE x == b \o t
<1>5. x \in Seq(T)
  <2> HIDE DEF b
  <2> QED BY <1>1, ConcatProperties
<1> DEFINE y == a \o x
<1> HIDE DEF b, x
<1>6. /\ y \in Seq(T) /\ Len(y) = Len(a) + Len(x)
      /\ \A i \in 1..(Len(a) + Len(x)) : y[i] = IF i <= Len(a) THEN a[i] ELSE x[i - Len(a)]
  <2> HIDE DEF a
  <2>1. a \in Seq(T) /\ x \in Seq(T) BY <1>2, <1>5
  <2> QED BY <2>1, ConcatProperties
<1> HIDE DEF a, y
<1>7. Len(x) \in Nat BY <1>5, LenProperties
<1>8. Len(y) = Len(x) + 1 /\ y # <<>> BY <1>2, <1>6, <1>7, EmptySeq
<1>9. Head(y) = Head(s)
  <2>1. 1 \in 1..(Len(a) + Len(x)) /\ 1 <= Len(a) BY <1>2, <1>7
  <2>2. y[1] = a[1] BY <1>6, <2>1
  <2> QED BY <1>2, <2>2
<1>10. Tail(y) = x
  <2>1. Tail(y) \in Seq(T) /\ Len(Tail(y)) = Len(y) - 1 /\ \A i \in 1..Len(Tail(y)) : Tail(y)[i] = y[i + 1]
    <3>1. y \in Seq(T) BY <1>6
    <3> QED BY <1>8, <3>1, HeadTailProperties
  <2>2. Len(Tail(y)) = Len(x) BY <1>7, <1>8, <2>1
  <2>3. \A i \in 1..Len(x) : Tail(y)[i] = x[i]
    <3> SUFFICES ASSUME NEW i \in 1..Len(x) PROVE Tail(y)[i] = x[i] OBVIOUS
    <3> DEFINE j == i + 1
    <3>1. j \in 1..(Len(a) + Len(x)) /\ ~(j <= Len(a)) /\ j - Len(a) = i BY <1>2, <1>7
    <3>2. Tail(y)[i] = y[j] BY <2>1, <2>2
    <3> HIDE DEF j
    <3>3. y[j] = x[j - Len(a)] BY <1>6, <3>1
    <3> QED BY <3>1, <3>2, <3>3
  <2> DEFINE u == Tail(y)
  <2>4. u \in Seq(T) /\ Len(u) = Len(x) /\ \A i \in 1..Len(x) : u[i] = x[i] BY <2>1, <2>2, <2>3
  <2> HIDE DEF u
  <2>5. u = x BY <1>5, <2>4, SeqEqual
  <2> QED BY <2>5 DEF u
<1> QED BY <1>4, <1>8, <1>9, <1>10 DEF x, y, b

Steps == {"line", "take", "decode", "body"}

\* The number before a number.
LEMMA OneLess == \A x, y \in Int : x + 1 = y => x = y - 1
OBVIOUS

\* What is unread, and what is added to it.
LEMMA UnreadIs ==
  ASSUME NEW f \in Reads, NEW p \in Steps, NEW s \in Strings, NEW w \in Strings,
         p = "take" => f.take \in 0..Len(s)
  PROVE  \E u \in Strings :
           /\ \A x : Unread(f, p, s, x) = u \o x
           /\ \A a \in Strings : \A x : Unread(f, p, s \o a, x) = (u \o a) \o x
<1>1. CASE p = "take"
  <2> DEFINE x == SubSeq(s, 1, f.take)
             y == From(s, f.take + 1)
  <2>1. x \in Strings /\ y \in Strings /\ x \o y = s /\ Len(x) = f.take
    BY <1>1, CutString
  <2>2. \A z : Unread(f, p, s, z) = y \o z BY <1>1 DEF Unread
  <2>3. ASSUME NEW a \in Strings, NEW z PROVE Unread(f, p, s \o a, z) = (y \o a) \o z
    <3>1. Unread(f, p, s \o a, z) = From(s \o a, f.take + 1) \o z BY <1>1 DEF Unread
    <3> HIDE DEF x, y
    <3>2. s \o a = x \o (y \o a)
      <4>1. x \in Strings /\ y \in Strings BY <2>1
      <4>2. (x \o y) \o a = x \o (y \o a) BY ZenonT(60), <4>1, StringsAssociative
      <4> QED BY Zenon, <2>1, <4>2
    <3> DEFINE c == y \o a
    <3>3. c \in Strings BY <2>1, StringsConcat
    <3> HIDE DEF c
    <3>4. SubSeq(x \o c, Len(x) + 1, Len(x \o c)) = c BY <2>1, <3>3, CutConcat DEF Strings
    <3>5. From(s \o a, f.take + 1) = c BY <2>1, <3>2, <3>4 DEF From, c
    <3> QED BY <3>1, <3>5 DEF c
  <2> HIDE DEF x, y
  <2> QED BY <2>1, <2>2, <2>3
<1>2. CASE p # "take"
  <2>1. \A x : Unread(f, p, s, x) = s \o x BY <1>2 DEF Unread
  <2>2. \A a \in Strings : \A x : Unread(f, p, s \o a, x) = (s \o a) \o x BY <1>2 DEF Unread
  <2> QED BY <2>1, <2>2
<1> QED BY <1>1, <1>2

\* What a reader has is a sequence of symbols.
LEMMA GivenIs ==
  ASSUME NEW f \in Reads, NEW p
  PROVE  Given(f, p) \in Strings
BY DEF Given, Reads

\* What a reader has and what has arrived is the beginning of what it expects when the
\* rest is lost.
LEMMA StreamLose ==
  ASSUME NEW o \in Seq(OwedItems), NEW f \in Reads, NEW p \in Steps, NEW s \in Strings,
         NEW w \in Strings, p = "take" => f.take \in 0..Len(s), InStep_(o, f, p, s, w, FALSE)
  PROVE  InStep_(o, f, p, s, <<>>, TRUE)
<1> DEFINE g == Given(f, p)
           e == Expected(o, f, p)
<1>1. PICK u \in Strings : \A x : Unread(f, p, s, x) = u \o x BY UnreadIs
<1>2. g \in Strings BY GivenIs
<1>3. Follows(g \o (u \o w), e, FALSE) BY <1>1 DEF InStep_
<1>4. g \o (u \o w) = e BY <1>3 DEF Follows
<1> HIDE DEF g, e
<1>5. (g \o u) \o w = g \o (u \o w) /\ g \o u \in Strings BY <1>2, StringsConcat, StringsAssociative
<1>6. e \in Strings BY <1>2, <1>4, <1>5, StringsConcat
<1> DEFINE h == g \o u
<1>7. h \in Strings /\ Follows(h \o w, e, FALSE) BY <1>3, <1>5
<1> HIDE DEF h
<1>8. Follows(h, e, TRUE) BY <1>6, <1>7, FollowsLess
<1>9. Unread(f, p, s, <<>>) = u BY <1>1, NothingConcat
<1>10. Follows(Given(f, p) \o Unread(f, p, s, <<>>), Expected(o, f, p), TRUE)
  BY <1>8, <1>9 DEF h, g, e
<1> QED BY <1>10 DEF InStep_

\* A reader stays in step when bytes arrive.
LEMMA StreamArrive ==
  ASSUME NEW o \in Seq(OwedItems), NEW f \in Reads, NEW p \in Steps, NEW s \in Strings,
         NEW w \in Strings, p = "take" => f.take \in 0..Len(s), NEW lost, NEW n \in 0..Len(w),
         InStep_(o, f, p, s, w, lost)
  PROVE  InStep_(o, f, p, s \o SubSeq(w, 1, n), From(w, n + 1), lost)
<1> DEFINE a == SubSeq(w, 1, n)
           b == From(w, n + 1)
<1>1. a \in Strings /\ b \in Strings /\ a \o b = w BY CutString
<1>2. PICK u \in Strings : /\ \A x : Unread(f, p, s, x) = u \o x
                           /\ \A y \in Strings : \A x : Unread(f, p, s \o y, x) = (u \o y) \o x
  BY ZenonT(60), UnreadIs
<1>3. Unread(f, p, s \o a, b) = (u \o a) \o b BY <1>1, <1>2
<1> HIDE DEF a, b
<1>4. (u \o a) \o b = u \o (a \o b) BY <1>1, StringsAssociative
<1>5. Unread(f, p, s \o a, b) = Unread(f, p, s, w) BY <1>1, <1>2, <1>3, <1>4
<1>6. InStep_(o, f, p, s \o a, b, lost) BY <1>5 DEF InStep_
<1> QED BY <1>6 DEF a, b

\* The server answers while a reader waits.
LEMMA StreamAnswer ==
  ASSUME NEW o \in Seq(OwedItems), NEW f \in Reads, NEW p \in Steps, NEW s \in Strings,
         NEW w \in Strings, p = "take" => f.take \in 0..Len(s),
         InStep_(o, f, p, s, w, FALSE), NEW x \in Seq(OwedItems), x # <<>>
  PROVE  InStep_(o \o x, f, p, s, w \o Cat(x), FALSE)
<1> DEFINE g == Given(f, p)
           c == Cat(x)
           e == Expected(o, f, p)
<1>1. PICK u \in Strings : \A z : Unread(f, p, s, z) = u \o z BY UnreadIs
<1>2. g \in Strings /\ c \in Strings BY GivenIs, CatIs
<1>3. Unread(f, p, s, w) = u \o w /\ Unread(f, p, s, w \o c) = u \o (w \o c) BY <1>1
<1>4. g \o (u \o w) = e BY <1>3 DEF InStep_, Follows
<1> HIDE DEF g, c, e
<1>5. g \o (u \o (w \o c)) = e \o c /\ e \in Strings
  <2>1. u \o (w \o c) = (u \o w) \o c BY <1>2, StringsAssociative
  <2> DEFINE y == u \o w
  <2>2. y \in Strings BY StringsConcat
  <2>3. g \o y = e BY <1>4
  <2> HIDE DEF y
  <2>6. \A a, b, d \in Strings : a \o (b \o d) = (a \o b) \o d BY ZenonT(60), StringsAssociative
  <2>4. g \o (y \o c) = (g \o y) \o c BY SMTT(60), <1>2, <2>2, <2>6
  <2>5. e \in Strings BY <1>2, <2>2, <2>3, StringsConcat
  <2> QED BY <2>1, <2>3, <2>4, <2>5 DEF y
<1>6. CASE o = <<>>
  <2>1. e = <<>> BY <1>6 DEF Expected, e
  <2>2. p # "body" /\ f.left = 0
    <3>1. p # "body" BY <1>6 DEF InStep_, Wanted
    <3>2. ~ (f.left > 0) BY <1>6 DEF InStep_, Partly
    <3>3. f.left \in Nat BY DEF Reads
    <3> QED BY <3>1, <3>2, <3>3
  <2>3. o \o x = x BY <1>6, ConcatEmptySeq
  <2>4. Expected(x, f, p) = c
    <3>1. BulkOf(Head(x).reply, f) = Head(x).reply /\ Behind(x, f) = <<>> \o Cat(Tail(x))
      BY <2>2 DEF BulkOf, Behind
    <3>2. Cat(Tail(x)) \in Strings /\ c = Bytes(Head(x).reply) \o Cat(Tail(x)) BY CatIs DEF c
    <3>3. <<>> \o Cat(Tail(x)) = Cat(Tail(x)) BY <3>2, NothingConcat
    <3> QED BY <2>2, <3>1, <3>2, <3>3 DEF Expected
  <2>5. e \o c = c BY <1>2, <2>1, NothingConcat
  <2>6. Given(f, p) \o Unread(f, p, s, w \o c) = Expected(o \o x, f, p)
    BY <1>3, <1>5, <2>3, <2>4, <2>5 DEF g
  <2>7. Follows(Given(f, p) \o Unread(f, p, s, w \o c), Expected(o \o x, f, p), FALSE)
    BY <1>2, <2>3, <2>4, <2>6, FollowsSame
  <2>8. f.elems = <<>> BY <2>2 DEF InStep_
  <2>9. ~ (f.left > 0) BY <2>2
  <2> QED BY <2>2, <2>7, <2>8, <2>9 DEF InStep_, c
<1>7. CASE o # <<>>
  <2>1. o \o x # <<>> /\ Head(o \o x) = Head(o) /\ Tail(o \o x) = Tail(o) \o x
    BY <1>7, HeadTailConcat
  <2>2. Cat(Tail(o) \o x) = Cat(Tail(o)) \o c /\ Cat(Tail(o)) \in Strings
    BY <1>7, CatIs DEF c
  <2>3. /\ BulkOf(Head(o).reply, f) \in Replies /\ Behind(o, f) \in Strings
        /\ f.left > 0 => Head(o).reply.v \in Seq(BulkReplies)
                         /\ Len(f.elems) + 1 \in 1..Len(Head(o).reply.v)
        /\ Len(f.elems) \in Nat
    BY <1>7, BulkIs DEF InStep_
  <2> DEFINE first == IF f.left = 0 THEN <<>> ELSE Elements(From(Head(o).reply.v, Len(f.elems) + 2))
  <2>4. Behind(o, f) = first \o Cat(Tail(o)) BY DEF Behind
  <2>5. Behind(o \o x, f) = first \o (Cat(Tail(o)) \o c) BY <2>1, <2>2 DEF Behind
  <2>6. first \in Strings
    <3>1. CASE f.left = 0 BY <3>1 DEF Strings
    <3>2. CASE f.left # 0
      <4>1. f.left \in Nat BY DEF Reads
      <4> DEFINE v == Head(o).reply.v
                 m == Len(f.elems) + 1
      <4>2. f.left > 0 BY <3>2, <4>1
      <4>3. v \in Seq(BulkReplies) /\ m \in 1..Len(v) /\ m + 1 = Len(f.elems) + 2
        BY <2>3, <4>2
      <4>4. first = Elements(From(v, Len(f.elems) + 2)) BY <3>2
      <4> HIDE DEF v, m, first
      <4>5. From(v, m + 1) \in Seq(BulkReplies) BY <4>3, SplitElements
      <4>6. Elements(From(v, m + 1)) \in Strings BY <4>5, ElementsIs
      <4> QED BY <4>3, <4>4, <4>6
    <3> QED BY <3>1, <3>2
  <2> HIDE DEF first
  <2> DEFINE z == Cat(Tail(o))
             b == Behind(o, f)
  <2>7. Behind(o \o x, f) = b \o c
    <3>1. z \in Strings /\ b = first \o z /\ Behind(o \o x, f) = first \o (z \o c)
      BY <2>2, <2>4, <2>5
    <3> HIDE DEF z, b
    <3>2. (first \o z) \o c = first \o (z \o c) BY ZenonT(60), <1>2, <2>6, <3>1, StringsAssociative
    <3> QED BY <3>1, <3>2
  <2> DEFINE y == IF p = "body" THEN BulkOf(Head(o).reply, f).v \o EOL
                  ELSE Bytes(BulkOf(Head(o).reply, f))
  <2>8. y \in Strings
    <3>1. CASE p # "body"
      <4>1. Bytes(BulkOf(Head(o).reply, f)) \in Strings BY <2>3, BytesIs
      <4> QED BY <3>1, <4>1
    <3>2. CASE p = "body"
      <4> DEFINE r == BulkOf(Head(o).reply, f)
      <4>1. r.t = "bulk" BY <3>2 DEF InStep_, Wanted
      <4>2. r \in Texts
        BY <2>3, <4>1 DEF Replies, BulkReplies, LineReplies, Multis, Nil, NilMulti, Reply
      <4>3. r.v \in Strings BY <4>2 DEF Texts, ParamSet
      <4> HIDE DEF r
      <4>4. r.v \o EOL \in Strings BY <4>3, LineEnd, StringsConcat
      <4> QED BY <3>2, <4>4 DEF r
    <3> QED BY <3>1, <3>2
  <2>9. e = y \o b BY <1>7, Zenon DEF e, Expected
  <2>10. Expected(o \o x, f, p) = y \o (b \o c) BY <2>1, <2>7 DEF Expected
  <2>11. b \in Strings BY <2>3
  <2> HIDE DEF y, b
  <2>12. (y \o b) \o c = y \o (b \o c) BY ZenonT(60), <1>2, <2>8, <2>11, StringsAssociative
  <2>13. Given(f, p) \o Unread(f, p, s, w \o c) = Expected(o \o x, f, p)
    BY <1>3, <1>5, <2>9, <2>10, <2>12 DEF g
  <2>14. Expected(o \o x, f, p) \in Strings
    <3>1. e \o c \in Strings BY <1>2, <1>5, StringsConcat
    <3> QED BY <2>9, <2>10, <2>12, <3>1
  <2>15. Follows(Given(f, p) \o Unread(f, p, s, w \o c), Expected(o \o x, f, p), FALSE)
    BY <2>13, <2>14, FollowsSame
  <2>16. Partly(o, f) => Partly(o \o x, f) BY <2>1 DEF Partly
  <2>17. Wanted(o, f) => Wanted(o \o x, f) BY <2>1 DEF Wanted
  <2> QED BY <2>15, <2>16, <2>17 DEF InStep_, c
<1> QED BY <1>6, <1>7

-----------------------------------------------------------------------------
(* The inductive invariant                                                 *)

Own(item) == item.from = "own"

\* A call that finds the rest of an earlier one.
Late == slipped /\ name \notin Pipelines

\* So many replies may have been sent after k commands of a call.
Sayings(c, k) == IF c = "exec_transaction" /\ k = 4 THEN {4, 6} ELSE {k}

Raws == Strings \cup Seq(Strings)

Types ==
  /\ name \in AllCalls \cup {"none"}
  /\ pc \in {"idle", "write"} \cup Steps
  /\ outcome.t \in {"value", "throw"}
  /\ closed \in BOOLEAN /\ slipped \in BOOLEAN
  /\ multi \in {"no", "open", "failed"}
  /\ unsent \in Strings /\ asked \in Strings /\ sock \in Strings /\ wire \in Strings
  /\ due \in Seq(DueItems) /\ owed \in Seq(OwedItems) /\ took \in Seq(OwedItems)
  /\ got \in Seq(Raws) /\ rd \in Reads

\* What the server has of the requests and what is still to be written are
\* the requests of the commands that are due.
Sent ==
  /\ ~closed => asked \o unsent = Requests(due)
  /\ closed => asked = <<>> /\ (pc # "write" => due = <<>>)
  /\ pc # "write" => unsent = <<>>

Idle ==
  pc = "idle" =>
    /\ rd = Fresh /\ todo = <<>>
    /\ ~closed /\ ~slipped => due = <<>> /\ owed = <<>> /\ multi = "no"

\* Where a call is in its list of readers.
Running ==
  pc # "idle" =>
    /\ name \in AllCalls
    /\ Len(got) = Len(took) /\ Len(took) < Len(Readers(name))
    /\ todo = From(Readers(name), Len(took) + 1)
    /\ pc = "write" => rd = Fresh /\ took = <<>>
    /\ slipped => Late

\* Where a reader is in its line.
InLine ==
  /\ pc = "line" => NoLF(rd.line) /\ ~rd.eol
  /\ pc \in {"take", "decode"} =>
       /\ rd.line # <<>> /\ NoLF(Front(rd.line))
       /\ rd.eol <=> Last(rd.line) = "LF"
  /\ pc = "take" => rd.take \in 1..Len(sock)
  /\ pc = "decode" => rd.eol
  /\ pc # "body" => rd.want = 0 /\ rd.data = <<>>

InStream == pc \in Steps /\ ~slipped => InStep_(owed, rd, pc, sock, wire, closed)

Aligned ==
  ~closed /\ pc \in {"idle", "write"} /\ (pc = "idle" => ~Late) => sock \o wire = Cat(owed)

\* What has been answered is for the readers that are still to be run, one
\* after the other, and what is due for those after them.
ForReaders ==
  \A i \in 1..Len(owed) :
    /\ Own(owed[i]) /\ Len(took) + i <= Len(Readers(name))
    /\ owed[i].reply \in Possible(name, Len(took) + i)

ForServer ==
  LET all == Commands(name)
      k   == Len(all) - Len(due)
  IN  /\ Len(due) <= Len(all)
      /\ \A i \in 1..Len(due) : due[i] = [from |-> "own", cmd |-> all[k + i]]
      /\ Len(took) + Len(owed) \in Sayings(name, k)
      /\ multi # "no" <=> name = "exec_transaction" /\ k \in 1..3

Account ==
  pc # "idle" /\ ~slipped /\ ~(closed /\ pc = "write") =>
    ForReaders /\ (~closed => ForServer)

Answered ==
  /\ ~slipped => \A i \in 1..Len(took) : Own(took[i])
  /\ ~Late => /\ Len(got) <= Len(took)
              /\ \A i \in 1..Len(got) :
                   Readers(name)[i] # "ok" => got[i] = Handed(Readers(name)[i], took[i].reply)

\* A late call: its own command comes last.
LateEnd ==
  \/ \E i \in 1..Len(took) : ~Own(took[i])
  \/ (\A i \in 1..Len(owed) : ~Own(owed[i])) /\ \A i \in 1..Len(due) : ~Own(due[i])

OwnLast ==
  /\ took = <<>> /\ name \in LateCalls
  /\ \A i \in 1..Len(due) : Own(due[i]) => i = Len(due) /\ due[i].cmd[1] # "EXEC"
  /\ \A i \in 1..Len(owed) : Own(owed[i]) => i = Len(owed) /\ due = <<>>

LateOnly ==
  Late =>
    /\ pc = "idle" /\ ~closed => LateEnd
    /\ pc # "idle" /\ ~(closed /\ pc = "write") =>
         /\ OwnLast
         /\ IF pc = "write" \/ (pc = "line" /\ rd = Fresh)
            THEN owed = <<>> => sock = <<>> /\ wire = <<>>
            ELSE owed # <<>>

IInv == /\ Types /\ Sent /\ Idle /\ Running /\ InLine /\ InStream /\ Aligned /\ Account
        /\ Answered /\ LateOnly

\* A call that has read its reply returns a value or throws.
LEMMA GiveIs == ASSUME NEW g, NEW raw PROVE Give(g, raw).t \in {"value", "throw"}
<1> DEFINE Outcome(o) == o.t \in {"value", "throw"}
<1>1. \A v : Outcome(Value(v)) /\ Outcome(Throws(v)) BY DEF Value, Throws
<1> HIDE DEF Outcome
<1>2. Outcome(Scores(raw))
  <2>1. ASSUME NEW a, NEW b, NEW v, NEW w, NEW u
        PROVE  Outcome(IF a THEN Throws(u) ELSE IF b THEN Value(v) ELSE Throws(w))
    BY <1>1
  <2> QED BY <2>1 DEF Scores
<1>3. Outcome(Info(raw)) BY <1>1 DEF Info
<1>4. \A a, v, w : Outcome(IF a THEN Value(v) ELSE Throws(w)) BY <1>1
<1>5. Outcome(Give(g, raw)) BY Zenon, <1>1, <1>2, <1>3, <1>4 DEF Give
<1> QED BY <1>5 DEF Outcome

\* A call one of whose readers has thrown returns a value or throws.
LEMMA CaughtIs == ASSUME NEW c, NEW what PROVE Caught(c, what).t \in {"value", "throw"}
BY DEF Caught, Value, Throws

\* The readers of a call that are still to be run.
LEMMA TodoIs ==
  ASSUME NEW rs \in Seq(ReaderKinds), NEW n \in Nat, n < Len(rs)
  PROVE  /\ From(rs, n + 1) # <<>> /\ Head(From(rs, n + 1)) = rs[n + 1]
         /\ Len(From(rs, n + 1)) = Len(rs) - n /\ Len(rs) \in Nat
         /\ Tail(From(rs, n + 1)) = From(rs, n + 2)
         /\ rs[n + 1] \in ReaderKinds
<1> DEFINE l == Len(rs)
           m == n + 1
           t == From(rs, m)
<1>1. l \in Nat BY LenProperties
<1>2. m \in 1..l /\ n \in 0..Len(rs) /\ l \in m..l BY <1>1
<1>3. t \in Seq(ReaderKinds) /\ Len(t) = l - n BY <1>2, CutAt DEF From
<1>4. Head(SubSeq(rs, m, l)) = rs[m] /\ Tail(SubSeq(rs, m, l)) = SubSeq(rs, m + 1, l)
  <2> HIDE DEF m
  <2>1. m \in 1..Len(rs) /\ Len(rs) \in m..Len(rs) BY <1>2
  <2> QED BY <2>1, HeadTailOfSubSeq
<1>5. rs[m] \in ReaderKinds
  <2> HIDE DEF m
  <2> QED BY <1>2, ElementOfSeq
<1>6. t # <<>>
  <2>1. Len(t) # 0 BY <1>1, <1>3
  <2> HIDE DEF t
  <2> QED BY <2>1
<1>7. m + 1 = n + 2 OBVIOUS
<1> QED BY <1>1, <1>3, <1>4, <1>5, <1>6, <1>7 DEF From

\* A call made late has one command and one reader.
LEMMA LateCallsAre ==
  ASSUME NEW c \in LateCalls
  PROVE  /\ c \in Names /\ c \in AllCalls /\ c \notin Pipelines /\ c \in DOMAIN Calls
         /\ Len(Readers(c)) = 1 /\ Len(Commands(c)) = 1
<1>1. c \in Names /\ c \in AllCalls /\ c \in DOMAIN Calls BY SessionAssumption DEF AllCalls
<1>2. c # "exec_transaction" BY <1>1, SingleIs
<1> QED BY <1>1, <1>2, CommandsAre

-----------------------------------------------------------------------------
(* The reply a reader is at                                                *)

\* A reader that is past its line: it has been given the oldest reply.
LEMMA AtReply ==
  ASSUME IInv, pc \in {"decode", "body"}
  PROVE  /\ name \in AllCalls /\ Readers(name) \in Seq(ReaderKinds)
         /\ Len(took) \in Nat /\ Len(took) < Len(Readers(name)) /\ Len(Readers(name)) \in Nat
         /\ Len(got) = Len(took)
         /\ todo # <<>> /\ Head(todo) = Readers(name)[Len(took) + 1]
         /\ Head(todo) \in ReaderKinds
         /\ Len(todo) = Len(Readers(name)) - Len(took)
         /\ Tail(todo) = From(Readers(name), Len(took) + 2)
         /\ owed # <<>> /\ Head(owed) = owed[1] /\ Head(owed) \in OwedItems
         /\ Head(owed).reply \in Replies
         /\ ~slipped => /\ Own(Head(owed)) /\ Head(owed).reply \in Possible(name, Len(took) + 1)
                        /\ Fit(Head(todo), Head(owed).reply)
                        /\ ForReaders /\ (~closed => ForServer)
         /\ slipped => /\ Late /\ OwnLast /\ name \in LateCalls /\ took = <<>>
                       /\ Len(Readers(name)) = 1
<1>1. name \in AllCalls /\ Len(got) = Len(took) /\ Len(took) < Len(Readers(name))
      /\ todo = From(Readers(name), Len(took) + 1) /\ (slipped => Late)
  BY DEF IInv, Running
<1>2. Readers(name) \in Seq(ReaderKinds) BY <1>1, CommandsAre
<1>3. Len(took) \in Nat /\ took \in Seq(OwedItems) /\ owed \in Seq(OwedItems)
  BY LenProperties DEF IInv, Types
<1>4. /\ todo # <<>> /\ Head(todo) = Readers(name)[Len(took) + 1]
      /\ Len(todo) = Len(Readers(name)) - Len(took) /\ Len(Readers(name)) \in Nat
      /\ Tail(todo) = From(Readers(name), Len(took) + 2)
      /\ Head(todo) \in ReaderKinds
  <2> HIDE DEF ReaderKinds
  <2> QED BY <1>1, <1>2, <1>3, TodoIs
<1>5. ASSUME ~slipped PROVE owed # <<>>
  <2>1. InStep_(owed, rd, pc, sock, wire, closed) BY <1>5 DEF IInv, InStream, Steps
  <2>2. CASE pc = "body" BY <2>1, <2>2 DEF InStep_, Wanted
  <2>3. CASE pc = "decode"
    <3>1. rd.line # <<>> /\ NoLF(Front(rd.line)) /\ Last(rd.line) = "LF"
      BY <2>3 DEF IInv, InLine
    <3>2. rd \in Reads /\ sock \in Strings /\ wire \in Strings BY DEF IInv, Types
    <3> QED BY <1>3, <2>1, <2>3, <3>1, <3>2, StreamLine
  <2> QED BY <2>2, <2>3
<1>6. ASSUME slipped
      PROVE  Late /\ OwnLast /\ name \in LateCalls /\ took = <<>> /\ Len(Readers(name)) = 1
             /\ owed # <<>>
  <2>1. Late /\ OwnLast /\ owed # <<>> BY <1>1, <1>6 DEF IInv, LateOnly
  <2>2. took = <<>> /\ name \in LateCalls BY <2>1 DEF OwnLast
  <2> QED BY <2>1, <2>2, LateCallsAre
<1>7. owed # <<>> BY <1>5, <1>6
<1>8. Head(owed) = owed[1] /\ Head(owed) \in OwedItems
  BY <1>3, <1>7, HeadTailProperties
<1>9. Head(owed).reply \in Replies BY <1>8 DEF OwedItems
<1>10. ASSUME ~slipped
       PROVE  /\ Own(Head(owed)) /\ Head(owed).reply \in Possible(name, Len(took) + 1)
              /\ Fit(Head(todo), Head(owed).reply)
              /\ ForReaders /\ (~closed => ForServer)
  <2>1. ForReaders /\ (~closed => ForServer) BY <1>10 DEF IInv, Account
  <2>2. 1 \in 1..Len(owed)
    <3>1. Len(owed) \in Nat /\ Len(owed) # 0 BY <1>3, <1>7, LenProperties, EmptySeq
    <3> QED BY <3>1
  <2>3. Own(owed[1]) /\ owed[1].reply \in Possible(name, Len(took) + 1)
    BY <2>1, <2>2 DEF ForReaders
  <2>4. Len(took) + 1 \in 1..Len(Readers(name)) BY <1>1, <1>3, <1>4
  <2>5. Fit(Head(todo), Head(owed).reply)
    <3> DEFINE n == Len(took) + 1
               r == Head(owed).reply
    <3>1. name \in AllCalls /\ n \in 1..Len(Readers(name)) /\ r \in Possible(name, n)
      BY <1>1, <1>8, <2>3, <2>4
    <3>2. Head(todo) = Readers(name)[n] BY <1>4
    <3> HIDE DEF n, r
    <3>3. Fit(Readers(name)[n], r) BY <3>1, PossibleFits
    <3> QED BY <3>2, <3>3 DEF r
  <2> QED BY <1>8, <2>1, <2>3, <2>5
<1> QED BY <1>1, <1>2, <1>3, <1>4, <1>6, <1>7, <1>8, <1>9, <1>10

\* The reader that is last in the list of its call gets the last reply.
LEMMA LastReply ==
  ASSUME IInv, pc \in {"decode", "body"}, ~slipped, Len(todo) = 1
  PROVE  /\ Tail(owed) = <<>>
         /\ ~closed => due = <<>> /\ multi = "no"
<1> DEFINE all == Commands(name)
           n == Len(owed)
           m == Len(took)
           d == Len(due)
           l == Len(all)
           q == Len(Readers(name))
<1>1. /\ name \in AllCalls /\ m \in Nat /\ q \in Nat /\ m + 1 = q
      /\ owed # <<>> /\ ForReaders /\ (~closed => ForServer)
  BY AtReply
<1>2. owed \in Seq(OwedItems) /\ due \in Seq(DueItems) BY DEF IInv, Types
<1>3. n \in Nat /\ n # 0 /\ d \in Nat /\ (d = 0 => due = <<>>)
  BY <1>1, <1>2, LenProperties, EmptySeq
<1>4. n = 1
  <2>1. n \in 1..Len(owed) BY <1>3
  <2>2. m + n <= q BY <1>1, <2>1 DEF ForReaders
  <2> HIDE DEF m, n, q
  <2> QED BY <1>1, <1>3, <2>2
<1>5. Tail(owed) = <<>>
  <2>1. Tail(owed) \in Seq(OwedItems) /\ Len(Tail(owed)) = Len(owed) - 1
    BY <1>1, <1>2, HeadTailProperties
  <2>2. Len(Tail(owed)) = 0 BY <1>4, <2>1
  <2> QED BY <2>1, <2>2, EmptySeq
<1>6. ASSUME ~closed PROVE due = <<>> /\ multi = "no"
  <2>1. ForServer BY <1>1, <1>6
  <2>2. /\ d <= l /\ m + n \in Sayings(name, l - d)
        /\ multi # "no" <=> name = "exec_transaction" /\ l - d \in 1..3
    BY <2>1 DEF ForServer
  <2>3. l \in Nat BY <1>1, CommandsAre, LenProperties
  <2> HIDE DEF l, d, n, m, q
  <2>4. CASE name = "exec_transaction"
    <3>1. l = 4 /\ q = 6 BY <1>1, <2>4, CommandsAre DEF l, q
    <3>2. m + n = 6 BY <1>1, <1>4, <3>1
    <3>3. 6 \in IF l - d = 4 THEN {4, 6} ELSE {l - d} BY <2>2, <2>4, <3>2 DEF Sayings
    <3>4. l - d = 4 BY <1>3, <2>3, <3>1, <3>3
    <3> QED BY <1>3, <2>2, <3>1, <3>4
  <2>5. CASE name # "exec_transaction"
    <3>1. l = q BY <1>1, <2>5, CommandsAre DEF l, q
    <3>2. m + n = l - d BY <2>2, <2>5 DEF Sayings
    <3> QED BY <1>1, <1>3, <1>4, <2>2, <2>3, <2>5, <3>1, <3>2
  <2> QED BY <2>4, <2>5
<1> QED BY <1>5, <1>6

-----------------------------------------------------------------------------
(* A reader returns or throws                                              *)

\* A sequence with an element more.
LEMMA Longer ==
  ASSUME NEW T, NEW s \in Seq(T), NEW x \in T
  PROVE  /\ Append(s, x) \in Seq(T) /\ Len(s) \in Nat /\ Len(Append(s, x)) = Len(s) + 1
         /\ \A i \in 1..Len(s) : Append(s, x)[i] = s[i]
         /\ Append(s, x)[Len(s) + 1] = x
BY AppendProperties, LenProperties

\* The oldest reply is taken.
LEMMA Taken ==
  ASSUME IInv, pc \in {"decode", "body"}, TakeReply
  PROVE  /\ owed' = Tail(owed) /\ owed' \in Seq(OwedItems) /\ Len(owed') = Len(owed) - 1
         /\ Len(owed) \in Nat /\ Len(owed') \in Nat /\ Len(took) \in Nat
         /\ \A i \in 1..Len(owed') : owed'[i] = owed[i + 1]
         /\ took' = Append(took, Head(owed))
         /\ took' \in Seq(OwedItems) /\ Len(took') = Len(took) + 1
         /\ \A i \in 1..Len(took) : took'[i] = took[i]
         /\ took'[Len(took) + 1] = Head(owed)
<1>1. owed # <<>> /\ Head(owed) \in OwedItems BY AtReply
<1>2. owed \in Seq(OwedItems) /\ took \in Seq(OwedItems) BY DEF IInv, Types
<1>3. owed' = Tail(owed) /\ took' = Append(took, Head(owed)) BY <1>1 DEF TakeReply
<1>4. /\ owed' \in Seq(OwedItems) /\ Len(owed') = Len(owed) - 1
      /\ \A i \in 1..Len(owed') : owed'[i] = owed[i + 1]
  BY <1>1, <1>2, <1>3, HeadTailProperties
<1>5. Len(owed) \in Nat /\ Len(owed') \in Nat BY <1>2, <1>4, LenProperties
<1>6. /\ took' \in Seq(OwedItems) /\ Len(took') = Len(took) + 1 /\ Len(took) \in Nat
      /\ \A i \in 1..Len(took) : took'[i] = took[i]
      /\ took'[Len(took) + 1] = Head(owed)
  BY <1>1, <1>2, <1>3, Longer
<1> QED BY <1>3, <1>4, <1>5, <1>6

\* A call that is not late is given replies to itself.
LEMMA TakenOwn ==
  ASSUME IInv, pc \in {"decode", "body"}, TakeReply, ~slipped
  PROVE  \A i \in 1..Len(took') : Own(took'[i])
<1>1. \A i \in 1..Len(took) : Own(took[i]) BY DEF IInv, Answered
<1>2. Own(Head(owed)) BY AtReply
<1>3. /\ Len(took') = Len(took) + 1 /\ Len(took) \in Nat
      /\ \A i \in 1..Len(took) : took'[i] = took[i]
      /\ took'[Len(took) + 1] = Head(owed)
  BY Taken
<1>4. SUFFICES ASSUME NEW i \in 1..Len(took') PROVE Own(took'[i])
  OBVIOUS
<1>5. CASE i \in 1..Len(took) BY <1>1, <1>3, <1>5
<1>6. CASE i = Len(took) + 1 BY <1>2, <1>3, <1>6
<1> QED BY <1>3, <1>5, <1>6

\* A late call has been given a reply.
LEMMA TakenLate ==
  ASSUME IInv, pc \in {"decode", "body"}, TakeReply, slipped, UNCHANGED due
  PROVE  LateEnd'
<1>1. OwnLast /\ took = <<>> /\ owed # <<>> /\ Head(owed) = owed[1] BY AtReply
<1>2. /\ Len(took') = 1 /\ took'[1] = owed[1] /\ owed' = Tail(owed)
      /\ Len(owed) \in Nat /\ Len(owed') = Len(owed) - 1
  <2>1. Len(took) = 0 BY <1>1
  <2> QED BY <1>1, <2>1, Taken
<1>3. 1 \in 1..Len(owed)
  <2>1. owed \in Seq(OwedItems) BY DEF IInv, Types
  <2>2. Len(owed) # 0 BY <1>1, <2>1, EmptySeq
  <2> QED BY <1>2, <2>2
<1>4. CASE Own(owed[1])
  <2>1. 1 = Len(owed) /\ due = <<>> BY <1>1, <1>3, <1>4 DEF OwnLast
  <2>2. Len(owed') = 0 /\ Len(due') = 0 BY <1>2, <2>1
  <2>3. (\A i \in 1..Len(owed') : ~Own(owed'[i])) /\ \A i \in 1..Len(due') : ~Own(due'[i])
    BY <2>2
  <2> QED BY <2>3 DEF LateEnd, Own
<1>5. CASE ~Own(owed[1])
  <2>1. 1 \in 1..Len(took') /\ ~Own(took'[1]) BY <1>2, <1>5 DEF Own
  <2> QED BY <2>1 DEF LateEnd, Own
<1> QED BY <1>4, <1>5

\* A reader returns what it has read.
LEMMA ReturnsKeeps ==
  ASSUME IInv, pc \in {"decode", "body"}, NEW raw \in Raws, ReaderReturns(raw),
         UNCHANGED <<closed, asked, multi, wire, due>>, sock' \in Strings,
         ~slipped => Follows(sock' \o wire, Cat(Tail(owed)), closed),
         ~slipped /\ Head(todo) # "ok" => raw = Handed(Head(todo), Head(owed).reply)
  PROVE  IInv'
<1> DEFINE q == Len(Readers(name))
           m == Len(took)
<1>a. /\ name' = name /\ unsent' = unsent /\ slipped' = slipped /\ rd' = Fresh
      /\ got' = Append(got, raw) /\ todo' = Tail(todo) /\ TakeReply
      /\ closed' = closed /\ asked' = asked /\ multi' = multi /\ wire' = wire /\ due' = due
  BY DEF ReaderReturns
<1>b. \/ Len(todo) > 1 /\ pc' = "line" /\ outcome' = outcome
      \/ ~(Len(todo) > 1) /\ pc' = "idle" /\ outcome'.t \in {"value", "throw"}
  <2>1. \A v : Value(v).t = "value" BY DEF Value
  <2> QED BY <2>1, GiveIs DEF ReaderReturns
<1>c. /\ name \in AllCalls /\ Readers(name) \in Seq(ReaderKinds)
      /\ m \in Nat /\ m < q /\ q \in Nat /\ Len(got) = m
      /\ Len(todo) = q - m /\ Tail(todo) = From(Readers(name), m + 2)
      /\ Head(todo) = Readers(name)[m + 1]
      /\ slipped => Late /\ OwnLast /\ name \in LateCalls /\ took = <<>> /\ q = 1
      /\ ~slipped => ForReaders /\ (~closed => ForServer)
  BY AtReply
<1>d. /\ owed' = Tail(owed) /\ owed' \in Seq(OwedItems) /\ Len(owed') = Len(owed) - 1
      /\ Len(owed) \in Nat /\ Len(owed') \in Nat
      /\ \A i \in 1..Len(owed') : owed'[i] = owed[i + 1]
      /\ took' \in Seq(OwedItems) /\ Len(took') = m + 1
      /\ \A i \in 1..m : took'[i] = took[i]
      /\ took'[m + 1] = Head(owed)
  BY <1>a, Taken
<1>e. Late' <=> Late BY <1>a DEF Late
<1>f. /\ got \in Seq(Raws) /\ got' \in Seq(Raws) /\ Len(got') = m + 1
      /\ (\A i \in 1..m : got'[i] = got[i]) /\ got'[m + 1] = raw
  <2>1. got \in Seq(Raws) BY DEF IInv, Types
  <2> HIDE DEF Raws
  <2> QED BY <2>1, <1>a, <1>c, Longer
<1>g. unsent = <<>> /\ pc # "idle" /\ pc # "write" BY DEF IInv, Sent
<1>h. pc' \in {"line", "idle"} BY <1>b
<1> HIDE DEF q, m
<1>1. Types'
  <2>1. Types BY DEF IInv
  <2>2. outcome'.t \in {"value", "throw"} BY <1>b, <2>1 DEF Types
  <2>3. pc' \in {"idle", "write"} \cup Steps BY <1>h DEF Steps
  <2>4. rd' \in Reads BY <1>a, FreshIs
  <2> QED BY <1>a, <1>d, <1>f, <2>1, <2>2, <2>3, <2>4 DEF Types
<1>2. Sent'
  <2>1. Sent BY DEF IInv
  <2>2. pc' # "write" BY <1>h
  <2> QED BY <1>a, <1>g, <2>1, <2>2 DEF Sent
<1>3. Idle'
  <2> SUFFICES ASSUME pc' = "idle"
               PROVE  /\ rd' = Fresh /\ todo' = <<>>
                      /\ ~closed' /\ ~slipped' => due' = <<>> /\ owed' = <<>> /\ multi' = "no"
    BY DEF Idle, Fresh
  <2>1. Len(todo) = 1 BY <1>b, <1>c
  <2>2. todo' = <<>>
    <3>0. m \in Nat /\ q \in Nat /\ q - m = 1
      <4>1. m \in Nat /\ q \in Nat /\ Len(todo) = q - m BY <1>c
      <4> QED BY <2>1, <4>1
    <3>1. m + 2 > q BY <3>0
    <3>2. todo' = SubSeq(Readers(name), m + 2, q) BY <1>a, <1>c DEF From, q
    <3> QED BY <3>0, <3>1, <3>2, SubSeqEmpty
  <2>3. ~closed /\ ~slipped => due = <<>> /\ Tail(owed) = <<>> /\ multi = "no"
    BY <2>1, LastReply
  <2> QED BY <1>a, <1>d, <2>2, <2>3
<1>4. Running'
  <2> SUFFICES ASSUME pc' # "idle"
               PROVE  /\ name' \in AllCalls
                      /\ Len(got') = Len(took') /\ Len(took') < Len(Readers(name'))
                      /\ todo' = From(Readers(name'), Len(took') + 1)
                      /\ pc' = "write" => rd' = Fresh /\ took' = <<>>
                      /\ slipped' => Late'
    BY DEF Running, Fresh
  <2>1. m + 1 < q BY <1>b, <1>c
  <2>2. (m + 1) + 1 = m + 2 BY <1>c
  <2> QED BY <1>a, <1>c, <1>d, <1>e, <1>f, <1>h, <2>1, <2>2 DEF q
<1>5. InLine'
  <2>1. NoLF(Fresh.line) /\ ~Fresh.eol /\ Fresh.want = 0 /\ Fresh.data = <<>> BY DEF Fresh, NoLF
  <2> QED BY <1>a, <1>h, <2>1 DEF InLine, NoLF
<1>6. InStream'
  <2> SUFFICES ASSUME pc' = "line", ~slipped
               PROVE  InStep_(owed', rd', pc', sock', wire', closed')
    BY <1>a, <1>h DEF InStream, Steps
  <2>1. wire \in Strings BY DEF IInv, Types
  <2>2. InStep_(Tail(owed), Fresh, "line", sock', wire, closed) BY <1>d, <2>1, StreamFresh
  <2> QED BY <1>a, <1>d, <2>2
<1>7. Aligned'
  <2>1. ASSUME ~closed, ~Late PROVE sock' \o wire = Cat(Tail(owed))
    BY <1>c, <2>1 DEF Follows
  <2> QED BY <1>a, <1>d, <1>e, <1>h, <2>1 DEF Aligned
<1>8. Account'
  <2> SUFFICES ASSUME ~slipped PROVE ForReaders' /\ (~closed => ForServer')
    BY <1>a DEF Account
  <2>1. ForReaders /\ (~closed => ForServer) BY <1>c
  <2>2. ForReaders'
    <3> SUFFICES ASSUME NEW i \in 1..Len(owed')
                 PROVE  /\ Own(owed'[i]) /\ Len(took') + i <= q
                        /\ owed'[i].reply \in Possible(name, Len(took') + i)
      BY <1>a DEF ForReaders, Own, q
    <3>1. i + 1 \in 1..Len(owed) /\ Len(took') + i = m + (i + 1) BY <1>c, <1>d
    <3>2. /\ Own(owed[i + 1]) /\ m + (i + 1) <= q
          /\ owed[i + 1].reply \in Possible(name, m + (i + 1))
      BY <2>1, <3>1 DEF ForReaders, q, m
    <3> QED BY <1>d, <3>1, <3>2
  <2>3. ASSUME ~closed PROVE ForServer'
    <3>1. Len(took') + Len(owed') = Len(took) + Len(owed) BY <1>c, <1>d DEF m
    <3>2. ForServer BY <2>1, <2>3
    <3> QED BY <1>a, <3>1, <3>2 DEF ForServer
  <2> QED BY <2>2, <2>3
<1>9. Answered'
  <2>1. ~slipped => \A i \in 1..Len(took') : Own(took'[i]) BY <1>a, TakenOwn
  <2>2. ASSUME ~Late, NEW i \in 1..Len(got'), Readers(name)[i] # "ok"
        PROVE  got'[i] = Handed(Readers(name)[i], took'[i].reply)
    <3>1. CASE i \in 1..m
      <4>1. i \in 1..Len(got) BY <1>c, <3>1 DEF m
      <4>2. got[i] = Handed(Readers(name)[i], took[i].reply) BY <2>2, <4>1 DEF IInv, Answered
      <4> QED BY <1>d, <1>f, <3>1, <4>2
    <3>2. CASE i = m + 1
      <4>1. ~slipped /\ Head(todo) # "ok" /\ Head(todo) = Readers(name)[i] BY <1>c, <2>2, <3>2
      <4>2. raw = Handed(Readers(name)[i], Head(owed).reply) BY <4>1
      <4> QED BY <1>d, <1>f, <3>2, <4>2
    <3> QED BY <1>c, <1>f, <3>1, <3>2
  <2>3. Len(got') <= Len(took') BY <1>c, <1>d, <1>f
  <2> QED BY <1>a, <1>e, <2>1, <2>2, <2>3 DEF Answered, Own
<1>10. LateOnly'
  <2> SUFFICES ASSUME Late PROVE pc' = "idle" /\ LateEnd'
    BY <1>e DEF LateOnly
  <2>1. slipped BY DEF Late
  <2>2. ~(Len(todo) > 1) BY <1>c, <2>1
  <2>3. LateEnd' BY <1>a, <2>1, TakenLate
  <2> QED BY <1>b, <2>2, <2>3
<1> QED BY <1>1, <1>2, <1>3, <1>4, <1>5, <1>6, <1>7, <1>8, <1>9, <1>10 DEF IInv

\* The reader of a call with one command: the server owes nothing else.
LEMMA OnlyReply ==
  ASSUME IInv, pc \in {"decode", "body"}, ~slipped, name \notin Pipelines
  PROVE  Len(todo) = 1
<1>1. name \in Names /\ name \in AllCalls BY AtReply DEF AllCalls
<1>2. Len(Commands(name)) = 1 BY <1>1, CommandsAre
<1>3. name # "exec_transaction"
  <2>1. name = "exec_transaction" => Len(Commands(name)) = 4 BY <1>1, CommandsAre
  <2> QED BY <1>2, <2>1
<1>4. Len(Readers(name)) = 1 BY <1>1, <1>2, <1>3, CommandsAre
<1>5. Len(took) \in Nat /\ Len(took) < Len(Readers(name)) /\ Len(todo) = Len(Readers(name)) - Len(took)
  BY AtReply
<1> QED BY <1>4, <1>5

\* A reader throws.
LEMMA ThrowsKeeps ==
  ASSUME IInv, pc \in {"decode", "body"}, NEW what, ReaderThrows(what),
         UNCHANGED <<closed, asked, multi, sock, wire, due>>,
         ~slipped => Follows(sock \o wire, Cat(Tail(owed)), closed)
  PROVE  IInv'
<1> DEFINE m == Len(took)
<1>a. /\ name' = name /\ got' = got /\ TakeReply /\ pc' = "idle"
      /\ unsent' = <<>> /\ todo' = <<>> /\ rd' = Fresh
      /\ slipped' = (slipped \/ (~closed /\ (due # <<>> \/ owed' # <<>>)))
      /\ closed' = closed /\ asked' = asked /\ multi' = multi /\ wire' = wire
      /\ due' = due /\ sock' = sock /\ outcome'.t \in {"value", "throw"}
  BY CaughtIs DEF ReaderThrows, Throw, EndCall
<1>c. /\ name \in AllCalls /\ m \in Nat /\ Len(got) = m
      /\ slipped => Late
      /\ ~slipped => ForReaders /\ (~closed => ForServer)
  BY AtReply
<1>d. /\ owed' = Tail(owed) /\ owed' \in Seq(OwedItems) /\ Len(owed') = Len(owed) - 1
      /\ Len(owed) \in Nat /\ Len(owed') \in Nat
      /\ took' \in Seq(OwedItems) /\ Len(took') = m + 1
      /\ \A i \in 1..m : took'[i] = took[i]
  BY <1>a, Taken
<1>e. closed \in BOOLEAN /\ slipped \in BOOLEAN BY DEF IInv, Types
<1>g. unsent = <<>> /\ pc # "idle" /\ pc # "write" BY DEF IInv, Sent
\* A call with one command does not slip.
<1>h. ASSUME ~slipped, name \notin Pipelines PROVE ~slipped'
  <2>1. Len(todo) = 1 BY <1>h, OnlyReply
  <2>2. Tail(owed) = <<>> /\ (~closed => due = <<>>) BY <1>h, <2>1, LastReply
  <2> QED BY <1>a, <1>d, <1>h, <2>2
<1>i. Late' <=> Late BY <1>a, <1>h DEF Late
<1> HIDE DEF m
<1>1. Types'
  <2>1. Types BY DEF IInv
  <2>2. slipped' \in BOOLEAN BY <1>a, <1>e
  <2>3. <<>> \in Strings BY DEF Strings
  <2>4. rd' \in Reads BY <1>a, FreshIs
  <2> QED BY <1>a, <1>d, <2>1, <2>2, <2>3, <2>4 DEF Types
<1>2. Sent' BY <1>a, <1>g DEF IInv, Sent
<1>3. Idle'
  <2> SUFFICES ASSUME ~closed, ~slipped' PROVE due = <<>> /\ owed' = <<>> /\ multi = "no"
    BY <1>a DEF Idle, Fresh
  <2>1. ~slipped /\ due = <<>> /\ owed' = <<>> BY <1>a
  <2>2. ForServer BY <1>c, <2>1
  <2>3. multi = "no"
    <3> DEFINE l == Len(Commands(name))
    <3>1. Len(due) = 0 BY <2>1
    <3>2. l \in Nat BY <1>c, CommandsAre, LenProperties
    <3>3. l - Len(due) = l BY <3>1, <3>2
    <3>4. multi # "no" => name = "exec_transaction" /\ l \in 1..3 BY <2>2, <3>3 DEF ForServer
    <3>5. name = "exec_transaction" => l = 4 BY <1>c, CommandsAre
    <3> QED BY <3>4, <3>5
  <2> QED BY <2>1, <2>3
<1>4. Running' BY <1>a DEF Running
<1>5. InLine'
  <2>1. Fresh.want = 0 /\ Fresh.data = <<>> BY DEF Fresh
  <2> QED BY <1>a, <2>1 DEF InLine
<1>6. InStream' BY <1>a DEF InStream, Steps
<1>7. Aligned'
  <2>1. ASSUME ~closed, ~Late PROVE sock \o wire = Cat(Tail(owed))
    BY <1>c, <2>1 DEF Follows
  <2> QED BY <1>a, <1>d, <1>i, <2>1 DEF Aligned
<1>8. Account' BY <1>a DEF Account
<1>9. Answered'
  <2>1. ~slipped' => \A i \in 1..Len(took') : Own(took'[i]) BY <1>a, TakenOwn
  <2>2. ASSUME ~Late, NEW i \in 1..Len(got'), Readers(name)[i] # "ok"
        PROVE  got'[i] = Handed(Readers(name)[i], took'[i].reply)
    <3>1. i \in 1..Len(got) /\ i \in 1..m BY <1>a, <1>c
    <3>2. got[i] = Handed(Readers(name)[i], took[i].reply) BY <2>2, <3>1 DEF IInv, Answered
    <3> QED BY <1>a, <1>d, <3>1, <3>2
  <2>3. Len(got') <= Len(took') BY <1>a, <1>c, <1>d
  <2> QED BY <1>a, <1>i, <2>1, <2>2, <2>3 DEF Answered, Own
<1>10. LateOnly'
  <2> SUFFICES ASSUME Late PROVE LateEnd'
    BY <1>a, <1>i DEF LateOnly
  <2>1. slipped BY DEF Late
  <2> QED BY <1>a, <2>1, TakenLate
<1> QED BY <1>1, <1>2, <1>3, <1>4, <1>5, <1>6, <1>7, <1>8, <1>9, <1>10 DEF IInv

-----------------------------------------------------------------------------

\* A reader goes on.
LEMMA GoesOn ==
  ASSUME IInv, pc \in Steps, pc' \in Steps,
         UNCHANGED <<name, unsent, todo, got, outcome, owed, took, slipped>>,
         UNCHANGED <<closed, asked, multi, wire, due>>,
         rd' \in Reads, sock' \in Strings, InLine',
         ~slipped => InStep_(owed, rd', pc', sock', wire, closed),
         slipped => owed # <<>>
  PROVE  IInv'
<1>a. /\ name' = name /\ unsent' = unsent /\ todo' = todo /\ got' = got /\ outcome' = outcome
      /\ owed' = owed /\ took' = took /\ slipped' = slipped
      /\ closed' = closed /\ asked' = asked /\ multi' = multi /\ wire' = wire /\ due' = due
      /\ pc # "idle" /\ pc # "write" /\ pc' # "idle" /\ pc' # "write"
  BY DEF Steps
<1>1. Types' BY <1>a DEF IInv, Types
<1>2. Sent' BY <1>a DEF IInv, Sent
<1>3. Idle' BY <1>a DEF Idle
<1>4. Running' BY <1>a DEF IInv, Running, Late
<1>6. InStream' BY <1>a DEF InStream
<1>7. Aligned' BY <1>a DEF Aligned
<1>8. Account'
  <2>1. ForReaders' <=> ForReaders BY <1>a DEF ForReaders, Own
  <2>2. ForServer' <=> ForServer BY <1>a DEF ForServer
  <2> QED BY <1>a, <2>1, <2>2 DEF IInv, Account
<1>9. Answered' BY <1>a DEF IInv, Answered, Own, Late
<1>10. LateOnly'
  <2>1. OwnLast' <=> OwnLast BY <1>a DEF OwnLast, Own
  <2>2. Late' <=> Late BY <1>a DEF Late
  <2>3. Late => OwnLast BY <1>a DEF IInv, LateOnly
  <2>4. Late => owed # <<>> BY DEF Late
  <2> QED BY <1>a, <2>1, <2>2, <2>3, <2>4 DEF LateOnly
<1> QED BY <1>1, <1>2, <1>3, <1>4, <1>6, <1>7, <1>8, <1>9, <1>10 DEF IInv

-----------------------------------------------------------------------------
(* The lines that are read                                                 *)

\* An end of a text, taken off.
LEMMA RTrimType ==
  ASSUME NEW text \in Strings, NEW ws
  PROVE  RTrim(text, ws) \in Strings
<1> DEFINE ends == {n \in 0..Len(text) : \A i \in (n + 1)..Len(text) : text[i] \in ws}
           cut == CHOOSE n \in ends : \A m \in ends : n <= m
<1>1. Len(text) \in Nat BY LenProperties DEF Strings
<1>2. Len(text) \in ends BY <1>1
<1>3. ends \in SUBSET Nat BY <1>1
<1>4. \E n \in ends : \A m \in ends : n <= m
  <2> HIDE DEF ends
  <2> QED BY <1>2, <1>3, LeastNumber
<1>5. cut \in 0..Len(text)
  <2>1. cut \in ends BY <1>4
  <2> QED BY <2>1
<1> HIDE DEF cut
<1>6. SubSeq(text, 1, cut) \in Seq(STRING) BY <1>5, CutAt DEF Strings
<1> QED BY <1>6 DEF RTrim, cut, Strings

\* What the first symbol of a reply says of it.
LEMMA MarkIs ==
  ASSUME NEW r \in Replies
  PROVE  /\ Mark(r) = "+" => r.t = "status"
         /\ Mark(r) = ":" => r.t = "int"
         /\ Mark(r) = "-" <=> r.t = "error"
         /\ Mark(r) = "*" <=> r.t \in {"header", "multi", "nilmulti"}
         /\ Mark(r) = "$" <=> r.t \in {"bulk", "nil"}
         /\ r.t \in {"status", "int", "header"} => Told(r) = r.v /\ Content(r) = r.v
         /\ r.t = "int" => Mark(r) = ":"
         /\ r.t = "error" => Told(r) = r.v /\ Content(r) = r.v /\ Tail(r.v) \in Strings
         /\ r.t \in {"nil", "nilmulti"} => Told(r) = <<"-1">>
         /\ r.t \in {"bulk", "multi"} =>
              Told(r) = <<Numerals[Len(r.v)]>> /\ Len(r.v) \in 0..Most
         /\ r.t \notin {"bulk", "multi"} => Body(r) = <<>>
<1>1. r.t \in {"status", "error", "int", "header", "bulk", "nil", "multi", "nilmulti"}
  BY DEF Replies, LineReplies, BulkReplies, Texts, Nil, NilMulti, Multis, Reply
<1>2. r.t = "error" => Tail(r.v) \in Strings
  <2>1. ASSUME r.t = "error" PROVE r.v \in Strings /\ r.v # <<>>
    BY <2>1 DEF Replies, LineReplies, BulkReplies, Texts, Nil, NilMulti, Multis, Reply
  <2> QED BY <2>1, HeadTailProperties DEF Strings
<1>3. ASSUME r.t \in {"bulk", "multi"} PROVE Len(r.v) \in 0..Most
  <2>1. r.t = "bulk" => r.v \in ParamSet
    BY <1>3 DEF Replies, LineReplies, BulkReplies, Texts, Nil, NilMulti, Multis, Reply
  <2>2. r.t = "multi" => r.v \in Seq(BulkReplies) /\ Len(r.v) <= Most
    <3>1. r.t = "multi" => r \in Multis
      BY <1>3 DEF Replies, LineReplies, BulkReplies, Texts, Nil, NilMulti, Reply
    <3> QED BY <3>1 DEF Multis
  <2>3. Most \in Nat BY NumeralAssumption
  <2>4. CASE r.t = "bulk"
    <3>1. r.v \in Seq(STRING) /\ Len(r.v) <= Most BY <2>1, <2>4 DEF ParamSet, Strings
    <3>2. Len(r.v) \in Nat BY <3>1, LenProperties
    <3> QED BY <2>3, <3>1, <3>2
  <2>5. CASE r.t = "multi"
    <3>1. Len(r.v) \in Nat /\ Len(r.v) <= Most BY <2>2, <2>5, LenProperties
    <3> QED BY <2>3, <3>1
  <2> QED BY <1>3, <2>4, <2>5
<1>4. /\ Mark(r) = "+" => r.t = "status"
      /\ Mark(r) = ":" => r.t = "int"
      /\ Mark(r) = "-" <=> r.t = "error"
      /\ Mark(r) = "*" <=> r.t \in {"header", "multi", "nilmulti"}
      /\ Mark(r) = "$" <=> r.t \in {"bulk", "nil"}
      /\ r.t = "int" => Mark(r) = ":"
  BY <1>1 DEF Mark
<1>5. /\ r.t \in {"status", "int", "header"} => Told(r) = r.v /\ Content(r) = r.v
      /\ r.t = "error" => Told(r) = r.v /\ Content(r) = r.v
      /\ r.t \in {"nil", "nilmulti"} => Told(r) = <<"-1">>
      /\ r.t \in {"bulk", "multi"} => Told(r) = <<Numerals[Len(r.v)]>>
  BY <1>1 DEF Told, Content
<1>6. r.t \notin {"bulk", "multi"} => Body(r) = <<>> BY DEF Body
<1> QED BY <1>2, <1>3, <1>4, <1>5, <1>6

\* A bulk or a multi bulk says how long it is.
LEMMA ToldNumber ==
  ASSUME NEW r \in Replies, r.t \in {"bulk", "multi", "nil", "nilmulti"}
  PROVE  /\ Numeric(Told(r))
         /\ Told(r)[1] = "-1" <=> r.t \in {"nil", "nilmulti"}
         /\ r.t \in {"bulk", "multi"} =>
              /\ Number(Told(r)[1]) = Len(r.v) /\ Len(r.v) \in Nat
              /\ Told(r)[1] = "0" => Len(r.v) = 0
<1>1. CASE r.t \in {"nil", "nilmulti"}
  <2>1. Told(r) = <<"-1">> BY <1>1, MarkIs
  <2>2. -1 \in -1..Most /\ Numerals[-1] = "-1" BY NumeralAssumption
  <2>3. "-1" \in DOMAIN Numbers
    <3>1. "-1" \in {Numerals[n] : n \in -1..Most} BY <2>2
    <3> QED BY <3>1 DEF Numbers
  <2> QED BY <1>1, <2>1, <2>3 DEF Numeric
<1>2. CASE r.t \in {"bulk", "multi"}
  <2> DEFINE n == Len(r.v)
  <2>1. n \in 0..Most /\ Told(r) = <<Numerals[n]>> BY <1>2, MarkIs
  <2> HIDE DEF n
  <2>2. /\ Numerals[n] # "-1" /\ (n # 0 => Numerals[n] # "0")
        /\ Numeric(<<Numerals[n]>>) /\ Number(Numerals[n]) = n
    BY <2>1, NumeralIs
  <2> QED BY <1>2, <2>1, <2>2 DEF n
<1> QED BY <1>1, <1>2

\* The line that is decoded is the first line of the bulk that is read.
LEMMA LineIs ==
  ASSUME IInv, pc = "decode"
  PROVE  LET b == BulkOf(Head(owed).reply, rd)
         IN  /\ Prefix # "NUL" => Rest \in Strings
             /\ ~slipped =>
                  /\ b \in Replies /\ Prefix = Mark(b) /\ Rest = Told(b)
                  /\ Follows(sock \o wire, Body(b) \o Behind(owed, rd), closed)
                  /\ InStep_(owed, rd, "decode", sock, wire, closed)
                  /\ rd.left > 0 => b \in BulkReplies /\ Partly(owed, rd)
                  /\ rd.left = 0 => b = Head(owed).reply /\ Behind(owed, rd) = Cat(Tail(owed))
                  /\ Behind(owed, rd) \in Strings
<1> DEFINE b == BulkOf(Head(owed).reply, rd)
<1>1. /\ rd \in Reads /\ rd.line \in Strings /\ sock \in Strings /\ wire \in Strings
      /\ owed \in Seq(OwedItems) /\ rd.left \in Nat
  BY DEF IInv, Types, Reads
<1>2. Prefix # "NUL" => Rest \in Strings
  <2>1. Line \in Strings BY <1>1, RTrimType DEF Line
  <2>2. Prefix # "NUL" => Line # <<>> BY DEF Prefix
  <2> QED BY <2>1, <2>2, HeadTailProperties DEF Rest, Strings
<1>3. ASSUME ~slipped
      PROVE  /\ b \in Replies /\ Prefix = Mark(b) /\ Rest = Told(b)
             /\ Follows(sock \o wire, Body(b) \o Behind(owed, rd), closed)
             /\ InStep_(owed, rd, "decode", sock, wire, closed)
             /\ rd.left > 0 => b \in BulkReplies /\ Partly(owed, rd)
             /\ rd.left = 0 => b = Head(owed).reply /\ Behind(owed, rd) = Cat(Tail(owed))
             /\ Behind(owed, rd) \in Strings
  <2>1. InStep_(owed, rd, "decode", sock, wire, closed)
    BY <1>3 DEF IInv, InStream, Steps
  <2>2. rd.line # <<>> /\ NoLF(Front(rd.line)) /\ Last(rd.line) = "LF"
    BY DEF IInv, InLine
  <2>3. /\ owed # <<>> /\ rd.line = LineOf(b) \o EOL
        /\ Follows(sock \o wire, Body(b) \o Behind(owed, rd), closed)
    BY <1>1, <2>1, <2>2, StreamLine
  <2>4. rd.left > 0 => Partly(owed, rd) BY <2>1 DEF InStep_
  <2>5. b \in Replies /\ (rd.left > 0 => b \in BulkReplies) /\ Behind(owed, rd) \in Strings
        /\ Cat(Tail(owed)) \in Strings
    BY <1>1, <2>3, <2>4, BulkIs
  <2>6. /\ LineOf(b) \in Strings /\ LineOf(b) # <<>> /\ LineOf(b)[1] = Mark(b)
        /\ Tail(LineOf(b)) = Told(b) /\ Plain(LineOf(b))
    BY <2>5, BytesIs
  <2>7. Line = LineOf(b) BY <2>3, <2>6, RTrimIs DEF Line
  <2>8. Prefix = Mark(b) /\ Rest = Told(b) BY <2>6, <2>7 DEF Prefix, Rest
  <2>9. ASSUME rd.left = 0
        PROVE  b = Head(owed).reply /\ Behind(owed, rd) = Cat(Tail(owed))
    <3>1. b = Head(owed).reply BY <2>9 DEF BulkOf
    <3>2. Behind(owed, rd) = <<>> \o Cat(Tail(owed)) BY <2>9 DEF Behind
    <3> QED BY <2>5, <3>1, <3>2, NothingConcat
  <2> QED BY <2>1, <2>3, <2>4, <2>5, <2>8, <2>9
<1> QED BY <1>2, <1>3

\* Which reader it is.
LEMMA ReaderIs ==
  ASSUME IInv, pc = "decode"
  PROVE  /\ rd.left \in Nat
         /\ rd.left > 0 => Reader = "bulk"
         /\ rd.left = 0 /\ Head(todo) # "generic" => Reader = Head(todo)
         /\ rd.left = 0 /\ Head(todo) = "generic" =>
              ~slipped /\ Reader \in {"int", "error"} /\ Reader = Head(owed).reply.t
<1>1. rd.left \in Nat BY DEF IInv, Types, Reads
<1>2. rd.left > 0 => Reader = "bulk" BY DEF Reader
<1>3. rd.left = 0 /\ Head(todo) # "generic" => Reader = Head(todo) BY DEF Reader
<1>4. ASSUME rd.left = 0, Head(todo) = "generic"
      PROVE  ~slipped /\ Reader \in {"int", "error"} /\ Reader = Head(owed).reply.t
  <2> DEFINE r == Head(owed).reply
  <2>1. ~slipped
    <3> SUFFICES ASSUME slipped PROVE FALSE OBVIOUS
    <3>1. name \in LateCalls /\ took = <<>> /\ Head(todo) = Readers(name)[Len(took) + 1]
      BY AtReply
    <3>2. Head(todo) = Readers(name)[1] BY <3>1
    <3>3. name \in DOMAIN Calls BY <3>1, LateCallsAre
    <3>4. Readers(name) = <<Calls[name].read>> BY <3>3, SingleIs
    <3>5. Calls[name].read \in {"ok", "line", "int", "intok", "bulk", "multi"}
      BY <3>3, TableAssumption
    <3> QED BY <1>4, <3>2, <3>4, <3>5
  <2>2. Fit("generic", r) BY <1>4, <2>1, AtReply
  <2>3. r.t \in {"int", "error"} BY <2>2 DEF Fit
  <2>4. r \in Replies /\ Prefix = Mark(r) BY <1>4, <2>1, LineIs
  <2>5. Reader = ByPrefix(Prefix)
    <3>1. ~(rd.left > 0) BY <1>4
    <3> QED BY <1>4, <3>1 DEF Reader
  <2>6. CASE r.t = "int"
    <3>1. Prefix = ":" BY <2>4, <2>6, MarkIs
    <3> QED BY <2>1, <2>5, <2>6, <3>1 DEF ByPrefix
  <2>7. CASE r.t = "error"
    <3>1. Prefix = "-" BY <2>4, <2>7, MarkIs
    <3> QED BY <2>1, <2>5, <2>7, <3>1 DEF ByPrefix
  <2> QED BY <2>3, <2>6, <2>7
<1> QED BY <1>1, <1>2, <1>3, <1>4

-----------------------------------------------------------------------------
(* Every reader keeps the invariant                                        *)

\* A reader that begins a bulk of a multi bulk.
StartsAt(g, x, y) ==
  /\ g \in Reads /\ g.left = x /\ g.elems = y
  /\ g.line = <<>> /\ g.eol = FALSE /\ g.want = 0 /\ g.data = <<>>

\* The reader of the next element of a multi bulk.
LEMMA FreshWith ==
  ASSUME NEW x \in Nat, NEW y \in Seq(Strings)
  PROVE  StartsAt([Fresh EXCEPT !.left = x, !.elems = y], x, y)
<1>1. ASSUME NEW r \in Reads
      PROVE  [r EXCEPT !.left = x, !.elems = y] \in Reads
  BY DEF Reads
<1> DEFINE f == [Fresh EXCEPT !.left = x, !.elems = y]
<1>2. f \in Reads BY Zenon, <1>1, FreshIs
<1>3. /\ f.line = <<>> /\ f.eol = FALSE /\ f.want = 0 /\ f.data = <<>>
      /\ f.left = x /\ f.elems = y
  BY DEF Fresh
<1> QED BY <1>2, <1>3 DEF StartsAt

\* A bulk has been read, the reply or an element of it.
LEMMA BulkReadKeeps ==
  ASSUME IInv, pc \in {"decode", "body"}, NEW v \in Strings, BulkRead(v),
         UNCHANGED <<closed, asked, multi, wire, due>>, sock' \in Strings,
         ~slipped => /\ InStep_(owed, rd, pc, sock, wire, closed)
                     /\ v = Content(BulkOf(Head(owed).reply, rd))
                     /\ BulkOf(Head(owed).reply, rd).t \in {"bulk", "nil"}
                     /\ Follows(sock' \o wire, Behind(owed, rd), closed)
  PROVE  IInv'
<1>1. /\ rd \in Reads /\ rd.left \in Nat /\ rd.elems \in Seq(Strings) /\ owed \in Seq(OwedItems)
      /\ wire \in Strings
  BY DEF IInv, Types, Reads
<1>2. owed # <<>> BY AtReply
<1>3. CASE rd.left = 0
  <2>1. ReaderReturns(v) BY <1>3 DEF BulkRead
  <2>2. ASSUME ~slipped
        PROVE  /\ v = Handed(Head(todo), Head(owed).reply)
               /\ Follows(sock' \o wire, Cat(Tail(owed)), closed)
    <3>1. BulkOf(Head(owed).reply, rd) = Head(owed).reply BY <1>3 DEF BulkOf
    <3>2. Behind(owed, rd) = <<>> \o Cat(Tail(owed)) BY <1>3 DEF Behind
    <3>3. Cat(Tail(owed)) \in Strings BY <1>1, <1>2, CatIs
    <3>4. v = Handed(Head(todo), Head(owed).reply) BY <2>2, <3>1, HandedIs
    <3> QED BY <2>2, <3>2, <3>3, <3>4, NothingConcat
  <2>3. v \in Raws BY DEF Raws
  <2> QED BY <2>1, <2>2, <2>3, ReturnsKeeps
<1>4. CASE rd.left = 1
  <2>1. ReaderReturns(Append(rd.elems, v)) BY <1>4 DEF BulkRead
  <2>2. ASSUME ~slipped
        PROVE  /\ Append(rd.elems, v) = Handed(Head(todo), Head(owed).reply)
               /\ Follows(sock' \o wire, Cat(Tail(owed)), closed)
    <3>1. Partly(owed, rd) BY <1>4, <2>2 DEF InStep_
    <3>2. /\ Append(rd.elems, v) = Content(Head(owed).reply)
          /\ Follows(sock' \o wire, Cat(Tail(owed)), closed)
      BY <1>1, <1>4, <2>2, <3>1, StreamLast
    <3>3. Head(owed).reply.t = "multi" BY <3>1 DEF Partly
    <3> QED BY <3>2, <3>3, HandedIs
  <2>3. Append(rd.elems, v) \in Raws
    <3>1. Append(rd.elems, v) \in Seq(Strings)
      <4> HIDE DEF Strings
      <4> QED BY <1>1, AppendProperties
    <3> QED BY <3>1 DEF Raws
  <2> QED BY <2>1, <2>2, <2>3, ReturnsKeeps
<1>5. CASE rd.left # 0 /\ rd.left # 1
  <2>1. /\ rd' = [Fresh EXCEPT !.left = rd.left - 1, !.elems = Append(rd.elems, v)]
        /\ pc' = "line"
        /\ UNCHANGED <<name, unsent, todo, got, outcome, owed, took, slipped>>
    BY <1>5 DEF BulkRead
  <2>2. rd.left > 1 /\ rd.left - 1 \in Nat BY <1>1, <1>5
  <2>3. Append(rd.elems, v) \in Seq(Strings)
    <3> HIDE DEF Strings
    <3> QED BY <1>1, AppendProperties
  <2>4. /\ rd' \in Reads /\ rd'.left = rd.left - 1 /\ rd'.elems = Append(rd.elems, v)
        /\ rd'.line = <<>> /\ rd'.eol = FALSE /\ rd'.want = 0 /\ rd'.data = <<>>
    <3> DEFINE e == Append(rd.elems, v)
               k == rd.left - 1
    <3>2. k \in Nat /\ e \in Seq(Strings) BY <2>2, <2>3
    <3>3. rd' = [Fresh EXCEPT !.left = k, !.elems = e] BY <2>1
    <3> HIDE DEF k, e
    <3>4. StartsAt(rd', k, e) BY Zenon, <3>2, <3>3, FreshWith
    <3> QED BY <3>4 DEF k, e, StartsAt
  <2>5. ASSUME ~slipped PROVE InStep_(owed, rd', "line", sock', wire, closed)
    <3>1. Partly(owed, rd) BY <1>1, <2>2, <2>5 DEF InStep_
    <3> QED BY <1>1, <2>2, <2>4, <2>5, <3>1, StreamNext
  <2>6. InLine' BY <2>1, <2>4 DEF InLine, NoLF
  <2>7. pc \in Steps /\ pc' \in Steps BY <2>1 DEF Steps
  <2> QED BY <1>2, <2>1, <2>4, <2>5, <2>6, <2>7, GoesOn
<1> QED BY <1>3, <1>4, <1>5

-----------------------------------------------------------------------------
(* The decoders                                                            *)

\* What a reader of one line may be run for, and what is unread after it.
LEMMA LineReader ==
  ASSUME IInv, pc = "decode", Reader \in {"ok", "line", "queued", "int", "intok", "header"}
  PROVE  /\ Head(todo) # "generic" => Reader = Head(todo)
         /\ Prefix # "NUL" => Rest \in Strings
         /\ ~slipped =>
              LET r == Head(owed).reply
              IN  /\ r \in Replies /\ Prefix = Mark(r) /\ Rest = Told(r)
                  /\ Reader = "header" => r.t # "nilmulti"
                  /\ r.t \notin {"bulk", "multi"}
                  /\ Follows(sock \o wire, Cat(Tail(owed)), closed)
<1> DEFINE r == Head(owed).reply
<1>1. rd.left = 0 BY ReaderIs
<1>2. Head(todo) # "generic" => Reader = Head(todo) BY <1>1, ReaderIs
<1>3. Prefix # "NUL" => Rest \in Strings BY LineIs
<1>4. ASSUME ~slipped
      PROVE  /\ r \in Replies /\ Prefix = Mark(r) /\ Rest = Told(r)
             /\ Reader = "header" => r.t # "nilmulti"
             /\ r.t \notin {"bulk", "multi"}
             /\ Follows(sock \o wire, Cat(Tail(owed)), closed)
  <2>1. Fit(Head(todo), r) BY <1>4, AtReply
  <2>2. r.t \notin {"bulk", "multi"} /\ (Reader = "header" => r.t # "nilmulti")
    <3>1. CASE Head(todo) = "generic"
      <4>1. Reader = r.t /\ Reader \in {"int", "error"} BY <1>1, <3>1, ReaderIs
      <4> QED BY <4>1
    <3>2. CASE Head(todo) # "generic"
      <4>1. Reader = Head(todo) BY <1>2, <3>2
      <4> QED BY <2>1, <4>1 DEF Fit
    <3> QED BY <3>1, <3>2
  <2>3. /\ r \in Replies /\ Prefix = Mark(r) /\ Rest = Told(r)
        /\ Follows(sock \o wire, Body(r) \o Cat(Tail(owed)), closed)
        /\ Cat(Tail(owed)) \in Strings
    BY <1>1, <1>4, LineIs
  <2>4. Body(r) = <<>> BY <2>2, <2>3, MarkIs
  <2>5. <<>> \o Cat(Tail(owed)) = Cat(Tail(owed)) BY <2>3, NothingConcat
  <2> QED BY <2>2, <2>3, <2>4, <2>5
<1> QED BY <1>2, <1>3, <1>4

\* What Decode leaves alone.
Quiet == UNCHANGED <<closed, asked, multi, sock, wire, due>>

\* A reader of one line may throw.
LEMMA LineThrows ==
  ASSUME IInv, pc = "decode", Reader \in {"ok", "line", "queued", "int", "intok", "header"},
         NEW what, ReaderThrows(what), Quiet
  PROVE  IInv'
<1>1. UNCHANGED <<closed, asked, multi, sock, wire, due>> BY DEF Quiet
<1>2. ~slipped => Follows(sock \o wire, Cat(Tail(owed)), closed) BY LineReader
<1> QED BY <1>1, <1>2, ThrowsKeeps

\* A reader of one line may return the contents of its line.
LEMMA LineReturns ==
  ASSUME IInv, pc = "decode", Reader \in {"ok", "line", "queued", "int", "intok", "header"},
         NEW raw \in Strings, ReaderReturns(raw), Quiet,
         ~slipped /\ Reader # "ok" => raw = Handed(Head(todo), Head(owed).reply)
  PROVE  IInv'
<1>1. UNCHANGED <<closed, asked, multi, wire, due>> /\ sock' = sock BY DEF Quiet
<1>2. sock' \in Strings BY <1>1 DEF IInv, Types
<1>3. ~slipped => Follows(sock' \o wire, Cat(Tail(owed)), closed) BY <1>1, LineReader
<1>4. ~slipped /\ Head(todo) # "ok" => raw = Handed(Head(todo), Head(owed).reply)
  <2> SUFFICES ASSUME ~slipped, Head(todo) # "ok", Reader = "ok" PROVE FALSE OBVIOUS
  <2>1. Head(todo) = "generic" BY LineReader
  <2>2. rd.left = 0 BY ReaderIs
  <2> QED BY <2>1, <2>2, ReaderIs
<1>5. raw \in Raws BY DEF Raws
<1> QED BY <1>1, <1>2, <1>3, <1>4, <1>5, ReturnsKeeps

\* IInv is kept by the readers of a status.
LEMMA StatusKeeps == ASSUME IInv, pc = "decode", DecodeStatus, Quiet PROVE IInv'
<1>1. Reader \in {"ok", "line", "queued"} BY DEF DecodeStatus
<1>2. ASSUME NEW what, ReaderThrows(what) PROVE IInv' BY <1>1, <1>2, LineThrows
<1>3. ASSUME Prefix = "+", ReaderReturns(IF Reader = "ok" THEN <<>> ELSE Rest) PROVE IInv'
  <2> DEFINE raw == IF Reader = "ok" THEN <<>> ELSE Rest
  <2>1. raw \in Strings
    <3>1. Rest \in Strings BY <1>1, <1>3, LineReader
    <3>2. <<>> \in Strings BY DEF Strings
    <3> QED BY <3>1, <3>2
  <2>2. ASSUME ~slipped, Reader # "ok" PROVE raw = Handed(Head(todo), Head(owed).reply)
    <3>1. Head(owed).reply \in Replies /\ "+" = Mark(Head(owed).reply)
          /\ Rest = Told(Head(owed).reply)
      BY <1>1, <1>3, <2>2, LineReader
    <3>2. Rest = Content(Head(owed).reply) /\ Head(owed).reply.t = "status" BY <3>1, MarkIs
    <3> QED BY <2>2, <3>2, HandedIs
  <2>3. ReaderReturns(raw) BY <1>3
  <2> HIDE DEF raw
  <2> QED BY <1>1, <2>1, <2>2, <2>3, LineReturns
<1>4. \/ \E what \in {"protocol_error", "runtime_error"} : ReaderThrows(what)
      \/ Prefix = "+" /\ ReaderReturns(IF Reader = "ok" THEN <<>> ELSE Rest)
  BY DEF DecodeStatus
<1> QED BY <1>2, <1>3, <1>4

\* IInv is kept by the readers of an integer.
LEMMA IntKeeps == ASSUME IInv, pc = "decode", DecodeInt, Quiet PROVE IInv'
<1>1. Reader \in {"int", "intok"} BY DEF DecodeInt
<1>2. ASSUME NEW what, ReaderThrows(what) PROVE IInv' BY <1>1, <1>2, LineThrows
<1> DEFINE raw == IF Head(todo) = "generic" THEN ToInt(Rest) ELSE Rest
<1>3. ASSUME Prefix = ":", ReaderReturns(raw) PROVE IInv'
  <2>1. raw \in Strings
    <3>1. Rest \in Strings BY <1>1, <1>3, LineReader
    <3> QED BY <3>1, LongIs DEF ToInt
  <2>2. ASSUME ~slipped PROVE raw = Handed(Head(todo), Head(owed).reply)
    <3>1. Head(owed).reply \in Replies /\ ":" = Mark(Head(owed).reply)
          /\ Rest = Told(Head(owed).reply)
      BY <1>1, <1>3, <2>2, LineReader
    <3>2. Rest = Content(Head(owed).reply) /\ Head(owed).reply.t = "int" BY <3>1, MarkIs
    <3> QED BY <3>2, HandedIs
  <2> HIDE DEF raw
  <2> QED BY <1>1, <1>3, <2>1, <2>2, LineReturns
<1>4. \/ \E what \in {"protocol_error", "bad_lexical_cast"} : ReaderThrows(what)
      \/ Prefix = ":" /\ ReaderReturns(raw)
  BY DEF DecodeInt
<1> QED BY <1>2, <1>3, <1>4

\* IInv is kept when exec_transaction looks at the answer to EXEC.
LEMMA HeaderKeeps == ASSUME IInv, pc = "decode", DecodeHeader, Quiet PROVE IInv'
<1>1. Reader = "header" BY DEF DecodeHeader
<1>2. ASSUME NEW what, ReaderThrows(what) PROVE IInv' BY <1>1, <1>2, LineThrows
<1>3. ASSUME Prefix = "*", ReaderReturns(Rest) PROVE IInv'
  <2>1. Rest \in Strings BY <1>1, <1>3, LineReader
  <2>2. ASSUME ~slipped PROVE Rest = Handed(Head(todo), Head(owed).reply)
    <3>1. Head(owed).reply \in Replies /\ "*" = Mark(Head(owed).reply)
          /\ Rest = Told(Head(owed).reply)
          /\ Head(owed).reply.t \notin {"bulk", "multi", "nilmulti"}
      BY <1>1, <1>3, <2>2, LineReader
    <3>2. Head(owed).reply.t = "header" BY <3>1, MarkIs
    <3>3. Rest = Content(Head(owed).reply) BY <3>1, <3>2, MarkIs
    <3> QED BY <3>2, <3>3, HandedIs
  <2> QED BY <1>1, <1>3, <2>1, <2>2, LineReturns
<1> QED BY <1>2, <1>3 DEF DecodeHeader

\* IInv is kept by the generic reader.
LEMMA GenericKeeps == ASSUME IInv, pc = "decode", DecodeGeneric, Quiet PROVE IInv'
<1> DEFINE r == Head(owed).reply
<1>1. Reader \in {"status", "error"}
      /\ ReaderReturns(IF Reader = "status" THEN Rest ELSE Tail(Rest))
  BY DEF DecodeGeneric
<1>2. rd.left = 0 BY <1>1, ReaderIs
<1>3. Head(todo) = "generic"
  <2>1. Head(todo) \in ReaderKinds BY AtReply
  <2>2. Head(todo) # "generic" => Reader = Head(todo) BY <1>2, ReaderIs
  <2> QED BY <1>1, <2>1, <2>2 DEF ReaderKinds
<1>4. ~slipped /\ Reader = "error" /\ r.t = "error" BY <1>1, <1>2, <1>3, ReaderIs
<1>5. /\ r \in Replies /\ Rest = Told(r)
      /\ Follows(sock \o wire, Body(r) \o Cat(Tail(owed)), closed)
      /\ Cat(Tail(owed)) \in Strings
  BY <1>2, <1>4, LineIs
<1>6. Body(r) = <<>> /\ Rest = Content(r) /\ Tail(Rest) \in Strings BY <1>4, <1>5, MarkIs
<1>7. Follows(sock \o wire, Cat(Tail(owed)), closed) BY <1>5, <1>6, NothingConcat
<1>8. UNCHANGED <<closed, asked, multi, wire, due>> /\ sock' = sock BY DEF Quiet
<1>9. sock' \in Strings BY <1>8 DEF IInv, Types
<1>10. Tail(Rest) \in Raws BY <1>6 DEF Raws
<1>11. ReaderReturns(Tail(Rest)) BY <1>1, <1>4
<1> HIDE DEF r
<1>12. Tail(Rest) = Handed(Head(todo), Head(owed).reply) BY <1>3, <1>4, <1>6, HandedIs DEF r
<1> QED BY <1>7, <1>8, <1>9, <1>10, <1>11, <1>12, ReturnsKeeps

\* A header line of a bulk has been read.
LEMMA BulkKeeps == ASSUME IInv, pc = "decode", DecodeBulk, Quiet PROVE IInv'
<1> DEFINE b == BulkOf(Head(owed).reply, rd)
<1>1. Reader = "bulk" BY DEF DecodeBulk
<1>2. /\ closed' = closed /\ asked' = asked /\ multi' = multi /\ wire' = wire /\ due' = due
      /\ sock' = sock
  BY DEF Quiet
<1>3. owed # <<>> /\ owed \in Seq(OwedItems) /\ sock' \in Strings /\ sock \in Strings
      /\ wire \in Strings /\ rd \in Reads
  BY <1>2, AtReply DEF IInv, Types
<1>4. ASSUME ~slipped
      PROVE  /\ b \in Replies /\ Prefix = Mark(b) /\ Rest = Told(b)
             /\ Follows(sock \o wire, Body(b) \o Behind(owed, rd), closed)
             /\ InStep_(owed, rd, "decode", sock, wire, closed)
             /\ rd.left > 0 => b \in BulkReplies
             /\ rd.left = 0 => b = Head(owed).reply /\ Behind(owed, rd) = Cat(Tail(owed))
             /\ Behind(owed, rd) \in Strings
  BY <1>4, LineIs
<1>5. rd.left \in Nat BY ReaderIs
<1>6. ASSUME ~slipped, rd.left = 0 PROVE b.t # "multi"
  <2>1. Head(todo) = "bulk"
    <3>1. Head(todo) # "generic" BY <1>1, <1>6, ReaderIs
    <3> QED BY <1>1, <1>6, <3>1, ReaderIs
  <2>2. Fit("bulk", Head(owed).reply) BY <1>6, <2>1, AtReply
  <2> QED BY <1>4, <1>6, <2>2 DEF Fit
\* Not a bulk.
<1>7. ASSUME Prefix # "$", ReaderThrows("protocol_error") PROVE IInv'
  <2>1. ASSUME ~slipped PROVE Follows(sock \o wire, Cat(Tail(owed)), closed)
    <3>1. rd.left = 0
      <4> SUFFICES ASSUME rd.left > 0 PROVE FALSE BY <1>5
      <4>1. b \in BulkReplies BY <1>4, <2>1
      <4>2. b.t \in {"nil", "bulk"} BY <4>1, BulkKinds
      <4> HIDE DEF b
      <4>3. Prefix = "$" BY <1>4, <2>1, <4>2, MarkIs
      <4> QED BY <1>7, <4>3
    <3>2. b.t \notin {"bulk", "multi"} BY <1>4, <1>6, <1>7, <2>1, <3>1, MarkIs
    <3>3. Body(b) = <<>> BY <1>4, <2>1, <3>2, MarkIs
    <3>4. Behind(owed, rd) = Cat(Tail(owed)) /\ Behind(owed, rd) \in Strings
      BY <1>4, <2>1, <3>1
    <3>5. Follows(sock \o wire, Body(b) \o Behind(owed, rd), closed) BY <1>4, <2>1
    <3> QED BY <3>3, <3>4, <3>5, NothingConcat
  <2> QED BY <1>2, <1>7, <2>1, ThrowsKeeps
\* A bulk says its length.
<1>8. ASSUME ~slipped, Prefix = "$"
      PROVE  /\ b.t \in {"bulk", "nil"} /\ Numeric(Rest) /\ (Rest[1] = "-1" <=> b.t = "nil")
             /\ b.t = "bulk" => Number(Rest[1]) = Len(b.v) /\ Len(b.v) \in Nat
  <2>1. b \in Replies /\ Mark(b) = "$" /\ Rest = Told(b) BY <1>4, <1>8
  <2> HIDE DEF b
  <2>2. b.t \in {"bulk", "nil"} BY <2>1, MarkIs
  <2>3. /\ Numeric(Told(b)) /\ (Told(b)[1] = "-1" <=> b.t \in {"nil", "nilmulti"})
        /\ b.t \in {"bulk", "multi"} => Number(Told(b)[1]) = Len(b.v) /\ Len(b.v) \in Nat
    BY <2>1, <2>2, ToldNumber
  <2> QED BY <2>1, <2>2, <2>3
<1>9. ASSUME Prefix = "$", ~Numeric(Rest), ReaderThrows("bad_lexical_cast") PROVE IInv'
  <2>1. slipped BY <1>8, <1>9
  <2> QED BY <1>2, <1>9, <2>1, ThrowsKeeps
\* A missing value.
<1>10. ASSUME Prefix = "$", Rest[1] = "-1", BulkRead(Missing) PROVE IInv'
  <2>1. ASSUME ~slipped
        PROVE  /\ Missing = Content(b) /\ b.t \in {"bulk", "nil"}
               /\ Follows(sock' \o wire, Behind(owed, rd), closed)
               /\ InStep_(owed, rd, pc, sock, wire, closed)
    <3>1. b.t = "nil" /\ b \in Replies BY <1>4, <1>8, <1>10, <2>1
    <3>2. Content(b) = Missing BY <3>1 DEF Content
    <3>3. Body(b) = <<>> BY <3>1, MarkIs
    <3>4. Follows(sock \o wire, Body(b) \o Behind(owed, rd), closed)
          /\ Behind(owed, rd) \in Strings
          /\ InStep_(owed, rd, "decode", sock, wire, closed)
      BY <1>4, <2>1
    <3> QED BY <1>2, <3>1, <3>2, <3>3, <3>4, NothingConcat
  <2>2. UNCHANGED <<closed, asked, multi, wire, due>> BY <1>2
  <2>3. Missing \in Strings BY MissingIs
  <2> QED BY <1>3, <1>10, <2>1, <2>2, <2>3, BulkReadKeeps
\* Its length is known.
<1>11. ASSUME Prefix = "$", Numeric(Rest), Rest[1] # "-1", pc' = "body",
              rd' = [rd EXCEPT !.line = <<>>, !.want = Number(Rest[1]) + 2],
              UNCHANGED <<name, unsent, todo, got, outcome, owed, took, slipped>>
       PROVE  IInv'
  <2> DEFINE n == Number(Rest[1]) + 2
  <2>1. n \in Nat
    <3>1. Number(Rest[1]) \in Nat BY <1>11, NumericIs
    <3> QED BY <3>1
  <2>2. rd' = [rd EXCEPT !.line = <<>>, !.want = n] BY <1>11
  <2>3. rd.data = <<>> BY DEF IInv, InLine
  <2> HIDE DEF n
  <2>4. rd' \in Reads /\ rd'.want = n /\ rd'.data = rd.data /\ SamePlace(rd, rd')
    <3>1. <<>> \in Strings BY DEF Strings
    <3>2. ASSUME NEW r \in Reads
          PROVE  LET g == [r EXCEPT !.line = <<>>, !.want = n]
                 IN  g \in Reads /\ g.want = n /\ g.data = r.data /\ g.left = r.left
                     /\ g.elems = r.elems
      BY <2>1, <3>1 DEF Reads
    <3> QED BY <1>3, <2>2, <3>2, Zenon DEF SamePlace
  <2>5. ASSUME ~slipped PROVE InStep_(owed, rd', "body", sock', wire, closed)
    <3>1. /\ b.t = "bulk" /\ n = Len(b.v) + 2
          /\ Follows(sock \o wire, Body(b) \o Behind(owed, rd), closed)
          /\ InStep_(owed, rd, "decode", sock, wire, closed)
      <4>1. b.t = "bulk" /\ Number(Rest[1]) = Len(b.v) BY <1>8, <1>11, <2>5
      <4> QED BY <1>4, <2>5, <4>1 DEF n
    <3>2. rd'.want = Len(b.v) + 2 /\ rd'.data = <<>> BY <2>3, <2>4, <3>1
    <3>3. InStep_(owed, rd', "body", sock, wire, closed)
      BY <1>3, <2>4, <3>1, <3>2, StreamBody
    <3> QED BY <1>2, <3>3
  <2>6. InLine' BY <1>11 DEF InLine
  <2>7. pc \in Steps /\ pc' \in Steps BY <1>11 DEF Steps
  <2> QED BY <1>2, <1>3, <1>11, <2>4, <2>5, <2>6, <2>7, GoesOn
<1>12. \/ Prefix # "$" /\ ReaderThrows("protocol_error")
       \/ Prefix = "$" /\ ~Numeric(Rest) /\ ReaderThrows("bad_lexical_cast")
       \/ Prefix = "$" /\ Rest[1] = "-1" /\ BulkRead(Missing)
       \/ /\ Prefix = "$" /\ Numeric(Rest) /\ Rest[1] # "-1" /\ pc' = "body"
          /\ rd' = [rd EXCEPT !.line = <<>>, !.want = Number(Rest[1]) + 2]
          /\ UNCHANGED <<name, unsent, todo, got, outcome, owed, took, slipped>>
  BY DEF DecodeBulk
<1> QED BY <1>7, <1>9, <1>10, <1>11, <1>12

\* A header line of a multi bulk has been read.
LEMMA MultiKeeps == ASSUME IInv, pc = "decode", DecodeMulti, Quiet PROVE IInv'
<1> DEFINE r == Head(owed).reply
<1>1. Reader = "multi" BY DEF DecodeMulti
<1>2. /\ closed' = closed /\ asked' = asked /\ multi' = multi /\ wire' = wire /\ due' = due
      /\ sock' = sock
  BY DEF Quiet
<1>3. owed # <<>> /\ owed \in Seq(OwedItems) /\ sock' \in Strings /\ sock \in Strings
      /\ wire \in Strings /\ rd \in Reads /\ rd.left = 0
  BY <1>1, <1>2, AtReply, ReaderIs DEF IInv, Types
<1>4. ASSUME ~slipped
      PROVE  /\ r \in Replies /\ Prefix = Mark(r) /\ Rest = Told(r)
             /\ Follows(sock \o wire, Body(r) \o Cat(Tail(owed)), closed)
             /\ Cat(Tail(owed)) \in Strings /\ r.t \notin {"bulk", "header"}
  <2>1. Head(todo) = "multi"
    <3>1. Head(todo) # "generic" BY <1>1, <1>3, ReaderIs
    <3> QED BY <1>1, <1>3, <3>1, ReaderIs
  <2>2. Fit("multi", r) BY <1>4, <2>1, AtReply
  <2>3. r.t \notin {"bulk", "header"} BY <2>2 DEF Fit
  <2> QED BY <1>3, <1>4, <2>3, LineIs
<1>5. ASSUME ~slipped, r.t # "multi" PROVE Follows(sock \o wire, Cat(Tail(owed)), closed)
  <2>1. Body(r) = <<>> BY <1>4, <1>5, MarkIs
  <2> QED BY <1>4, <1>5, <2>1, NothingConcat
\* Not a multi bulk.
<1>6. ASSUME Prefix # "*", ReaderThrows("protocol_error") PROVE IInv'
  <2>1. ~slipped => r.t # "multi" BY <1>4, <1>6, MarkIs
  <2> QED BY <1>2, <1>5, <1>6, <2>1, ThrowsKeeps
\* A multi bulk says its length.
<1>7. ASSUME ~slipped, Prefix = "*"
      PROVE  /\ r.t \in {"multi", "nilmulti"} /\ Numeric(Rest) /\ (Rest[1] = "-1" <=> r.t = "nilmulti")
             /\ r.t = "multi" => /\ Number(Rest[1]) = Len(r.v) /\ Len(r.v) \in Nat
                                 /\ Rest[1] = "0" => Len(r.v) = 0
  <2>1. r \in Replies /\ Mark(r) = "*" /\ Rest = Told(r) /\ r.t # "header" BY <1>4, <1>7
  <2> HIDE DEF r
  <2>2. r.t \in {"multi", "nilmulti"} BY <2>1, MarkIs
  <2>3. /\ Numeric(Told(r)) /\ (Told(r)[1] = "-1" <=> r.t \in {"nil", "nilmulti"})
        /\ r.t \in {"bulk", "multi"} => /\ Number(Told(r)[1]) = Len(r.v) /\ Len(r.v) \in Nat
                                        /\ Told(r)[1] = "0" => Len(r.v) = 0
    BY <2>1, <2>2, ToldNumber
  <2> QED BY <2>1, <2>2, <2>3
<1>8. ASSUME Prefix = "*", ~Numeric(Rest), ReaderThrows("bad_lexical_cast") PROVE IInv'
  <2>1. slipped BY <1>7, <1>8
  <2> QED BY <1>2, <1>8, <2>1, ThrowsKeeps
\* No multi bulk: the call of it has timed out.
<1>9. ASSUME Prefix = "*", Rest[1] = "-1", ReaderThrows("key_error") PROVE IInv'
  <2>1. ~slipped => r.t # "multi" BY <1>7, <1>9
  <2> QED BY <1>2, <1>5, <1>9, <2>1, ThrowsKeeps
\* An empty one.
<1>10. ASSUME Prefix = "*", Rest[1] # "-1", Rest[1] = "0", ReaderReturns(<<>>) PROVE IInv'
  <2>1. ASSUME ~slipped
        PROVE  /\ <<>> = Content(r) /\ r.t = "multi"
               /\ Follows(sock' \o wire, Cat(Tail(owed)), closed)
    <3>1. r.t = "multi" /\ r \in Replies /\ Len(r.v) = 0 BY <1>4, <1>7, <1>10, <2>1
    <3>2. r.v \in Seq(BulkReplies)
      BY <3>1 DEF Replies, LineReplies, BulkReplies, Texts, Multis, Nil, NilMulti, Reply
    <3>3. r.v = <<>> BY <3>1, <3>2, EmptySeq
    <3>4. Content(r) = <<>>
      <4>1. Content(r) = [i \in DOMAIN <<>> |-> IF r.v[i].t = "nil" THEN Missing ELSE r.v[i].v]
        BY <3>1, <3>3 DEF Content
      <4> QED BY <4>1
    <3>5. Body(r) = <<>> BY <3>1, <3>3, FlatOfEmpty DEF Body, Elements
    <3> QED BY <1>2, <1>4, <2>1, <3>1, <3>4, <3>5, NothingConcat
  <2>2. <<>> \in Raws BY DEF Raws, Strings
  <2> HIDE DEF r
  <2>3. ~slipped => <<>> = Handed(Head(todo), Head(owed).reply) BY <2>1, HandedIs DEF r
  <2>4. UNCHANGED <<closed, asked, multi, wire, due>> BY <1>2
  <2> QED BY <1>3, <1>10, <2>1, <2>2, <2>3, <2>4, ReturnsKeeps
\* Its bulks follow.
<1>11. ASSUME Prefix = "*", Numeric(Rest), Rest[1] # "-1", Rest[1] # "0", pc' = "line",
              rd' = [Fresh EXCEPT !.left = Number(Rest[1])],
              UNCHANGED <<name, unsent, todo, got, outcome, owed, took, slipped>>
       PROVE  IInv'
  <2> DEFINE n == Number(Rest[1])
  <2>1. n \in Nat /\ n > 0 BY <1>11, NumericIs
  <2>2. rd' = [Fresh EXCEPT !.left = n] BY <1>11
  <2> HIDE DEF n
  <2>3. StartsAt(rd', n, <<>>)
    <3>1. ASSUME NEW f \in Reads PROVE [f EXCEPT !.left = n] \in Reads BY <2>1 DEF Reads
    <3>2. rd' \in Reads BY <2>2, <3>1, FreshIs
    <3>3. LET g == [Fresh EXCEPT !.left = n]
          IN  /\ g.line = <<>> /\ g.eol = FALSE /\ g.want = 0 /\ g.data = <<>>
              /\ g.left = n /\ g.elems = <<>>
      BY DEF Fresh
    <3> QED BY <2>2, <3>2, <3>3 DEF StartsAt
  <2>5. ASSUME ~slipped PROVE InStep_(owed, rd', "line", sock', wire, closed)
    <3>1. /\ r.t = "multi" /\ n = Len(r.v)
          /\ Follows(sock \o wire, Body(r) \o Cat(Tail(owed)), closed)
      BY <1>4, <1>7, <1>11, <2>5 DEF n
    <3>2. InStep_(owed, rd', "line", sock, wire, closed)
      BY <1>3, <2>1, <2>3, <3>1, StreamMulti DEF StartsAt
    <3> QED BY <1>2, <3>2
  <2>6. InLine' BY <1>11, <2>3 DEF InLine, NoLF, StartsAt
  <2>7. pc \in Steps /\ pc' \in Steps BY <1>11 DEF Steps
  <2>8. rd' \in Reads BY <2>3 DEF StartsAt
  <2> QED BY <1>2, <1>3, <1>11, <2>5, <2>6, <2>7, <2>8, GoesOn
<1>12. \/ Prefix # "*" /\ ReaderThrows("protocol_error")
       \/ Prefix = "*" /\ ~Numeric(Rest) /\ ReaderThrows("bad_lexical_cast")
       \/ Prefix = "*" /\ Rest[1] = "-1" /\ ReaderThrows("key_error")
       \/ Prefix = "*" /\ Rest[1] # "-1" /\ Rest[1] = "0" /\ ReaderReturns(<<>>)
       \/ /\ Prefix = "*" /\ Numeric(Rest) /\ Rest[1] # "-1" /\ Rest[1] # "0" /\ pc' = "line"
          /\ rd' = [Fresh EXCEPT !.left = Number(Rest[1])]
          /\ UNCHANGED <<name, unsent, todo, got, outcome, owed, took, slipped>>
  BY DEF DecodeMulti
<1> QED BY <1>6, <1>8, <1>9, <1>10, <1>11, <1>12

\* IInv is kept by every reader that has its line.
LEMMA DecodeKeeps == ASSUME IInv, Decode PROVE IInv'
<1>1. pc = "decode" /\ Quiet BY DEF Decode, Quiet, serverVars
<1>2. DecodeStatus \/ DecodeGeneric \/ DecodeInt \/ DecodeHeader \/ DecodeBulk \/ DecodeMulti
  BY DEF Decode
<1> QED BY <1>1, <1>2, StatusKeeps, GenericKeeps, IntKeeps, HeaderKeeps, BulkKeeps, MultiKeeps

-----------------------------------------------------------------------------
(* read_n and read_line keep it                                            *)

\* The first symbols of a string, none if the number is not positive.
LEMMA SomeOf ==
  ASSUME NEW a \in Strings, NEW n \in Int, n <= Len(a)
  PROVE  SubSeq(a, 1, n) \in Strings
<1>1. Len(a) \in Nat BY LenProperties DEF Strings
<1>2. CASE n < 1
  <2>1. SubSeq(a, 1, n) = <<>> BY <1>2, SubSeqEmpty
  <2> QED BY <2>1 DEF Strings
<1>3. CASE n >= 1
  <2>1. n \in 0..Len(a) BY <1>1, <1>3
  <2> QED BY <2>1, CutString
<1> QED BY <1>2, <1>3

\* IInv is kept by read_n.
LEMMA ReadBodyKeeps == ASSUME IInv, ReadBody PROVE IInv'
<1> DEFINE n == IF Len(sock) < rd.want THEN Len(sock) ELSE rd.want
           data == rd.data \o SubSeq(sock, 1, n)
           b == BulkOf(Head(owed).reply, rd)
<1>1. /\ rd \in Reads /\ rd.want \in Nat /\ rd.data \in Strings /\ sock \in Strings
      /\ wire \in Strings /\ owed \in Seq(OwedItems)
  BY DEF IInv, Types, Reads
<1>2. pc = "body" /\ closed' = closed /\ asked' = asked /\ multi' = multi /\ wire' = wire
      /\ due' = due /\ sock' = SubSeq(sock, n + 1, Len(sock))
  BY DEF ReadBody, serverVars
<1>3. Len(sock) \in Nat BY <1>1, LenProperties DEF Strings
<1>4. n \in 0..Len(sock) /\ n <= rd.want /\ (~(n < rd.want) => n = rd.want) BY <1>1, <1>3
<1>5. \/ /\ n < rd.want /\ rd' = [rd EXCEPT !.want = @ - n, !.data = data]
         /\ UNCHANGED <<name, pc, unsent, todo, got, outcome, owed, took, slipped>>
      \/ ~(n < rd.want) /\ BulkRead(SubSeq(data, 1, Len(data) - 2))
  BY DEF ReadBody
<1>6. owed # <<>> BY <1>2, AtReply
<1>7. ~slipped => InStep_(owed, rd, "body", sock, wire, closed)
  BY <1>2 DEF IInv, InStream, Steps
<1> HIDE DEF n
<1>8. /\ SubSeq(sock, 1, n) \in Strings /\ From(sock, n + 1) \in Strings
      /\ Len(SubSeq(sock, 1, n)) = n
  BY <1>1, <1>4, CutString
<1>9. data \in Strings /\ Len(data) = Len(rd.data) + n /\ Len(rd.data) \in Nat
  BY ZenonT(60), <1>1, <1>8, StringsConcat
<1>10. sock' = From(sock, n + 1) BY <1>2 DEF From
<1> HIDE DEF data
<1>11. CASE /\ n < rd.want /\ rd' = [rd EXCEPT !.want = @ - n, !.data = data]
            /\ UNCHANGED <<name, pc, unsent, todo, got, outcome, owed, took, slipped>>
  <2> DEFINE m == rd.want - n
  <2>1. m \in Nat BY <1>1, <1>4, <1>11
  <2>2. rd' = [rd EXCEPT !.want = m, !.data = data] BY <1>11
  <2> HIDE DEF m
  <2>3. rd' \in Reads /\ rd'.want = m /\ rd'.data = data /\ SamePlace(rd, rd')
    <3>1. ASSUME NEW r \in Reads
          PROVE  LET g == [r EXCEPT !.want = m, !.data = data]
                 IN  g \in Reads /\ g.want = m /\ g.data = data /\ g.left = r.left
                     /\ g.elems = r.elems
      BY <1>9, <2>1 DEF Reads
    <3> QED BY <1>1, <2>2, <3>1, Zenon DEF SamePlace
  <2>4. ASSUME ~slipped PROVE InStep_(owed, rd', "body", sock', wire, closed)
    <3>1. n < rd.want BY <1>11
    <3>2. InStep_(owed, rd', "body", From(sock, n + 1), wire, closed)
      BY <1>1, <1>4, <1>7, <2>3, <2>4, <3>1, StreamPart DEF data, m
    <3> QED BY <1>10, <3>2
  <2>5. InLine' BY <1>2, <1>11 DEF InLine
  <2>6. pc \in Steps /\ pc' \in Steps BY <1>2, <1>11 DEF Steps
  <2>7. sock' \in Strings BY <1>8, <1>10
  <2> QED BY <1>2, <1>6, <1>11, <2>3, <2>4, <2>5, <2>6, <2>7, GoesOn
<1>12. CASE ~(n < rd.want) /\ BulkRead(SubSeq(data, 1, Len(data) - 2))
  <2> DEFINE v == SubSeq(data, 1, Len(data) - 2)
  <2>1. n = rd.want BY <1>4, <1>12
  <2>2. v \in Strings
    <3>1. Len(data) - 2 \in Int /\ Len(data) - 2 <= Len(data) BY <1>4, <1>9
    <3> QED BY <1>9, <3>1, SomeOf
  <2>3. ASSUME ~slipped
        PROVE  /\ v = Content(b) /\ b.t = "bulk"
               /\ Follows(sock' \o wire, Behind(owed, rd), closed)
    <3>1. rd.want \in 0..Len(sock) BY <1>4, <2>1
    <3>2. LET d == rd.data \o SubSeq(sock, 1, rd.want)
          IN  /\ b \in Texts /\ SubSeq(d, 1, Len(d) - 2) = b.v
              /\ Follows(From(sock, rd.want + 1) \o wire, Behind(owed, rd), closed)
      BY <1>1, <1>7, <2>3, <3>1, StreamWhole
    <3>3. v = b.v /\ b \in Texts BY <2>1, <3>2 DEF data
    <3>4. b.t = "bulk" BY <3>3 DEF Texts
    <3>5. Content(b) = b.v BY <3>4 DEF Content
    <3>6. Follows(sock' \o wire, Behind(owed, rd), closed) BY <1>10, <2>1, <3>2
    <3> QED BY <3>3, <3>4, <3>5, <3>6
  <2>4. BulkRead(v) BY <1>12
  <2>5. sock' \in Strings BY <1>8, <1>10
  <2>6. UNCHANGED <<closed, asked, multi, wire, due>> BY <1>2
  <2>7. ~slipped => InStep_(owed, rd, pc, sock, wire, closed) BY <1>2, <1>7
  <2> HIDE DEF v, b
  <2>8. ~slipped => /\ v = Content(BulkOf(Head(owed).reply, rd))
                    /\ BulkOf(Head(owed).reply, rd).t \in {"bulk", "nil"}
    BY <2>3 DEF b
  <2> QED BY <1>2, <2>2, <2>3, <2>4, <2>5, <2>6, <2>7, <2>8, BulkReadKeeps
<1> QED BY <1>5, <1>11, <1>12

\* The symbols of a line but the last.
LEMMA FrontIs ==
  ASSUME NEW a \in Strings, a # <<>>
  PROVE  /\ Len(a) \in Nat \ {0} /\ Len(Front(a)) = Len(a) - 1 /\ Last(a) = a[Len(a)]
         /\ \A i \in 1..(Len(a) - 1) : Front(a)[i] = a[i]
<1>1. Len(a) \in Nat /\ Len(a) # 0 BY LenProperties, EmptySeq DEF Strings
<1>2. Len(a) - 1 \in 0..Len(a) BY <1>1
<1>3. Len(Front(a)) = Len(a) - 1 /\ \A i \in 1..(Len(a) - 1) : Front(a)[i] = a[i]
  BY <1>2, CutString DEF Front
<1> QED BY <1>1, <1>3 DEF Last

\* A text that has a line feed nowhere.
LEMMA WholeLine ==
  ASSUME NEW a \in Strings, a # <<>>, NoLF(Front(a)), Last(a) # "LF"
  PROVE  NoLF(a)
<1> SUFFICES ASSUME NEW i \in 1..Len(a) PROVE a[i] # "LF" BY DEF NoLF
<1> DEFINE l == Len(a)
<1>1. /\ l \in Nat \ {0} /\ Len(Front(a)) = l - 1 /\ Last(a) = a[l]
      /\ \A j \in 1..(l - 1) : Front(a)[j] = a[j]
  BY FrontIs
<1>2. i \in 1..l OBVIOUS
<1> HIDE DEF l
<1>3. CASE i = l BY <1>1, <1>3
<1>4. CASE i # l
  <2>1. i \in 1..(l - 1) BY <1>1, <1>2, <1>4
  <2> QED BY <1>1, <2>1 DEF NoLF
<1> QED BY <1>3, <1>4

\* What is read is taken.
LEMMA TakeKeeps == ASSUME IInv, Take PROVE IInv'
<1>1. /\ rd \in Reads /\ sock \in Strings /\ wire \in Strings /\ owed \in Seq(OwedItems)
  BY DEF IInv, Types
<1>2. /\ pc = "take" /\ sock' = From(sock, rd.take + 1)
      /\ pc' = IF rd.eol THEN "decode" ELSE "line"
      /\ UNCHANGED <<name, unsent, todo, got, outcome, owed, took, slipped>>
      /\ UNCHANGED <<closed, asked, multi, wire, due>> /\ rd' = rd
  BY DEF Take, From, serverVars, history
<1>3. rd.take \in 0..Len(sock)
  <2>1. rd.take \in 1..Len(sock) /\ Len(sock) \in Nat
    BY <1>1, <1>2, LenProperties DEF IInv, InLine, Strings
  <2> QED BY <2>1
<1>4. sock' \in Strings BY <1>1, <1>2, <1>3, CutString
<1>5. pc \in Steps /\ pc' \in Steps /\ pc' \in {"line", "decode"} BY <1>2 DEF Steps
<1>6. ASSUME ~slipped PROVE InStep_(owed, rd', pc', sock', wire, closed)
  <2>1. InStep_(owed, rd, "take", sock, wire, closed) BY <1>2, <1>5, <1>6 DEF IInv, InStream
  <2>2. InStep_(owed, rd, pc', From(sock, rd.take + 1), wire, closed)
    BY <1>1, <1>5, <2>1, StreamTake
  <2> QED BY <1>2, <2>2
<1>7. InLine'
  <2>1. /\ rd.line # <<>> /\ NoLF(Front(rd.line)) /\ (rd.eol <=> Last(rd.line) = "LF")
        /\ rd.want = 0 /\ rd.data = <<>>
    BY <1>2 DEF IInv, InLine
  <2>2. ~rd.eol => NoLF(rd.line)
    <3>1. rd.line \in Strings BY <1>1 DEF Reads
    <3> QED BY <2>1, <3>1, WholeLine
  <2>3. rd' = rd BY <1>2
  <2>4. CASE rd.eol
    <3>1. pc' = "decode" BY <1>2, <2>4
    <3> QED BY <2>1, <2>3, <2>4, <3>1 DEF InLine, NoLF
  <2>5. CASE ~rd.eol
    <3>1. pc' = "line" BY <1>2, <2>5
    <3> QED BY <2>1, <2>2, <2>3, <2>5, <3>1 DEF InLine, NoLF
  <2> QED BY <2>4, <2>5
<1>8. slipped => owed # <<>>
  <2>1. slipped => Late BY <1>2 DEF IInv, Running
  <2>2. Late => owed # <<>> BY <1>2 DEF IInv, LateOnly
  <2> QED BY <2>1, <2>2
<1>9. rd' \in Reads BY <1>1, <1>2
<1> QED BY <1>2, <1>4, <1>5, <1>6, <1>7, <1>8, <1>9, GoesOn

\* A beginning of a beginning.
LEMMA SubSub ==
  ASSUME NEW a \in Strings, NEW n \in 0..Len(a), NEW m \in 0..n
  PROVE  SubSeq(SubSeq(a, 1, n), 1, m) = SubSeq(a, 1, m)
<1> DEFINE b == SubSeq(a, 1, n)
           c == SubSeq(b, 1, m)
           d == SubSeq(a, 1, m)
<1>1. Len(a) \in Nat BY LenProperties DEF Strings
<1>2. m \in 0..Len(a) BY <1>1
<1>3. b \in Strings /\ Len(b) = n /\ \A i \in 1..n : b[i] = a[i] BY CutString
<1> HIDE DEF b
<1>4. m \in 0..Len(b) BY <1>3
<1>5. c \in Strings /\ Len(c) = m /\ \A i \in 1..m : c[i] = b[i] BY <1>3, <1>4, CutString
<1>6. d \in Strings /\ Len(d) = m /\ \A i \in 1..m : d[i] = a[i] BY <1>2, CutString
<1> HIDE DEF c, d
<1>7. \A i \in 1..m : c[i] = d[i]
  <2> SUFFICES ASSUME NEW i \in 1..m PROVE c[i] = d[i] OBVIOUS
  <2>1. i \in 1..n OBVIOUS
  <2> QED BY <1>3, <1>5, <1>6, <2>1
<1>8. c = d BY <1>5, <1>6, <1>7, SeqEqual DEF Strings
<1> QED BY <1>8 DEF b, c, d

\* Where read_line stops in what it sees.
FirstFeed(look) ==
  IF "LF" \in ToSet(look)
  THEN CHOOSE i \in DOMAIN look : look[i] = "LF" /\ \A j \in 1..(i - 1) : look[j] # "LF"
  ELSE 0
ReadOf(look) == IF FirstFeed(look) > 0 THEN FirstFeed(look) ELSE Len(look)

\* The first line feed of what was peeked at, if there is one.
LEMMA FirstFeedIs ==
  ASSUME NEW look \in Strings
  PROVE  /\ FirstFeed(look) \in 0..Len(look)
         /\ FirstFeed(look) > 0 => look[FirstFeed(look)] = "LF"
         /\ \A j \in 1..Len(look) : j < FirstFeed(look) \/ FirstFeed(look) = 0 => look[j] # "LF"
<1> DEFINE l == Len(look)
           at == {i \in 1..l : look[i] = "LF"}
           P(i) == look[i] = "LF" /\ \A j \in 1..(i - 1) : look[j] # "LF"
<1>1. l \in Nat /\ DOMAIN look = 1..l BY LenProperties DEF Strings
<1>2. CASE "LF" \in ToSet(look)
  <2>1. at # {}
    <3>1. \E i \in 1..l : look[i] = "LF" BY <1>1, <1>2 DEF ToSet
    <3> QED BY <3>1
  <2>2. at \in SUBSET Nat BY <1>1
  <2>3. PICK x \in at : \A y \in at : x <= y
    <3> HIDE DEF at
    <3> QED BY <2>1, <2>2, LeastNumber
  <2>4. x \in DOMAIN look /\ P(x)
    <3>1. x \in 1..l /\ look[x] = "LF" BY <2>3
    <3>2. ASSUME NEW j \in 1..(x - 1) PROVE look[j] # "LF"
      <4>1. j \in 1..l /\ ~(x <= j) BY <1>1, <3>1
      <4> QED BY <2>3, <4>1
    <3> QED BY <1>1, <3>1, <3>2
  <2> DEFINE y == CHOOSE i \in DOMAIN look : P(i)
  <2>5. y \in DOMAIN look /\ P(y)
    <3> HIDE DEF P
    <3> QED BY <2>4
  <2>6. FirstFeed(look) = y BY <1>2 DEF FirstFeed
  <2> HIDE DEF y
  <2>7. y \in 1..l /\ look[y] = "LF" BY <1>1, <2>5
  <2>8. ASSUME NEW j \in 1..l, j < y PROVE look[j] # "LF"
    <3>1. j \in 1..(y - 1) BY <2>7, <2>8
    <3> QED BY <2>5, <3>1
  <2> QED BY <1>1, <2>6, <2>7, <2>8
<1>3. CASE "LF" \notin ToSet(look)
  <2>1. FirstFeed(look) = 0 BY <1>3 DEF FirstFeed
  <2>2. \A j \in 1..l : look[j] # "LF" BY <1>1, <1>3 DEF ToSet
  <2> QED BY <1>1, <2>1, <2>2
<1> QED BY <1>2, <1>3

\* What read_line reads.
PeekedLine(x, eol) == x # <<>> /\ x \in Strings /\ NoLF(Front(x)) /\ (eol <=> Last(x) = "LF")

\* read_line takes what it has peeked at up to the first line feed.
LEMMA PeekIs ==
  ASSUME NEW s \in Strings, NEW n \in 1..Len(s)
  PROVE  LET look == SubSeq(s, 1, n)
         IN  /\ ReadOf(look) \in 1..Len(s)
             /\ SubSeq(look, 1, ReadOf(look)) = SubSeq(s, 1, ReadOf(look))
             /\ PeekedLine(SubSeq(s, 1, ReadOf(look)), FirstFeed(look) > 0)
<1> DEFINE look == SubSeq(s, 1, n)
           m == ReadOf(look)
           e == FirstFeed(look)
           x == SubSeq(s, 1, m)
<1>1. Len(s) \in Nat BY LenProperties DEF Strings
<1>2. n \in 0..Len(s) BY <1>1
<1>3. look \in Strings /\ Len(look) = n /\ \A i \in 1..n : look[i] = s[i] BY <1>2, CutString
<1>4. /\ e \in 0..n /\ (e > 0 => look[e] = "LF")
      /\ \A j \in 1..n : j < e \/ e = 0 => look[j] # "LF"
  <2> HIDE DEF look
  <2> QED BY <1>3, FirstFeedIs
<1>5. m = IF e > 0 THEN e ELSE n BY <1>3 DEF ReadOf
<1> HIDE DEF e
<1>6. m \in 1..n /\ m \in 0..n /\ m \in 0..Len(s) /\ m \in 1..Len(s) BY <1>1, <1>4, <1>5
<1>7. SubSeq(look, 1, m) = x
  <2> HIDE DEF m
  <2> QED BY <1>2, <1>6, SubSub
<1>8. x \in Strings /\ Len(x) = m /\ \A i \in 1..m : x[i] = s[i]
  <2> HIDE DEF m
  <2> QED BY <1>6, CutString
<1> HIDE DEF x, look, m
<1>9. x # <<>>
  <2>1. Len(x) # 0 BY <1>6, <1>8
  <2> QED BY <2>1
<1>10. Len(Front(x)) = m - 1 /\ Last(x) = x[m] /\ \A i \in 1..(m - 1) : Front(x)[i] = x[i]
  BY <1>8, <1>9, FrontIs
<1>11. \A i \in 1..m : x[i] = look[i]
  <2> SUFFICES ASSUME NEW i \in 1..m PROVE x[i] = look[i] OBVIOUS
  <2>1. i \in 1..n BY <1>6
  <2> QED BY <1>3, <1>8, <2>1
<1>12. NoLF(Front(x))
  <2> SUFFICES ASSUME NEW i \in 1..(m - 1) PROVE Front(x)[i] # "LF" BY <1>10 DEF NoLF
  <2>1. i \in 1..m /\ i \in 1..n /\ (i < e \/ e = 0) BY <1>4, <1>5, <1>6
  <2> QED BY <1>4, <1>10, <1>11, <2>1
<1>13. e > 0 <=> Last(x) = "LF"
  <2>0. m \in 1..m /\ m \in 1..n BY <1>6
  <2>1. Last(x) = look[m] BY <1>10, <1>11, <2>0
  <2>2. CASE e > 0 BY <1>4, <1>5, <2>1, <2>2
  <2>3. CASE ~(e > 0)
    <3>1. e = 0 BY <1>4, <2>3
    <3> QED BY <1>4, <2>0, <2>1, <3>1
  <2> QED BY <2>2, <2>3
<1>14. PeekedLine(x, e > 0) BY <1>8, <1>9, <1>12, <1>13 DEF PeekedLine
<1> QED BY <1>6, <1>7, <1>14 DEF x, m, e, look

\* It is added to the line.
LEMMA LineGrows ==
  ASSUME NEW a \in Strings, NoLF(a), NEW x, NEW eol, PeekedLine(x, eol)
  PROVE  PeekedLine(a \o x, eol)
<1> DEFINE b == a \o x
           k == Len(a)
           l == Len(x)
<1>1. x \in Strings /\ x # <<>> /\ NoLF(Front(x)) /\ (eol <=> Last(x) = "LF")
  BY DEF PeekedLine
<1>2. /\ l \in Nat \ {0} /\ Len(Front(x)) = l - 1 /\ Last(x) = x[l]
      /\ \A i \in 1..(l - 1) : Front(x)[i] = x[i]
  BY <1>1, FrontIs
<1>3. b \in Strings /\ Len(b) = k + l /\ k \in Nat BY <1>1, StringsConcat
<1>4. /\ \A i \in 1..k : b[i] = a[i]
      /\ \A i \in (k + 1)..(k + l) : b[i] = x[i - k]
  <2>1. \A i \in 1..(Len(a) + Len(x)) :
          b[i] = IF i <= Len(a) THEN a[i] ELSE x[i - Len(a)]
    BY <1>1, ConcatProperties DEF Strings
  <2> HIDE DEF b
  <2> QED BY <1>2, <1>3, <2>1
<1> HIDE DEF b, k, l
<1>5. b # <<>>
  <2>1. Len(b) # 0 BY <1>2, <1>3
  <2> QED BY <2>1
<1>6. /\ Len(Front(b)) = (k + l) - 1 /\ Last(b) = b[k + l]
      /\ \A i \in 1..((k + l) - 1) : Front(b)[i] = b[i]
  <2>1. /\ Len(Front(b)) = Len(b) - 1 /\ Last(b) = b[Len(b)]
        /\ \A i \in 1..(Len(b) - 1) : Front(b)[i] = b[i]
    BY <1>3, <1>5, FrontIs
  <2> DEFINE z == k + l
  <2>2. Len(b) = z BY <1>3
  <2> HIDE DEF z
  <2>3. /\ Len(Front(b)) = z - 1 /\ Last(b) = b[z]
        /\ \A i \in 1..(z - 1) : Front(b)[i] = b[i]
    BY <2>1, <2>2
  <2> QED BY <2>3 DEF z
<1>7. Last(b) = Last(x)
  <2>1. k + l \in (k + 1)..(k + l) /\ (k + l) - k = l BY <1>2, <1>3
  <2> QED BY <1>2, <1>4, <1>6, <2>1
<1>8. NoLF(Front(b))
  <2> SUFFICES ASSUME NEW i \in 1..((k + l) - 1) PROVE b[i] # "LF" BY <1>6 DEF NoLF
  <2>1. CASE i <= k
    <3>1. i \in 1..k BY <1>3, <2>1
    <3> QED BY <1>4, <3>1 DEF NoLF, k
  <2>2. CASE ~(i <= k)
    <3>1. i \in (k + 1)..(k + l) /\ i - k \in 1..(l - 1) BY <1>2, <1>3, <2>2
    <3>2. Front(x)[i - k] # "LF" BY <1>1, <1>2, <3>1 DEF NoLF
    <3> QED BY <1>2, <1>4, <3>1, <3>2
  <2> QED BY <2>1, <2>2
<1>9. PeekedLine(b, eol) BY <1>1, <1>3, <1>5, <1>7, <1>8 DEF PeekedLine
<1> QED BY <1>9 DEF b

\* IInv is kept by the peek of read_line.
LEMMA PeekKeeps == ASSUME IInv, Peek PROVE IInv'
<1> DEFINE n == IF Len(sock) < BufferSize THEN Len(sock) ELSE BufferSize
           look == SubSeq(sock, 1, n)
           m == ReadOf(look)
           x == SubSeq(sock, 1, m)
           e == FirstFeed(look) > 0
<1>1. /\ rd \in Reads /\ rd.line \in Strings /\ sock \in Strings /\ wire \in Strings
      /\ owed \in Seq(OwedItems)
  BY DEF IInv, Types, Reads
<1>2. /\ pc = "line" /\ sock # <<>> /\ sock' = sock /\ pc' = "take"
      /\ rd' = [rd EXCEPT !.line = rd.line \o SubSeq(look, 1, m), !.take = m, !.eol = e]
      /\ UNCHANGED <<name, unsent, todo, got, outcome, owed, took, slipped>>
      /\ UNCHANGED <<closed, asked, multi, wire, due>>
  BY DEF Peek, serverVars, history, FirstFeed, ReadOf
<1>3. n \in 1..Len(sock)
  <2>1. Len(sock) \in Nat /\ Len(sock) # 0 BY <1>1, <1>2, LenProperties, EmptySeq DEF Strings
  <2>2. BufferSize \in Nat \ {0} BY SessionAssumption
  <2> QED BY <2>1, <2>2
<1>4. /\ m \in 1..Len(sock) /\ SubSeq(look, 1, m) = x /\ PeekedLine(x, e)
  <2> HIDE DEF n
  <2> QED BY <1>1, <1>3, PeekIs
<1>5. NoLF(rd.line) /\ rd.want = 0 /\ rd.data = <<>> BY <1>2 DEF IInv, InLine
<1>6. PeekedLine(rd.line \o x, e) BY <1>1, <1>4, <1>5, LineGrows
<1> DEFINE l == rd.line \o x
<1>7. rd' = [rd EXCEPT !.line = l, !.take = m, !.eol = e] BY <1>2, <1>4
<1>8. l \in Strings BY <1>6 DEF PeekedLine
<1>9. m \in Nat /\ m \in 0..Len(sock)
  <2>1. Len(sock) \in Nat BY <1>1, LenProperties DEF Strings
  <2> HIDE DEF m
  <2> QED BY <1>4, <2>1
<1>10. e \in BOOLEAN OBVIOUS
<1> HIDE DEF l, m, e
<1>11. /\ rd' \in Reads /\ rd'.line = l /\ rd'.take = m /\ rd'.eol = e /\ rd'.want = rd.want
       /\ rd'.data = rd.data /\ SamePlace(rd, rd')
  <2>1. ASSUME NEW r \in Reads
        PROVE  LET g == [r EXCEPT !.line = l, !.take = m, !.eol = e]
               IN  /\ g \in Reads /\ g.line = l /\ g.take = m /\ g.eol = e /\ g.want = r.want
                   /\ g.data = r.data /\ g.left = r.left /\ g.elems = r.elems
    BY <1>8, <1>9, <1>10 DEF Reads
  <2> QED BY <1>1, <1>7, <2>1, Zenon DEF SamePlace
<1>12. ASSUME ~slipped PROVE InStep_(owed, rd', pc', sock', wire, closed)
  <2>1. InStep_(owed, rd, "line", sock, wire, closed) BY <1>2, <1>12 DEF IInv, InStream, Steps
  <2>2. rd'.line = rd.line \o SubSeq(sock, 1, m) BY <1>11 DEF l
  <2>3. InStep_(owed, rd', "take", sock, wire, closed)
    BY <1>1, <1>9, <1>11, <2>1, <2>2, StreamPeek
  <2> QED BY <1>2, <2>3
<1>13. InLine'
  <2>1. rd'.line # <<>> /\ NoLF(Front(rd'.line)) /\ (rd'.eol <=> Last(rd'.line) = "LF")
        /\ rd'.take \in 1..Len(sock')
    BY <1>2, <1>4, <1>6, <1>11 DEF PeekedLine, l
  <2>2. rd'.want = 0 /\ rd'.data = <<>> BY <1>5, <1>11
  <2> QED BY <1>2, <2>1, <2>2 DEF InLine, NoLF
<1>14. slipped => owed # <<>>
  <2>1. slipped => Late BY <1>2 DEF IInv, Running
  <2>2. Late => owed # <<>> BY <1>2 DEF IInv, LateOnly
  <2> QED BY <2>1, <2>2
<1>15. pc \in Steps /\ pc' \in Steps /\ sock' \in Strings BY <1>1, <1>2 DEF Steps
<1> QED BY <1>2, <1>11, <1>12, <1>13, <1>14, <1>15, GoesOn

-----------------------------------------------------------------------------
(* The beginning of a call                                                 *)

\* What no request is, and what no bytes are.
LEMMA ReadersWhole ==
  ASSUME NEW rs \in Seq(ReaderKinds)
  PROVE  From(rs, 1) = rs
<1>1. Len(rs) \in Nat /\ 1..Len(rs) = DOMAIN rs BY LenProperties
<1>2. Len(rs) \in 0..Len(rs) BY <1>1
<1>3. /\ SubSeq(rs, 1, Len(rs)) \in Seq(ReaderKinds) /\ Len(SubSeq(rs, 1, Len(rs))) = Len(rs)
      /\ \A i \in 1..Len(rs) : SubSeq(rs, 1, Len(rs))[i] = rs[i]
  BY <1>2, CutAt
<1> DEFINE t == SubSeq(rs, 1, Len(rs))
<1> HIDE DEF t
<1>4. t \in Seq(ReaderKinds) /\ Len(t) = Len(rs) /\ \A i \in 1..Len(rs) : t[i] = rs[i]
  BY <1>3 DEF t
<1>5. t = rs BY <1>4, SeqEqual
<1> QED BY <1>5 DEF t, From

\* A call begins: what is due and owed from before comes first.
LEMMA BeginDue ==
  ASSUME IInv, NEW c \in AllCalls, due' = Aged(due) \o OwnDue(c)
  PROVE  /\ due' \in Seq(DueItems) /\ Requests(due') = Requests(due) \o Request(c)
         /\ Len(due') = Len(due) + Len(Commands(c)) /\ Len(due) \in Nat
         /\ \A i \in 1..Len(due) : ~Own(due'[i])
         /\ \A i \in 1..Len(Commands(c)) :
              due'[Len(due) + i] = [from |-> "own", cmd |-> Commands(c)[i]]
<1> DEFINE a == Aged(due)
           o == OwnDue(c)
           k == Len(due)
           l == Len(Commands(c))
<1>1. due \in Seq(DueItems) BY DEF IInv, Types
<1>2. /\ a \in Seq(DueItems) /\ Len(a) = k /\ Requests(a) = Requests(due)
      /\ \A i \in 1..k : a[i].from = "old"
  BY <1>1, AgedDue
<1>3. /\ o \in Seq(DueItems) /\ Len(o) = l /\ Requests(o) = Request(c)
      /\ \A i \in 1..l : o[i] = [from |-> "own", cmd |-> Commands(c)[i]]
  BY OwnDueIs
<1>4. k \in Nat /\ l \in Nat BY <1>1, <1>3, LenProperties
<1> HIDE DEF a, o, k, l, DueItems
<1>5. /\ a \o o \in Seq(DueItems) /\ Len(a \o o) = k + l
      /\ \A i \in 1..(Len(a) + Len(o)) :
           (a \o o)[i] = IF i <= Len(a) THEN a[i] ELSE o[i - Len(a)]
  BY <1>2, <1>3, ConcatProperties
<1>6. Requests(a \o o) = Requests(due) \o Request(c) BY <1>2, <1>3, RequestsIs
<1>7. due' = a \o o BY DEF a, o
<1>8. ASSUME NEW i \in 1..k PROVE ~Own(due'[i])
  <2>1. i \in 1..(Len(a) + Len(o)) /\ i <= Len(a) BY <1>2, <1>3, <1>4
  <2>2. due'[i] = a[i] BY <1>5, <1>7, <2>1
  <2>3. a[i].from = "old" BY <1>2
  <2> QED BY <2>2, <2>3 DEF Own
<1>9. ASSUME NEW i \in 1..l PROVE due'[k + i] = [from |-> "own", cmd |-> Commands(c)[i]]
  <2>1. k + i \in 1..(Len(a) + Len(o)) /\ ~(k + i <= Len(a)) /\ (k + i) - Len(a) = i
    BY <1>2, <1>3, <1>4
  <2>2. due'[k + i] = o[(k + i) - Len(a)] BY <1>5, <1>7, <2>1
  <2> QED BY <1>3, <2>1, <2>2
<1>10. Len(due') = k + l BY <1>5, <1>7
<1> QED BY <1>4, <1>5, <1>6, <1>7, <1>8, <1>9, <1>10 DEF k, l

\* IInv is kept by the beginning of a call.
LEMMA BeginKeeps ==
  ASSUME IInv, NEW c \in AllCalls, Begin(c)
  PROVE  IInv'
<1>a. /\ pc = "idle" /\ (slipped => c \in LateCalls) /\ (slipped /\ ~closed => name \in Pipelines)
      /\ name' = c /\ pc' = "write" /\ unsent' = Request(c) /\ todo' = Readers(c)
      /\ rd' = Fresh /\ got' = <<>> /\ outcome' = Value(<<>>)
      /\ owed' = Aged(owed) /\ took' = <<>>
      /\ closed' = closed /\ asked' = asked /\ multi' = multi /\ sock' = sock /\ wire' = wire
      /\ slipped' = slipped
  BY DEF Begin, serverVars
<1>b. due' = Aged(due) \o OwnDue(c) BY DEF Begin, OwnDue
<1>c. /\ due' \in Seq(DueItems) /\ Requests(due') = Requests(due) \o Request(c)
      /\ Len(due') = Len(due) + Len(Commands(c)) /\ Len(due) \in Nat
      /\ \A i \in 1..Len(due) : ~Own(due'[i])
      /\ \A i \in 1..Len(Commands(c)) :
           due'[Len(due) + i] = [from |-> "own", cmd |-> Commands(c)[i]]
  BY <1>b, BeginDue
<1>d. /\ owed \in Seq(OwedItems) /\ due \in Seq(DueItems) /\ sock \in Strings
      /\ wire \in Strings /\ asked \in Strings /\ closed \in BOOLEAN
  BY DEF IInv, Types
<1>e. /\ owed' \in Seq(OwedItems) /\ Len(owed') = Len(owed) /\ Cat(owed') = Cat(owed)
      /\ \A i \in 1..Len(owed) : owed'[i].from = "old"
  BY <1>a, <1>d, AgedOwed
<1>f. Request(c) \in Strings BY OwnDueIs
<1>g. /\ Readers(c) \in Seq(ReaderKinds) /\ Commands(c) \in Seq(Cmds)
      /\ Len(Commands(c)) \in Nat \ {0}
      /\ Len(Readers(c)) \in Nat /\ 0 < Len(Readers(c))
  <2>1. /\ Readers(c) \in Seq(ReaderKinds) /\ Commands(c) \in Seq(Cmds)
        /\ Len(Commands(c)) > 0
        /\ c # "exec_transaction" => Len(Readers(c)) = Len(Commands(c))
        /\ c = "exec_transaction" => Len(Readers(c)) = 6
    BY CommandsAre
  <2>2. Len(Readers(c)) \in Nat /\ Len(Commands(c)) \in Nat BY <2>1, LenProperties
  <2>3. Len(Commands(c)) \in Nat \ {0} BY <2>1, <2>2
  <2>4. 0 < Len(Readers(c))
    <3>1. CASE c = "exec_transaction" BY SMTT(60), <2>1, <3>1
    <3>2. CASE c # "exec_transaction"
      <4>1. Len(Readers(c)) = Len(Commands(c)) /\ Len(Commands(c)) > 0 BY <2>1, <3>2
      <4> QED BY <2>3, <4>1
    <3> QED BY <3>1, <3>2
  <2> QED BY <2>1, <2>2, <2>3, <2>4
<1>h. ~closed => sock \o wire = Cat(owed)
  BY <1>a DEF IInv, Aligned, Late
<1>1. Types'
  <2>1. Types BY DEF IInv
  <2>2. outcome'.t = "value" BY <1>a DEF Value
  <2>3. rd' \in Reads BY <1>a, FreshIs
  <2>4. took' \in Seq(OwedItems) /\ got' \in Seq(Raws) BY <1>a
  <2> QED BY <1>a, <1>c, <1>d, <1>e, <1>f, <2>1, <2>2, <2>3, <2>4 DEF Types
<1>2. Sent'
  <2>1. unsent = <<>> BY <1>a DEF IInv, Sent
  <2>2. asked \o <<>> = asked BY <1>d, NothingConcat
  <2>3. ~closed => asked = Requests(due) BY <2>1, <2>2 DEF IInv, Sent
  <2>4. ~closed => asked \o Request(c) = Requests(due') BY <1>c, <2>3
  <2>5. closed => asked = <<>> BY DEF IInv, Sent
  <2> QED BY <1>a, <2>4, <2>5 DEF Sent
<1>3. Idle' BY <1>a DEF Idle
<1>4. Running'
  <2>1. Len(<<>>) = 0 OBVIOUS
  <2>2. Readers(c) = From(Readers(c), Len(<<>>) + 1)
    <3>1. Len(<<>>) + 1 = 1 OBVIOUS
    <3> QED BY <1>g, <3>1, ReadersWhole
  <2>3. slipped => c \notin Pipelines BY <1>a, LateCallsAre
  <2> QED BY <1>a, <1>g, <2>1, <2>2, <2>3 DEF Running, Late, Fresh
<1>5. InLine'
  <2>1. Fresh.want = 0 /\ Fresh.data = <<>> BY DEF Fresh
  <2> QED BY <1>a, <2>1 DEF InLine
<1>6. InStream' BY <1>a DEF InStream, Steps
<1>7. Aligned' BY <1>a, <1>e, <1>h DEF Aligned
<1>8. Account'
  <2> SUFFICES ASSUME ~slipped, ~closed PROVE ForReaders' /\ ForServer'
    BY <1>a DEF Account
  <2>1. due = <<>> /\ owed = <<>> /\ multi = "no" BY <1>a DEF IInv, Idle
  <2>2. Len(due) = 0 /\ Len(owed) = 0 /\ Len(owed') = 0 /\ Len(took') = 0
    BY <1>a, <1>e, <2>1
  <2>3. ForReaders' BY <2>2 DEF ForReaders
  <2>4. ForServer'
    <3> DEFINE all == Commands(c)
               l == Len(all)
               k == l - Len(due')
    <3>1. Len(due') = l /\ k = 0 /\ l \in Nat BY <1>c, <1>g, <2>2
    <3>2. \A i \in 1..Len(due') : due'[i] = [from |-> "own", cmd |-> all[k + i]]
      <4> SUFFICES ASSUME NEW i \in 1..Len(due')
                   PROVE  due'[i] = [from |-> "own", cmd |-> all[k + i]]
        OBVIOUS
      <4> HIDE DEF k, all
      <4>1. i \in 1..l /\ k + i = i /\ Len(due) + i = i BY <2>2, <3>1
      <4>2. due'[Len(due) + i] = [from |-> "own", cmd |-> all[i]] BY <1>c, <4>1 DEF all
      <4> QED BY <4>1, <4>2
    <3>3. Len(took') + Len(owed') = 0 /\ 0 \in Sayings(c, k)
      <4>1. k # 4 BY <3>1
      <4>2. Sayings(c, k) = {k} BY <4>1 DEF Sayings
      <4> QED BY <2>2, <3>1, <4>2
    <3>4. multi' = "no" /\ k \notin 1..3 BY <1>a, <2>1, <3>1
    <3>5. Len(due') <= l BY <3>1
    <3> QED BY <1>a, <3>2, <3>3, <3>4, <3>5 DEF ForServer
  <2> QED BY <2>3, <2>4
<1>9. Answered'
  <2>1. Len(<<>>) = 0 OBVIOUS
  <2> QED BY <1>a, <2>1 DEF Answered
<1>10. LateOnly'
  <2> SUFFICES ASSUME slipped, ~closed
               PROVE  OwnLast' /\ (owed' = <<>> => sock' = <<>> /\ wire' = <<>>)
    BY <1>a DEF LateOnly, Late, Fresh
  <2>1. c \in LateCalls BY <1>a
  <2>2. /\ Len(Commands(c)) = 1 /\ c \in DOMAIN Calls BY <2>1, LateCallsAre
  <2>3. Len(due') = Len(due) + 1 BY <1>c, <2>2
  <2>4. due'[Len(due) + 1].cmd[1] # "EXEC"
    <3>1. Commands(c) = <<SingleCommand(c)>> /\ SingleCommand(c)[1] = Calls[c].verb
      BY <2>2, SingleIs
    <3>2. Calls[c].verb # "EXEC" BY <2>2, TableAssumption
    <3>3. due'[Len(due) + 1] = [from |-> "own", cmd |-> Commands(c)[1]] BY <1>c, <2>2
    <3>4. \A y : [from |-> "own", cmd |-> y].cmd = y OBVIOUS
    <3>5. due'[Len(due) + 1].cmd = SingleCommand(c) BY <3>1, <3>3, <3>4
    <3> QED BY <3>1, <3>2, <3>5
  <2>5. \A i \in 1..Len(due') : Own(due'[i]) => i = Len(due') /\ due'[i].cmd[1] # "EXEC"
    <3> SUFFICES ASSUME NEW i \in 1..Len(due'), Own(due'[i])
                 PROVE  i = Len(due') /\ due'[i].cmd[1] # "EXEC"
      OBVIOUS
    <3>1. i = Len(due) + 1
      <4>1. i \notin 1..Len(due) BY <1>c
      <4> QED BY <1>c, <2>3, <4>1
    <3> QED BY <2>3, <2>4, <3>1
  <2>6. \A i \in 1..Len(owed') : ~Own(owed'[i]) BY <1>e DEF Own
  <2>7. OwnLast' BY <1>a, <2>1, <2>5, <2>6 DEF OwnLast, Own
  <2>8. ASSUME owed' = <<>> PROVE sock' = <<>> /\ wire' = <<>>
    <3>1. Cat(owed) = <<>> BY <1>e, <2>8, CatIs
    <3>2. sock \o wire = <<>> BY <1>h, <3>1
    <3> QED BY <1>a, <1>d, <3>2, ConcatNothing
  <2> QED BY <2>7, <2>8
<1> QED BY <1>1, <1>2, <1>3, <1>4, <1>5, <1>6, <1>7, <1>8, <1>9, <1>10 DEF IInv

-----------------------------------------------------------------------------
(* The connection                                                          *)

\* IInv is kept by a write of anetWrite.
LEMMA WriteKeeps ==
  ASSUME IInv, NEW n \in Nat, WriteSome(n)
  PROVE  IInv'
<1>a. /\ pc = "write" /\ ~closed /\ n <= Len(unsent)
      /\ asked' = asked \o SubSeq(unsent, 1, n) /\ unsent' = From(unsent, n + 1)
      /\ pc' = IF unsent' = <<>> THEN "line" ELSE "write"
      /\ UNCHANGED <<name, todo, rd, got, outcome, sock, wire, closed, multi>>
      /\ UNCHANGED <<due, owed, took, slipped>>
  BY DEF WriteSome, From, history
<1>b. /\ unsent \in Strings /\ asked \in Strings /\ due \in Seq(DueItems)
      /\ owed \in Seq(OwedItems) /\ sock \in Strings /\ wire \in Strings
  BY DEF IInv, Types
<1>c. n \in 0..Len(unsent)
  <2>1. Len(unsent) \in Nat BY <1>b, LenProperties DEF Strings
  <2> QED BY <1>a, <2>1
<1>d. /\ SubSeq(unsent, 1, n) \in Strings /\ unsent' \in Strings
      /\ SubSeq(unsent, 1, n) \o unsent' = unsent
  BY <1>a, <1>b, <1>c, CutString
<1>e. name \in AllCalls /\ rd = Fresh /\ took = <<>> BY <1>a DEF IInv, Running
<1>f. pc' \in {"line", "write"} BY <1>a
<1>1. Types'
  <2>1. Types BY DEF IInv
  <2>2. asked' \in Strings BY <1>a, <1>b, <1>d, StringsConcat
  <2>3. pc' \in {"idle", "write"} \cup Steps BY <1>f DEF Steps
  <2> QED BY <1>a, <1>d, <2>1, <2>2, <2>3 DEF Types
<1>2. Sent'
  <2>1. asked \o unsent = Requests(due) BY <1>a DEF IInv, Sent
  <2>2. asked' \o unsent' = asked \o (SubSeq(unsent, 1, n) \o unsent')
    BY ZenonT(60), <1>a, <1>b, <1>d, StringsAssociative
  <2>3. asked' \o unsent' = Requests(due) BY <1>d, <2>1, <2>2
  <2> QED BY <1>a, <2>3 DEF Sent
<1>3. Idle' BY <1>f DEF Idle
<1>4. Running' BY <1>a, <1>f DEF IInv, Running, Late, Fresh
<1>5. InLine'
  <2>1. NoLF(Fresh.line) /\ ~Fresh.eol /\ Fresh.want = 0 /\ Fresh.data = <<>> BY DEF Fresh, NoLF
  <2>2. rd' = Fresh BY <1>a, <1>e
  <2> QED BY <1>f, <2>1, <2>2 DEF InLine, NoLF
<1>6. InStream'
  <2> SUFFICES ASSUME pc' = "line", ~slipped
               PROVE  InStep_(owed', rd', pc', sock', wire', closed')
    BY <1>a, <1>f DEF InStream, Steps
  <2>1. sock \o wire = Cat(owed) BY <1>a DEF IInv, Aligned
  <2>2. Cat(owed) \in Strings BY <1>b, CatIs
  <2>3. Follows(sock \o wire, Cat(owed), closed) BY <2>1, <2>2, FollowsSame
  <2>4. InStep_(owed, Fresh, "line", sock, wire, closed) BY <1>b, <2>3, StreamFresh
  <2> QED BY <1>a, <1>e, <2>4
<1>7. Aligned' BY <1>a, <1>f DEF IInv, Aligned
<1>8. Account'
  <2>1. ForReaders' <=> ForReaders BY <1>a DEF ForReaders, Own
  <2>2. ForServer' <=> ForServer BY <1>a DEF ForServer
  <2> QED BY <1>a, <2>1, <2>2 DEF IInv, Account
<1>9. Answered' BY <1>a DEF IInv, Answered, Own, Late
<1>10. LateOnly'
  <2>1. OwnLast' <=> OwnLast BY <1>a DEF OwnLast, Own
  <2>2. Late' <=> Late BY <1>a DEF Late
  <2>3. Late => OwnLast /\ (owed = <<>> => sock = <<>> /\ wire = <<>>)
    BY <1>a DEF IInv, LateOnly
  <2>4. pc' = "write" \/ (pc' = "line" /\ rd' = Fresh') BY <1>a, <1>e, <1>f DEF Fresh
  <2> QED BY <1>a, <1>f, <2>1, <2>2, <2>3, <2>4 DEF LateOnly
<1> QED BY <1>1, <1>2, <1>3, <1>4, <1>5, <1>6, <1>7, <1>8, <1>9, <1>10 DEF IInv

\* IInv is kept by a call that finds the connection lost.
LEMMA ErrorKeeps == ASSUME IInv, ConnectionError PROVE IInv'
<1>a. /\ closed /\ owed' = <<>> /\ took' = took /\ due' = <<>>
      /\ outcome'.t \in {"value", "throw"} /\ pc' = "idle"
      /\ unsent' = <<>> /\ todo' = <<>> /\ rd' = Fresh
      /\ name' = name /\ got' = got /\ sock' = sock /\ wire' = wire
      /\ closed' = closed /\ asked' = asked /\ multi' = multi
  BY CaughtIs DEF ConnectionError, Throw, EndCall, serverVars
<1>b. slipped' = (slipped \/ (~closed /\ (due # <<>> \/ owed' # <<>>)))
  BY DEF ConnectionError, Throw
<1>c. slipped \in BOOLEAN BY DEF IInv, Types
<1>d. slipped' = slipped BY <1>a, <1>b, <1>c
<1>1. Types'
  <2>1. Types BY DEF IInv
  <2>2. <<>> \in Strings /\ <<>> \in Seq(DueItems) /\ <<>> \in Seq(OwedItems) BY DEF Strings
  <2>3. rd' \in Reads BY <1>a, FreshIs
  <2> QED BY <1>a, <1>d, <2>1, <2>2, <2>3 DEF Types
<1>2. Sent' BY <1>a DEF IInv, Sent
<1>3. Idle' BY <1>a DEF Idle, Fresh
<1>4. Running' BY <1>a DEF Running
<1>5. InLine'
  <2>1. Fresh.want = 0 /\ Fresh.data = <<>> BY DEF Fresh
  <2> QED BY <1>a, <2>1 DEF InLine
<1>6. InStream' BY <1>a DEF InStream, Steps
<1>7. Aligned' BY <1>a DEF Aligned
<1>8. Account' BY <1>a DEF Account
<1>9. Answered' BY <1>a, <1>d DEF IInv, Answered, Own, Late
<1>10. LateOnly' BY <1>a DEF LateOnly
<1> QED BY <1>1, <1>2, <1>3, <1>4, <1>5, <1>6, <1>7, <1>8, <1>9, <1>10 DEF IInv

\* IInv is kept when bytes arrive.
LEMMA ArriveKeeps ==
  ASSUME IInv, NEW n \in Nat, Arrive(n)
  PROVE  IInv'
<1>a. /\ 0 < n /\ n <= Len(wire) /\ sock' = sock \o SubSeq(wire, 1, n)
      /\ wire' = From(wire, n + 1)
      /\ UNCHANGED <<name, pc, unsent, todo, rd, got, outcome>>
      /\ UNCHANGED <<closed, asked, multi>> /\ UNCHANGED <<due, owed, took, slipped>>
  BY DEF Arrive, From, clientVars, serverVars, history
<1>b. /\ owed \in Seq(OwedItems) /\ sock \in Strings /\ wire \in Strings /\ rd \in Reads
  BY DEF IInv, Types
<1>c. Len(wire) \in Nat /\ n \in 0..Len(wire)
  <2>1. Len(wire) \in Nat BY <1>b, LenProperties DEF Strings
  <2> QED BY <1>a, <2>1
<1>d. /\ SubSeq(wire, 1, n) \in Strings /\ From(wire, n + 1) \in Strings
      /\ SubSeq(wire, 1, n) \o From(wire, n + 1) = wire
  BY <1>b, <1>c, CutString
<1>e. sock' \in Strings /\ wire' \in Strings /\ sock' \o wire' = sock \o wire
      /\ Len(sock) \in Nat /\ Len(sock') \in Nat /\ Len(sock) <= Len(sock')
  <2>1. sock' \in Strings /\ Len(sock') = Len(sock) + Len(SubSeq(wire, 1, n))
        /\ Len(sock) \in Nat /\ Len(SubSeq(wire, 1, n)) \in Nat
    BY <1>a, <1>b, <1>d, StringsConcat
  <2>2. sock' \o wire' = sock \o (SubSeq(wire, 1, n) \o From(wire, n + 1))
    BY <1>a, <1>b, <1>d, StringsAssociative
  <2>3. Len(sock') \in Nat /\ Len(sock) <= Len(sock')
    <3>1. ASSUME NEW x \in Nat, NEW y \in Nat PROVE x + y \in Nat /\ x <= x + y OBVIOUS
    <3> QED BY <2>1, <3>1
  <2>4. sock' \o wire' = sock \o wire BY <1>d, <2>2
  <2> QED BY <1>a, <1>d, <2>1, <2>3, <2>4
<1>1. Types' BY <1>a, <1>e DEF IInv, Types
<1>2. Sent' BY <1>a DEF IInv, Sent
<1>3. Idle' BY <1>a DEF IInv, Idle, Fresh
<1>4. Running' BY <1>a DEF IInv, Running, Late, Fresh
<1>5. InLine'
  <2>1. InLine BY DEF IInv
  <2>2. pc = "take" => rd.take \in 1..Len(sock')
    <3> SUFFICES ASSUME pc = "take" PROVE rd.take \in 1..Len(sock') OBVIOUS
    <3>1. rd.take \in 1..Len(sock) BY <2>1 DEF InLine
    <3> QED BY <1>e, <3>1
  <2> QED BY <1>a, <2>1, <2>2 DEF InLine, NoLF
<1>6. InStream'
  <2> SUFFICES ASSUME pc \in Steps, ~slipped PROVE InStep_(owed, rd, pc, sock', wire', closed)
    BY <1>a DEF InStream
  <2>1. InStep_(owed, rd, pc, sock, wire, closed) BY DEF IInv, InStream
  <2>2. pc = "take" => rd.take \in 0..Len(sock)
    <3> SUFFICES ASSUME pc = "take" PROVE rd.take \in 0..Len(sock) OBVIOUS
    <3>1. rd.take \in 1..Len(sock) BY DEF IInv, InLine
    <3> QED BY <1>e, <3>1
  <2>3. InStep_(owed, rd, pc, sock \o SubSeq(wire, 1, n), From(wire, n + 1), closed)
    BY <1>b, <1>c, <2>1, <2>2, StreamArrive
  <2> QED BY <1>a, <2>3
<1>7. Aligned' BY <1>a, <1>e DEF IInv, Aligned, Late
<1>8. Account'
  <2>1. ForReaders' <=> ForReaders BY <1>a DEF ForReaders, Own
  <2>2. ForServer' <=> ForServer BY <1>a DEF ForServer
  <2> QED BY <1>a, <2>1, <2>2 DEF IInv, Account
<1>9. Answered' BY <1>a DEF IInv, Answered, Own, Late
<1>10. LateOnly'
  <2>1. OwnLast' <=> OwnLast BY <1>a DEF OwnLast, Own
  <2>2. Late' <=> Late BY <1>a DEF Late
  <2>3. LateEnd' <=> LateEnd BY <1>a DEF LateEnd, Own
  <2>4. wire # <<>>
    <3>1. Len(<<>>) = 0 OBVIOUS
    <3> QED BY <1>a, <1>c, <3>1
  <2>5. Late /\ pc # "idle" /\ ~(closed /\ pc = "write") => OwnLast /\ owed # <<>>
    BY <2>4 DEF IInv, LateOnly
  <2>6. Late /\ pc = "idle" /\ ~closed => LateEnd BY DEF IInv, LateOnly
  <2> QED BY <1>a, <2>1, <2>2, <2>3, <2>5, <2>6 DEF LateOnly, Fresh
<1> QED BY <1>1, <1>2, <1>3, <1>4, <1>5, <1>6, <1>7, <1>8, <1>9, <1>10 DEF IInv

\* IInv is kept when the connection is lost.
LEMMA LoseKeeps == ASSUME IInv, Lose PROVE IInv'
<1>a. /\ ~closed /\ (pc # "idle" \/ slipped) /\ closed' = TRUE
      /\ wire' = <<>> /\ asked' = <<>> /\ due' = <<>>
      /\ UNCHANGED <<name, pc, unsent, todo, rd, got, outcome>>
      /\ UNCHANGED <<multi, sock, owed, took, slipped>>
  BY DEF Lose, clientVars
<1>b. /\ owed \in Seq(OwedItems) /\ sock \in Strings /\ wire \in Strings /\ rd \in Reads
      /\ closed \in BOOLEAN
  BY DEF IInv, Types
<1>1. Types'
  <2>1. <<>> \in Strings /\ <<>> \in Seq(DueItems) BY DEF Strings
  <2> QED BY <1>a, <2>1 DEF IInv, Types
<1>2. Sent' BY <1>a DEF IInv, Sent
<1>3. Idle' BY <1>a DEF IInv, Idle, Fresh
<1>4. Running' BY <1>a DEF IInv, Running, Late, Fresh
<1>5. InLine' BY <1>a DEF IInv, InLine, NoLF
<1>6. InStream'
  <2> SUFFICES ASSUME pc \in Steps, ~slipped PROVE InStep_(owed, rd, pc, sock, <<>>, TRUE)
    BY <1>a DEF InStream
  <2>1. closed = FALSE BY <1>a, <1>b
  <2>2. InStep_(owed, rd, pc, sock, wire, FALSE) BY <2>1 DEF IInv, InStream
  <2>3. pc = "take" => rd.take \in 0..Len(sock)
    <3> SUFFICES ASSUME pc = "take" PROVE rd.take \in 0..Len(sock) OBVIOUS
    <3>1. rd.take \in 1..Len(sock) BY DEF IInv, InLine
    <3>2. Len(sock) \in Nat BY <1>b, LenProperties DEF Strings
    <3> QED BY <3>1, <3>2
  <2> QED BY <1>b, <2>2, <2>3, StreamLose
<1>7. Aligned' BY <1>a DEF Aligned
<1>8. Account'
  <2>1. ForReaders' <=> ForReaders BY <1>a DEF ForReaders, Own
  <2> QED BY <1>a, <2>1 DEF IInv, Account
<1>9. Answered' BY <1>a DEF IInv, Answered, Own, Late
<1>10. LateOnly'
  <2> SUFFICES ASSUME Late, pc # "idle", pc # "write"
               PROVE  /\ OwnLast'
                      /\ IF pc = "line" /\ rd = Fresh THEN owed = <<>> => sock = <<>> ELSE owed # <<>>
    BY <1>a DEF LateOnly, Late, Fresh
  <2>1. OwnLast BY <1>a DEF IInv, LateOnly
  <2>2. OwnLast'
    <3>1. Len(due') = 0 BY <1>a
    <3> QED BY <1>a, <2>1, <3>1 DEF OwnLast, Own
  <2>3. IF pc = "line" /\ rd = Fresh THEN owed = <<>> => sock = <<>> ELSE owed # <<>>
    BY <1>a DEF IInv, LateOnly
  <2> QED BY <2>2, <2>3
<1> QED BY <1>1, <1>2, <1>3, <1>4, <1>5, <1>6, <1>7, <1>8, <1>9, <1>10 DEF IInv

-----------------------------------------------------------------------------
(* The server                                                              *)

\* The server finds no command in no bytes.
LEMMA NoCommand == ~FirstCommand(<<>>).ok
<1>1. Len(<<>>) < 4 OBVIOUS
<1>2. FirstCommand(<<>>) = [ok |-> FALSE] BY <1>1 DEF FirstCommand
<1> QED BY <1>2

\* The server reads the oldest command that is due.
LEMMA Answering ==
  ASSUME IInv, FirstCommand(asked).ok
  PROVE  LET cmd   == Head(due).cmd
             first == FirstCommand(asked)
         IN  /\ ~closed /\ due # <<>> /\ Head(due) \in DueItems /\ Tail(due) \in Seq(DueItems)
             /\ Head(due) = due[1] /\ cmd \in Cmds
             /\ first.args = Params(cmd) /\ first.args[1][1] = cmd[1]
             /\ [i \in DOMAIN first.args |-> first.args[i][1]] = cmd
             /\ From(asked, first.next) \in Strings
             /\ From(asked, first.next) \o unsent = Requests(Tail(due))
<1> DEFINE cmd == Head(due).cmd
           first == FirstCommand(asked)
           ps == Params(cmd)
           e == Encode(ps)
           rest == Requests(Tail(due))
<1>1. asked \in Strings /\ unsent \in Strings /\ due \in Seq(DueItems) BY DEF IInv, Types
<1>2. asked # <<>> BY NoCommand
<1>3. ~closed /\ asked \o unsent = Requests(due) BY <1>2 DEF IInv, Sent
<1>4. due # <<>>
  <2> SUFFICES ASSUME due = <<>> PROVE FALSE OBVIOUS
  <2>1. Requests(due) = <<>> BY RequestsIs
  <2> QED BY <1>1, <1>2, <1>3, <2>1, ConcatNothing
<1>5. /\ Head(due) \in DueItems /\ Tail(due) \in Seq(DueItems)
      /\ Requests(due) = e \o rest /\ rest \in Strings
  BY <1>1, <1>4, RequestsIs
<1>6. Head(due) = due[1] BY <1>4
<1>7. cmd \in Cmds BY <1>5 DEF DueItems
<1>8. /\ ps \in Seq(ParamSet) /\ Len(ps) = Len(cmd) /\ Len(cmd) \in 1..Most
      /\ \A j \in DOMAIN cmd : ps[j][1] = cmd[j]
      /\ DOMAIN ps = DOMAIN cmd
  <2> HIDE DEF cmd
  <2> QED BY <1>7, ParamsType
<1>9. e \in Strings
  <2>1. Len(ps) \in 1..Most /\ Most \in Nat BY <1>8, NumeralAssumption
  <2>2. Len(ps) <= Most BY <2>1
  <2> HIDE DEF ps
  <2> QED BY <1>8, <2>2, EncodeType
<1>10. Starts(asked, e \o rest)
  <2> HIDE DEF e, rest
  <2>1. e \o rest \in Strings BY <1>5, <1>9, StringsConcat
  <2>2. asked \o unsent = e \o rest BY <1>3, <1>5
  <2> QED BY <1>1, <2>1, <2>2, StartsThen DEF Strings
<1>11. first.args = ps /\ first.next = Len(e) + 1 /\ Len(e) <= Len(asked)
  <2>1. Len(ps) \in 1..Most BY <1>8
  <2> HIDE DEF ps, rest
  <2> QED BY <1>1, <1>5, <1>8, <1>10, <2>1, FirstCommandIs
<1> HIDE DEF e, rest
<1>12. From(asked, Len(e) + 1) \in Strings /\ From(asked, Len(e) + 1) \o unsent = rest
  <2> DEFINE p == SubSeq(asked, 1, Len(e))
             q == From(asked, Len(e) + 1)
  <2>1. Len(e) \in Nat /\ Len(asked) \in Nat BY <1>1, <1>9, LenProperties DEF Strings
  <2>2. Len(e) \in 0..Len(asked) BY <1>11, <2>1
  <2>3. p \in Strings /\ q \in Strings /\ p \o q = asked /\ Len(p) = Len(e)
    BY <1>1, <2>2, CutString
  <2> HIDE DEF p, q
  <2>4. p \o (q \o unsent) = e \o rest
    <3>1. (p \o q) \o unsent = p \o (q \o unsent) BY ZenonT(60), <1>1, <2>3, StringsAssociative
    <3>2. (p \o q) \o unsent = e \o rest BY <1>3, <1>5, <2>3
    <3> QED BY <3>1, <3>2
  <2>5. q \o unsent \in Strings BY <1>1, <2>3, StringsConcat
  <2>6. q \o unsent = rest BY <1>5, <1>9, <2>3, <2>4, <2>5, CatCancel DEF Strings
  <2> QED BY <2>3, <2>6 DEF q
<1>13. first.args[1][1] = cmd[1] /\ [i \in DOMAIN first.args |-> first.args[i][1]] = cmd
  <2>1. 1 \in DOMAIN cmd /\ cmd = [i \in DOMAIN cmd |-> cmd[i]]
    <3>1. cmd \in Seq(STRING) BY <1>7 DEF Cmds, Strings
    <3>2. DOMAIN cmd = 1..Len(cmd) BY <3>1, LenProperties
    <3>3. 1 \in 1..Len(cmd) BY <1>8
    <3>4. cmd = [i \in 1..Len(cmd) |-> cmd[i]]
      <4> HIDE DEF cmd
      <4> QED BY <3>1
    <3> QED BY <3>2, <3>3, <3>4
  <2> HIDE DEF cmd, ps, first
  <2>2. [i \in DOMAIN first.args |-> first.args[i][1]] = [i \in DOMAIN cmd |-> cmd[i]]
    BY <1>8, <1>11
  <2> QED BY <1>8, <1>11, <2>1, <2>2
<1> QED BY <1>3, <1>4, <1>5, <1>6, <1>7, <1>11, <1>12, <1>13 DEF rest

-----------------------------------------------------------------------------

\* The place in the readers of what the server says next.
Place_(j) == Len(took) + Len(owed) + j

\* What the server says is for the readers that come next.
Suits(units) ==
  LET k == Len(Commands(name)) - Len(due)
  IN  /\ \A j \in 1..Len(units) : /\ Place_(j) <= Len(Readers(name))
                                  /\ units[j] \in Possible(name, Place_(j))
      /\ Place_(Len(units)) \in Sayings(name, k + 1)
      /\ multi' # "no" <=> name = "exec_transaction" /\ k + 1 \in 1..3

\* The replies that are owed after it.
LEMMA SaysIs ==
  ASSUME IInv, due # <<>>, NEW units \in Seq(Replies), units # <<>>, Says(units)
  PROVE  LET said == Said(units, Head(due).from)
         IN  /\ said \in Seq(OwedItems) /\ said # <<>> /\ Cat(said) \in Strings
             /\ wire' = wire \o Cat(said) /\ owed' = owed \o said
             /\ owed' \in Seq(OwedItems) /\ owed' # <<>>
             /\ Len(owed') = Len(owed) + Len(units) /\ Len(owed) \in Nat
             /\ Len(units) \in Nat \ {0} /\ Len(owed') \in Nat
             /\ \A i \in 1..Len(owed) : owed'[i] = owed[i]
             /\ \A i \in 1..Len(owed') : ~(i <= Len(owed)) =>
                  /\ i - Len(owed) \in 1..Len(units)
                  /\ owed'[i] = [from |-> Head(due).from, reply |-> units[i - Len(owed)]]
<1> DEFINE whose == Head(due).from
           said == Said(units, whose)
           k == Len(owed)
           l == Len(units)
<1>1. due \in Seq(DueItems) /\ owed \in Seq(OwedItems) BY DEF IInv, Types
<1>2. whose \in Origins
  <2>1. Head(due) \in DueItems BY <1>1, HeadTailProperties
  <2> QED BY <2>1 DEF DueItems
<1> HIDE DEF whose
<1>3. /\ said \in Seq(OwedItems) /\ Len(said) = l
      /\ Cat(said) = FlattenSeq([i \in DOMAIN units |-> Bytes(units[i])])
      /\ \A i \in 1..l : said[i] = [from |-> whose, reply |-> units[i]]
  BY <1>2, SaidIs
<1>4. wire' = wire \o Cat(said) /\ owed' = owed \o said BY <1>3 DEF Says, Said, whose
<1>5. Cat(said) \in Strings BY <1>3, CatIs
<1>6. k \in Nat /\ l \in Nat \ {0}
  <2>1. k \in Nat /\ l \in Nat BY <1>1, LenProperties
  <2>2. l # 0
    <3> SUFFICES ASSUME Len(units) = 0 PROVE FALSE OBVIOUS
    <3> HIDE DEF l
    <3>1. units = <<>> BY EmptySeq
    <3> QED BY <3>1
  <2> QED BY <2>1, <2>2
<1> HIDE DEF said, k, l, OwedItems
<1>7. /\ owed \o said \in Seq(OwedItems) /\ Len(owed \o said) = k + l
      /\ \A i \in 1..(Len(owed) + Len(said)) :
           (owed \o said)[i] = IF i <= Len(owed) THEN owed[i] ELSE said[i - Len(owed)]
  BY <1>1, <1>3, ConcatProperties DEF k
<1>8. owed' \in Seq(OwedItems) /\ Len(owed') = k + l BY <1>4, <1>7
<1>9. ASSUME NEW i \in 1..k PROVE owed'[i] = owed[i]
  <2>1. i \in 1..(Len(owed) + Len(said)) /\ i <= Len(owed) BY <1>3, <1>6 DEF k
  <2> QED BY <1>4, <1>7, <2>1
<1>10. ASSUME NEW i \in 1..(k + l), ~(i <= k)
       PROVE  i - k \in 1..l /\ owed'[i] = [from |-> whose, reply |-> units[i - k]]
  <2>1. i - k \in 1..l BY <1>6, <1>10
  <2>2. i \in 1..(Len(owed) + Len(said)) /\ ~(i <= Len(owed)) BY <1>3, <1>10 DEF k
  <2>3. owed'[i] = said[i - k] BY <1>4, <1>7, <2>2 DEF k
  <2> QED BY <1>3, <2>1, <2>3
<1>11. said # <<>> /\ owed' # <<>>
  <2>1. Len(said) # 0 /\ Len(owed') # 0 BY <1>3, <1>6, <1>8
  <2> QED BY <2>1
<1>12. k + l \in Nat BY <1>6
<1> QED BY <1>3, <1>4, <1>5, <1>6, <1>8, <1>9, <1>10, <1>11, <1>12 DEF k, l, said, whose

\* The server says something.
LEMMA SaysKeeps ==
  ASSUME IInv, ~closed, due # <<>>, NEW units \in Seq(Replies), units # <<>>, Says(units),
         asked' \in Strings, asked' \o unsent = Requests(Tail(due)), due' = Tail(due),
         multi' \in {"no", "open", "failed"},
         UNCHANGED <<clientVars, closed, sock, took, slipped>>,
         pc # "idle" /\ ~slipped => Suits(units),
         pc # "idle" /\ Late /\ Own(Head(due)) => Len(units) = 1
  PROVE  IInv'
<1> DEFINE said == Said(units, Head(due).from)
<1>a. UNCHANGED <<name, pc, unsent, todo, rd, got, outcome, closed, sock, took, slipped>>
  BY DEF clientVars
<1>b. /\ owed \in Seq(OwedItems) /\ sock \in Strings /\ wire \in Strings /\ rd \in Reads
      /\ due \in Seq(DueItems) /\ took \in Seq(OwedItems) /\ closed = FALSE
  BY DEF IInv, Types
<1>c. /\ said \in Seq(OwedItems) /\ said # <<>> /\ Cat(said) \in Strings
      /\ wire' = wire \o Cat(said) /\ owed' = owed \o said
      /\ owed' \in Seq(OwedItems) /\ owed' # <<>>
      /\ Len(owed') = Len(owed) + Len(units) /\ Len(owed) \in Nat
      /\ Len(units) \in Nat \ {0} /\ Len(owed') \in Nat
      /\ \A i \in 1..Len(owed) : owed'[i] = owed[i]
      /\ \A i \in 1..Len(owed') : ~(i <= Len(owed)) =>
           /\ i - Len(owed) \in 1..Len(units)
           /\ owed'[i] = [from |-> Head(due).from, reply |-> units[i - Len(owed)]]
  BY SaysIs
<1>d. /\ due' \in Seq(DueItems) /\ Len(due') = Len(due) - 1 /\ Len(due) \in Nat \ {0}
      /\ Head(due) = due[1]
      /\ \A i \in 1..Len(due') : due'[i] = due[i + 1] /\ i + 1 \in 1..Len(due)
  <2>1. /\ due' \in Seq(DueItems) /\ Len(due') = Len(due) - 1 /\ Head(due) = due[1]
        /\ \A i \in 1..Len(due') : due'[i] = due[i + 1]
    BY <1>b, HeadTailProperties
  <2>2. Len(due) \in Nat /\ Len(due) # 0 BY <1>b, LenProperties, EmptySeq
  <2>3. \A i \in 1..Len(due') : i + 1 \in 1..Len(due) BY <2>1, <2>2
  <2> QED BY <2>1, <2>2, <2>3
\* What is said is for the call that is due.
<1>e. \A i \in 1..Len(owed') : ~(i <= Len(owed)) => (Own(owed'[i]) <=> Own(Head(due)))
  <2> SUFFICES ASSUME NEW i \in 1..Len(owed'), ~(i <= Len(owed))
               PROVE  Own(owed'[i]) <=> Own(Head(due))
    OBVIOUS
  <2>1. \A x, y : [from |-> x, reply |-> y].from = x OBVIOUS
  <2>2. owed'[i] = [from |-> Head(due).from, reply |-> units[i - Len(owed)]] BY <1>c
  <2>3. owed'[i].from = Head(due).from BY <2>1, <2>2
  <2> QED BY <2>3 DEF Own
<1> HIDE DEF said
<1>1. Types'
  <2>1. wire' \in Strings BY <1>b, <1>c, StringsConcat
  <2> QED BY <1>a, <1>c, <1>d, <2>1 DEF IInv, Types
<1>2. Sent' BY <1>a DEF IInv, Sent
<1>3. Idle' BY <1>a DEF IInv, Idle, Fresh
<1>4. Running' BY <1>a DEF IInv, Running, Late, Fresh
<1>5. InLine' BY <1>a DEF IInv, InLine, NoLF
<1>6. InStream'
  <2> SUFFICES ASSUME pc \in Steps, ~slipped PROVE InStep_(owed', rd, pc, sock, wire', closed)
    BY <1>a DEF InStream
  <2>1. InStep_(owed, rd, pc, sock, wire, FALSE) BY <1>b DEF IInv, InStream
  <2>2. pc = "take" => rd.take \in 0..Len(sock)
    <3> SUFFICES ASSUME pc = "take" PROVE rd.take \in 0..Len(sock) OBVIOUS
    <3>1. rd.take \in 1..Len(sock) BY DEF IInv, InLine
    <3>2. Len(sock) \in Nat BY <1>b, LenProperties DEF Strings
    <3> QED BY <3>1, <3>2
  <2>3. InStep_(owed \o said, rd, pc, sock, wire \o Cat(said), FALSE)
    BY <1>b, <1>c, <2>1, <2>2, StreamAnswer
  <2> QED BY <1>b, <1>c, <2>3
<1>7. Aligned'
  <2> SUFFICES ASSUME sock \o wire = Cat(owed) PROVE sock \o wire' = Cat(owed')
    BY <1>a DEF IInv, Aligned, Late
  <2>1. sock \o (wire \o Cat(said)) = (sock \o wire) \o Cat(said)
    BY <1>b, <1>c, StringsAssociative
  <2>2. Cat(owed \o said) = Cat(owed) \o Cat(said) BY <1>b, <1>c, CatIs
  <2> QED BY <1>c, <2>1, <2>2
<1>8. Account'
  <2> SUFFICES ASSUME pc # "idle", ~slipped PROVE ForReaders' /\ ForServer'
    BY <1>a DEF Account
  <2> DEFINE all == Commands(name)
             k == Len(all) - Len(due)
             m == Len(took)
             n == Len(owed)
  <2>1. ForReaders /\ ForServer BY DEF IInv, Account
  <2>2. /\ Len(due) <= Len(all) /\ (\A i \in 1..Len(due) : due[i] = [from |-> "own", cmd |-> all[k + i]])
    BY <2>1 DEF ForServer
  <2>3. Own(Head(due))
    <3>1. 1 \in 1..Len(due) BY <1>d
    <3>2. due[1] = [from |-> "own", cmd |-> all[k + 1]] BY <2>2, <3>1
    <3>3. \A y : [from |-> "own", cmd |-> y].from = "own" OBVIOUS
    <3> QED BY <1>d, <3>2, <3>3 DEF Own
  <2>4. /\ \A j \in 1..Len(units) : Place_(j) <= Len(Readers(name)) /\ units[j] \in Possible(name, Place_(j))
        /\ Place_(Len(units)) \in Sayings(name, k + 1)
        /\ multi' # "no" <=> name = "exec_transaction" /\ k + 1 \in 1..3
    BY DEF Suits
  <2>5. Len(all) \in Nat /\ m \in Nat
    <3>1. name \in AllCalls BY DEF IInv, Running
    <3>2. all \in Seq(Cmds) BY <3>1, CommandsAre
    <3> QED BY <1>b, <3>2, LenProperties
  <2>6. ForReaders'
    <3> SUFFICES ASSUME NEW i \in 1..Len(owed')
                 PROVE  /\ Own(owed'[i]) /\ m + i <= Len(Readers(name))
                        /\ owed'[i].reply \in Possible(name, m + i)
      BY <1>a DEF ForReaders, Own
    <3>1. CASE i <= n
      <4>1. i \in 1..Len(owed) BY <1>c, <3>1
      <4>2. Own(owed[i]) /\ m + i <= Len(Readers(name)) /\ owed[i].reply \in Possible(name, m + i)
        BY <2>1, <4>1 DEF ForReaders
      <4> QED BY <1>c, <4>1, <4>2
    <3>2. CASE ~(i <= n)
      <4> DEFINE j == i - n
      <4>1. /\ j \in 1..Len(units) /\ owed'[i] = [from |-> Head(due).from, reply |-> units[j]]
            /\ Own(owed'[i])
        BY <1>c, <1>e, <2>3, <3>2
      <4>2. Place_(j) = m + i BY <1>c, <2>5 DEF Place_
      <4> HIDE DEF j
      <4>3. Place_(j) <= Len(Readers(name)) /\ units[j] \in Possible(name, Place_(j))
        BY <2>4, <4>1
      <4>4. \A x, y : [from |-> x, reply |-> y].reply = y OBVIOUS
      <4>5. owed'[i].reply = units[j] BY <4>1, <4>4
      <4> QED BY <4>1, <4>2, <4>3, <4>5
    <3> QED BY <3>1, <3>2
  <2>7. ForServer'
    <3>1. Len(all) - Len(due') = k + 1 /\ Len(due') <= Len(all) BY <1>d, <2>2, <2>5
    <3>2. \A i \in 1..Len(due') : due'[i] = [from |-> "own", cmd |-> all[(k + 1) + i]]
      <4> SUFFICES ASSUME NEW i \in 1..Len(due')
                   PROVE  due'[i] = [from |-> "own", cmd |-> all[(k + 1) + i]]
        OBVIOUS
      <4>1. due'[i] = due[i + 1] /\ i + 1 \in 1..Len(due) BY <1>d
      <4>2. due[i + 1] = [from |-> "own", cmd |-> all[k + (i + 1)]] BY <2>2, <4>1
      <4>3. k + (i + 1) = (k + 1) + i BY <1>d, <2>5
      <4> QED BY <4>1, <4>2, <4>3
    <3>3. Place_(Len(units)) = m + Len(owed') BY <1>c, <2>5 DEF Place_
    <3>4. m + Len(owed') \in Sayings(name, k + 1) BY <2>4, <3>3
    <3> HIDE DEF k, all
    <3>5. /\ Len(due') <= Len(all)
          /\ \A i \in 1..Len(due') : due'[i] = [from |-> "own", cmd |-> all[(Len(all) - Len(due')) + i]]
          /\ m + Len(owed') \in Sayings(name, Len(all) - Len(due'))
          /\ multi' # "no" <=> name = "exec_transaction" /\ (Len(all) - Len(due')) \in 1..3
      BY <2>4, <3>1, <3>2, <3>4
    <3> QED BY <1>a, <3>5 DEF ForServer, all
  <2> QED BY <2>6, <2>7
<1>9. Answered' BY <1>a DEF IInv, Answered, Own, Late
<1>10. LateOnly'
  <2>1. ASSUME Late, pc = "idle" PROVE LateEnd'
    <3>1. LateEnd BY <2>1 DEF IInv, LateOnly
    <3>2. CASE \E i \in 1..Len(took) : ~Own(took[i]) BY <1>a, <3>2 DEF LateEnd, Own
    <3>3. CASE (\A i \in 1..Len(owed) : ~Own(owed[i])) /\ \A i \in 1..Len(due) : ~Own(due[i])
      <4>1. 1 \in 1..Len(due) BY <1>d
      <4>2. ~Own(Head(due)) BY <1>d, <3>3, <4>1
      <4>3. ASSUME NEW i \in 1..Len(owed') PROVE ~Own(owed'[i])
        <5>1. CASE i <= Len(owed)
          <6>1. i \in 1..Len(owed) BY <1>c, <5>1
          <6> QED BY <1>c, <3>3, <6>1
        <5>2. CASE ~(i <= Len(owed)) BY <1>e, <4>2, <5>2
        <5> QED BY <5>1, <5>2
      <4>4. \A i \in 1..Len(due') : ~Own(due'[i]) BY <1>d, <3>3
      <4> QED BY <4>3, <4>4 DEF LateEnd, Own
    <3> QED BY <3>1, <3>2, <3>3 DEF LateEnd
  <2>2. ASSUME Late, pc # "idle" PROVE OwnLast'
    <3>1. OwnLast BY <2>2 DEF IInv, LateOnly
    <3>2. ASSUME NEW i \in 1..Len(due'), Own(due'[i])
          PROVE  i = Len(due') /\ due'[i].cmd[1] # "EXEC"
      <4>1. due'[i] = due[i + 1] /\ i + 1 \in 1..Len(due) BY <1>d
      <4>2. i + 1 = Len(due) /\ due[i + 1].cmd[1] # "EXEC" BY <3>1, <3>2, <4>1 DEF OwnLast
      <4>3. i = Len(due')
        <5>1. i \in Int /\ Len(due) \in Int /\ Len(due') = Len(due) - 1 BY <1>d
        <5>2. i + 1 = Len(due) BY <4>2
        <5>3. i = Len(due) - 1 BY Zenon, <5>1, <5>2, OneLess
        <5> QED BY <5>1, <5>3
      <4> QED BY <4>1, <4>2, <4>3
    <3>3. ASSUME NEW i \in 1..Len(owed'), Own(owed'[i])
          PROVE  i = Len(owed') /\ due' = <<>>
      <4>1. ~(i <= Len(owed))
        <5> SUFFICES ASSUME i <= Len(owed) PROVE FALSE OBVIOUS
        <5>1. i \in 1..Len(owed) BY <1>c
        <5>2. Own(owed[i]) BY <1>c, <3>3, <5>1
        <5> QED BY <3>1, <5>1, <5>2 DEF OwnLast
      <4>2. Own(Head(due)) BY SMTT(60), <1>e, <3>3, <4>1
      <4>3. 1 = Len(due)
        <5>1. 1 \in 1..Len(due) BY <1>d
        <5> QED BY <1>d, <3>1, <4>2, <5>1, Zenon DEF OwnLast
      <4>4. due' = <<>>
        <5>1. Len(due') = 0 BY <1>d, <4>3
        <5> QED BY <1>d, <5>1, EmptySeq
      <4>5. Len(units) = 1 BY <2>2, <4>2
      <4>6. i = Len(owed') BY <1>c, <4>1, <4>5
      <4> QED BY <4>4, <4>6
    <3>4. took' = <<>> /\ name' \in LateCalls BY <1>a, <3>1 DEF OwnLast
    <3> QED BY <3>2, <3>3, <3>4 DEF OwnLast, Own
  <2>3. Late' <=> Late BY <1>a DEF Late
  <2> QED BY <1>a, <1>c, <2>1, <2>2, <2>3 DEF LateOnly, Fresh
<1> QED BY <1>1, <1>2, <1>3, <1>4, <1>5, <1>6, <1>7, <1>8, <1>9, <1>10 DEF IInv

\* Only a transaction begins and ends one.
LEMMA VerbsAre ==
  ASSUME NEW c \in AllCalls, c # "exec_transaction", NEW i \in 1..Len(Commands(c))
  PROVE  Commands(c)[i][1] \notin {"MULTI", "EXEC"}
<1> DEFINE Neither(cmd) == cmd[1] \notin {"MULTI", "EXEC"}
<1>1. c \in DOMAIN Calls \/ c \in {"msetex", "sadd_range", "exec"}
  BY SessionAssumption DEF AllCalls
<1>2. \A d \in DOMAIN Calls : Neither(SingleCommand(d))
  BY TableAssumption
<1>3. CASE c \in DOMAIN Calls
  <2>1. Commands(c) = <<SingleCommand(c)>> BY <1>3, SingleIs
  <2>2. i = 1 BY <2>1
  <2> QED BY <1>2, <1>3, <2>1, <2>2
<1>4. CASE c = "msetex"
  <2>1. Commands(c) = <<<<"MSET", "key", "value">>, <<"EXPIRE", "key", "secs">>>>
    BY <1>4 DEF Commands
  <2>2. i \in {1, 2} BY <2>1
  <2> QED BY <2>1, <2>2
<1>5. CASE c = "sadd_range"
  <2>1. Commands(c) = <<SingleCommand("sadd"), SingleCommand("sadd")>> BY <1>5 DEF Commands
  <2>2. i \in {1, 2} BY <2>1
  <2>3. Neither(SingleCommand("sadd")) BY <1>2, TableAssumption
  <2> QED BY <2>1, <2>2, <2>3
<1>6. CASE c = "exec"
  <2>1. Commands(c) = <<Queued, Queued>> BY <1>6 DEF Commands
  <2>2. i \in {1, 2} BY <2>1
  <2> QED BY <2>1, <2>2 DEF Queued
<1> QED BY <1>1, <1>3, <1>4, <1>5, <1>6

\* What the server may say to a command, by the state of the transaction.
Saying(cmd, units) ==
  \/ cmd[1] = "MULTI" /\ multi' = "open" /\ units = <<Status("OK")>>
  \/ cmd[1] = "EXEC" /\ multi = "open" /\ multi' = "no"
     /\ \E r \in {Reply("int", <<"2">>)} \cup Errors :
          units = <<Reply("header", <<"2">>), r, Reply("int", <<"2">>)>>
  \/ cmd[1] = "EXEC" /\ multi = "failed" /\ multi' = "no" /\ \E r \in Errors : units = <<r>>
  \/ cmd[1] \notin {"MULTI", "EXEC"} /\ multi # "no" /\ multi' = multi /\ units = <<Status("QUEUED")>>
  \/ cmd[1] \notin {"MULTI", "EXEC"} /\ multi # "no" /\ multi' = "failed"
     /\ \E r \in Errors : units = <<r>>
  \/ cmd[1] \notin {"MULTI", "EXEC"} /\ multi = "no" /\ multi' = "no"
     /\ \E r \in Answers(cmd) \cup Errors : units = <<r>>

\* The server says replies, one to every command but EXEC.
LEMMA SayingIs ==
  ASSUME NEW cmd, NEW units, Saying(cmd, units), multi \in {"no", "open", "failed"}
  PROVE  /\ units \in Seq(Replies) /\ units # <<>> /\ multi' \in {"no", "open", "failed"}
         /\ cmd[1] # "EXEC" => Len(units) = 1
<1>1. \A r \in Errors : r \in Replies BY ErrorsAre DEF Replies
<1>2. \A r \in Answers(cmd) : r \in Replies BY AnswersAre
<1>3. /\ Status("OK") \in Replies /\ Status("QUEUED") \in Replies
      /\ Reply("header", <<"2">>) \in Replies /\ Reply("int", <<"2">>) \in Replies
  <2>1. "OK" \in STRING /\ "QUEUED" \in STRING /\ "2" \in STRING BY Zenon, WordsAssumption
  <2>2. /\ Reply("status", <<"OK">>) \in LineReplies /\ Reply("status", <<"QUEUED">>) \in LineReplies
        /\ Reply("header", <<"2">>) \in LineReplies /\ Reply("int", <<"2">>) \in LineReplies
    BY <2>1, LineReplyIs
  <2> QED BY <2>2 DEF Replies, Status
<1>4. \A r \in Replies : /\ <<r>> \in Seq(Replies) /\ <<r>> # <<>> /\ Len(<<r>>) = 1
  <2> HIDE DEF Replies
  <2> QED OBVIOUS
<1>5. \A a, b, c \in Replies : <<a, b, c>> \in Seq(Replies) /\ <<a, b, c>> # <<>>
  <2> HIDE DEF Replies
  <2> QED OBVIOUS
<1>6. \/ /\ cmd[1] = "EXEC"
         /\ \E r \in {Reply("int", <<"2">>)} \cup Errors :
              units = <<Reply("header", <<"2">>), r, Reply("int", <<"2">>)>>
      \/ \E r \in {Status("OK"), Status("QUEUED")} \cup Errors \cup Answers(cmd) : units = <<r>>
  BY DEF Saying
<1>7. multi' \in {"no", "open", "failed"} BY DEF Saying
<1>8. CASE /\ cmd[1] = "EXEC"
           /\ \E r \in {Reply("int", <<"2">>)} \cup Errors :
                units = <<Reply("header", <<"2">>), r, Reply("int", <<"2">>)>>
  <2>1. PICK r \in {Reply("int", <<"2">>)} \cup Errors :
          units = <<Reply("header", <<"2">>), r, Reply("int", <<"2">>)>>
    BY <1>8
  <2>2. r \in Replies BY <1>1, <1>3
  <2>3. units \in Seq(Replies) /\ units # <<>> BY <1>3, <1>5, <2>1, <2>2
  <2> QED BY <1>7, <1>8, <2>3
<1>9. CASE \E r \in {Status("OK"), Status("QUEUED")} \cup Errors \cup Answers(cmd) : units = <<r>>
  <2>1. PICK r \in {Status("OK"), Status("QUEUED")} \cup Errors \cup Answers(cmd) : units = <<r>>
    BY <1>9
  <2>2. r \in Replies BY <1>1, <1>2, <1>3
  <2> QED BY <1>4, <1>7, <2>1, <2>2
<1> QED BY <1>6, <1>8, <1>9

\* What it says to the commands of a call suits the readers of the call.
LEMMA SayingSuits ==
  ASSUME IInv, pc # "idle", ~slipped, ~closed, due # <<>>, NEW units,
         Saying(Head(due).cmd, units)
  PROVE  Suits(units)
<1> DEFINE all == Commands(name)
           k == Len(all) - Len(due)
           m == Len(took) + Len(owed)
           cmd == Head(due).cmd
           q == Len(Readers(name))
<1>1. name \in AllCalls /\ ForServer BY DEF IInv, Running, Account
<1>2. due \in Seq(DueItems) /\ owed \in Seq(OwedItems) /\ took \in Seq(OwedItems)
  BY DEF IInv, Types
<1>3. Len(due) \in Nat \ {0} /\ Len(owed) \in Nat /\ Len(took) \in Nat
  BY <1>2, LenProperties, EmptySeq
<1>4. Len(all) \in Nat
  <2>1. all \in Seq(Cmds) BY <1>1, CommandsAre
  <2> QED BY <2>1, LenProperties
<1>5. /\ Len(due) <= Len(all) /\ m \in Sayings(name, k)
      /\ multi # "no" <=> name = "exec_transaction" /\ k \in 1..3
      /\ \A i \in 1..Len(due) : due[i] = [from |-> "own", cmd |-> all[k + i]]
  BY <1>1 DEF ForServer
<1>6. cmd = all[k + 1]
  <2>1. 1 \in 1..Len(due) /\ Head(due) = due[1] BY <1>2, <1>3
  <2>2. due[1] = [from |-> "own", cmd |-> all[k + 1]] BY <1>5, <2>1
  <2>3. \A y : [from |-> "own", cmd |-> y].cmd = y OBVIOUS
  <2> QED BY <2>1, <2>2, <2>3
<1>7. k \in Nat /\ k < Len(all) BY <1>3, <1>4, <1>5
<1>8. m \in Nat BY <1>3
<1>9. k # 4 => m = k BY <1>5 DEF Sayings
\* For a reply to what is next it is enough to fit the next reader.
<1>10. ASSUME NEW r, units = <<r>>, m + 1 <= q, r \in Possible(name, m + 1),
              m + 1 \in Sayings(name, k + 1),
              multi' # "no" <=> name = "exec_transaction" /\ k + 1 \in 1..3
       PROVE  Suits(units)
  <2>1. Len(units) = 1 /\ units[1] = r BY <1>10
  <2>2. Place_(1) = m + 1 BY DEF Place_
  <2>3. \A j \in 1..Len(units) : j = 1 BY <2>1
  <2> HIDE DEF k, m, q, all
  <2>4. \A j \in 1..Len(units) : Place_(j) <= q /\ units[j] \in Possible(name, Place_(j))
    BY <1>10, <2>1, <2>2, <2>3
  <2>5. Place_(Len(units)) \in Sayings(name, k + 1) BY <1>10, <2>1, <2>2
  <2> QED BY <1>10, <2>4, <2>5 DEF Suits, k, all, q
<1>11. CASE name # "exec_transaction"
  <2>1. multi = "no" BY <1>5, <1>11
  <2>2. cmd[1] \notin {"MULTI", "EXEC"}
    <3>1. k + 1 \in 1..Len(all) BY <1>4, <1>7
    <3> HIDE DEF k
    <3> QED BY <1>1, <1>6, <1>11, <3>1, VerbsAre
  <2>3. PICK r \in Answers(cmd) \cup Errors : units = <<r>> /\ multi' = "no"
    BY <2>1, <2>2 DEF Saying
  <2>4. \A j : j \in Sayings(name, j) BY <1>11 DEF Sayings
  <2>5. m = k
    <3>1. Sayings(name, k) = {k} BY <1>11 DEF Sayings
    <3> QED BY <1>5, <3>1
  <2>6. q = Len(all) BY <1>1, <1>11, CommandsAre
  <2>7. r \in Possible(name, m + 1) BY <1>6, <1>11, <2>3, <2>5 DEF Possible
  <2>8. m + 1 <= q
    <3> HIDE DEF k, m, q, all
    <3> QED BY <1>4, <1>7, <2>5, <2>6
  <2> HIDE DEF k, m, q, all, cmd
  <2> QED BY <1>10, <1>11, <2>3, <2>4, <2>5, <2>7, <2>8
<1>12. CASE name = "exec_transaction"
  <2>1. all = <<<<"MULTI">>, Queued, Queued, <<"EXEC">>>> BY <1>12 DEF Commands
  <2>2. Len(all) = 4 /\ q = 6 BY <1>1, <1>12, CommandsAre
  <2>3. k \in 0..3 /\ m = k
    <3> HIDE DEF k, m
    <3>1. k \in 0..3 BY <1>7, <2>2
    <3> QED BY <1>9, <3>1
  <2>4. cmd[1] = IF k = 0 THEN "MULTI" ELSE IF k = 3 THEN "EXEC" ELSE "INCR"
    <3>1. k = 0 \/ k = 1 \/ k = 2 \/ k = 3
      <4> HIDE DEF k
      <4> QED BY <2>3
    <3> HIDE DEF k
    <3>2. CASE k = 0 BY <1>6, <2>1, <3>2
    <3>3. CASE k = 1 BY <1>6, <2>1, <3>3 DEF Queued
    <3>4. CASE k = 2 BY <1>6, <2>1, <3>4 DEF Queued
    <3>5. CASE k = 3 BY <1>6, <2>1, <3>5
    <3> QED BY <3>1, <3>2, <3>3, <3>4, <3>5
  <2>5. multi # "no" <=> k \in 1..3 BY <1>5, <1>12
  <2> HIDE DEF k, m, q, all, cmd
  <2>6. \A j \in 1..3 : j \in Sayings(name, j) BY DEF Sayings
  <2>7. {4, 6} = Sayings(name, 4) BY <1>12 DEF Sayings
  <2>8. CASE k = 0
    <3>1. multi' = "open" /\ units = <<Status("OK")>> BY <2>4, <2>8 DEF Saying, cmd
    <3>2. m + 1 = 1 /\ k + 1 = 1 BY <2>3, <2>8
    <3>3. Status("OK") \in Possible(name, 1) BY <1>12 DEF Possible
    <3> QED BY <1>10, <1>12, <2>2, <2>6, <3>1, <3>2, <3>3
  <2>9. CASE k \in {1, 2}
    <3>1. PICK r \in {Status("QUEUED")} \cup Errors : units = <<r>> /\ multi' # "no"
      <4>1. cmd[1] = "INCR" /\ multi # "no" BY <2>4, <2>5, <2>9
      <4> QED BY <4>1 DEF Saying, cmd
    <3>2. m + 1 = k + 1 /\ k + 1 \in {2, 3} BY <2>3, <2>9
    <3>3. r \in Possible(name, k + 1) BY <1>12, <3>2 DEF Possible
    <3>4. k + 1 \in 1..3 /\ k + 1 <= 6 BY <3>2
    <3>5. k + 1 \in Sayings(name, k + 1) BY <2>6, <3>4
    <3> QED BY <1>10, <1>12, <2>2, <3>1, <3>2, <3>3, <3>4, <3>5
  <2>10. CASE k = 3
    <3>1. /\ cmd[1] = "EXEC" /\ multi' = "no"
          /\ \/ \E r \in {Reply("int", <<"2">>)} \cup Errors :
                  units = <<Reply("header", <<"2">>), r, Reply("int", <<"2">>)>>
             \/ \E r \in Errors : units = <<r>>
      <4>1. cmd[1] = "EXEC" BY <2>4, <2>10
      <4> QED BY <4>1 DEF Saying, cmd
    <3>2. m + 1 = 4 /\ k + 1 = 4 BY <2>3, <2>10
    <3>3. CASE \E r \in Errors : units = <<r>>
      <4>1. PICK r \in Errors : units = <<r>> BY <3>3
      <4>2. r \in Possible(name, 4) BY <1>12 DEF Possible
      <4>3. 4 \in Sayings(name, 4) /\ ~(4 \in 1..3) /\ 4 <= 6 BY <2>7
      <4> QED BY <1>10, <2>2, <3>1, <3>2, <4>1, <4>2, <4>3
    <3>4. CASE \E r \in {Reply("int", <<"2">>)} \cup Errors :
                 units = <<Reply("header", <<"2">>), r, Reply("int", <<"2">>)>>
      <4>1. PICK r \in {Reply("int", <<"2">>)} \cup Errors :
              units = <<Reply("header", <<"2">>), r, Reply("int", <<"2">>)>>
        BY <3>4
      <4>2. /\ Reply("header", <<"2">>) \in Possible(name, 4) /\ r \in Possible(name, 5)
            /\ Reply("int", <<"2">>) \in Possible(name, 6)
        BY <1>12 DEF Possible
      <4>3. Len(units) = 3 /\ units[1] = Reply("header", <<"2">>) /\ units[2] = r
            /\ units[3] = Reply("int", <<"2">>)
        BY <4>1
      <4>4. Place_(1) = 4 /\ Place_(2) = 5 /\ Place_(3) = 6
        <5>1. m = 3 BY <2>3, <2>10
        <5>2. \A j : Place_(j) = m + j BY DEF Place_, m
        <5> QED BY <5>1, <5>2
      <4>5. \A j \in 1..Len(units) : Place_(j) <= 6 /\ units[j] \in Possible(name, Place_(j))
        <5>1. \A j \in 1..Len(units) : j = 1 \/ j = 2 \/ j = 3 BY <4>3
        <5> QED BY <4>2, <4>3, <4>4, <5>1
      <4>6. Place_(Len(units)) \in Sayings(name, k + 1) BY <2>7, <3>2, <4>3, <4>4
      <4>7. k + 1 \notin 1..3 BY <3>2
      <4> QED BY <2>2, <3>1, <4>5, <4>6, <4>7 DEF Suits, k, all, q
    <3> QED BY <3>1, <3>3, <3>4
  <2> QED BY <2>3, <2>8, <2>9, <2>10
<1> QED BY <1>11, <1>12

\* The server answers a command.
LEMMA AnswerKeeps == ASSUME IInv, Answer PROVE IInv'
<1> DEFINE first == FirstCommand(asked)
           cmd == Head(due).cmd
           verb == first.args[1][1]
           words == [i \in DOMAIN first.args |-> first.args[i][1]]
           next == From(asked, first.next)
<1>1. first.ok BY DEF Answer
<1>2. /\ ~closed /\ due # <<>> /\ Head(due) \in DueItems /\ Tail(due) \in Seq(DueItems)
      /\ Head(due) = due[1] /\ cmd \in Cmds /\ verb = cmd[1] /\ words = cmd
      /\ next \in Strings /\ next \o unsent = Requests(Tail(due))
  BY <1>1, Answering
<1>3. /\ asked' = next /\ due' = Tail(due)
      /\ UNCHANGED <<clientVars, closed, sock, took, slipped>>
  BY DEF Answer, From
<1>4. \/ verb = "MULTI" /\ multi' = "open" /\ Says(<<Status("OK")>>)
      \/ verb = "EXEC" /\ multi = "open" /\ multi' = "no"
         /\ \E r \in {Reply("int", <<"2">>)} \cup Errors :
              Says(<<Reply("header", <<"2">>), r, Reply("int", <<"2">>)>>)
      \/ verb = "EXEC" /\ multi = "failed" /\ multi' = "no" /\ \E r \in Errors : Says(<<r>>)
      \/ verb \notin {"MULTI", "EXEC"} /\ multi # "no" /\ UNCHANGED multi
         /\ Says(<<Status("QUEUED")>>)
      \/ verb \notin {"MULTI", "EXEC"} /\ multi # "no" /\ multi' = "failed"
         /\ \E r \in Errors : Says(<<r>>)
      \/ verb \notin {"MULTI", "EXEC"} /\ multi = "no" /\ UNCHANGED multi
         /\ \E r \in Answers(words) \cup Errors : Says(<<r>>)
  BY Zenon DEF Answer
<1> HIDE DEF verb, words, next, first
<1>5. PICK units : Saying(cmd, units) /\ Says(units)
  <2> HIDE DEF cmd
  <2>1. CASE verb = "MULTI" /\ multi' = "open" /\ Says(<<Status("OK")>>)
    <3>1. Saying(cmd, <<Status("OK")>>) BY <1>2, <2>1 DEF Saying
    <3> QED BY <2>1, <3>1
  <2>2. CASE /\ verb = "EXEC" /\ multi = "open" /\ multi' = "no"
             /\ \E r \in {Reply("int", <<"2">>)} \cup Errors :
                  Says(<<Reply("header", <<"2">>), r, Reply("int", <<"2">>)>>)
    <3>1. PICK r \in {Reply("int", <<"2">>)} \cup Errors :
            Says(<<Reply("header", <<"2">>), r, Reply("int", <<"2">>)>>)
      BY <2>2
    <3>2. Saying(cmd, <<Reply("header", <<"2">>), r, Reply("int", <<"2">>)>>)
      BY <1>2, <2>2 DEF Saying
    <3> QED BY <3>1, <3>2
  <2>3. CASE verb = "EXEC" /\ multi = "failed" /\ multi' = "no" /\ \E r \in Errors : Says(<<r>>)
    <3>1. PICK r \in Errors : Says(<<r>>) BY <2>3
    <3>2. Saying(cmd, <<r>>) BY <1>2, <2>3 DEF Saying
    <3> QED BY <3>1, <3>2
  <2>4. CASE /\ verb \notin {"MULTI", "EXEC"} /\ multi # "no" /\ UNCHANGED multi
             /\ Says(<<Status("QUEUED")>>)
    <3>1. Saying(cmd, <<Status("QUEUED")>>) BY <1>2, <2>4 DEF Saying
    <3> QED BY <2>4, <3>1
  <2>5. CASE /\ verb \notin {"MULTI", "EXEC"} /\ multi # "no" /\ multi' = "failed"
             /\ \E r \in Errors : Says(<<r>>)
    <3>1. PICK r \in Errors : Says(<<r>>) BY <2>5
    <3>2. Saying(cmd, <<r>>) BY <1>2, <2>5 DEF Saying
    <3> QED BY <3>1, <3>2
  <2>6. CASE /\ verb \notin {"MULTI", "EXEC"} /\ multi = "no" /\ UNCHANGED multi
             /\ \E r \in Answers(words) \cup Errors : Says(<<r>>)
    <3>1. PICK r \in Answers(cmd) \cup Errors : Says(<<r>>) BY <1>2, <2>6
    <3>2. Saying(cmd, <<r>>) BY <1>2, <2>6 DEF Saying
    <3> QED BY <3>1, <3>2
  <2> QED BY Zenon, <1>4, <2>1, <2>2, <2>3, <2>4, <2>5, <2>6
<1>6. /\ units \in Seq(Replies) /\ units # <<>> /\ multi' \in {"no", "open", "failed"}
      /\ cmd[1] # "EXEC" => Len(units) = 1
  <2>1. multi \in {"no", "open", "failed"} BY DEF IInv, Types
  <2> HIDE DEF cmd
  <2> QED BY <1>5, <2>1, SayingIs
<1>7. ASSUME pc # "idle", ~slipped PROVE Suits(units)
  BY <1>2, <1>5, <1>7, SayingSuits
<1>8. ASSUME pc # "idle", Late, Own(Head(due)) PROVE Len(units) = 1
  <2>1. OwnLast BY <1>2, <1>8 DEF IInv, LateOnly
  <2>2. due \in Seq(DueItems) BY DEF IInv, Types
  <2>3. 1 \in 1..Len(due)
    <3>1. Len(due) \in Nat /\ Len(due) # 0 BY <1>2, <2>2, LenProperties, EmptySeq
    <3> QED BY <3>1
  <2>4. due[1].cmd[1] # "EXEC" BY <1>2, <1>8, <2>1, <2>3 DEF OwnLast
  <2>5. cmd[1] # "EXEC" BY <1>2, <2>4
  <2> QED BY <1>6, <2>5
<1>9. asked' \in Strings /\ asked' \o unsent = Requests(Tail(due)) BY <1>2, <1>3
<1> HIDE DEF cmd
<1> QED BY <1>2, <1>3, <1>5, <1>6, <1>7, <1>8, <1>9, SaysKeeps

\* IInv holds at the start.
LEMMA InitIs == Init => IInv
<1> SUFFICES ASSUME Init PROVE IInv OBVIOUS
<1>1. /\ name = "none" /\ pc = "idle" /\ unsent = <<>> /\ todo = <<>>
      /\ rd = Fresh /\ got = <<>> /\ outcome = Value(<<>>)
      /\ sock = <<>> /\ wire = <<>> /\ closed = FALSE /\ asked = <<>> /\ multi = "no"
      /\ due = <<>> /\ owed = <<>> /\ took = <<>> /\ slipped = FALSE
  BY DEF Init
<1>2. /\ <<>> \in Strings /\ <<>> \in Seq(DueItems) /\ <<>> \in Seq(OwedItems)
      /\ <<>> \in Seq(Raws)
  <2> HIDE DEF DueItems, OwedItems, Raws
  <2> QED BY DEF Strings
<1>3. Types
  <2>1. outcome.t = "value" BY <1>1 DEF Value
  <2> QED BY <1>1, <1>2, <2>1, FreshIs DEF Types
<1>4. Sent
  <2>1. <<>> \o <<>> = <<>> BY <1>2, NothingConcat
  <2> QED BY <1>1, <2>1, RequestsIs DEF Sent
<1>5. Idle BY <1>1 DEF Idle
<1>6. Running BY <1>1 DEF Running
<1>7. InLine BY <1>1 DEF InLine, Fresh
<1>8. InStream BY <1>1 DEF InStream, Steps
<1>9. Aligned
  <2>1. <<>> \o <<>> = <<>> BY <1>2, NothingConcat
  <2> QED BY <1>1, <2>1, CatIs DEF Aligned
<1>10. Account BY <1>1 DEF Account
<1>11. Answered
  <2>1. Len(<<>>) = 0 OBVIOUS
  <2>2. \A i \in 1..0 : FALSE OBVIOUS
  <2> QED BY <1>1, <2>1, <2>2 DEF Answered
<1>12. LateOnly BY <1>1 DEF LateOnly, Late
<1> QED BY <1>3, <1>4, <1>5, <1>6, <1>7, <1>8, <1>9, <1>10, <1>11, <1>12 DEF IInv

\* IInv is kept when nothing happens.
LEMMA StayKeeps == ASSUME IInv, UNCHANGED vars PROVE IInv'
<1>1. UNCHANGED <<name, pc, unsent, todo, rd, got, outcome, closed, asked, multi, sock, wire,
                  due, owed, took, slipped>>
  BY DEF vars, clientVars, serverVars, history
<1>2. Types' BY <1>1 DEF IInv, Types
<1>3. Sent' BY <1>1 DEF IInv, Sent
<1>4. Idle' BY <1>1 DEF IInv, Idle
<1>5. Running' BY <1>1 DEF IInv, Running, Late
<1>6. InLine' BY <1>1 DEF IInv, InLine
<1>7. InStream' BY <1>1 DEF IInv, InStream
<1>8. Aligned' BY <1>1 DEF IInv, Aligned, Late
<1>9. Account'
  <2>1. ForReaders <=> ForReaders' BY <1>1 DEF ForReaders, Own
  <2>2. ForServer <=> ForServer' BY <1>1 DEF ForServer
  <2> QED BY <1>1, <2>1, <2>2 DEF IInv, Account
<1>10. Answered' BY <1>1 DEF IInv, Answered, Own, Late
<1>11. LateOnly'
  <2>1. LateEnd <=> LateEnd' BY <1>1 DEF LateEnd, Own
  <2>2. OwnLast <=> OwnLast' BY <1>1 DEF OwnLast, Own
  <2> QED BY <1>1, <2>1, <2>2 DEF IInv, LateOnly, Late
<1> QED BY <1>2, <1>3, <1>4, <1>5, <1>6, <1>7, <1>8, <1>9, <1>10, <1>11 DEF IInv

\* IInv is kept by every step.
LEMMA NextKeeps == ASSUME IInv, [Next]_vars PROVE IInv'
<1>1. ASSUME NEW c \in AllCalls, Begin(c) PROVE IInv' BY <1>1, BeginKeeps
<1>2. ASSUME Client PROVE IInv'
  <2>1. ASSUME NEW n \in Pieces \cup {Len(unsent)}, WriteSome(n) PROVE IInv'
    <3>1. n \in Nat
      <4>1. unsent \in Strings BY DEF IInv, Types
      <4>2. Len(unsent) \in Nat BY <4>1, LenProperties DEF Strings
      <4> QED BY <4>2, SessionAssumption
    <3> QED BY <2>1, <3>1, WriteKeeps
  <2> QED BY <1>2, <2>1, PeekKeeps, TakeKeeps, DecodeKeeps, ReadBodyKeeps, ErrorKeeps DEF Client
<1>3. ASSUME Delivery PROVE IInv'
  <2>1. PICK n \in Segments \cup {Len(wire)} : Arrive(n) BY <1>3 DEF Delivery
  <2>2. n \in Nat
    <3>1. wire \in Strings BY DEF IInv, Types
    <3>2. Len(wire) \in Nat BY <3>1, LenProperties DEF Strings
    <3> QED BY <3>2, SessionAssumption
  <2> QED BY <2>1, <2>2, ArriveKeeps
<1> QED BY <1>1, <1>2, <1>3, AnswerKeeps, LoseKeeps, StayKeeps DEF Next

\* IInv holds in every state, for any calls, payloads, buffer, pieces and segments.
THEOREM Inductive == Spec => []IInv
<1>1. IInv /\ [Next]_vars => IInv' BY NextKeeps
<1> QED BY <1>1, InitIs, PTL DEF Spec

-----------------------------------------------------------------------------

\* However the request was cut into pieces.

LEMMA RequestExactIs == IInv => RequestExact
<1> SUFFICES ASSUME IInv, FirstCommand(asked).ok
             PROVE  /\ due # <<>>
                    /\ FirstCommand(asked).args = Params(Head(due).cmd)
  BY DEF RequestExact, Params
<1> QED BY Answering

\* Between two replies the stream holds whole replies.
LEMMA InStepIs == IInv => InStep
<1> SUFFICES ASSUME IInv, ~closed, slipped => name \in Pipelines,
                    pc = "idle" \/ (pc = "line" /\ rd = Fresh)
             PROVE  sock \o wire = FlattenSeq([i \in DOMAIN owed |-> Bytes(owed[i].reply)])
  BY DEF InStep
<1>a. /\ owed \in Seq(OwedItems) /\ sock \in Strings /\ wire \in Strings /\ closed = FALSE
  BY DEF IInv, Types
<1>1. sock \o wire = Cat(owed)
  <2>1. CASE pc = "idle" BY <2>1 DEF IInv, Aligned, Late
  <2>2. CASE pc = "line" /\ rd = Fresh
    <3>1. ~slipped BY <2>2 DEF IInv, Running, Late
    <3>2. InStep_(owed, Fresh, "line", sock, wire, FALSE)
      BY <1>a, <2>2, <3>1 DEF IInv, InStream, Steps
    <3>3. Follows(Given(Fresh, "line") \o Unread(Fresh, "line", sock, wire),
                  Expected(owed, Fresh, "line"), FALSE)
      BY <3>2 DEF InStep_
    <3>4. /\ Given(Fresh, "line") \o Unread(Fresh, "line", sock, wire) = sock \o wire
          /\ Expected(owed, Fresh, "line") = Cat(owed)
      BY <1>a, FreshStream
    <3> QED BY <3>3, <3>4 DEF Follows
  <2> QED BY <2>1, <2>2
<1>2. [i \in DOMAIN owed |-> ReplyOf[owed[i]]] = [i \in DOMAIN owed |-> Bytes(owed[i].reply)]
  <2>1. \A i \in DOMAIN owed : owed[i] \in OwedItems BY <1>a, LenProperties, ElementOfSeq
  <2>2. \A i \in DOMAIN owed : ReplyOf[owed[i]] = Bytes(owed[i].reply) BY <2>1 DEF ReplyOf
  <2> QED BY <2>2
<1> QED BY <1>1, <1>2 DEF Cat, FlatOf

\* IInv has the parts of StreamSafe.
LEMMA StreamSafeIs == IInv => StreamSafe
<1> SUFFICES ASSUME IInv PROVE StreamSafe OBVIOUS
<1>a. took \in Seq(OwedItems) /\ owed \in Seq(OwedItems) BY DEF IInv, Types
<1>b. DOMAIN took = 1..Len(took) /\ DOMAIN owed = 1..Len(owed) BY <1>a, LenProperties
<1>1. TypeOK BY DEF IInv, Types, TypeOK, Steps, Reads
<1>2. InStep BY InStepIs
<1>3. OwnAnswer
  <2> SUFFICES ASSUME NEW i \in DOMAIN took, took[i].from = "old", ~slipped PROVE FALSE
    BY DEF OwnAnswer
  <2>1. Own(took[i]) BY <1>b DEF IInv, Answered
  <2> QED BY <2>1 DEF Own
<1>4. OnlyPipelinesSlip
  <2> SUFFICES ASSUME pc = "idle", ~closed, NEW i \in DOMAIN owed, owed[i].from = "own",
                      name \notin Pipelines
               PROVE  \E j \in DOMAIN took : took[j].from = "old"
    BY DEF OnlyPipelinesSlip
  <2>1. slipped
    <3> SUFFICES ASSUME ~slipped PROVE FALSE OBVIOUS
    <3>1. owed = <<>> BY DEF IInv, Idle
    <3> QED BY <3>1
  <2>2. LateEnd BY <2>1 DEF IInv, LateOnly, Late
  <2>3. PICK j \in 1..Len(took) : ~Own(took[j]) BY <1>b, <2>2 DEF LateEnd, Own
  <2>4. took[j] \in OwedItems BY <1>a, <2>3, ElementOfSeq
  <2>5. took[j].from = "old" BY <2>3, <2>4 DEF OwedItems, Origins, Own
  <2> QED BY <1>b, <2>3, <2>5
<1> QED BY <1>1, <1>2, <1>3, <1>4 DEF StreamSafe

\* What was returned is what was said.
LEMMA AnswerExactIs == IInv => AnswerExact
<1> SUFFICES ASSUME IInv, slipped => name \in Pipelines, NEW i \in DOMAIN got,
                    Readers(name)[i] # "ok"
             PROVE  got[i] = Handed(Readers(name)[i], took[i].reply)
  BY DEF AnswerExact
<1>1. got \in Seq(Raws) BY DEF IInv, Types
<1>2. i \in 1..Len(got) BY <1>1, LenProperties
<1> QED BY <1>2 DEF IInv, Answered, Late

\* RequestExact: however send_ cuts a request into pieces, the server reads the
\* commands of the call as they were built.
THEOREM RequestsRight == Spec => []RequestExact
BY Inductive, RequestExactIs, PTL

\* StreamSafe: the stream of a connection stays in step over any sequence of calls,
\* and no call is given the reply of another.
THEOREM StreamRight == Spec => []StreamSafe
BY Inductive, StreamSafeIs, PTL

\* AnswerExact: a call returns what the server said, however its bytes arrive.
THEOREM AnswersRight == Spec => []AnswerExact
BY Inductive, AnswerExactIs, PTL

-----------------------------------------------------------------------------
(* Who throws                                                              *)

\* What the server may answer to each verb, errors apart.
LEMMA AnswerOf ==
  ASSUME NEW cmd, NEW r \in Answers(cmd)
  PROVE  /\ cmd[1] \in TextVerbs => r \in TextAnswers(cmd[1])
         /\ cmd[1] \in MultiVerbs => r \in MultiAnswers(cmd[1], "WITHSCORES" \in ToSet(cmd))
         /\ cmd[1] \in StatusVerbs => r \in Statuses(cmd[1])
         /\ cmd[1] = "APPEND" => r \in Ints({"4"})
         /\ cmd[1] # "SHUTDOWN"
         /\ cmd[1] \notin TextVerbs \cup MultiVerbs \cup StatusVerbs \cup {"ZRANK", "ZREVRANK"} =>
              r \in Ints(Counts)
<1> DEFINE verb == cmd[1]
           i01 == Ints({"0", "1"})
           i02 == Ints({"0", "2"})
           i4 == Ints({"4"})
           i2L == Ints({"2", Long})
           st == Statuses(verb)
           text == TextAnswers(verb)
           ranks == i02 \cup {Nil}
           scores == "WITHSCORES" \in ToSet(cmd)
           m == MultiAnswers(verb, scores)
           A == Answers(cmd)
           all == Ints(Counts)
<1>1. A = CASE verb \in TextVerbs             -> text
            [] verb \in MultiVerbs            -> m
            [] verb \in IntVerbs01            -> i01
            [] verb \in {"ZRANK", "ZREVRANK"} -> ranks
            [] verb \in StatusVerbs           -> st
            [] verb = "APPEND"                -> i4
            [] verb = "INCR"                  -> i2L
            [] verb = "SHUTDOWN"              -> {}
            [] OTHER                          -> i02
  BY DEF Answers
<1>2. i01 \subseteq all /\ i02 \subseteq all /\ i4 \subseteq all /\ i2L \subseteq all
  BY DEF Ints, Counts
<1>3. /\ verb \in TextVerbs => /\ verb \notin MultiVerbs \cup IntVerbs01 \cup StatusVerbs
                               /\ verb \notin {"ZRANK", "ZREVRANK", "APPEND", "INCR", "SHUTDOWN"}
      /\ verb \in MultiVerbs => /\ verb \notin IntVerbs01 \cup StatusVerbs
                                /\ verb \notin {"ZRANK", "ZREVRANK", "APPEND", "INCR", "SHUTDOWN"}
      /\ verb \in IntVerbs01 => /\ verb \notin StatusVerbs
                                /\ verb \notin {"ZRANK", "ZREVRANK", "APPEND", "INCR", "SHUTDOWN"}
      /\ verb \in StatusVerbs => verb \notin {"ZRANK", "ZREVRANK", "APPEND", "INCR", "SHUTDOWN"}
  BY DEF StatusVerbs, TextVerbs, BulkVerbs, MultiVerbs, ListVerbs, RangeVerbs, IntVerbs01
<1>4. r \in A OBVIOUS
<1> HIDE DEF A, i01, i02, i4, i2L, st, text, m, ranks, all, verb
<1>5. /\ verb \in TextVerbs => A = text
      /\ verb \in MultiVerbs => A = m
      /\ verb \in StatusVerbs => A = st
      /\ verb = "APPEND" => A = i4
      /\ verb = "SHUTDOWN" => A = {}
      /\ verb \notin TextVerbs \cup MultiVerbs \cup StatusVerbs \cup {"ZRANK", "ZREVRANK"} =>
           A = i01 \/ A = i4 \/ A = i2L \/ A = {} \/ A = i02
  <2>1. verb \in TextVerbs => A = text BY <1>1, <1>3
  <2>2. verb \in MultiVerbs => A = m BY <1>1, <1>3
  <2>3. verb \in StatusVerbs => A = st BY <1>1, <1>3
  <2>4. verb = "APPEND" => A = i4 BY <1>1, <1>3
  <2>5. verb = "SHUTDOWN" => A = {} BY <1>1, <1>3
  <2>6. CASE verb \notin TextVerbs /\ verb \notin MultiVerbs /\ verb \notin StatusVerbs
              /\ verb # "ZRANK" /\ verb # "ZREVRANK"
    <3>1. CASE verb \in IntVerbs01
      <4>1. A = i01 BY <1>1, <1>3, <2>6, <3>1
      <4> QED BY <2>1, <2>2, <2>3, <2>4, <2>5, <4>1
    <3>2. CASE verb \notin IntVerbs01 /\ verb # "APPEND" /\ verb # "INCR" /\ verb # "SHUTDOWN"
      <4>1. A = i02 BY <1>1, <2>6, <3>2
      <4> QED BY <2>1, <2>2, <2>3, <2>4, <2>5, <4>1
    <3>3. CASE verb \notin IntVerbs01 /\ verb = "INCR"
      <4>1. A = i2L BY <1>1, <2>6, <3>3
      <4> QED BY <2>1, <2>2, <2>3, <2>4, <2>5, <4>1
    <3> QED BY <2>1, <2>2, <2>3, <2>4, <2>5, <3>1, <3>2, <3>3
  <2> QED BY <2>1, <2>2, <2>3, <2>4, <2>5, <2>6
<1>6. /\ verb \in TextVerbs => r \in text
      /\ verb \in MultiVerbs => r \in m
      /\ verb \in StatusVerbs => r \in st
      /\ verb = "APPEND" => r \in i4
      /\ verb # "SHUTDOWN"
      /\ verb \notin TextVerbs \cup MultiVerbs \cup StatusVerbs \cup {"ZRANK", "ZREVRANK"} =>
           r \in all
  BY <1>2, <1>4, <1>5
<1> QED BY <1>6 DEF verb, text, m, st, i4, all

\* A reader that a reply does not make throw, a nil multi bulk apart.
Welcome(reader, r) ==
  /\ reader \in {"ok", "line", "queued"} => r.t = "status"
  /\ reader = "ok" => r.v = <<"OK">>
  /\ reader = "queued" => r.v = <<"QUEUED">>
  /\ reader \in {"int", "generic"} => r.t = "int" /\ Whole(r.v)
  /\ reader # "intok"
  /\ reader = "header" => r.t = "header"
  /\ reader = "bulk" => r.t \in {"bulk", "nil"}
  /\ reader = "multi" => r.t \in {"multi", "nilmulti"}

\* The numbers the server says are numerals.
LEMMA SmallNumerals ==
  /\ \A x \in {"0", "1", "2", "4"} : Numeric(<<x>>)
  /\ Number("4") = 4
  /\ \A r \in Ints(Counts) : r.t = "int" /\ Whole(r.v)
<1>1. 0 \in 0..Most /\ 1 \in 0..Most /\ 2 \in 0..Most /\ 4 \in 0..Most BY NumeralAssumption
<1>2. Numerals[0] = "0" /\ Numerals[1] = "1" /\ Numerals[2] = "2" /\ Numerals[4] = "4"
  BY NumeralAssumption, DigitAssumption
<1>3. Numeric(<<"0">>) /\ Numeric(<<"1">>) /\ Numeric(<<"2">>) /\ Numeric(<<"4">>)
      /\ Number("4") = 4
  BY <1>1, <1>2, NumeralIs
<1>4. \A x \in {"0", "1", "2", "4"} : Numeric(<<x>>) BY <1>3
<1>5. ASSUME NEW r \in Ints(Counts) PROVE r.t = "int" /\ Whole(r.v)
  <2>1. PICK x \in Counts : r = Reply("int", <<x>>) BY DEF Ints
  <2>2. r.t = "int" /\ r.v = <<x>> BY <2>1 DEF Reply
  <2>3. x \in {"0", "1", "2", "4"} \/ x = Long BY DEF Counts
  <2> HIDE DEF Long
  <2> QED BY <1>4, <2>2, <2>3 DEF Whole
<1> QED BY <1>3, <1>4, <1>5

\* The answers that are statuses, bulks and multi bulks.
LEMMA KindOf ==
  /\ \A verb, r : r \in Statuses(verb) =>
       r.t = "status" /\ (verb \notin {"TYPE", "BGSAVE"} => r.v = <<"OK">>)
         /\ (verb = "BGSAVE" => r.v = <<"Background saving started">>)
  /\ \A verb, r : r \in TextAnswers(verb) =>
       r.t \in {"bulk", "nil"} /\ (verb = "ZINCRBY" => r.t = "bulk" /\ r.v = <<"2">>)
  /\ \A verb, f, r : r \in MultiAnswers(verb, f) =>
       /\ r.t \in {"multi", "nilmulti"}
       /\ r.t = "nilmulti" => verb \in {"BLPOP", "BRPOP"}
       /\ verb \in RangeVerbs /\ f => r \in Scored
<1>1. ASSUME NEW verb, NEW r \in Statuses(verb)
      PROVE  r.t = "status" /\ (verb \notin {"TYPE", "BGSAVE"} => r.v = <<"OK">>)
               /\ (verb = "BGSAVE" => r.v = <<"Background saving started">>)
  <2>0. \A x : Status(x).t = "status" /\ Status(x).v = <<x>> BY DEF Status, Reply
  <2>1. CASE verb = "TYPE"
    <3>1. Statuses(verb) = {Status("none"), Status("hash"), Status("stream")}
      BY <2>1 DEF Statuses
    <3> QED BY <2>0, <2>1, <3>1
  <2>2. CASE verb = "BGSAVE"
    <3>1. Statuses(verb) = {Status("Background saving started")} BY <2>2, Zenon DEF Statuses
    <3> QED BY Zenon, <2>0, <2>2, <3>1
  <2>3. CASE verb \notin {"TYPE", "BGSAVE"}
    <3>1. Statuses(verb) = {Status("OK")} BY <2>3, Zenon DEF Statuses
    <3> QED BY Zenon, <2>0, <2>3, <3>1
  <2> QED BY Zenon, <2>1, <2>2, <2>3
<1>2. ASSUME NEW verb, NEW r \in TextAnswers(verb)
      PROVE  r.t \in {"bulk", "nil"} /\ (verb = "ZINCRBY" => r.t = "bulk" /\ r.v = <<"2">>)
  <2>0. \A x : Reply("bulk", x).t = "bulk" /\ Reply("bulk", x).v = x BY DEF Reply
  <2>1. Nil.t = "nil" /\ \A b \in Bulks : b.t = "bulk" BY <2>0 DEF Nil, Bulks, Reply
  <2> DEFINE two == Reply("bulk", <<"2">>)
             infos == {Reply("bulk", t) : t \in InfoTexts}
  <2>2. two.t = "bulk" /\ two.v = <<"2">> /\ \A b \in infos : b.t = "bulk" BY <2>0
  <2>3. /\ TextAnswers(verb) \in {{two, Nil}, {two}, infos, Bulks \cup {Nil}}
        /\ verb = "ZINCRBY" => TextAnswers(verb) = {two}
    BY DEF TextAnswers
  <2> HIDE DEF two, infos
  <2> QED BY <2>1, <2>2, <2>3
<1>3. ASSUME NEW verb, NEW f, NEW r \in MultiAnswers(verb, f)
      PROVE  /\ r.t \in {"multi", "nilmulti"}
             /\ r.t = "nilmulti" => verb \in {"BLPOP", "BRPOP"}
             /\ verb \in RangeVerbs /\ f => r \in Scored
  <2>0. \A x : Reply("multi", x).t = "multi" BY DEF Reply
  <2> DEFINE pairs == {Reply("multi", <<Reply("bulk", <<"key">>), b>>) : b \in Bulks}
             short == Lists \ {Reply("multi", <<Nil>>)}
  <2>1. /\ \A m \in pairs : m.t = "multi"
        /\ \A m \in Lists : m.t = "multi"
        /\ \A m \in short : m.t = "multi"
        /\ \A m \in Scored : m.t = "multi"
    BY <2>0 DEF Lists, Scored
  <2>2. CASE verb \in {"BLPOP", "BRPOP"}
    <3>1. MultiAnswers(verb, f) \in {pairs \cup {NilMulti}, Lists, Scored, short}
      BY DEF MultiAnswers
    <3>2. NilMulti.t = "nilmulti" BY DEF NilMulti, Reply
    <3>3. verb \notin RangeVerbs BY <2>2 DEF RangeVerbs
    <3> HIDE DEF pairs, short
    <3> QED BY <2>1, <2>2, <3>1, <3>2, <3>3
  <2>3. CASE verb \notin {"BLPOP", "BRPOP"} /\ verb \in ListVerbs
    <3>1. verb \notin RangeVerbs BY <2>3 DEF RangeVerbs, ListVerbs
    <3>2. MultiAnswers(verb, f) = Lists BY <2>3, <3>1 DEF MultiAnswers
    <3> QED BY <2>1, <3>1, <3>2
  <2>4. CASE verb \notin {"BLPOP", "BRPOP"} /\ verb \notin ListVerbs /\ verb \in RangeVerbs /\ f
    <3>1. MultiAnswers(verb, f) = Scored BY <2>4 DEF MultiAnswers
    <3> QED BY <2>1, <3>1
  <2>5. CASE verb \notin {"BLPOP", "BRPOP"} /\ verb \notin ListVerbs /\ ~(verb \in RangeVerbs /\ f)
    <3>1. MultiAnswers(verb, f) = short BY <2>5 DEF MultiAnswers
    <3> HIDE DEF short
    <3> QED BY <2>1, <2>5, <3>1
  <2> QED BY <2>2, <2>3, <2>4, <2>5
<1> QED BY Zenon, <1>1, <1>2, <1>3

\* The reader of a call that is not picky is run for a reply it expects.
LEMMA NamedWelcome ==
  ASSUME NEW c \in Names, c \notin Picky, NEW r \in Answers(SingleCommand(c))
  PROVE  /\ Welcome(Calls[c].read, r)
         /\ r.t = "nilmulti" => c \in {"blpop", "brpop"}
<1> DEFINE cmd == SingleCommand(c)
           verb == Calls[c].verb
           read == Calls[c].read
<1>1. c \in DOMAIN Calls \ Picky /\ c \in DOMAIN Calls BY SessionAssumption
<1>2. cmd[1] = verb BY <1>1, SingleIs
<1>3. /\ read \in {"ok", "line", "int", "intok", "bulk", "multi"}
      /\ read = "bulk" => verb \notin MultiVerbs
      /\ read = "multi" => verb \notin TextVerbs
      /\ read \notin {"bulk", "multi"} => verb \notin TextVerbs \cup MultiVerbs
  BY <1>1, TableAssumption
<1>4. /\ read = "ok" => verb \in StatusVerbs \cup {"SHUTDOWN"} /\ verb \notin {"TYPE", "BGSAVE"}
      /\ read = "line" => verb \in {"TYPE", "BGSAVE"}
      /\ read = "int" => verb \notin StatusVerbs \cup {"ZRANK", "ZREVRANK"}
      /\ read # "intok"
      /\ read = "bulk" => verb \in TextVerbs
      /\ read = "multi" => verb \in MultiVerbs
      /\ verb \in {"BLPOP", "BRPOP"} => c \in {"blpop", "brpop"}
  BY <1>1, ExpectedAssumption
<1> DEFINE scores == "WITHSCORES" \in ToSet(cmd)
           all == Ints(Counts)
<1> HIDE DEF scores, cmd, verb, read, all
<1>5. /\ verb \in TextVerbs => r \in TextAnswers(verb)
      /\ verb \in MultiVerbs => r \in MultiAnswers(verb, scores)
      /\ verb \in StatusVerbs => r \in Statuses(verb)
      /\ verb # "SHUTDOWN"
      /\ verb \notin TextVerbs \cup MultiVerbs \cup StatusVerbs \cup {"ZRANK", "ZREVRANK"} =>
           r \in all
  BY <1>2, AnswerOf DEF scores, cmd, all
<1>6. /\ r \in Statuses(verb) =>
           r.t = "status" /\ (verb \notin {"TYPE", "BGSAVE"} => r.v = <<"OK">>)
      /\ r \in TextAnswers(verb) => r.t \in {"bulk", "nil"}
      /\ r \in MultiAnswers(verb, scores) =>
           r.t \in {"multi", "nilmulti"} /\ (r.t = "nilmulti" => verb \in {"BLPOP", "BRPOP"})
      /\ r \in all => r.t = "int" /\ Whole(r.v)
  BY KindOf, SmallNumerals, Zenon DEF all
<1>7. {"TYPE", "BGSAVE"} \subseteq StatusVerbs BY DEF StatusVerbs
<1> DEFINE Good == Welcome(read, r) /\ (r.t = "nilmulti" => c \in {"blpop", "brpop"})
<1>8. CASE read = "ok"
  <2>1. r \in Statuses(verb) /\ verb \notin {"TYPE", "BGSAVE"} BY <1>4, <1>5, <1>8
  <2> QED BY <1>6, <1>8, <2>1 DEF Welcome, verb, read
<1>9. CASE read = "line"
  <2>1. r \in Statuses(verb) BY <1>4, <1>5, <1>7, <1>9
  <2> QED BY <1>6, <1>9, <2>1 DEF Welcome, verb, read
<1>10. CASE read = "int"
  <2>1. r \in all BY <1>3, <1>4, <1>5, <1>10
  <2>2. r.t = "int" /\ Whole(r.v) BY <1>6, <2>1
  <2> QED BY <1>10, <2>2 DEF Welcome, verb, read
<1>11. CASE read = "bulk"
  <2>1. r \in TextAnswers(verb) BY <1>4, <1>5, <1>11
  <2> QED BY <1>6, <1>11, <2>1 DEF Welcome, verb, read
<1>12. CASE read = "multi"
  <2>1. r \in MultiAnswers(verb, scores) BY <1>4, <1>5, <1>12
  <2> QED BY <1>4, <1>6, <1>12, <2>1 DEF Welcome, verb, read
<1> QED BY <1>3, <1>4, <1>8, <1>9, <1>10, <1>11, <1>12 DEF read

\* So is every reader of a pipelined call.
LEMMA PipedWelcome ==
  ASSUME NEW c \in Pipelines, c \notin Picky, NEW i \in 1..Len(Readers(c)),
         NEW r \in Possible(c, i), r.t # "error"
  PROVE  Welcome(Readers(c)[i], r) /\ r.t # "nilmulti"
<1>0. r \notin Errors BY ErrorsAre
<1>1. c \in {"sadd_range", "exec", "exec_transaction"} BY SessionAssumption DEF Picky
<1>2. CASE c = "sadd_range"
  <2> DEFINE a == SingleCommand("sadd")
  <2>1. a[1] = "SADD" BY TableAssumption
  <2>2. Commands(c) = <<a, a>> BY <1>2 DEF Commands
  <2>3. Readers(c) = <<"int", "int">> BY <1>2 DEF Readers
  <2> HIDE DEF a
  <2>4. i = 1 \/ i = 2 BY <2>3
  <2>5. r \in Answers(a) /\ Readers(c)[i] = "int"
    <3>1. r \in Answers(Commands(c)[i]) BY <1>0, <1>2 DEF Possible
    <3>2. Commands(c)[i] = a BY <2>2, <2>4
    <3> QED BY <2>3, <2>4, <3>1, <3>2
  <2>6. "SADD" \notin TextVerbs \cup MultiVerbs \cup StatusVerbs \cup {"ZRANK", "ZREVRANK"}
    BY DEF StatusVerbs, TextVerbs, BulkVerbs, MultiVerbs, ListVerbs, RangeVerbs
  <2>7. r \in Ints(Counts) BY <2>1, <2>5, <2>6, AnswerOf
  <2>8. r.t = "int" /\ Whole(r.v) BY <2>7, SmallNumerals
  <2> QED BY <2>5, <2>8 DEF Welcome
<1>3. CASE c = "exec"
  <2>1. Readers(c) = <<"generic", "generic">> BY <1>3 DEF Readers
  <2>2. Commands(c) = <<Queued, Queued>> BY <1>3 DEF Commands
  <2>3. i = 1 \/ i = 2 BY <2>1
  <2>4. r \in Answers(Queued) /\ Readers(c)[i] = "generic"
    <3>1. r \in Answers(Commands(c)[i]) BY <1>0, <1>3 DEF Possible
    <3>2. Commands(c)[i] = Queued BY <2>2, <2>3
    <3> QED BY <2>1, <2>3, <3>1, <3>2
  <2>5. Queued[1] \notin TextVerbs \cup MultiVerbs \cup StatusVerbs \cup {"ZRANK", "ZREVRANK"}
    BY DEF Queued, StatusVerbs, TextVerbs, BulkVerbs, MultiVerbs, ListVerbs, RangeVerbs
  <2>6. r \in Ints(Counts) BY <2>4, <2>5, AnswerOf
  <2>7. r.t = "int" /\ Whole(r.v) BY <2>6, SmallNumerals
  <2> QED BY <2>4, <2>7 DEF Welcome
<1>4. CASE c = "exec_transaction"
  <2>1. Readers(c) = <<"ok", "queued", "queued", "header", "generic", "generic">>
    BY <1>4 DEF Readers
  <2>2. i = 1 \/ i = 2 \/ i = 3 \/ i = 4 \/ i = 5 \/ i = 6 BY <2>1
  <2> DEFINE reader == Readers(c)[i]
  <2>3. \/ i = 1 /\ reader = "ok" /\ Possible(c, i) = {Status("OK")}
        \/ i \in {2, 3} /\ reader = "queued" /\ Possible(c, i) = {Status("QUEUED")} \cup Errors
        \/ i = 4 /\ reader = "header" /\ Possible(c, i) = {Reply("header", <<"2">>)} \cup Errors
        \/ i \in {5, 6} /\ reader = "generic"
             /\ Possible(c, i) = {Reply("int", <<"2">>)} \cup Errors
    <3>1. c # "exec_transaction" <=> FALSE BY <1>4
    <3>2. CASE i = 1
      <4>1. Possible(c, i) = {Status("OK")} BY <3>1, <3>2 DEF Possible
      <4> QED BY <2>1, <3>2, <4>1
    <3>3. CASE i \in {2, 3}
      <4>1. Possible(c, i) = {Status("QUEUED")} \cup Errors BY <3>1, <3>3 DEF Possible
      <4> QED BY <2>1, <3>3, <4>1
    <3>4. CASE i = 4
      <4>1. Possible(c, i) = {Reply("header", <<"2">>)} \cup Errors BY <3>1, <3>4 DEF Possible
      <4> QED BY <2>1, <3>4, <4>1
    <3>5. CASE i \in {5, 6}
      <4>1. Possible(c, i) = {Reply("int", <<"2">>)} \cup Errors BY <3>1, <3>5 DEF Possible
      <4> QED BY <2>1, <3>5, <4>1
    <3> QED BY <2>2, <3>2, <3>3, <3>4, <3>5
  <2> HIDE DEF reader
  <2>4. \/ reader = "ok" /\ r.t = "status" /\ r.v = <<"OK">>
        \/ reader = "queued" /\ r.t = "status" /\ r.v = <<"QUEUED">>
        \/ reader = "header" /\ r.t = "header"
        \/ reader = "generic" /\ r = Reply("int", <<"2">>)
    BY <1>0, <2>3 DEF Status, Reply
  <2>5. CASE reader = "generic"
    <3>1. r.t = "int" /\ r.v = <<"2">> BY <2>4, <2>5 DEF Reply
    <3>2. Whole(r.v) BY <3>1, SmallNumerals DEF Whole
    <3> QED BY <2>5, <3>1, <3>2 DEF Welcome, reader
  <2>6. CASE reader # "generic"
    <3>1. \/ reader = "ok" /\ r.t = "status" /\ r.v = <<"OK">>
          \/ reader = "queued" /\ r.t = "status" /\ r.v = <<"QUEUED">>
          \/ reader = "header" /\ r.t = "header"
      BY <2>4, <2>6
    <3> QED BY <3>1 DEF Welcome, reader
  <2> QED BY <2>5, <2>6
<1> QED BY <1>1, <1>2, <1>3, <1>4

\* A call makes a value of what it has read, if that is what it expects.
LEMMA ValueGiven ==
  ASSUME NEW c \in Names, c \notin Picky, NEW r \in Answers(SingleCommand(c)), NEW raw,
         Calls[c].read # "ok" => raw = Content(r), r.t # "nilmulti"
  PROVE  Give(Calls[c].give, raw).t = "value"
<1> DEFINE cmd == SingleCommand(c)
           verb == Calls[c].verb
           read == Calls[c].read
           give == Calls[c].give
<1>1. c \in DOMAIN Calls \ Picky /\ c \in DOMAIN Calls BY SessionAssumption
<1>2. cmd[1] = verb BY <1>1, SingleIs
<1>3. \A v : Value(v).t = "value" BY DEF Value
<1>4. /\ read = "ok" => give = "void"
      /\ \/ give \in {"void", "is1", "not0", "value", "datatype", "pairs", "set", "second"}
         \/ give = "size" /\ verb = "APPEND" /\ read = "int"
         \/ give = "saving" /\ verb = "BGSAVE" /\ read = "line"
         \/ give = "double" /\ verb = "ZINCRBY"
         \/ give = "scores" /\ verb \in RangeVerbs /\ "WITHSCORES" \in ToSet(cmd)
  BY <1>1, ExpectedAssumption
<1> HIDE DEF cmd, verb, read, give
<1>5. read = "ok" \/ raw = Content(r) BY DEF read
<1>6. CASE give \in {"void", "is1", "not0", "value", "datatype", "pairs", "set", "second"}
  BY <1>3, <1>6, Zenon DEF Give, give
<1>7. CASE give = "size" /\ verb = "APPEND"
  <2>1. r \in Ints({"4"}) BY <1>2, <1>7, AnswerOf DEF cmd
  <2>2. r = Reply("int", <<"4">>) BY <2>1 DEF Ints
  <2>3. raw = <<"4">> BY <1>4, <1>5, <1>7, <2>2 DEF Content, Reply
  <2>4. Len(Param("value")) = 3
    <3>1. Param("value") = <<"value">> \o EOL BY DEF Param
    <3>2. "value" \in STRING BY Zenon, WordsAssumption
    <3> DEFINE a == <<"value">>
    <3>3. a \in Strings /\ Len(a) = 1 BY <3>2, WordIs
    <3>4. EOL \in Strings /\ Len(EOL) = 2 BY LineEnd
    <3> HIDE DEF a
    <3>5. Len(a \o EOL) = Len(a) + Len(EOL) BY <3>3, <3>4, StringsConcat
    <3>6. Len(a \o EOL) = 3 BY <3>3, <3>4, <3>5
    <3> QED BY <3>1, <3>6 DEF a
  <2>5. Number(raw[1]) >= Len(Param("value"))
    <3>1. raw[1] = "4" BY <2>3
    <3>2. Number(raw[1]) = 4 BY <3>1, SmallNumerals, Zenon
    <3> DEFINE n == Number(raw[1])
               l == Len(Param("value"))
    <3>3. n = 4 /\ l = 3 BY <2>4, <3>2
    <3> HIDE DEF n, l
    <3>4. n >= l BY <3>3
    <3> QED BY <3>4 DEF n, l
  <2>6. Give(give, raw) = Value(raw) BY <1>7, <2>5 DEF Give
  <2> QED BY <1>3, <2>6 DEF give
<1>8. CASE give = "saving" /\ verb = "BGSAVE"
  <2>1. "BGSAVE" \in StatusVerbs BY DEF StatusVerbs
  <2>2. r \in Statuses(verb) BY <1>2, <1>8, <2>1, AnswerOf DEF cmd
  <2>3. r.t = "status" /\ r.v = <<"Background saving started">> BY Zenon, <1>8, <2>2, KindOf
  <2>4. raw[1] = "Background saving started"
    <3>1. Content(r) = r.v BY <2>3, Zenon DEF Content
    <3>2. read # "ok" BY <1>4, <1>8
    <3>3. raw = <<"Background saving started">> BY Zenon, <1>5, <2>3, <3>1, <3>2
    <3> QED BY Zenon, <3>3
  <2>5. Give(give, raw) = Value(<<>>) BY <1>8, <2>4, Zenon DEF Give
  <2> QED BY <1>3, <2>5 DEF give
<1>9. CASE give = "double" /\ verb = "ZINCRBY"
  <2>1. "ZINCRBY" \in TextVerbs BY DEF TextVerbs
  <2>2. r \in TextAnswers(verb) BY <1>2, <1>9, <2>1, AnswerOf DEF cmd
  <2>3. r.t = "bulk" /\ r.v = <<"2">> BY Zenon, <1>9, <2>2, KindOf
  <2>4. raw = <<"2">> BY <1>4, <1>5, <1>9, <2>3 DEF Content
  <2>5. Numeric(raw) BY <2>4, SmallNumerals
  <2>6. Give(give, raw) = Value(raw) BY <1>9, <2>5 DEF Give
  <2> QED BY <1>3, <2>6 DEF give
<1>10. CASE give = "scores" /\ verb \in RangeVerbs /\ "WITHSCORES" \in ToSet(cmd)
  <2> DEFINE two == Reply("bulk", <<"2">>)
             f == "WITHSCORES" \in ToSet(cmd)
  <2>1. verb \in MultiVerbs BY <1>10 DEF MultiVerbs
  <2>2. r \in MultiAnswers(verb, f)
    <3>1. cmd[1] \in MultiVerbs => r \in MultiAnswers(cmd[1], "WITHSCORES" \in ToSet(cmd))
      BY AnswerOf DEF cmd
    <3> QED BY <1>2, <2>1, <3>1
  <2>3. r \in Scored
    <3>1. f BY <1>10
    <3> HIDE DEF f
    <3> QED BY Zenon, <1>10, <2>2, <3>1, KindOf
  <2>4. PICK b \in Bulks : r = Reply("multi", <<b, two>>) BY <2>3 DEF Scored
  <2>5. r.t = "multi" /\ r.v = <<b, two>> BY <2>4 DEF Reply
  <2>6. two.t = "bulk" /\ two.v = <<"2">> BY DEF Reply
  <2> HIDE DEF two
  <2>7. raw = [i \in DOMAIN r.v |-> IF r.v[i].t = "nil" THEN Missing ELSE r.v[i].v]
    BY <1>4, <1>5, <1>10, <2>5 DEF Content
  <2>8. DOMAIN r.v = 1..2 /\ r.v[2] = two BY <2>5
  <2>9. DOMAIN raw = 1..2 /\ raw[2] = <<"2">> BY <2>6, <2>7, <2>8
  <2>10. Len(raw) = 2
    <3>1. 2 \in Nat /\ DOMAIN raw = 1..2 BY <2>9
    <3> QED BY <3>1, <2>7
  <2>11. \A i \in DOMAIN raw : i % 2 = 0 => Numeric(raw[i])
    <3>1. \A i \in 1..2 : i % 2 = 0 => i = 2 OBVIOUS
    <3>2. Numeric(<<"2">>) BY SmallNumerals
    <3> QED BY <2>9, <3>1, <3>2
  <2>12. Len(raw) % 2 = 0 BY <2>10
  <2>13. \E v : Scores(raw) = Value(v) BY <2>11, <2>12 DEF Scores
  <2>14. Give(give, raw) = Scores(raw) BY <1>10 DEF Give
  <2> QED BY <1>3, <2>13, <2>14 DEF give
<1> QED BY <1>4, <1>6, <1>7, <1>8, <1>9, <1>10

\* A reply that was taken was an error.
ToldError == \E i \in DOMAIN took : took[i].reply.t = "error"

\* A call that goes by what its readers say.
Plainly == ~slipped /\ name \notin Picky

\* An error that is taken stays known.
LEMMA ErrorTaken ==
  ASSUME IInv, pc \in {"decode", "body"}, TakeReply, Head(owed).reply.t = "error"
  PROVE  ToldError'
<1>1. took' \in Seq(OwedItems) /\ Len(took') = Len(took) + 1 /\ Len(took) \in Nat
      /\ took'[Len(took) + 1] = Head(owed)
  BY Taken
<1>2. Len(took) + 1 \in DOMAIN took' BY <1>1, LenProperties
<1> QED BY <1>1, <1>2 DEF ToldError

\* The reply a reader is at, unless it is an error, is one the reader expects.
LEMMA AtWelcome ==
  ASSUME IInv, pc \in {"decode", "body"}, Plainly, Head(owed).reply.t # "error"
  PROVE  /\ Welcome(Head(todo), Head(owed).reply)
         /\ Head(owed).reply.t = "nilmulti" => name \in Names /\ name \in {"blpop", "brpop"}
         /\ name \notin Pipelines =>
              /\ name \in Names /\ Head(todo) = Calls[name].read
              /\ Head(owed).reply \in Answers(SingleCommand(name))
<1> DEFINE r == Head(owed).reply
           k == Len(took) + 1
<1>1. /\ name \in AllCalls /\ k \in 1..Len(Readers(name)) /\ Head(todo) = Readers(name)[k]
      /\ r \in Possible(name, k)
  BY AtReply DEF Plainly
<1>2. r.t # "error" /\ r \notin Errors BY ErrorsAre
<1>3. name \notin Picky BY DEF Plainly
<1> HIDE DEF r, k
<1>4. CASE name \in Pipelines
  <2>1. Welcome(Readers(name)[k], r) /\ r.t # "nilmulti"
    BY <1>1, <1>2, <1>3, <1>4, PipedWelcome
  <2> QED BY <1>1, <1>4, <2>1 DEF r
<1>5. CASE name \notin Pipelines
  <2>1. name \in Names BY <1>1, <1>5 DEF AllCalls
  <2>2. name \in DOMAIN Calls BY <2>1, SessionAssumption
  <2> DEFINE s == SingleCommand(name)
             d == Calls[name].read
  <2>3. Commands(name) = <<s>> /\ Readers(name) = <<d>> /\ name # "exec_transaction"
    BY <2>2, SingleIs
  <2> HIDE DEF s, d
  <2>4. k = 1 /\ Head(todo) = d /\ Commands(name)[k] = s
    <3>1. Len(<<d>>) = 1 OBVIOUS
    <3>2. k = 1 BY <1>1, <2>3, <3>1
    <3> QED BY <1>1, <2>3, <3>2
  <2>5. r \in Answers(s) BY <1>1, <1>2, <2>3, <2>4 DEF Possible
  <2>6. Welcome(d, r) /\ (r.t = "nilmulti" => name \in {"blpop", "brpop"})
    BY <1>3, <2>1, <2>5, NamedWelcome DEF s, d
  <2> QED BY <1>5, <2>1, <2>4, <2>5, <2>6 DEF r, s, d
<1> QED BY <1>4, <1>5

\* What a step of a reader may do to the call: it goes on, has been told an
\* error, or returns a value.
Fine == pc' = "idle" /\ outcome'.t = "throw" /\ ~slipped' => ToldError'

\* A reader that returns what was said.
LEMMA ReturnsFine ==
  ASSUME IInv, pc \in {"decode", "body"}, NEW raw, ReaderReturns(raw),
         Plainly /\ Head(owed).reply.t # "error" =>
           /\ Head(owed).reply.t # "nilmulti"
           /\ Head(todo) \notin {"ok", "generic"} => raw = Content(Head(owed).reply)
  PROVE  name \notin Picky => Fine
<1> DEFINE r == Head(owed).reply
<1> SUFFICES ASSUME name \notin Picky, pc' = "idle", outcome'.t = "throw", ~slipped'
             PROVE  ToldError'
  BY DEF Fine
<1>1. slipped' = slipped /\ TakeReply BY DEF ReaderReturns
<1>2. Plainly BY <1>1 DEF Plainly
<1> SUFFICES ASSUME r.t # "error" PROVE FALSE BY <1>1, ErrorTaken
<1>3. r.t # "nilmulti" /\ (Head(todo) \notin {"ok", "generic"} => raw = Content(r)) BY <1>2
<1>4. outcome' = IF name \in Pipelines THEN Value(Append(got, raw))
                 ELSE Give(Calls[name].give, raw)
  BY DEF ReaderReturns
<1>5. CASE name \in Pipelines
  <2>1. outcome' = Value(Append(got, raw)) BY <1>4, <1>5
  <2> QED BY <2>1 DEF Value
<1>6. CASE name \notin Pipelines
  <2>1. name \in Names /\ Head(todo) = Calls[name].read /\ r \in Answers(SingleCommand(name))
    BY <1>2, <1>6, AtWelcome
  <2>2. name \in DOMAIN Calls BY <2>1, SessionAssumption
  <2>3. Calls[name].read # "generic" BY <2>2, TableAssumption
  <2> HIDE DEF r
  <2>4. Calls[name].read # "ok" => raw = Content(r) BY <1>3, <2>1, <2>3
  <2>5. Give(Calls[name].give, raw).t = "value" BY <1>2, <1>3, <2>1, <2>4, ValueGiven DEF Plainly
  <2> QED BY <1>4, <1>6, <2>5
<1> QED BY <1>5, <1>6

\* A reader that throws at what it does not expect.
LEMMA ThrowsFine ==
  ASSUME IInv, pc \in {"decode", "body"}, NEW what, ReaderThrows(what),
         Plainly /\ Head(owed).reply.t # "error" =>
           what = "key_error" /\ name \in {"blpop", "brpop"}
  PROVE  name \notin Picky => Fine
<1> DEFINE r == Head(owed).reply
<1> SUFFICES ASSUME name \notin Picky, pc' = "idle", outcome'.t = "throw", ~slipped'
             PROVE  ToldError'
  BY DEF Fine
<1>1. TakeReply /\ outcome' = Caught(name, what)
      /\ slipped' = (slipped \/ (~closed /\ (due # <<>> \/ owed' # <<>>)))
  BY DEF ReaderThrows, Throw, EndCall
<1>2. ~slipped BY <1>1 DEF IInv, Types
<1>3. Plainly BY <1>2 DEF Plainly
<1> SUFFICES ASSUME r.t # "error" PROVE FALSE BY <1>1, ErrorTaken
<1>4. what = "key_error" /\ name \in {"blpop", "brpop"} BY <1>3
<1>5. Caught(name, what) = Value(Missing) BY <1>4 DEF Caught
<1> QED BY <1>1, <1>5 DEF Value

\* A bulk that was said.
LEMMA BulkReadFine ==
  ASSUME IInv, pc \in {"decode", "body"}, NEW v, BulkRead(v),
         ~slipped => /\ v = Content(BulkOf(Head(owed).reply, rd))
                     /\ rd.left > 0 => Partly(owed, rd)
                     /\ rd.left = 0 => Head(owed).reply.t # "nilmulti"
  PROVE  name \notin Picky => Fine
<1> DEFINE r == Head(owed).reply
<1>1. rd \in Reads /\ rd.left \in Nat /\ owed \in Seq(OwedItems) BY DEF IInv, Types, Reads
<1>2. CASE rd.left = 0
  <2>1. ReaderReturns(v) BY <1>2 DEF BulkRead
  <2>2. ~slipped => r.t # "nilmulti" /\ v = Content(r) BY <1>2 DEF BulkOf
  <2> HIDE DEF r
  <2>3. Plainly => ~slipped BY DEF Plainly
  <2> QED BY <2>1, <2>2, <2>3, ReturnsFine DEF r
<1>3. CASE rd.left = 1
  <2>1. ReaderReturns(Append(rd.elems, v)) BY <1>3 DEF BulkRead
  <2>2. ASSUME ~slipped PROVE r.t # "nilmulti" /\ Append(rd.elems, v) = Content(r)
    <3>1. Partly(owed, rd) BY <1>3, <2>2
    <3>2. r.t = "multi" BY <3>1 DEF Partly
    <3> QED BY <1>1, <1>3, <2>2, <3>1, <3>2, StreamLast
  <2> HIDE DEF r
  <2>3. Plainly => ~slipped BY DEF Plainly
  <2> QED BY <2>1, <2>2, <2>3, ReturnsFine DEF r
<1>4. CASE rd.left # 0 /\ rd.left # 1
  <2>1. pc' = "line" BY <1>4 DEF BulkRead
  <2> QED BY <2>1 DEF Fine
<1> QED BY <1>2, <1>3, <1>4

\* The reader that runs is the one the call is at.
LEMMA ReaderAt ==
  ASSUME IInv, pc = "decode", Plainly, Head(owed).reply.t # "error", rd.left = 0
  PROVE  LET r == Head(owed).reply
         IN  /\ r \in Replies /\ Prefix = Mark(r) /\ Rest = Told(r)
             /\ r.t = "status" => Prefix = "+"
             /\ Reader = IF Head(todo) = "generic" THEN "int" ELSE Head(todo)
             /\ Welcome(Reader, r)
             /\ r.t = "nilmulti" => name \in {"blpop", "brpop"}
<1> DEFINE r == Head(owed).reply
<1>1. ~slipped BY DEF Plainly
<1>2. r \in Replies /\ Prefix = Mark(r) /\ Rest = Told(r) BY <1>1, LineIs
<1>3. r.t = "status" => Prefix = "+" BY <1>2 DEF Mark
<1>4. Welcome(Head(todo), r) /\ (r.t = "nilmulti" => name \in {"blpop", "brpop"})
  BY AtWelcome
<1>5. CASE Head(todo) = "generic"
  <2>1. Reader = r.t /\ Reader \in {"int", "error"} BY <1>5, ReaderIs
  <2>2. Reader = "int" BY <2>1
  <2>3. Welcome("int", r)
    <3>1. r.t = "int" /\ Whole(r.v) BY <1>4, <1>5 DEF Welcome
    <3> QED BY <3>1 DEF Welcome
  <2> QED BY <1>2, <1>3, <1>4, <1>5, <2>2, <2>3
<1>6. CASE Head(todo) # "generic"
  <2>1. Reader = Head(todo) BY <1>6, ReaderIs
  <2> QED BY <1>2, <1>3, <1>4, <1>6, <2>1
<1> QED BY <1>5, <1>6

\* The readers of a status.
LEMMA StatusFine == ASSUME IInv, pc = "decode", DecodeStatus, name \notin Picky PROVE Fine
<1> DEFINE r == Head(owed).reply
           good == Plainly /\ r.t # "error"
<1>1. Reader \in {"ok", "line", "queued"} BY DEF DecodeStatus
<1>2. rd.left = 0 /\ (Head(todo) # "generic" => Reader = Head(todo)) BY <1>1, LineReader, ReaderIs
<1>3. ASSUME good
      PROVE  /\ Prefix = "+" /\ r.t = "status" /\ Rest = r.v /\ Rest = Content(r)
             /\ Reader = "ok" => Rest = <<"OK">>
             /\ Reader = "queued" => Rest = <<"QUEUED">>
             /\ Reader = Head(todo)
  <2>1. /\ r \in Replies /\ Rest = Told(r) /\ (r.t = "status" => Prefix = "+")
        /\ Reader = IF Head(todo) = "generic" THEN "int" ELSE Head(todo)
        /\ Welcome(Reader, r)
    BY <1>2, <1>3, ReaderAt
  <2>2. r.t = "status" BY <1>1, <2>1 DEF Welcome
  <2>3. Told(r) = r.v /\ Content(r) = r.v BY <2>1, <2>2, MarkIs
  <2>4. (Reader = "ok" => r.v = <<"OK">>) /\ (Reader = "queued" => r.v = <<"QUEUED">>)
    BY <2>1 DEF Welcome
  <2> QED BY <1>1, <2>1, <2>2, <2>3, <2>4
<1> HIDE DEF good
<1>4. \/ ~good /\ \E what \in {"protocol_error", "runtime_error"} : ReaderThrows(what)
      \/ ReaderReturns(IF Reader = "ok" THEN <<>> ELSE Rest)
  BY <1>3 DEF DecodeStatus
<1>5. ASSUME ~good, NEW what, ReaderThrows(what) PROVE Fine BY <1>5, ThrowsFine DEF good
<1>6. ASSUME ReaderReturns(IF Reader = "ok" THEN <<>> ELSE Rest) PROVE Fine
  <2> DEFINE raw == IF Reader = "ok" THEN <<>> ELSE Rest
  <2>1. ReaderReturns(raw) BY <1>6
  <2>2. good => r.t # "nilmulti" /\ (Head(todo) # "ok" => raw = Content(r)) BY <1>3
  <2> HIDE DEF raw, r
  <2> QED BY <2>1, <2>2, ReturnsFine DEF good, r
<1> QED BY <1>4, <1>5, <1>6

\* The readers of an integer.
LEMMA IntFine == ASSUME IInv, pc = "decode", DecodeInt, name \notin Picky PROVE Fine
<1> DEFINE r == Head(owed).reply
           good == Plainly /\ r.t # "error"
           raw == IF Head(todo) = "generic" THEN ToInt(Rest) ELSE Rest
<1>1. Reader \in {"int", "intok"} BY DEF DecodeInt
<1>2. rd.left = 0 BY <1>1, LineReader, ReaderIs
<1>3. ASSUME good
      PROVE  Prefix = ":" /\ r.t = "int" /\ Rest = Content(r) /\ Whole(Rest) /\ Reader = "int"
  <2>1. r \in Replies /\ Prefix = Mark(r) /\ Rest = Told(r) /\ Welcome(Reader, r)
    BY <1>2, <1>3, ReaderAt
  <2>2. Reader = "int" BY <1>1, <2>1 DEF Welcome
  <2>3. r.t = "int" /\ Whole(r.v) BY <2>1, <2>2 DEF Welcome
  <2>4. Told(r) = r.v /\ Content(r) = r.v /\ Mark(r) = ":" BY <2>1, <2>3, MarkIs
  <2> QED BY <2>1, <2>2, <2>3, <2>4
<1> HIDE DEF good
<1>4. \/ ~good /\ \E what \in {"protocol_error", "bad_lexical_cast"} : ReaderThrows(what)
      \/ ReaderReturns(raw)
  BY <1>3 DEF DecodeInt
<1>5. ASSUME ~good, NEW what, ReaderThrows(what) PROVE Fine BY <1>5, ThrowsFine DEF good
<1>6. ASSUME ReaderReturns(raw) PROVE Fine
  <2>1. good => r.t # "nilmulti" /\ (Head(todo) # "generic" => raw = Content(r)) BY <1>3
  <2> HIDE DEF r, raw
  <2> QED BY <1>6, <2>1, ReturnsFine DEF good, r
<1> QED BY <1>4, <1>5, <1>6

\* The reader of the answer to EXEC.
LEMMA HeaderFine == ASSUME IInv, pc = "decode", DecodeHeader, name \notin Picky PROVE Fine
<1> DEFINE r == Head(owed).reply
           good == Plainly /\ r.t # "error"
<1>1. Reader = "header" BY DEF DecodeHeader
<1>2. rd.left = 0 BY <1>1, LineReader, ReaderIs
<1>3. ASSUME good PROVE Prefix = "*" /\ r.t = "header" /\ Rest = Content(r)
  <2>1. r \in Replies /\ Prefix = Mark(r) /\ Rest = Told(r) /\ Welcome(Reader, r)
    BY <1>2, <1>3, ReaderAt
  <2>2. r.t = "header" BY <1>1, <2>1 DEF Welcome
  <2> QED BY <2>1, <2>2, MarkIs
<1> HIDE DEF good
<1>4. \/ ~good /\ ReaderThrows("runtime_error")
      \/ ReaderReturns(Rest)
  BY <1>3 DEF DecodeHeader
<1>5. ASSUME ~good, ReaderThrows("runtime_error") PROVE Fine BY <1>5, ThrowsFine DEF good
<1>6. ASSUME ReaderReturns(Rest) PROVE Fine
  <2>1. good => r.t # "nilmulti" /\ Rest = Content(r) BY <1>3
  <2> HIDE DEF r
  <2> QED BY <1>6, <2>1, ReturnsFine DEF good, r
<1> QED BY <1>4, <1>5, <1>6

\* The generic reader returns errors: the call may.
LEMMA GenericFine == ASSUME IInv, pc = "decode", DecodeGeneric, name \notin Picky PROVE Fine
<1> DEFINE r == Head(owed).reply
           raw == IF Reader = "status" THEN Rest ELSE Tail(Rest)
<1>1. Reader \in {"status", "error"} /\ ReaderReturns(raw) BY DEF DecodeGeneric
<1>2. rd.left = 0 BY <1>1, ReaderIs
<1>3. Head(todo) = "generic"
  <2>1. Head(todo) \in ReaderKinds BY AtReply
  <2>2. Head(todo) # "generic" => Reader = Head(todo) BY <1>2, ReaderIs
  <2> QED BY <1>1, <2>1, <2>2 DEF ReaderKinds
<1>4. r.t = "error" BY <1>1, <1>2, <1>3, ReaderIs
<1> HIDE DEF raw, r
<1> QED BY <1>1, <1>4, ReturnsFine DEF r

\* The reader of a bulk.
LEMMA BulkFine == ASSUME IInv, pc = "decode", DecodeBulk, name \notin Picky PROVE Fine
<1> DEFINE r == Head(owed).reply
           b == BulkOf(r, rd)
           good == Plainly /\ r.t # "error"
<1>1. Reader = "bulk" BY DEF DecodeBulk
<1>2. rd.left \in Nat BY ReaderIs
<1>3. ASSUME ~slipped
      PROVE  /\ b \in Replies /\ Prefix = Mark(b) /\ Rest = Told(b)
             /\ rd.left > 0 => b \in BulkReplies /\ Partly(owed, rd)
             /\ rd.left = 0 => b = r
  BY <1>3, LineIs
<1>4. ASSUME good PROVE b.t \in {"bulk", "nil"}
  <2>1. ~slipped BY <1>4 DEF Plainly
  <2>2. CASE rd.left = 0
    <3>1. Welcome(Reader, r) BY <1>4, <2>2, ReaderAt
    <3> QED BY <1>1, <1>3, <2>1, <2>2, <3>1 DEF Welcome
  <2>3. CASE rd.left > 0
    <3>1. b \in BulkReplies BY <1>3, <2>1, <2>3
    <3> HIDE DEF b
    <3> QED BY <3>1 DEF BulkReplies, Texts, Nil, Reply
  <2> QED BY <1>2, <2>2, <2>3
<1>5. ASSUME good PROVE Prefix = "$" /\ Numeric(Rest)
  <2>1. ~slipped BY <1>5 DEF Plainly
  <2>2. b \in Replies /\ Prefix = Mark(b) /\ Rest = Told(b) /\ b.t \in {"bulk", "nil"}
    BY <1>3, <1>4, <1>5, <2>1
  <2> HIDE DEF b
  <2> QED BY <2>2, MarkIs, ToldNumber
<1>6. \/ ~good /\ \E what \in {"protocol_error", "bad_lexical_cast"} : ReaderThrows(what)
      \/ Prefix = "$" /\ Numeric(Rest) /\ Rest[1] = "-1" /\ BulkRead(Missing)
      \/ pc' = "body"
  <2> HIDE DEF good
  <2> QED BY <1>5 DEF DecodeBulk
<1>7. ASSUME ~good, NEW what, ReaderThrows(what) PROVE Fine
  <2> HIDE DEF r
  <2> QED BY <1>7, ThrowsFine DEF r
<1>8. ASSUME Prefix = "$", Rest[1] = "-1", BulkRead(Missing) PROVE Fine
  <2>1. ASSUME ~slipped
        PROVE  /\ Missing = Content(b)
               /\ rd.left > 0 => Partly(owed, rd)
               /\ rd.left = 0 => r.t # "nilmulti"
    <3>1. b \in Replies /\ "$" = Mark(b) /\ Rest = Told(b) /\ (rd.left > 0 => Partly(owed, rd))
          /\ (rd.left = 0 => b = r)
      BY <1>3, <1>8, <2>1
    <3> HIDE DEF b
    <3>2. b.t \in {"bulk", "nil"} BY <3>1, MarkIs
    <3>3. b.t = "nil" BY <1>8, <3>1, <3>2, ToldNumber
    <3>4. Content(b) = Missing BY <3>3 DEF Content
    <3> QED BY <3>1, <3>3, <3>4
  <2> HIDE DEF b, r
  <2>2. ~slipped => Missing = Content(BulkOf(Head(owed).reply, rd)) BY <2>1 DEF b, r
  <2> QED BY <1>8, <2>1, <2>2, BulkReadFine DEF r
<1>9. ASSUME pc' = "body" PROVE Fine BY <1>9 DEF Fine
<1> QED BY <1>6, <1>7, <1>8, <1>9

\* The reader of a multi bulk: blpop and brpop make a value of a nil.
LEMMA MultiFine == ASSUME IInv, pc = "decode", DecodeMulti, name \notin Picky PROVE Fine
<1> DEFINE r == Head(owed).reply
           good == Plainly /\ r.t # "error"
<1>1. Reader = "multi" BY DEF DecodeMulti
<1>2. rd.left = 0 BY <1>1, ReaderIs
<1>3. ASSUME good
      PROVE  /\ Prefix = "*" /\ Numeric(Rest) /\ r.t \in {"multi", "nilmulti"}
             /\ (Rest[1] = "-1" <=> r.t = "nilmulti")
             /\ r.t = "nilmulti" => name \in {"blpop", "brpop"}
             /\ r.t = "multi" /\ Rest[1] = "0" => Content(r) = <<>>
  <2>1. /\ r \in Replies /\ Prefix = Mark(r) /\ Rest = Told(r) /\ Welcome(Reader, r)
        /\ r.t = "nilmulti" => name \in {"blpop", "brpop"}
    BY <1>2, <1>3, ReaderAt
  <2>2. r.t \in {"multi", "nilmulti"} BY <1>1, <2>1 DEF Welcome
  <2>3. ASSUME r.t = "multi", Rest[1] = "0" PROVE Content(r) = <<>>
    <3>1. Len(r.v) = 0 BY <2>1, <2>3, ToldNumber
    <3>2. r.v \in Seq(BulkReplies)
      BY <2>1, <2>3 DEF Replies, LineReplies, BulkReplies, Texts, Multis, Nil, NilMulti, Reply
    <3>3. r.v = <<>> BY <3>1, <3>2, EmptySeq
    <3>4. Content(r) = [i \in DOMAIN <<>> |-> IF r.v[i].t = "nil" THEN Missing ELSE r.v[i].v]
      BY <2>3, <3>3 DEF Content
    <3> QED BY <3>4
  <2> HIDE DEF r
  <2>4. Mark(r) = "*" BY <2>1, <2>2, MarkIs
  <2>5. Numeric(Told(r)) /\ (Told(r)[1] = "-1" <=> r.t \in {"nil", "nilmulti"})
    BY <2>1, <2>2, ToldNumber
  <2> QED BY <2>1, <2>2, <2>3, <2>4, <2>5
<1> HIDE DEF good
<1>4. \/ ~good /\ \E what \in {"protocol_error", "bad_lexical_cast", "key_error"} :
           ReaderThrows(what)
      \/ good /\ Rest[1] = "-1" /\ ReaderThrows("key_error")
      \/ Rest[1] # "-1" /\ Rest[1] = "0" /\ ReaderReturns(<<>>)
      \/ pc' = "line"
  BY <1>3 DEF DecodeMulti
<1>5. ASSUME ~good, NEW what, ReaderThrows(what) PROVE Fine BY <1>5, ThrowsFine DEF good
<1>6. ASSUME good, Rest[1] = "-1", ReaderThrows("key_error") PROVE Fine
  <2>1. name \in {"blpop", "brpop"} BY <1>3, <1>6
  <2> QED BY <1>6, <2>1, ThrowsFine
<1>7. ASSUME Rest[1] # "-1", Rest[1] = "0", ReaderReturns(<<>>) PROVE Fine
  <2>1. good => r.t # "nilmulti" /\ <<>> = Content(r) BY <1>3, <1>7
  <2> HIDE DEF r
  <2> QED BY <1>7, <2>1, ReturnsFine DEF good, r
<1>8. ASSUME pc' = "line" PROVE Fine BY <1>8 DEF Fine
<1> QED BY <1>4, <1>5, <1>6, <1>7, <1>8

\* read_n.
LEMMA BodyFine == ASSUME IInv, ReadBody, name \notin Picky PROVE Fine
<1> DEFINE n == IF Len(sock) < rd.want THEN Len(sock) ELSE rd.want
           data == rd.data \o SubSeq(sock, 1, n)
           v == SubSeq(data, 1, Len(data) - 2)
           b == BulkOf(Head(owed).reply, rd)
<1>1. /\ rd \in Reads /\ rd.want \in Nat /\ sock \in Strings /\ wire \in Strings
      /\ owed \in Seq(OwedItems)
  BY DEF IInv, Types, Reads
<1>2. pc = "body" BY DEF ReadBody
<1>3. pc' = pc \/ (~(n < rd.want) /\ BulkRead(v)) BY DEF ReadBody
<1>4. ASSUME ~(n < rd.want), BulkRead(v) PROVE Fine
  <2>1. n = rd.want /\ rd.want \in 0..Len(sock)
    <3>1. Len(sock) \in Nat BY <1>1, LenProperties DEF Strings
    <3> QED BY <1>1, <1>4, <3>1
  <2>2. ASSUME ~slipped
        PROVE  /\ v = Content(b)
               /\ rd.left > 0 => Partly(owed, rd)
               /\ rd.left = 0 => Head(owed).reply.t # "nilmulti"
    <3>1. InStep_(owed, rd, "body", sock, wire, closed) BY <1>2, <2>2 DEF IInv, InStream, Steps
    <3>2. LET d == rd.data \o SubSeq(sock, 1, rd.want)
          IN  b \in Texts /\ SubSeq(d, 1, Len(d) - 2) = b.v
      BY <1>1, <2>1, <3>1, StreamWhole
    <3>3. v = b.v /\ b \in Texts BY <2>1, <3>2
    <3>4. b.t = "bulk" BY <3>3 DEF Texts
    <3>5. Content(b) = b.v BY <3>4 DEF Content
    <3>6. rd.left > 0 => Partly(owed, rd) BY <3>1 DEF InStep_
    <3>7. rd.left = 0 => b = Head(owed).reply BY DEF BulkOf
    <3> QED BY <3>3, <3>4, <3>5, <3>6, <3>7
  <2>3. BulkRead(v) BY <1>4
  <2> HIDE DEF v, b
  <2>4. ~slipped => v = Content(BulkOf(Head(owed).reply, rd)) BY <2>2 DEF b
  <2> QED BY <1>2, <2>2, <2>3, <2>4, BulkReadFine
<1>5. ASSUME pc' = pc PROVE Fine BY <1>2, <1>5 DEF Fine
<1> QED BY <1>3, <1>4, <1>5

\* OnlyErrorsThrow is kept by every step from a state with IInv.
LEMMA OnlyErrorsKept ==
  ASSUME IInv, OnlyErrorsThrow, [Next]_vars PROVE OnlyErrorsThrow'
<1> USE DEF OnlyErrorsThrow
<1>1. ASSUME NEW c \in AllCalls, Begin(c) PROVE OnlyErrorsThrow'
  BY <1>1 DEF Begin
<1>2. ASSUME NEW n, WriteSome(n) PROVE OnlyErrorsThrow'
  <2>1. pc' # "idle" BY <1>2 DEF WriteSome
  <2> QED BY <2>1
<1>3. ASSUME Peek \/ Take PROVE OnlyErrorsThrow'
  <2>1. pc' # "idle" BY <1>3 DEF Peek, Take
  <2> QED BY <2>1
<1>4. ASSUME Decode \/ ReadBody PROVE OnlyErrorsThrow'
  <2>1. pc \in {"decode", "body"} BY <1>4 DEF Decode, ReadBody
  <2>2. name' = name
    <3>1. ASSUME NEW v, BulkRead(v) PROVE name' = name
      BY <3>1 DEF BulkRead, ReaderReturns
    <3>2. ASSUME NEW v, ReaderThrows(v) PROVE name' = name
      BY <3>2 DEF ReaderThrows, Throw
    <3>3. ASSUME NEW v, ReaderReturns(v) PROVE name' = name BY <3>3 DEF ReaderReturns
    <3>4. ASSUME ReadBody PROVE name' = name BY <3>1, <3>4 DEF ReadBody
    <3>5. ASSUME Decode PROVE name' = name
      BY <3>1, <3>2, <3>3, <3>5
      DEF Decode, DecodeStatus, DecodeGeneric, DecodeInt, DecodeHeader, DecodeBulk, DecodeMulti
    <3> QED BY <1>4, <3>4, <3>5
  <2>3. name \notin Picky => Fine
    <3>1. Decode => pc = "decode" /\ (DecodeStatus \/ DecodeGeneric \/ DecodeInt \/ DecodeHeader
                                       \/ DecodeBulk \/ DecodeMulti)
      BY DEF Decode
    <3> QED BY <1>4, <3>1, StatusFine, GenericFine, IntFine, HeaderFine, BulkFine, MultiFine,
               BodyFine
  <2> QED BY <2>2, <2>3 DEF Fine, ToldError
<1>5. ASSUME ConnectionError PROVE OnlyErrorsThrow'
  <2>1. closed' BY <1>5 DEF ConnectionError, serverVars
  <2> QED BY <2>1
<1>6. ASSUME Answer PROVE OnlyErrorsThrow' BY <1>6 DEF Answer, clientVars
<1>7. ASSUME Delivery PROVE OnlyErrorsThrow'
  BY <1>7 DEF Delivery, Arrive, clientVars, serverVars, history
<1>8. ASSUME Lose PROVE OnlyErrorsThrow' BY <1>8 DEF Lose
<1>9. ASSUME UNCHANGED vars PROVE OnlyErrorsThrow'
  BY <1>9 DEF vars, clientVars, serverVars, history
<1> QED BY <1>1, <1>2, <1>3, <1>4, <1>5, <1>6, <1>7, <1>8, <1>9 DEF Next, Client

\* OnlyErrorsThrow: but for the picky calls, a call throws only what the server
\* reports, or because the connection is lost.
THEOREM ThrowsRight == Spec => []OnlyErrorsThrow
<1>1. Init => OnlyErrorsThrow BY DEF Init, OnlyErrorsThrow, Value
<1>2. IInv /\ OnlyErrorsThrow /\ [Next]_vars => OnlyErrorsThrow' BY OnlyErrorsKept
<1> QED BY <1>1, <1>2, Inductive, PTL DEF Spec
=============================================================================
