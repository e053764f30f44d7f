-------------------------- MODULE RecordPath_proof --------------------------
(***************************************************************************)
(* Proofs about the way of a record, for any characters, records of any    *)
(* length and any settings.  string_filter counts nothing: that the fields *)
(* it has found at a test of the loop condition are the fields before the  *)
(* delimiter just behind which front stands, and that their number is the  *)
(* number of the delimiters up to there, is the invariant of its loop.     *)
(***************************************************************************)
EXTENDS RecordPath, ProofLemmas, SequenceTheorems

\* A field fits into temp and has no delimiter in it.
Clean(field) == Fits(Len(field)) /\ \A k \in 1..Len(field) : field[k] # Delim

FieldsClean == \A i \in 1..Len(res) : Clean(res[i])

\* Where the loop is: behind a delimiter, with the fields before it.
Progress ==
  /\ front = 1 \/ src[front - 1] = Delim
  /\ Len(res) = UpTo(front - 1)
  /\ \A k \in 1..Len(res) : res[k] = Field(k)

SplitInv ==
  /\ src \in Records
  /\ front \in 1..(Len(src) + 1)
  /\ res \in Seq(Seq(Chars))
  /\ FieldsClean
  /\ FrontInside
  /\ pc = "loop" => Progress
  /\ FieldsReturned

-----------------------------------------------------------------------------
(* Counting delimiters                                                     *)

LEMMA TextIs ==
  ASSUME src \in Records
  PROVE  /\ src \in Seq(Chars) /\ Len(src) \in Nat /\ DOMAIN src = 1..Len(src)
         /\ Delims \subseteq 1..Len(src) /\ IsFiniteSet(Delims)
         /\ \A i \in 1..Len(src) : i \in Delims <=> src[i] = Delim
<1>1. src \in Seq(Chars) BY TextAssumption
<1>2. Len(src) \in Nat /\ DOMAIN src = 1..Len(src) BY <1>1, LenProperties
<1>3. Delims \subseteq 1..Len(src) BY <1>2 DEF Delims
<1>4. IsFiniteSet(1..Len(src)) BY <1>2, FS_Interval
<1>5. IsFiniteSet(Delims) BY <1>3, <1>4, FS_Subset
<1> QED BY <1>1, <1>2, <1>3, <1>5 DEF Delims

LEMMA UpToNat ==
  ASSUME src \in Records, NEW i \in Int
  PROVE  /\ IsFiniteSet({j \in Delims : j <= i})
         /\ UpTo(i) \in Nat
<1> DEFINE D == {j \in Delims : j <= i}
<1>1. D \subseteq Delims /\ IsFiniteSet(Delims) BY TextIs
<1>2. IsFiniteSet(D)
  <2> HIDE DEF D
  <2> QED BY <1>1, FS_Subset
<1>3. Cardinality(D) \in Nat
  <2> HIDE DEF D
  <2> QED BY <1>2, FS_CardinalityType
<1> QED BY <1>2, <1>3 DEF UpTo

LEMMA UpToZero == ASSUME src \in Records PROVE UpTo(0) = 0
<1>1. {j \in Delims : j <= 0} = {} BY TextIs
<1> QED BY <1>1, FS_EmptySet DEF UpTo

\* Text without a delimiter does not change the count.
LEMMA UpToSame ==
  ASSUME src \in Records, NEW a \in Int, NEW b \in Int, a <= b,
         \A i \in (a + 1)..b : i \notin Delims
  PROVE  UpTo(b) = UpTo(a)
<1>1. Delims \subseteq Int BY TextIs
<1>2. \A j \in Delims : j <= b <=> j <= a
  <2> TAKE j \in Delims
  <2>1. j \in Int /\ ~(j \in (a + 1)..b) BY <1>1
  <2> QED BY <2>1
<1> QED BY <1>2 DEF UpTo

\* The next delimiter adds one.
LEMMA UpToNext ==
  ASSUME src \in Records, NEW a \in Int, NEW b \in Delims, a < b,
         \A i \in (a + 1)..(b - 1) : i \notin Delims
  PROVE  UpTo(b) = UpTo(a) + 1
<1>1. Delims \subseteq Int BY TextIs
<1> DEFINE A == {j \in Delims : j <= a}
           B == {j \in Delims : j <= b}
<1>2. B = A \cup {b}
  <2>1. \A j \in Delims : j <= b <=> j <= a \/ j = b
    <3> TAKE j \in Delims
    <3>1. j \in Int /\ b \in Int /\ ~(j \in (a + 1)..(b - 1)) BY <1>1
    <3> QED BY <3>1
  <2> QED BY <2>1
<1>3. b \notin A BY <1>1
<1>4. IsFiniteSet(A) BY UpToNat
<1>5. Cardinality(A \cup {b}) = Cardinality(A) + 1 BY <1>3, <1>4, FS_AddElement
<1> QED BY <1>2, <1>5 DEF UpTo

LEMMA UpToMonotone ==
  ASSUME src \in Records, NEW a \in Int, NEW b \in Int, a <= b
  PROVE  /\ UpTo(a) <= UpTo(b)
         /\ a < b /\ b \in Delims => UpTo(a) < UpTo(b)
<1>1. Delims \subseteq Int BY TextIs
<1> DEFINE A == {j \in Delims : j <= a}
           B == {j \in Delims : j <= b}
<1>2. A \subseteq B
  <2>1. \A j \in Delims : j <= a => j <= b
    <3> TAKE j \in Delims
    <3>1. j \in Int BY <1>1
    <3> QED BY <3>1
  <2> QED BY <2>1
<1>3. IsFiniteSet(A) /\ IsFiniteSet(B) BY UpToNat
<1>4. Cardinality(A) <= Cardinality(B) /\ (Cardinality(A) = Cardinality(B) => A = B)
  <2> HIDE DEF A, B
  <2> QED BY <1>2, <1>3, FS_Subset
<1>5. a < b /\ b \in Delims => A # B
  <2> SUFFICES ASSUME a < b, b \in Delims, A = B PROVE FALSE OBVIOUS
  <2>1. b \in B OBVIOUS
  <2>2. b \notin A OBVIOUS
  <2> QED BY <2>1, <2>2
<1>6. Cardinality(A) \in Nat /\ Cardinality(B) \in Nat BY UpToNat DEF UpTo
<1> HIDE DEF A, B
<1>7. a < b /\ b \in Delims => Cardinality(A) < Cardinality(B) BY <1>4, <1>5, <1>6
<1> QED BY <1>4, <1>7 DEF UpTo, A, B

\* The k-th delimiter is the one up to which there are k.
LEMMA CutAtDelim ==
  ASSUME src \in Records, NEW b \in Delims
  PROVE  UpTo(b) \in 1..UpTo(Len(src)) /\ Cut(UpTo(b)) = b
<1>1. b \in 1..Len(src) /\ Len(src) \in Nat /\ Delims \subseteq 1..Len(src) BY TextIs
<1>2. UpTo(0) < UpTo(b) /\ UpTo(b) <= UpTo(Len(src)) BY <1>1, UpToMonotone
<1>a. b \in Int /\ Len(src) \in Int /\ \A c \in Delims : c \in Int BY <1>1
<1>3. /\ b \in Int /\ UpTo(b) \in Nat /\ UpTo(Len(src)) \in Nat
      /\ \A c \in Delims : c \in Int /\ UpTo(c) \in Nat
  BY <1>a, UpToNat
<1>4. UpTo(b) \in 1..UpTo(Len(src)) /\ UpTo(b) # 0 BY <1>2, <1>3, UpToZero
<1>5. ASSUME NEW c \in Delims, UpTo(c) = UpTo(b) PROVE c = b
  <2>1. c \in Int /\ b \in Int BY <1>1
  <2>2. ~(c < b) BY <1>3, <1>5, <2>1, UpToMonotone
  <2>3. ~(b < c) BY <1>3, <1>5, <2>1, UpToMonotone
  <2> QED BY <2>1, <2>2, <2>3
<1>6. (CHOOSE i \in Delims : UpTo(i) = UpTo(b)) = b BY <1>5
<1> QED BY <1>4, <1>6 DEF Cut

LEMMA CutAtEnds ==
  ASSUME src \in Records
  PROVE  Cut(0) = 0 /\ Cut(UpTo(Len(src)) + 1) = Len(src) + 1
<1>1. UpTo(Len(src)) \in Nat BY TextIs, UpToNat
<1>2. UpTo(Len(src)) + 1 # 0 /\ UpTo(Len(src)) + 1 \notin 1..UpTo(Len(src)) BY <1>1
<1> QED BY <1>2 DEF Cut

-----------------------------------------------------------------------------
(* The fields around front                                                 *)

LEMMA HereCut ==
  ASSUME SplitInv, pc = "loop"
  PROVE  Cut(Len(res)) = front - 1
<1>1. Progress /\ src \in Records /\ front \in 1..(Len(src) + 1) BY DEF SplitInv
<1>2. CASE front = 1
  BY <1>1, <1>2, UpToZero, CutAtEnds DEF Progress
<1>3. CASE front # 1
  <2>1. Len(src) \in Nat BY <1>1, TextIs
  <2>2. front - 1 \in 1..Len(src) BY <1>1, <1>3, <2>1
  <2>3. front - 1 \in Delims BY <1>1, <1>3, <2>2, TextIs DEF Progress
  <2> QED BY <1>1, <2>3, CutAtDelim DEF Progress
<1> QED BY <1>2, <1>3

\* What strstr finds is the end of the field that begins at front.
LEMMA FoundField ==
  ASSUME SplitInv, pc = "loop", NEW b, Found(b)
  PROVE  /\ b \in Delims /\ b \in front..Len(src) /\ front - 1 < b
         /\ UpTo(b) = Len(res) + 1
         /\ Field(Len(res) + 1) = SubSeq(src, front, b - 1)
<1>1. Progress /\ src \in Records /\ front \in 1..(Len(src) + 1) BY DEF SplitInv
<1>2. Len(src) \in Nat /\ Len(res) \in Nat BY <1>1, TextIs, LenProperties DEF SplitInv
<1>3. b \in front..Len(src) /\ \A i \in front..(b - 1) : src[i] # Delim BY DEF Found
<1>4. b \in Delims BY <1>1, <1>2, <1>3, TextIs DEF Found
<1>5. \A i \in ((front - 1) + 1)..(b - 1) : i \notin Delims
  <2> TAKE i \in ((front - 1) + 1)..(b - 1)
  <2>1. i \in front..(b - 1) /\ i \in 1..Len(src) BY <1>1, <1>2, <1>3
  <2> QED BY <1>1, <1>3, <2>1, TextIs
<1>6. front - 1 \in Int /\ front - 1 < b BY <1>1, <1>2, <1>3
<1>7. UpTo(b) = UpTo(front - 1) + 1 BY <1>1, <1>4, <1>5, <1>6, UpToNext
<1>8. UpTo(b) = Len(res) + 1 BY <1>1, <1>7 DEF Progress
<1>9. Cut(Len(res) + 1) = b BY <1>1, <1>4, <1>8, CutAtDelim
<1>10. (Len(res) + 1) - 1 = Len(res) /\ Cut(Len(res)) + 1 = front BY <1>1, <1>2, HereCut
<1> QED BY <1>3, <1>4, <1>6, <1>8, <1>9, <1>10 DEF Field

\* Where it finds nothing, the last field begins at front.
LEMMA RestField ==
  ASSUME SplitInv, pc = "loop", NotFound
  PROVE  /\ UpTo(Len(src)) = Len(res)
         /\ Field(Len(res) + 1) = SubSeq(src, front, Len(src))
<1>1. Progress /\ src \in Records /\ front \in 1..(Len(src) + 1) BY DEF SplitInv
<1>2. Len(src) \in Nat /\ Len(res) \in Nat BY <1>1, TextIs, LenProperties DEF SplitInv
<1>3. \A i \in ((front - 1) + 1)..Len(src) : i \notin Delims
  <2> TAKE i \in ((front - 1) + 1)..Len(src)
  <2>1. i \in front..Len(src) /\ i \in 1..Len(src) BY <1>1, <1>2
  <2> QED BY <1>1, <2>1, TextIs DEF NotFound
<1>4. front - 1 \in Int /\ Len(src) \in Int /\ front - 1 <= Len(src) BY <1>1, <1>2
<1>5. UpTo(Len(src)) = UpTo(front - 1) BY <1>1, <1>3, <1>4, UpToSame
<1>6. UpTo(Len(src)) = Len(res) BY <1>1, <1>5 DEF Progress
<1>7. Cut(Len(res) + 1) = Len(src) + 1 BY <1>1, <1>6, CutAtEnds
<1>8. (Len(res) + 1) - 1 = Len(res) /\ Cut(Len(res)) + 1 = front
      /\ (Len(src) + 1) - 1 = Len(src)
  BY <1>1, <1>2, HereCut
<1> QED BY <1>6, <1>7, <1>8 DEF Field

-----------------------------------------------------------------------------
(* A list of fields grows                                                  *)

\* A piece of the record without delimiters is a field.
LEMMA PieceClean ==
  ASSUME src \in Records, NEW m \in Int, NEW n \in Int, 1 <= m, n <= Len(src),
         \A i \in m..n : src[i] # Delim, Fits(n + 1 - m)
  PROVE  SubSeq(src, m, n) \in Seq(Chars) /\ Clean(SubSeq(src, m, n))
<1>1. src \in Seq(Chars) /\ Len(src) \in Nat BY TextIs
<1>2. \A i \in m..n : src[i] \in Chars
  BY <1>1, ElementOfSeq
<1> DEFINE t == SubSeq(src, m, n)
<1>3. /\ t \in Seq(Chars)
      /\ Len(t) = IF m <= n THEN n - m + 1 ELSE 0
      /\ \A i \in 1..(n - m + 1) : t[i] = src[m + i - 1]
  BY <1>2, SubSeqProperties
<1>4. ASSUME NEW k \in 1..Len(t) PROVE t[k] # Delim
  <2>1. k \in 1..(n - m + 1) /\ m + k - 1 \in m..n BY <1>3, <1>4
  <2> QED BY <1>3, <2>1
<1>5. Fits(Len(t))
  <2> HIDE DEF t
  <2> QED BY <1>3, TextAssumption DEF Fits
<1> QED BY <1>3, <1>4, <1>5 DEF Clean

LEMMA EmptyClean == <<>> \in Seq(Chars) /\ Clean(<<>>)
<1> QED BY EmptySeq, TextAssumption DEF Clean, Fits

\* fields are the first fields of the record, none of which contains a
\* delimiter.
FirstFields(fields) ==
  /\ fields \in Seq(Seq(Chars))
  /\ \A i \in 1..Len(fields) : Clean(fields[i]) /\ fields[i] = Field(i)

LEMMA AppendField ==
  ASSUME NEW fields, FirstFields(fields),
         NEW f \in Seq(Chars), Clean(f), f = Field(Len(fields) + 1)
  PROVE  FirstFields(Append(fields, f)) /\ Len(Append(fields, f)) = Len(fields) + 1
<1> DEFINE a == Append(fields, f)
<1>0. fields \in Seq(Seq(Chars)) BY DEF FirstFields
<1>1. /\ a \in Seq(Seq(Chars)) /\ Len(a) = Len(fields) + 1
      /\ \A i \in 1..Len(fields) : a[i] = fields[i]
      /\ a[Len(fields) + 1] = f
  BY <1>0, AppendProperties
<1>2. Len(fields) \in Nat BY <1>0, LenProperties
<1>3. ASSUME NEW i \in 1..Len(a) PROVE Clean(a[i]) /\ a[i] = Field(i)
  <2>1. i \in 1..Len(fields) \/ i = Len(fields) + 1 BY <1>1, <1>2
  <2> QED BY <1>1, <2>1 DEF FirstFields
<1> QED BY <1>1, <1>3 DEF FirstFields

LEMMA AllVisible ==
  ASSUME NEW fields, FirstFields(fields), Len(fields) = UpTo(Len(src)) + 1 - Hidden
  PROVE  fields = Visible /\ FieldsFit
<1>1. fields \in [1..Len(fields) -> Seq(Chars)] BY LenProperties DEF FirstFields
<1>2. \A i \in 1..Len(fields) : fields[i] = Field(i) BY DEF FirstFields
<1>3. fields = [i \in 1..Len(fields) |-> Field(i)] BY <1>1, <1>2
<1>4. fields = Visible BY <1>3 DEF Visible
<1>5. DOMAIN fields = 1..Len(fields) BY <1>1
<1>6. FieldsFit BY <1>4, <1>5 DEF FieldsFit, FirstFields, Clean
<1> QED BY <1>4, <1>6

-----------------------------------------------------------------------------
(* The loop                                                                *)

LEMMA SplitInit == Init => SplitInv
<1> SUFFICES ASSUME Init PROVE SplitInv OBVIOUS
<1>1. src \in Records /\ front = 1 /\ res = <<>> /\ pc = "loop" BY DEF Init
<1>2. res \in Seq(Seq(Chars)) /\ Len(res) = 0 BY <1>1, EmptySeq
<1>3. Len(src) \in Nat BY <1>1, TextIs
<1>4. UpTo(front - 1) = 0 BY <1>1, UpToZero
<1>5. Progress BY <1>1, <1>2, <1>4 DEF Progress
<1> QED BY <1>1, <1>2, <1>3, <1>5 DEF SplitInv, FieldsClean, FrontInside, FieldsReturned

\* What the record is does not change.
LEMMA SameText ==
  ASSUME src' = src
  PROVE  /\ Visible' = Visible
         /\ \A i : UpTo(i)' = UpTo(i) /\ Field(i)' = Field(i)
<1>1. Delims' = Delims BY DEF Delims
<1>2. \A i : UpTo(i)' = UpTo(i) BY <1>1 DEF UpTo
<1>3. \A i : Cut(i)' = Cut(i) BY <1>1, <1>2 DEF Cut
<1>4. \A i : Field(i)' = Field(i) BY <1>3 DEF Field
<1>5. Hidden' = Hidden BY <1>2 DEF Hidden
<1> QED BY <1>2, <1>4, <1>5 DEF Visible

\* A step that leaves the loop with all the visible fields.
LEMMA LeavesLoop ==
  ASSUME SplitInv, src' = src, pc' # "loop", front' \in 1..(Len(src) + 1),
         FirstFields(res'), Len(res') = UpTo(Len(src)) + 1 - Hidden
  PROVE  SplitInv'
<1>1. res' = Visible /\ FieldsFit BY AllVisible
<1>2. Visible' = Visible BY SameText
<1>3. FieldsFit' BY <1>1, <1>2 DEF FieldsFit
<1> QED BY <1>1, <1>2, <1>3 DEF SplitInv, FirstFields, FieldsClean, FrontInside, FieldsReturned

\* A step that stays in the loop, with the next field.
LEMMA StaysInLoop ==
  ASSUME SplitInv, pc = "loop", src' = src, pc' = "loop",
         NEW b \in Delims, front' = b + 1, front' <= Len(src),
         UpTo(b) = Len(res) + 1, FirstFields(res'), Len(res') = Len(res) + 1
  PROVE  SplitInv'
<1>1. src \in Records /\ b \in 1..Len(src) /\ src[b] = Delim /\ Len(src) \in Nat
  BY TextIs DEF SplitInv
<1>2. front' \in 1..(Len(src') + 1) /\ front' - 1 = b BY <1>1
<1>3. UpTo(b)' = UpTo(b) /\ \A i : Field(i)' = Field(i) BY SameText
<1>4. UpTo(front - 1)' = UpTo(b)' BY <1>2, Zenon DEF UpTo, Delims
<1>5. Progress' BY <1>1, <1>2, <1>3, <1>4 DEF Progress, FirstFields
<1> QED BY <1>1, <1>2, <1>5 DEF SplitInv, FirstFields, FieldsClean, FrontInside, FieldsReturned

\* What does not fit is a field of the record.
LEMMA OverrunLong ==
  ASSUME SplitInv, Overrun
  PROVE  \E k \in 1..(UpTo(Len(src)) + 1) : ~Fits(Len(Field(k)))
<1>1. /\ src \in Records /\ src \in Seq(Chars) /\ Len(src) \in Nat /\ pc = "loop"
      /\ front \in 1..(Len(src) + 1) /\ Len(res) \in Nat
  BY TextIs, LenProperties DEF SplitInv, Overrun, InLoop
<1>2. \A m, n \in Int : 1 <= m /\ n <= Len(src) =>
        Len(SubSeq(src, m, n)) = IF m <= n THEN n - m + 1 ELSE 0
  <2> SUFFICES ASSUME NEW m \in Int, NEW n \in Int, 1 <= m, n <= Len(src)
               PROVE  Len(SubSeq(src, m, n)) = IF m <= n THEN n - m + 1 ELSE 0
      OBVIOUS
  <2>1. \A i \in m..n : src[i] \in Chars BY <1>1, ElementOfSeq
  <2> QED BY <2>1, SubSeqProperties
<1>3. UpTo(Len(src)) \in Nat
  <2>1. Len(src) \in Int BY <1>1
  <2> QED BY <1>1, <2>1, UpToNat
<1>4. CASE NotFound /\ ~Fits(Len(src) + 1 - front)
  <2>1. UpTo(Len(src)) = Len(res) /\ Field(Len(res) + 1) = SubSeq(src, front, Len(src))
    BY <1>1, <1>4, RestField
  <2>2. front \in Int /\ Len(src) \in Int /\ 1 <= front BY <1>1
  <2>3. Len(SubSeq(src, front, Len(src))) = Len(src) + 1 - front BY <1>1, <1>2, <2>2
  <2>4. Len(res) + 1 \in 1..(UpTo(Len(src)) + 1) BY <1>1, <2>1
  <2> QED BY <1>4, <2>1, <2>3, <2>4
<1>5. ASSUME NEW b \in 2..Len(src), Found(b), ~Fits(b - front)
      PROVE  \E k \in 1..(UpTo(Len(src)) + 1) : ~Fits(Len(Field(k)))
  <2>1. /\ b \in Delims /\ b \in front..Len(src) /\ UpTo(b) = Len(res) + 1
        /\ Field(Len(res) + 1) = SubSeq(src, front, b - 1)
    BY <1>1, <1>5, FoundField
  <2>2. front \in Int /\ b - 1 \in Int /\ 1 <= front /\ b - 1 <= Len(src) BY <1>1, <2>1
  <2>3. Len(SubSeq(src, front, b - 1)) = b - front BY <1>1, <1>2, <2>1, <2>2
  <2>4. UpTo(b) <= UpTo(Len(src))
    <3>1. b \in Int /\ Len(src) \in Int /\ b <= Len(src) BY <1>1
    <3> QED BY <1>1, <3>1, UpToMonotone
  <2>5. Len(res) + 1 \in 1..(UpTo(Len(src)) + 1) BY <1>1, <1>3, <2>1, <2>4
  <2> QED BY <1>5, <2>1, <2>3, <2>5
<1> QED BY <1>4, <1>5 DEF Overrun

LEMMA SplitStep == SplitInv /\ Next => SplitInv'
<1> SUFFICES ASSUME SplitInv, Next PROVE SplitInv' OBVIOUS
<1>0. /\ src \in Records /\ src \in Seq(Chars) /\ Len(src) \in Nat /\ pc = "loop" /\ src' = src
      /\ front \in 1..(Len(src) + 1) /\ res \in Seq(Seq(Chars)) /\ Len(res) \in Nat
      /\ Delims \subseteq 1..Len(src) /\ \A i \in 1..Len(src) : i \in Delims <=> src[i] = Delim
  BY Zenon, TextIs, LenProperties
  DEF SplitInv, Next, Leave, TakeRest, SkipLeading, TakeField, Overrun, InLoop
<1>1. Progress /\ FirstFields(res) BY <1>0 DEF SplitInv, Progress, FirstFields, FieldsClean
<1>2. front <= Len(src) \/ front = 1 BY <1>0 DEF SplitInv, FrontInside
<1>3. UpTo(Len(src)) \in Nat
  <2>1. Len(src) \in Int BY <1>0
  <2> QED BY <1>0, <2>1, UpToNat
<1>4. ASSUME Len(src) > 1, \A i \in front..(Len(src) - 1) : i \notin Delims, front < Len(src)
      PROVE  Hidden = 0
  <2>1. Len(src) - 1 \in front..(Len(src) - 1) /\ Len(src) - 1 \in 1..Len(src) BY <1>0, <1>4
  <2>2. src[Len(src) - 1] # Delim BY <1>0, <1>4, <2>1
  <2>3. Len(src) # 1 BY <1>0, <1>4
  <2> QED BY <2>2, <2>3 DEF Hidden
<1>5. CASE Leave
  <2>1. front = Len(src) /\ pc' = "done" /\ res' = res /\ front' = front BY <1>5 DEF Leave
  <2>2. Len(res) = UpTo(Len(src)) + 1 - Hidden
    <3>1. CASE Len(src) = 1    \* front never moved
      <4>1. Hidden = UpTo(Len(src)) + 1 BY <3>1 DEF Hidden
      <4>2. Len(res) = 0 BY <1>0, <1>1, <2>1, <3>1, UpToZero DEF Progress
      <4> QED BY <1>3, <4>1, <4>2
    <3>2. CASE Len(src) # 1
      <4>1. Len(src) > 1 /\ Len(src) - 1 \in 1..Len(src) BY <1>0, <2>1, <3>2
      <4>2. src[Len(src) - 1] = Delim BY <1>1, <2>1, <4>1 DEF Progress
      <4>3. Len(res) = UpTo(Len(src) - 1) BY <1>1, <2>1 DEF Progress
      <4>4. CASE src[Len(src)] = Delim
        <5>1. Hidden = 2 BY <4>1, <4>2, <4>4 DEF Hidden
        <5>2. Len(src) \in Delims BY <1>0, <4>1, <4>4
        <5>3. UpTo(Len(src)) = UpTo(Len(src) - 1) + 1
          <6>1. Len(src) - 1 \in Int /\ Len(src) - 1 < Len(src)
                /\ (((Len(src) - 1) + 1)..(Len(src) - 1)) = {}
            BY <1>0
          <6> QED BY <1>0, <5>2, <6>1, UpToNext
        <5> QED BY <1>0, <4>3, <5>1, <5>3
      <4>5. CASE src[Len(src)] # Delim
        <5>1. Hidden = 1 BY <4>1, <4>2, <4>5 DEF Hidden
        <5>2. Len(src) \notin Delims BY <1>0, <4>1, <4>5
        <5>3. UpTo(Len(src)) = UpTo(Len(src) - 1)
          <6>1. Len(src) - 1 \in Int /\ Len(src) \in Int /\ Len(src) - 1 <= Len(src)
                /\ (((Len(src) - 1) + 1)..Len(src)) = {Len(src)}
            BY <1>0
          <6> QED BY <1>0, <5>2, <6>1, UpToSame
        <5> QED BY <1>0, <4>3, <5>1, <5>3
      <4> QED BY <4>4, <4>5
    <3> QED BY <3>1, <3>2
  <2>3. front' \in 1..(Len(src) + 1) /\ FirstFields(res') /\ Len(res') = Len(res)
    BY <1>0, <1>1, <2>1
  <2> QED BY <1>0, <2>1, <2>2, <2>3, LeavesLoop
<1>6. CASE TakeRest
  <2> DEFINE f == SubSeq(src, front, Len(src))
  <2>1. /\ res' = Append(res, f) /\ front' = front /\ pc' = "done" /\ front # Len(src)
        /\ NotFound /\ Fits(Len(src) + 1 - front)
    BY <1>6 DEF TakeRest, InLoop
  <2>2. UpTo(Len(src)) = Len(res) /\ f = Field(Len(res) + 1) BY <1>0, <2>1, RestField
  <2>3. f \in Seq(Chars) /\ Clean(f)
    <3>1. front \in Int /\ Len(src) \in Int /\ 1 <= front /\ Len(src) <= Len(src) BY <1>0
    <3>2. \A i \in front..Len(src) : src[i] # Delim BY <2>1 DEF NotFound
    <3> QED BY <1>0, <2>1, <3>1, <3>2, PieceClean
  <2>4. FirstFields(res') /\ Len(res') = Len(res) + 1
    <3> HIDE DEF f
    <3> QED BY <1>1, <2>1, <2>2, <2>3, AppendField
  <2>5. Hidden = 0
    <3>1. CASE Len(src) = 0 BY <3>1 DEF Hidden
    <3>2. CASE Len(src) # 0
      <4>1. front < Len(src) /\ Len(src) > 1 BY <1>0, <1>2, <2>1, <3>2
      <4>2. \A i \in front..(Len(src) - 1) : i \notin Delims
        <5> TAKE i \in front..(Len(src) - 1)
        <5>1. i \in front..Len(src) /\ i \in 1..Len(src) BY <1>0
        <5> QED BY <1>0, <2>1, <5>1 DEF NotFound
      <4> QED BY <1>4, <4>1, <4>2
    <3> QED BY <3>1, <3>2
  <2>6. Len(res') = UpTo(Len(src)) + 1 - Hidden BY <1>0, <2>2, <2>4, <2>5
  <2> QED BY <1>0, <2>1, <2>4, <2>6, LeavesLoop
<1>7. CASE SkipLeading    \* only from the first position
  <2>1. /\ res' = Append(res, <<>>) /\ front' = front + 1 /\ pc' = pc
        /\ front # Len(src) /\ Found(1)
    BY <1>7 DEF SkipLeading, InLoop
  <2>2. /\ 1 \in Delims /\ 1 \in front..Len(src) /\ UpTo(1) = Len(res) + 1
        /\ Field(Len(res) + 1) = SubSeq(src, front, 1 - 1)
    BY <1>0, <2>1, FoundField
  <2>3. front = 1 /\ front' = 1 + 1 /\ 2 <= Len(src) BY <1>0, <2>1, <2>2
  <2>4. Field(Len(res) + 1) = <<>>
    <3>1. front \in Int /\ 1 - 1 \in Int /\ 1 - 1 < front BY <2>3
    <3> QED BY <2>2, <3>1, SubSeqEmpty
  <2>5. FirstFields(res') /\ Len(res') = Len(res) + 1
    BY <1>1, <2>1, <2>4, EmptyClean, AppendField
  <2>6. pc' = "loop" /\ front' <= Len(src) BY <1>0, <2>1, <2>3
  <2> QED BY <1>0, <2>2, <2>3, <2>5, <2>6, StaysInLoop
<1>8. ASSUME NEW b \in 2..Len(src), TakeField(b) PROVE SplitInv'
  <2> DEFINE f == SubSeq(src, front, b - 1)
  <2>1. /\ Found(b) /\ front' = b + 1 /\ front # Len(src)
        /\ b \in front..Len(src) /\ \A i \in front..(b - 1) : src[i] # Delim
        /\ Fits(b - front)
    BY <1>8 DEF TakeField, Found, InLoop
  <2>2. /\ b \in Delims /\ front - 1 < b /\ UpTo(b) = Len(res) + 1
        /\ f = Field(Len(res) + 1)
    BY <1>0, <2>1, FoundField
  <2>3. f \in Seq(Chars) /\ Clean(f)
    <3>1. front \in Int /\ b - 1 \in Int /\ 1 <= front /\ b - 1 <= Len(src) BY <1>0, <2>1
    <3>2. (b - 1) + 1 - front = b - front BY <1>0, <2>1
    <3> QED BY <1>0, <2>1, <3>1, <3>2, PieceClean
  <2>4. FirstFields(Append(res, f)) /\ Len(Append(res, f)) = Len(res) + 1
    <3> HIDE DEF f
    <3> QED BY <1>1, <2>2, <2>3, AppendField
  <2> HIDE DEF f
  <2>5. CASE b = Len(src)    \* the delimiter was the last character
    <3>1. res' = Append(Append(res, f), <<>>) /\ pc' = "done"
      BY <1>8, <2>5 DEF TakeField, f
    <3>2. UpTo(Len(src)) = Len(res) + 1 BY <2>2, <2>5
    <3>3. Field((Len(res) + 1) + 1) = <<>>
      <4>1. Cut(UpTo(Len(src)) + 1) = Len(src) + 1 /\ Cut(UpTo(b)) = b
        BY <1>0, <2>2, CutAtEnds, CutAtDelim
      <4>2. Cut((Len(res) + 1) + 1) = Len(src) + 1 /\ Cut(Len(res) + 1) = Len(src)
        BY <2>2, <2>5, <3>2, <4>1
      <4>3. ((Len(res) + 1) + 1) - 1 = Len(res) + 1 BY <1>0
      <4>4. Field((Len(res) + 1) + 1) = SubSeq(src, Len(src) + 1, (Len(src) + 1) - 1)
        BY <4>2, <4>3 DEF Field
      <4>5. Len(src) + 1 \in Int /\ (Len(src) + 1) - 1 \in Int
            /\ (Len(src) + 1) - 1 < Len(src) + 1
        BY <1>0
      <4> QED BY <4>4, <4>5, SubSeqEmpty
    <3>4. FirstFields(res') /\ Len(res') = (Len(res) + 1) + 1
      BY <2>4, <3>1, <3>3, EmptyClean, AppendField
    <3>5. Hidden = 0
      <4>1. front < Len(src) /\ Len(src) > 1 BY <1>0, <2>1, <2>5
      <4>2. \A i \in front..(Len(src) - 1) : i \notin Delims BY <1>0, <2>1, <2>5
      <4> QED BY <1>4, <4>1, <4>2
    <3>6. Len(res') = UpTo(Len(src)) + 1 - Hidden BY <1>0, <3>2, <3>4, <3>5
    <3>7. front' \in 1..(Len(src) + 1) BY <1>0, <2>1, <2>5
    <3> QED BY <1>0, <3>1, <3>4, <3>6, <3>7, LeavesLoop
  <2>6. CASE b # Len(src)
    <3>1. res' = Append(res, f) /\ pc' = pc
      BY <1>8, <2>6 DEF TakeField, f
    <3>2. front' <= Len(src) /\ pc' = "loop" BY <1>0, <2>1, <2>6, <3>1
    <3> QED BY <1>0, <2>1, <2>2, <2>4, <3>1, <3>2, StaysInLoop
  <2> QED BY <2>5, <2>6
<1>9. CASE Overrun
  <2>1. front' = front /\ res' = res /\ pc' = "undefined" BY <1>9 DEF Overrun
  <2> QED BY <1>0, <2>1 DEF SplitInv, FieldsClean, Clean, FrontInside, FieldsReturned
<1> QED BY <1>5, <1>6, <1>7, <1>8, <1>9 DEF Next

-----------------------------------------------------------------------------
(* Numbers                                                                 *)

\* The digits a text begins with, and what a digit stands for.
Leading(text) == {i \in DOMAIN text : \A j \in 1..i : IsDigit(text[j])}
DigitOf(c) == (CHOOSE d \in 1..10 : Digits[d] = c) - 1

LEMMA DigitIs == ASSUME NEW c, IsDigit(c) PROVE DigitOf(c) \in Nat
<1> DEFINE k == CHOOSE d \in 1..10 : Digits[d] = c
<1>1. k \in 1..10 BY DEF IsDigit
<1> HIDE DEF k
<1>2. k - 1 \in Nat BY <1>1
<1> QED BY <1>2 DEF k, DigitOf

\* The digits a text begins with are its first ones.
LEMMA DigitsFirst ==
  ASSUME NEW C, NEW text \in Seq(C)
  PROVE  \E n \in 0..Len(text) :
           /\ Leading(text) = 1..n
           /\ Cardinality(1..n) = n
<1> DEFINE D == {i \in DOMAIN text : \A j \in 1..i : IsDigit(text[j])}
           T == {k \in Nat : k + 1 \notin D}
<1>1. Len(text) \in Nat /\ DOMAIN text = 1..Len(text) BY LenProperties
<1>2. Len(text) \in T BY <1>1
<1>3. PICK n \in T : \A k \in T : n <= k
  <2>1. T \in SUBSET Nat OBVIOUS
  <2> HIDE DEF T
  <2> QED BY <1>2, <2>1, LeastNumber
<1>4. n \in 0..Len(text) BY <1>1, <1>2, <1>3
<1>5. D = 1..n
  <2>1. ASSUME NEW i \in 1..n PROVE i \in D
    <3>1. i - 1 \in Nat /\ ~(n <= i - 1) BY <1>4
    <3>2. (i - 1) + 1 \in D BY <1>3, <3>1
    <3> QED BY <3>2
  <2>2. ASSUME NEW i \in D PROVE i \in 1..n
    <3>1. i \in 1..Len(text) /\ \A j \in 1..i : IsDigit(text[j]) BY <1>1
    <3>2. CASE n < i
      <4>1. n + 1 \in 1..i /\ n + 1 \in 1..Len(text) BY <1>1, <1>4, <3>1, <3>2
      <4>2. \A j \in 1..(n + 1) : j \in 1..i BY <1>4, <3>1, <4>1
      <4>3. n + 1 \in D BY <1>1, <3>1, <4>1, <4>2
      <4> QED BY <4>3
    <3> QED BY <1>4, <3>1, <3>2
  <2> HIDE DEF D
  <2> QED BY <2>1, <2>2
<1>6. Cardinality(1..n) = n
  <2>1. n \in Int /\ 1 \in Int /\ n >= 0 BY <1>4
  <2>2. Cardinality(1..n) = IF 1 > n THEN 0 ELSE n - 1 + 1 BY <2>1, FS_Interval
  <2> QED BY <2>1, <2>2
<1> HIDE DEF D
<1> QED BY <1>4, <1>5, <1>6 DEF D, Leading


\* Magnitude is what its recursive definition says.
LEMMA MagnitudeIs ==
  ASSUME NEW text, NEW n \in Nat,
         Leading(text) = 1..n,
         Cardinality(1..n) = n
  PROVE  \E g \in [0..n -> Nat] :
           /\ g[0] = 0
           /\ \A i \in 1..n : g[i] = 10 * g[i - 1] + DigitOf(text[i])
           /\ Magnitude(text) = g[n]
<1> DEFINE digits == {i \in DOMAIN text : \A j \in 1..i : IsDigit(text[j])}
           Digit(i) == (CHOOSE d \in 1..10 : Digits[d] = text[i]) - 1
           Is(f) == f = [i \in 0..Cardinality(digits) |->
                           IF i = 0 THEN 0 ELSE 10 * f[i - 1] + Digit(i)]
           value == CHOOSE f : Is(f)
           d == [i \in 1..n |-> Digit(i)]
<1>1. Magnitude(text) = value[Cardinality(digits)] BY DEF Magnitude
<1>2. Cardinality(digits) = n BY DEF Leading
<1>3. \A i \in 1..n : Digit(i) \in Nat
  <2> TAKE i \in 1..n
  <2>1. i \in digits /\ i \in 1..i BY DEF Leading
  <2>2. IsDigit(text[i]) BY <2>1
  <2> QED BY <2>2, DigitIs DEF DigitOf
<1>4. d \in [1..n -> Nat] BY <1>3
<1>5. PICK g : IsNumeral(g, d, n)
  <2> HIDE DEF d
  <2> QED BY <1>4, NumeralExists
<1>6. \A f : IsNumeral(f, d, n) <=> Is(f)
  <2> SUFFICES ASSUME NEW f
               PROVE  IsNumeral(f, d, n) <=> Is(f)
      OBVIOUS
  <2> HIDE DEF Digit, digits
  <2>1. \A i \in 0..n : i # 0 => i \in 1..n /\ d[i] = Digit(i) OBVIOUS
  <2>2. [i \in 0..n |-> IF i = 0 THEN 0 ELSE 10 * f[i - 1] + d[i]]
          = [i \in 0..n |-> IF i = 0 THEN 0 ELSE 10 * f[i - 1] + Digit(i)]
    <3> HIDE DEF d
    <3> QED BY <2>1
  <2> HIDE DEF d
  <2> QED BY <1>2, <2>2 DEF IsNumeral
<1>7. IsNumeral(value, d, n)
  <2> HIDE DEF d, Is
  <2>1. \E f : Is(f) BY <1>5, <1>6
  <2>2. Is(value) BY <2>1
  <2> QED BY <2>2, <1>6
<1>8. value \in [0..n -> Nat]
  <2> HIDE DEF d, value
  <2> QED BY <1>4, <1>7, NumeralExists
<1>9. value[0] = 0 /\ \A i \in 1..n : value[i] = 10 * value[i - 1] + Digit(i)
  <2> HIDE DEF value, Digit
  <2>1. \A i \in 1..n : i \in 0..n /\ i # 0 /\ d[i] = Digit(i) OBVIOUS
  <2>2. 0 \in 0..n OBVIOUS
  <2> HIDE DEF d
  <2> QED BY <1>7, <2>1, <2>2 DEF IsNumeral
<1> HIDE DEF value, digits
<1> QED BY <1>1, <1>2, <1>8, <1>9 DEF DigitOf

\* It is a natural number.
LEMMA MagnitudeNat ==
  ASSUME NEW C, NEW text \in Seq(C)
  PROVE  Magnitude(text) \in Nat
<1>1. PICK n \in 0..Len(text) : Leading(text) = 1..n /\ Cardinality(1..n) = n BY DigitsFirst
<1>2. n \in Nat OBVIOUS
<1>3. \E g \in [0..n -> Nat] :
        /\ g[0] = 0
        /\ \A i \in 1..n : g[i] = 10 * g[i - 1] + DigitOf(text[i])
        /\ Magnitude(text) = g[n]
  BY <1>1, <1>2, MagnitudeIs
<1> QED BY <1>2, <1>3

\* A text that is one digit is read as that digit.
LEMMA MagnitudeDigit ==
  ASSUME NEW k \in 1..10
  PROVE  Magnitude(<<Digits[k]>>) = k - 1
<1> DEFINE text == <<Digits[k]>>
<1>1. Leading(text) = 1..1
  <2>1. DOMAIN text = 1..1 OBVIOUS
  <2>2. IsDigit(text[1]) BY DEF IsDigit
  <2> HIDE DEF text
  <2> QED BY <2>1, <2>2 DEF Leading
<1>2. Cardinality(1..1) = 1
  <2>1. 1..1 = {1} OBVIOUS
  <2>2. Cardinality({1}) = 1
    <3>1. IsFiniteSet({}) /\ Cardinality({}) = 0 BY FS_EmptySet
    <3>2. Cardinality({} \cup {1}) = 0 + 1 BY <3>1, FS_AddElement
    <3> QED BY <3>2
  <2> QED BY <2>1, <2>2
<1>3. \E g \in [0..1 -> Nat] :
        /\ g[0] = 0
        /\ \A i \in 1..1 : g[i] = 10 * g[i - 1] + DigitOf(text[i])
        /\ Magnitude(text) = g[1]
  <2>1. 1 \in Nat OBVIOUS
  <2> HIDE DEF text
  <2> QED BY <1>1, <1>2, <2>1, MagnitudeIs
<1>4. DigitOf(text[1]) = k - 1
  <2>1. \A d \in 1..10 : Digits[d] = Digits[k] <=> d = k BY DEF Digits
  <2>2. (CHOOSE d \in 1..10 : Digits[d] = text[1]) = k BY <2>1
  <2> QED BY <2>2 DEF DigitOf
<1>5. Magnitude(text) = 10 * 0 + (k - 1)
  <2> HIDE DEF text
  <2>1. 1 \in 1..1 /\ 1 - 1 = 0 OBVIOUS
  <2> QED BY <1>3, <1>4, <2>1
<1> QED BY <1>5

\* What strtol returns is a long.
LEMMA strtolInt ==
  ASSUME NEW C, NEW text \in Seq(C)
  PROVE  strtol(text) \in Int
<1> DEFINE blanks == {i \in DOMAIN text : \A j \in 1..i : text[j] \in Blanks}
           number == SubSeq(text, Cardinality(blanks) + 1, Len(text))
           Sign(c) == number # <<>> /\ number[1] = c
           digits == IF Sign("-") \/ Sign("+") THEN Tail(number) ELSE number
           value == Magnitude(digits)
<1>1. Len(text) \in Nat /\ DOMAIN text = 1..Len(text) BY LenProperties
<1>2. Cardinality(blanks) \in Nat
  <2>1. blanks \subseteq 1..Len(text) BY <1>1
  <2> HIDE DEF blanks
  <2>2. IsFiniteSet(1..Len(text)) BY <1>1, FS_Interval
  <2>3. IsFiniteSet(blanks) BY <2>1, <2>2, FS_Subset
  <2> QED BY <2>3, FS_CardinalityType
<1>3. number \in Seq(C)
  <2> DEFINE m == Cardinality(blanks) + 1
  <2>1. m \in Int /\ 1 <= m BY <1>2
  <2> HIDE DEF m, blanks
  <2>2. \A i \in m..Len(text) : text[i] \in C BY <1>1, <2>1, ElementOfSeq
  <2>3. Len(text) \in Int BY <1>1
  <2>4. SubSeq(text, m, Len(text)) \in Seq(C) BY <2>1, <2>2, <2>3, SubSeqProperties
  <2> QED BY <2>4 DEF m
<1> HIDE DEF number
<1>4. digits \in Seq(C)
  <2>1. number # <<>> => Tail(number) \in Seq(C) BY <1>3, HeadTailProperties
  <2> QED BY <1>3, <2>1
<1>5. value \in Nat
  <2> HIDE DEF digits
  <2> QED BY <1>4, MagnitudeNat
<1>6. strtol(text) =
        CASE ~Sign("-") /\ value <= LongMax -> value
          [] ~Sign("-") /\ value > LongMax  -> LongMax
          [] Sign("-") /\ value <= LongMax  -> -value
          [] OTHER                          -> -LongMax - 1
  BY DEF strtol, value, Sign, digits, number, blanks
<1> HIDE DEF value, Sign
<1>7. LongMax \in Nat BY NumberAssumption
<1> QED BY <1>5, <1>6, <1>7

\* A digit is no blank and no sign.
LEMMA strtolDigit ==
  ASSUME NEW k \in 1..10
  PROVE  strtol(<<Digits[k]>>) = k - 1
<1> DEFINE text == <<Digits[k]>>
           blanks == {i \in DOMAIN text : \A j \in 1..i : text[j] \in Blanks}
<1>1. Digits[k] \in {"0", "1", "2", "3", "4", "5", "6", "7", "8", "9"} BY DEF Digits
<1>2. text[1] = Digits[k] /\ DOMAIN text = {1} /\ Len(text) = 1 OBVIOUS
<1> HIDE DEF text
<1>3. blanks = {}
  <2>1. 1 \in 1..1 /\ text[1] \notin Blanks BY <1>1, <1>2, NumberAssumption
  <2> QED BY <1>2, <2>1
<1>4. Cardinality(blanks) + 1 = 1
  <2> HIDE DEF blanks
  <2>1. Cardinality(blanks) = 0 BY <1>3, FS_EmptySet
  <2> QED BY <2>1
<1>5. SubSeq(text, Cardinality(blanks) + 1, Len(text)) = text
  <2>1. SubSeq(text, 1, 1) = text
    <3>1. SubSeq(text, 1, 1) = [i \in 1..1 |-> text[i]] BY <1>2 DEF SubSeq
    <3>2. text = [i \in 1..1 |-> text[i]] BY DEF text
    <3> QED BY <3>1, <3>2
  <2> HIDE DEF blanks
  <2> QED BY <1>2, <1>4, <2>1
<1>6. text[1] # "-" /\ text[1] # "+" BY <1>1, <1>2
<1>7. Magnitude(text) = k - 1 BY MagnitudeDigit DEF text
<1>8. k - 1 <= LongMax BY NumberAssumption
<1>9. strtol(text) = k - 1
  <2> DEFINE Sign(c) == text # <<>> /\ text[1] = c
             value == Magnitude(IF Sign("-") \/ Sign("+") THEN Tail(text) ELSE text)
  <2>1. ~Sign("-") /\ ~Sign("+") BY <1>6
  <2>2. strtol(text) =
          CASE ~Sign("-") /\ value <= LongMax -> value
            [] ~Sign("-") /\ value > LongMax  -> LongMax
            [] Sign("-") /\ value <= LongMax  -> -value
            [] OTHER                          -> -LongMax - 1
    <3> HIDE DEF blanks
    <3>1. SubSeq(text, Cardinality({i \in DOMAIN text : \A j \in 1..i : text[j] \in Blanks}) + 1, Len(text))
            = text
      BY <1>5 DEF blanks
    <3> QED BY <3>1, Zenon DEF strtol
  <2>3. value = k - 1 BY <1>7, <2>1
  <2>4. LongMax \in Nat BY NumberAssumption
  <2>5. value <= LongMax /\ ~(value > LongMax) BY <1>8, <2>3, <2>4
  <2> HIDE DEF value, Sign
  <2>6. strtol(text) = value BY <2>1, <2>2, <2>5, ZenonT(60)
  <2> QED BY <2>3, <2>6
<1> QED BY <1>9 DEF text

-----------------------------------------------------------------------------
(* The checks                                                              *)

LEMMA WarningTypes ==
  /\ DOMAIN Checks!Warnings = KnownWarnings
  /\ \A type \in KnownWarnings : Checks!Warnings[type].content \in {"none", "field"}
BY Zenon DEF Checks!Warnings, Checks!Warning, KnownWarnings

\* What the checks look at tells the fields apart as it should.
LEMMA SeenIs ==
  ASSUME res \in Seq(Seq(Chars))
  PROVE  /\ Len(res) \in Nat /\ Seen.n = Len(res)
         /\ Len(res) > 1 => (Seen.platform = "0" <=> res[2] = <<"0">>)
         /\ Len(res) > 3 => (Seen.receiver_type \in {"2", "3", "4", "5"}
                               <=> res[4] \in ReceiverTexts)
         /\ Checks!strtol(Seen.warning) = Seen.warning
         /\ Len(res) > 4 => Seen.warning = strtol(res[5])
<1>1. Len(res) \in Nat BY LenProperties
<1>2. ASSUME Len(res) > 1 PROVE Seen.platform = "0" <=> res[2] = <<"0">>
  <2>1. Seen.platform = Tested(1, {"0", "1"}) BY DEF Seen
  <2>2. Has(1) /\ 1 + 1 = 2 BY <1>2 DEF Has
  <2>3. CASE res[2] = <<"0">> BY <2>1, <2>2, <2>3 DEF Tested
  <2>4. CASE res[2] = <<"1">> BY <2>1, <2>2, <2>4 DEF Tested
  <2>5. CASE res[2] # <<"0">> /\ res[2] # <<"1">>
    <3>1. Tested(1, {"0", "1"}) = "other" BY <2>2, <2>5 DEF Tested
    <3> QED BY <2>1, <2>5, <3>1
  <2> QED BY <2>3, <2>4, <2>5
<1>3. ASSUME Len(res) > 3
      PROVE  Seen.receiver_type \in {"2", "3", "4", "5"} <=> res[4] \in ReceiverTexts
  <2>1. Seen.receiver_type = Tested(3, {"2", "3", "4", "5"}) BY DEF Seen
  <2>2. Has(3) /\ 3 + 1 = 4 BY <1>3 DEF Has
  <2>3. ASSUME NEW c \in {"2", "3", "4", "5"}, res[4] = <<c>>
        PROVE  Seen.receiver_type = c
    BY <2>1, <2>2, <2>3 DEF Tested
  <2>4. CASE \A c \in {"2", "3", "4", "5"} : res[4] # <<c>>
    <3>1. Tested(3, {"2", "3", "4", "5"}) = "other" BY <2>2, <2>4 DEF Tested
    <3> QED BY <2>1, <2>4, <3>1 DEF ReceiverTexts
  <2> QED BY <2>3, <2>4 DEF ReceiverTexts
<1>4. Seen.warning \in Int /\ (Len(res) > 4 => Seen.warning = strtol(res[5]))
  <2>1. CASE Len(res) > 4
    <3>1. res[5] \in Seq(Chars) BY <1>1, <2>1, ElementOfSeq
    <3> QED BY <2>1, <3>1, strtolInt DEF Seen, Has
  <2>2. CASE ~(Len(res) > 4) BY <2>2 DEF Seen, Has
  <2> QED BY <2>1, <2>2
<1>5. Checks!strtol(Seen.warning) = Seen.warning
  BY <1>4, NumberAssumption DEF Checks!strtol
<1> QED BY <1>1, <1>2, <1>3, <1>4, <1>5 DEF Seen

LEMMA DataOk ==
  ASSUME NEW r
  PROVE  Checks!is_data_ok(Checks!Command(r))
           <=> r.receiver_type \in {"2", "3", "4", "5"} /\ Configured
BY DEF Checks!is_data_ok, Checks!Command, Configured

\* From the fields to the outcome.
Served(o, f) ==
  LET n == Len(f)
      android  == n > 1 /\ f[2] = <<"0">>
      receiver == n > 3 /\ f[4] \in ReceiverTexts
  IN  /\ (o = "stored") <=>
           (n = 6 /\ android /\ receiver /\ strtol(f[5]) \in KnownWarnings /\ Configured)
      /\ (o = "throws") <=>
           (n = 1 \/ (n \in {2, 3} /\ android) \/ (n = 4 /\ android /\ receiver))

LEMMA OutcomeServed ==
  ASSUME res \in Seq(Seq(Chars))
  PROVE  /\ Served(Checks!Outcome(Seen), res)
         /\ Checks!Outcome(Seen) \in {"stored", "rejected", "throws"}
<1> DEFINE n == Len(res)
           android  == n > 1 /\ res[2] = <<"0">>
           receiver == n > 3 /\ res[4] \in ReceiverTexts
<1>1. n \in Nat /\ Seen.n = n BY SeenIs
<1>2. n > 1 => (Checks!PlatformOk(Seen) <=> res[2] = <<"0">>) BY SeenIs DEF Checks!PlatformOk
<1>3. n > 3 => (Checks!ReceiverOk(Seen) <=> res[4] \in ReceiverTexts) BY SeenIs DEF Checks!ReceiverOk
<1>4. n > 4 => (Checks!WarningOk(Seen) <=> strtol(res[5]) \in KnownWarnings)
  BY SeenIs, WarningTypes DEF Checks!WarningOk
<1>5. Checks!is_data_ok(Checks!Command(Seen)) <=> Checks!ReceiverOk(Seen) /\ Configured
  BY DataOk DEF Checks!ReceiverOk
<1>6. Checks!CountOk(Seen) <=> n = 6
  <2>1. Checks!CountOk(Seen) <=> Seen.n + 2 = 8 BY DEF Checks!CountOk, Checks!KeyCount
  <2> HIDE DEF n
  <2> QED BY <1>1, <2>1
<1>7. \A i \in Nat : Checks!Has(Seen, i) <=> n > i BY <1>1 DEF Checks!Has
<1> HIDE DEF n
<1>8. Checks!Throws(Seen)
        <=> (n = 1 \/ (n \in {2, 3} /\ android) \/ (n = 4 /\ android /\ receiver))
  BY <1>1, <1>2, <1>3, <1>7 DEF Checks!Throws
<1>9. Checks!Stores(Seen)
        <=> (n = 6 /\ android /\ receiver /\ strtol(res[5]) \in KnownWarnings /\ Configured)
  BY <1>1, <1>2, <1>3, <1>4, <1>5, <1>6, <1>7 DEF Checks!Stores
<1>10. ~(Checks!Throws(Seen) /\ Checks!Stores(Seen)) BY <1>1, <1>8, <1>9
<1> QED BY <1>8, <1>9, <1>10 DEF Checks!Outcome, Served, n

-----------------------------------------------------------------------------
(* The command, the request and the row                                    *)

\* config_value puts each value under its key.
LEMMA CommandIs ==
  ASSUME p_file \in Settings
  PROVE  LET w == Checks!Warnings[Seen.warning]
             content == IF w.content = "field" THEN <<w.title>> \o res[6] ELSE <<>>
         IN  /\ DOMAIN Command = SettingNames \cup
                  {"receiver_value", "platform", "customizedID", "n_title", "n_content", "n_extras"}
             /\ Command.receiver_value = res[1] /\ Command.platform = <<"android">>
             /\ Command.customizedID = res[3] /\ Command.receiver_type = strtol(res[4])
             /\ Command.n_title = <<w.title>> /\ Command.n_content = content
             /\ Command.n_extras = <<<<"warnning_type">>, <<w.code>>>>
             /\ \A name \in SettingNames \ {"receiver_type"} : Command[name] = p_file[name]
<1> DEFINE w == Checks!Warnings[Seen.warning]
           content == IF w.content = "field" THEN <<w.title>> \o res[6] ELSE <<>>
           Of(key) == Values[CHOOSE i \in DOMAIN string_key : string_key[i] = key]
           texts == {"receiver_value", "platform", "customizedID", "n_title", "n_content"}
           names == SettingNames \cup texts \cup {"n_extras"}
           Value(name) == CASE name = "receiver_type" -> strtol(Of("receiver_type"))
                            [] name \in texts         -> Of(name)
                            [] name = "n_extras"      -> <<Of("n_extras1:key"), Of("n_extras1:value")>>
                            [] OTHER                  -> p_file[name]
<1>1. \A k \in 1..8 : Of(string_key[k]) = Values[k]
  <2> TAKE k \in 1..8
  <2>1. DOMAIN string_key = 1..8 BY DEF string_key
  <2>2. \A i \in 1..8 : string_key[i] = string_key[k] <=> i = k BY DEF string_key
  <2>3. (CHOOSE i \in DOMAIN string_key : string_key[i] = string_key[k]) = k
    <3> HIDE DEF string_key
    <3> QED BY <2>1, <2>2
  <2> QED BY <2>3
<1> HIDE DEF Of
<1>2. /\ Of("receiver_value") = Values[1] /\ Of("platform") = Values[2]
      /\ Of("customizedID") = Values[3] /\ Of("receiver_type") = Values[4]
      /\ Of("n_title") = Values[5] /\ Of("n_content") = Values[6]
      /\ Of("n_extras1:key") = Values[7] /\ Of("n_extras1:value") = Values[8]
  BY <1>1 DEF string_key
<1>3. Values = <<res[1], <<"android">>, res[3], res[4], <<w.title>>, content,
                 <<"warnning_type">>, <<w.code>>>>
  BY DEF Values
<1>4. /\ Of("receiver_value") = res[1] /\ Of("platform") = <<"android">>
      /\ Of("customizedID") = res[3] /\ Of("receiver_type") = res[4]
      /\ Of("n_title") = <<w.title>> /\ Of("n_content") = content
      /\ Of("n_extras1:key") = <<"warnning_type">> /\ Of("n_extras1:value") = <<w.code>>
  <2> HIDE DEF w, content
  <2> QED BY <1>2, <1>3
<1>5. Command = [name \in names |-> Value(name)] BY DEF Command, Of
<1>6. \A name \in SettingNames : name \notin texts /\ name # "n_extras" BY DEF SettingNames
<1>7. "receiver_type" \in SettingNames BY DEF SettingNames
<1> HIDE DEF w, content
<1>8. /\ DOMAIN Command = names
      /\ Command.receiver_type = strtol(Of("receiver_type"))
      /\ \A name \in texts : Command[name] = Of(name)
      /\ Command.n_extras = <<Of("n_extras1:key"), Of("n_extras1:value")>>
      /\ \A name \in SettingNames \ {"receiver_type"} : Command[name] = p_file[name]
  BY <1>5, <1>6, <1>7
<1>9. names = SettingNames \cup
        {"receiver_value", "platform", "customizedID", "n_title", "n_content", "n_extras"}
  OBVIOUS
<1> QED BY <1>4, <1>8, <1>9 DEF w, content
LEMMA MsgContentIs ==
  LET Taken(name) == ValidUtf8(cmd[name]) /\ (name = "n_title" => cmd.n_content # <<>>)
  IN  /\ \A name \in {"n_content", "n_title"} :
           /\ name \in DOMAIN MsgContent <=> Taken(name)
           /\ name \in DOMAIN MsgContent => MsgContent[name] = cmd[name]
      /\ MsgContent.n_extras = [key \in {cmd.n_extras[1]} |-> cmd.n_extras[2]]
<1> DEFINE Taken(name) == ValidUtf8(cmd[name]) /\ (name = "n_title" => cmd.n_content # <<>>)
           names == {n \in {"n_content", "n_title"} : Taken(n)} \cup {"n_extras"}
           extras == [key \in {cmd.n_extras[1]} |-> cmd.n_extras[2]]
<1>1. MsgContent = [name \in names |-> IF name = "n_extras" THEN extras ELSE cmd[name]]
  BY DEF MsgContent
<1> HIDE DEF Taken, extras
<1>2. /\ \A name \in {"n_content", "n_title"} :
           /\ name \in DOMAIN MsgContent <=> Taken(name)
           /\ name \in DOMAIN MsgContent => MsgContent[name] = cmd[name]
      /\ MsgContent.n_extras = extras
  BY <1>1
<1> QED BY <1>2 DEF Taken, extras

LEMMA FormIs ==
  /\ \A name \in {"sendno", "app_key", "platform", "receiver_type", "receiver_value",
                  "time_to_live", "msg_type"} :
       name \in DOMAIN Form => Form[name] = cmd[name]
  /\ "sendno" \in DOMAIN Form
  /\ cmd.receiver_type \in 2..5 => "receiver_type" \in DOMAIN Form
  /\ cmd.receiver_value # <<>> <=> "receiver_value" \in DOMAIN Form
  /\ Form.verification_code = VerificationCode
  /\ Form.msg_content = MsgContent
<1> DEFINE Given(name) == CASE name = "receiver_type"  -> cmd[name] \in 2..5
                            [] name = "time_to_live"   -> cmd[name] >= 0
                            [] name = "apns_production" -> cmd[name] \in {0, 1}
                            [] name \in {"receiver_value", "override_msg_id"} -> cmd[name] # <<>>
                            [] OTHER -> TRUE
           all == {"sendno", "app_key", "receiver_type", "receiver_value", "msg_type",
                   "send_description", "platform", "time_to_live", "apns_production",
                   "override_msg_id"}
           names == {n \in all : Given(n)} \cup {"verification_code", "msg_content"}
           Value(name) == CASE name = "verification_code" -> VerificationCode
                            [] name = "msg_content"       -> MsgContent
                            [] OTHER                      -> cmd[name]
<1>1. Form = [name \in names |-> Value(name)] BY DEF Form
<1>2. /\ Given("sendno")
      /\ cmd.receiver_type \in 2..5 => Given("receiver_type")
      /\ cmd.receiver_value # <<>> <=> Given("receiver_value")
  OBVIOUS
<1>3. \A name \in all : name # "verification_code" /\ name # "msg_content" OBVIOUS
<1> HIDE DEF Given
<1>4. \A name \in all : name \in names <=> Given(name) OBVIOUS
<1>5. \A name \in all : name \in DOMAIN Form => Form[name] = cmd[name] BY <1>1, <1>3
<1>6. Form.verification_code = VerificationCode /\ Form.msg_content = MsgContent BY <1>1
<1>7. DOMAIN Form = names BY <1>1
<1> HIDE DEF names
<1> QED BY <1>2, <1>4, <1>5, <1>6, <1>7

\* The columns are the values in their order.
LEMMA RowIs ==
  /\ Row.owner_id = cmd.customizedID /\ Row.push_no = cmd.sendno /\ Row.app_key = cmd.app_key
  /\ Row.app_type = cmd.platform /\ Row.push_type = cmd.receiver_type
  /\ Row.push_id = cmd.receiver_value /\ Row.msg_content = cmd.n_content
  /\ Row.msg_title = cmd.n_title /\ Row.msg_live = cmd.time_to_live
  /\ Row.msg_show_type = cmd.msg_type
<1>1. DOMAIN Columns = 1..10 BY DEF Columns
<1>2. ASSUME NEW k \in 1..10 PROVE Row[Columns[k]] = RowValues[k]
  <2>1. \A i \in 1..10 : Columns[i] = Columns[k] <=> i = k BY DEF Columns
  <2>2. (CHOOSE i \in DOMAIN Columns : Columns[i] = Columns[k]) = k BY <1>1, <2>1
  <2>3. Columns[k] \in {Columns[i] : i \in DOMAIN Columns} BY <1>1
  <2> QED BY <2>2, <2>3 DEF Row
<1>3. \A k \in 1..10 : Row[Columns[k]] = RowValues[k] BY <1>2
<1>4. /\ Row.owner_id = RowValues[1] /\ Row.push_no = RowValues[2] /\ Row.app_key = RowValues[3]
      /\ Row.app_type = RowValues[4] /\ Row.push_type = RowValues[5]
      /\ Row.push_id = RowValues[6] /\ Row.msg_content = RowValues[7]
      /\ Row.msg_title = RowValues[8] /\ Row.msg_live = RowValues[9]
      /\ Row.msg_show_type = RowValues[10]
  BY <1>3 DEF Columns
<1> QED BY <1>4 DEF RowValues
-----------------------------------------------------------------------------
(* The whole way                                                           *)

PathInv ==
  /\ SplitInv
  /\ p_file \in Settings
  /\ pc \in {"loop", "done", "push", "insert", "end", "undefined"}
  /\ outcome \in {"none", "stored", "rejected", "throws"}
  /\ pc \in {"loop", "done"} => outcome = "none"
  /\ pc \in {"push", "insert"} => outcome = "stored"
  /\ pc \notin {"loop", "undefined"} => TextFits
  /\ ServedExactly
  /\ outcome = "stored" => cmd = Command
  /\ outcome = "stored" /\ pc \in {"insert", "end"} /\ FormPlain => form = Form
  /\ outcome = "stored" /\ pc = "end" => row = IF RowPlain THEN Row ELSE NoFields

\* What is told of a record, said of Visible.
ServedVisible ==
  outcome # "none" => Served(outcome, Visible) /\ TextFits /\ FieldsFit

LEMMA ServedIs == ServedExactly <=> ServedVisible /\ (pc = "undefined" => Unsafe)
BY DEF ServedExactly, ServedVisible, Served

LEMMA FieldsStay ==
  ASSUME SplitInv, pc # "loop", pc' # "loop", pc # "undefined", UNCHANGED <<src, front, res>>
  PROVE  SplitInv'
<1>1. Visible' = Visible BY SameText
<1> QED BY <1>1 DEF SplitInv, FieldsClean, Clean, FrontInside, FieldsReturned, FieldsFit

\* What has been told stays told.
LEMMA ServedStays ==
  ASSUME UNCHANGED <<src, p_file, outcome>>, ServedVisible
  PROVE  ServedVisible'
<1>1. Visible' = Visible BY SameText
<1> QED BY <1>1 DEF ServedVisible, Served, Configured, TextFits, FieldsFit

\* What follows the checks does not touch what they looked at.
LEMMA CommandStays ==
  ASSUME UNCHANGED <<res, p_file>>
  PROVE  Command' = Command
BY DEF Command, Values, Seen, Tested, Has, Checks!Warnings, Checks!Warning

LEMMA FormStays == ASSUME UNCHANGED cmd PROVE Form' = Form /\ FormPlain' = FormPlain
BY DEF Form, MsgContent, VerificationCode, FormPlain, Without

LEMMA RowStays == ASSUME UNCHANGED cmd PROVE Row' = Row /\ RowPlain' = RowPlain
BY DEF Row, RowValues, RowPlain, Without

LEMMA PathInvInit == PathInit => PathInv
<1> SUFFICES ASSUME PathInit PROVE PathInv OBVIOUS
<1>1. SplitInv BY SplitInit DEF PathInit
<1> QED BY <1>1 DEF PathInit, Init, PathInv, ServedExactly

LEMMA PathInvStep == PathInv /\ [PathNext]_pathVars => PathInv'
<1> SUFFICES ASSUME PathInv, [PathNext]_pathVars PROVE PathInv' OBVIOUS
<1>0. ServedVisible BY ServedIs DEF PathInv
<1>1. CASE Splitting
  <2>1. SplitInv' BY <1>1, SplitStep DEF PathInv, Splitting
  <2>2. pc = "loop" /\ pc' \in {"loop", "done", "undefined"} /\ (pc' = "undefined" => Overrun)
    BY <1>1 DEF Splitting, Next, Leave, TakeRest, SkipLeading, TakeField, Overrun, InLoop
  <2>3. /\ outcome = "none" /\ outcome' = "none" /\ p_file' = p_file /\ src' = src
        /\ TextFits /\ TextFits'
    BY <1>1, <2>2
    DEF PathInv, Splitting, Next, Leave, TakeRest, SkipLeading, TakeField, Overrun, TextFits
  <2>4. ASSUME pc' = "undefined" PROVE Unsafe'
    <3>1. \E k \in 1..(UpTo(Len(src)) + 1) : ~Fits(Len(Field(k)))
      BY <2>2, <2>4, OverrunLong DEF PathInv
    <3>2. \A i : UpTo(i)' = UpTo(i) /\ Field(i)' = Field(i) BY <2>3, SameText
    <3>3. UpTo(Len(src))' = UpTo(Len(src)) BY <2>3 DEF UpTo, Delims
    <3> QED BY <2>3, <3>1, <3>2, <3>3 DEF Unsafe
  <2> QED BY <2>1, <2>2, <2>3, <2>4 DEF PathInv, ServedExactly
<1>2. CASE Decode
  <2>1. pc = "done" /\ outcome' = Checks!Outcome(Seen) /\ pc' \in {"push", "end"}
        /\ UNCHANGED <<src, front, res, p_file, form, row>>
    BY <1>2 DEF Decode
  <2>2. SplitInv' BY <2>1, FieldsStay DEF PathInv
  <2>3. res \in Seq(Seq(Chars)) /\ res = Visible /\ FieldsFit /\ TextFits
    BY <2>1 DEF PathInv, SplitInv, FieldsReturned
  <2>4. Served(outcome', Visible) /\ outcome' \in {"stored", "rejected", "throws"}
    BY <2>1, <2>3, OutcomeServed
  <2>5. Visible' = Visible /\ Configured' = Configured /\ TextFits' /\ FieldsFit'
    <3>1. Visible' = Visible BY <2>1, SameText
    <3> QED BY <2>1, <2>3, <3>1 DEF Configured, TextFits, FieldsFit
  <2>6. ServedExactly'
    <3>1. ServedVisible' BY <2>4, <2>5 DEF ServedVisible, Served
    <3>2. ServedExactly' <=> ServedVisible' /\ (pc' = "undefined" => Unsafe')
      BY DEF ServedExactly, ServedVisible, Served
    <3> QED BY <2>1, <3>1, <3>2
  <2>7. IF outcome' = "stored" THEN cmd' = Command /\ pc' = "push" ELSE pc' = "end"
    BY <1>2 DEF Decode
  <2>8. Command' = Command BY <2>1, CommandStays
  <2> QED BY <2>1, <2>2, <2>4, <2>5, <2>6, <2>7, <2>8 DEF PathInv
<1>3. CASE data_push
  <2>1. /\ pc = "push" /\ pc' \in {"insert", "undefined"}
        /\ FormPlain => form' = Form
        /\ pc' = "undefined" => ~Logs(cmd.app_key)
        /\ UNCHANGED <<src, front, res, p_file, outcome, cmd, row>>
    BY <1>3 DEF data_push
  <2>2. SplitInv' BY <2>1, FieldsStay DEF PathInv
  <2>3. outcome = "stored" /\ TextFits /\ TextFits' BY <2>1 DEF PathInv, TextFits
  <2>4. pc' = "undefined" => Unsafe' BY <2>1, <2>3 DEF Unsafe, Logs, Without
  <2>5. ServedExactly'
    <3>1. ServedVisible' BY <1>0, <2>1, ServedStays
    <3>2. ServedExactly' <=> ServedVisible' /\ (pc' = "undefined" => Unsafe')
      BY DEF ServedExactly, ServedVisible, Served
    <3> QED BY <2>4, <3>1, <3>2
  <2>6. Command' = Command /\ Form' = Form /\ FormPlain' = FormPlain
    BY <2>1, CommandStays, FormStays
  <2> QED BY <2>1, <2>2, <2>3, <2>5, <2>6 DEF PathInv
<1>4. CASE store_data_msql
  <2>1. /\ pc = "insert" /\ pc' \in {"end", "undefined"}
        /\ row' = IF RowPlain THEN Row ELSE NoFields
        /\ pc' = "undefined" => ~(RowLogs /\ RowFits)
        /\ UNCHANGED <<src, front, res, p_file, outcome, cmd, form>>
    BY <1>4 DEF store_data_msql
  <2>2. SplitInv' BY <2>1, FieldsStay DEF PathInv
  <2>3. outcome = "stored" /\ TextFits /\ TextFits' BY <2>1 DEF PathInv, TextFits
  <2>4. pc' = "undefined" => Unsafe'
    <3>1. RowLogs' = RowLogs /\ RowFits' = RowFits
      BY <2>1 DEF RowLogs, RowFits, Logs, Without
    <3> QED BY <2>1, <2>3, <3>1 DEF Unsafe
  <2>5. ServedExactly'
    <3>1. ServedVisible' BY <1>0, <2>1, ServedStays
    <3>2. ServedExactly' <=> ServedVisible' /\ (pc' = "undefined" => Unsafe')
      BY DEF ServedExactly, ServedVisible, Served
    <3> QED BY <2>4, <3>1, <3>2
  <2>6. /\ Command' = Command /\ Form' = Form /\ FormPlain' = FormPlain
        /\ Row' = Row /\ RowPlain' = RowPlain
    BY <2>1, CommandStays, FormStays, RowStays
  <2>7. FormPlain => form = Form BY <2>1, <2>3 DEF PathInv
  <2> QED BY <2>1, <2>2, <2>3, <2>5, <2>6, <2>7 DEF PathInv
<1>5. CASE CopyOverruns
  <2>1. /\ pc = "loop" /\ ~TextFits /\ pc' = "undefined"
        /\ UNCHANGED <<src, front, res, p_file, outcome, cmd, form, row>>
    BY <1>5 DEF CopyOverruns
  <2>2. SplitInv'
    BY <2>1 DEF PathInv, SplitInv, FieldsClean, Clean, FrontInside, FieldsReturned
  <2>3. Unsafe' BY <2>1 DEF Unsafe, TextFits
  <2>4. outcome = "none" /\ outcome' = "none" BY <2>1 DEF PathInv
  <2> QED BY <2>1, <2>2, <2>3, <2>4 DEF PathInv, ServedExactly
<1>6. CASE UNCHANGED pathVars
  <2>1. UNCHANGED <<src, front, res, pc, p_file, outcome, cmd, form, row>>
    BY <1>6 DEF pathVars, vars
  <2>2. Visible' = Visible /\ \A i : UpTo(i)' = UpTo(i) /\ Field(i)' = Field(i)
    BY <2>1, SameText
  <2>3. Progress' <=> Progress BY <2>1, <2>2 DEF Progress, UpTo, Delims
  <2>4. SplitInv'
    BY <2>1, <2>2, <2>3
    DEF PathInv, SplitInv, FieldsClean, Clean, FrontInside, FieldsReturned, FieldsFit
  <2>5. TextFits' = TextFits BY <2>1 DEF TextFits
  <2>6. Unsafe => Unsafe'
    <3>1. RowLogs' = RowLogs /\ RowFits' = RowFits /\ Logs(cmd.app_key)' = Logs(cmd.app_key)
      BY <2>1 DEF RowLogs, RowFits, Logs, Without
    <3>2. UpTo(Len(src))' = UpTo(Len(src)) BY <2>1 DEF UpTo, Delims
    <3> QED BY <2>1, <2>2, <2>5, <3>1, <3>2 DEF Unsafe
  <2>7. ServedExactly'
    <3>1. ServedVisible' BY <1>0, <2>1, ServedStays
    <3>2. ServedExactly' <=> ServedVisible' /\ (pc' = "undefined" => Unsafe')
      BY DEF ServedExactly, ServedVisible, Served
    <3>3. pc = "undefined" => Unsafe BY DEF PathInv, ServedExactly
    <3> QED BY <2>1, <2>6, <3>1, <3>2, <3>3
  <2>8. /\ Command' = Command /\ Form' = Form /\ FormPlain' = FormPlain
        /\ Row' = Row /\ RowPlain' = RowPlain
    BY <2>1, CommandStays, FormStays, RowStays
  <2> QED BY <2>1, <2>4, <2>5, <2>7, <2>8 DEF PathInv
<1> QED BY <1>1, <1>2, <1>3, <1>4, <1>5, <1>6 DEF PathNext
-----------------------------------------------------------------------------
(* What the invariant says of a record that was served                     *)

LEMMA RequestIsTrue ==
  ASSUME PathInv, pc = "end", outcome = "stored"
  PROVE  /\ FormPlain => RequestTrue
         /\ IF RowPlain THEN RowTrue ELSE row = NoFields
<1> DEFINE w == Checks!Warnings[Seen.warning]
           content == IF w.content = "field" THEN <<w.title>> \o res[6] ELSE <<>>
<1>1. /\ res \in Seq(Seq(Chars)) /\ res = Visible /\ p_file \in Settings
      /\ cmd = Command /\ row = IF RowPlain THEN Row ELSE NoFields
      /\ FormPlain => form = Form
  BY DEF PathInv, SplitInv, FieldsReturned
<1>2. Len(res) = 6 /\ res[4] \in ReceiverTexts /\ strtol(res[5]) \in KnownWarnings
  <2>1. Served(outcome, res) BY <1>1, ServedIs DEF PathInv, ServedVisible
  <2> QED BY <2>1 DEF Served
<1>3. Seen.warning = strtol(res[5]) BY <1>1, <1>2, SeenIs
<1>4. /\ cmd.receiver_value = res[1] /\ cmd.platform = <<"android">>
      /\ cmd.customizedID = res[3] /\ cmd.receiver_type = strtol(res[4])
      /\ cmd.n_title = <<w.title>> /\ cmd.n_content = content
      /\ cmd.n_extras = <<<<"warnning_type">>, <<w.code>>>>
      /\ \A name \in SettingNames \ {"receiver_type"} : cmd[name] = p_file[name]
  BY <1>1, CommandIs
<1>5. cmd.receiver_type \in 2..5
  <2>1. \E k \in {3, 4, 5, 6} : res[4] = <<Digits[k]>> BY <1>2 DEF ReceiverTexts, Digits
  <2>2. PICK k \in {3, 4, 5, 6} : res[4] = <<Digits[k]>> BY <2>1
  <2>3. k \in 1..10 OBVIOUS
  <2>4. strtol(res[4]) = k - 1 BY <2>2, <2>3, strtolDigit
  <2> QED BY <1>4, <2>4
<1>6. res[6] \in Seq(Chars)
  <2>1. 6 \in 1..Len(res) BY <1>2
  <2>2. res \in Seq(Seq(Chars)) BY <1>1
  <2> HIDE DEF content, w
  <2> QED BY <2>1, <2>2, ElementOfSeq
<1>7. w.title # BadByte /\ w.content \in {"none", "field"}
  BY <1>2, <1>3, LiteralsAssumption, WarningTypes
<1>8. ValidUtf8(<<w.title>>) BY <1>7 DEF ValidUtf8
<1>9. w.content = "field" => (ValidUtf8(content) <=> ValidUtf8(res[6])) /\ content # <<>>
  <2> SUFFICES ASSUME w.content = "field"
               PROVE  (ValidUtf8(content) <=> ValidUtf8(res[6])) /\ content # <<>>
      OBVIOUS
  <2> DEFINE n == Len(res[6])
  <2>1. n \in Nat /\ DOMAIN res[6] = 1..n BY <1>6, LenProperties
  <2>2. content = <<w.title>> \o res[6] OBVIOUS
  <2>3. DOMAIN content = 1..(n + 1) /\ content[1] = w.title
        /\ \A i \in 1..n : content[i + 1] = res[6][i]
    <3> DEFINE t == <<w.title>>
               S == Chars \cup {w.title}
    <3>1. t \in Seq(S) /\ Len(t) = 1 /\ t[1] = w.title OBVIOUS
    <3>2. res[6] \in [1..n -> Chars]
      <4>1. \A i \in 1..n : res[6][i] \in Chars BY <1>6, ElementOfSeq
      <4> QED BY <1>6, <4>1, LenProperties
    <3>3. res[6] \in [1..n -> S] BY <3>2
    <3>4. res[6] \in Seq(S) BY <2>1, <3>3, SeqDef
    <3> HIDE DEF t, S
    <3>5. /\ t \o res[6] \in Seq(S) /\ Len(t \o res[6]) = 1 + n
          /\ \A i \in 1..(1 + n) : (t \o res[6])[i] = IF i <= 1 THEN t[i] ELSE res[6][i - 1]
      BY SMTT(60), <3>1, <3>4, ConcatProperties
    <3>6. DOMAIN (t \o res[6]) = 1..(1 + n) BY <3>5, LenProperties
    <3>7. content = t \o res[6] BY <2>2 DEF t
    <3>8. (t \o res[6])[1] = w.title
      <4>1. 1 \in 1..(1 + n) BY <2>1
      <4> QED BY <3>1, <3>5, <4>1
    <3>9. \A i \in 1..n : (t \o res[6])[i + 1] = res[6][i]
      <4> TAKE i \in 1..n
      <4>1. i + 1 \in 1..(1 + n) /\ ~(i + 1 <= 1) /\ (i + 1) - 1 = i BY <2>1
      <4> QED BY <3>5, <4>1
    <3>10. 1 + n = n + 1 BY <2>1
    <3> HIDE DEF content, n
    <3> QED BY <3>6, <3>7, <3>8, <3>9, <3>10
  <2>4. content # <<>>
    <3>1. 1 \in DOMAIN content BY <2>1, <2>3
    <3> HIDE DEF content
    <3> QED BY <3>1
  <2>5. ValidUtf8(content) <=> ValidUtf8(res[6])
    <3>1. \A i \in 1..(n + 1) : i = 1 \/ (i - 1 \in 1..n /\ (i - 1) + 1 = i) BY <2>1
    <3>2. \A i \in 1..n : i + 1 \in 1..(n + 1) BY <2>1
    <3>3. content[1] # BadByte BY <1>7, <2>3
    <3>4. n \in Nat /\ DOMAIN res[6] = 1..n BY <2>1
    <3> HIDE DEF content, n, w
    <3>5. ASSUME ValidUtf8(content) PROVE ValidUtf8(res[6])
      BY <2>3, <3>2, <3>4, <3>5 DEF ValidUtf8
    <3>6. ASSUME ValidUtf8(res[6]) PROVE ValidUtf8(content)
      <4> SUFFICES ASSUME NEW i \in 1..(n + 1) PROVE content[i] # BadByte
          BY <2>3 DEF ValidUtf8
      <4>1. CASE i = 1 BY <3>3, <4>1
      <4>2. CASE i # 1
        <5>1. i - 1 \in 1..n /\ (i - 1) + 1 = i BY <3>1, <4>2
        <5>2. content[i] = res[6][i - 1] BY <2>3, <5>1
        <5> QED BY <3>4, <3>6, <5>1, <5>2 DEF ValidUtf8
      <4> QED BY <4>1, <4>2
    <3> QED BY <3>5, <3>6
  <2> QED BY <2>4, <2>5
<1>10. w.content # "field" => content = <<>> OBVIOUS
<1> HIDE DEF content, w
<1>11. ASSUME FormPlain PROVE RequestTrue
  <2>0. form = Form BY <1>1, <1>11
  <2> DEFINE Told(name) == IF name \in DOMAIN form THEN form[name] ELSE <<>>
             Taken(name) == ValidUtf8(cmd[name]) /\ (name = "n_title" => cmd.n_content # <<>>)
  <2>1. w = Checks!Warnings[strtol(res[5])] BY <1>3 DEF w
  <2>2. Told("receiver_value") = res[1] BY <2>0, <1>4, FormIs
  <2>3. form.receiver_type = strtol(res[4]) BY <2>0, <1>4, <1>5, FormIs
  <2>4. form.verification_code =
          MD5(<<form.sendno, form.receiver_type, res[1], p_file.master_secret>>)
    <3>1. form.verification_code =
            MD5(<<cmd.sendno, cmd.receiver_type, cmd.receiver_value, cmd.master_secret>>)
      BY <2>0, FormIs DEF VerificationCode
    <3>2. form.sendno = cmd.sendno /\ form.receiver_type = cmd.receiver_type
      BY <2>0, <1>5, FormIs
    <3>3. cmd.master_secret = p_file.master_secret BY <1>4 DEF SettingNames
    <3> QED BY <1>4, <3>1, <3>2, <3>3
  <2>5. form.msg_content = MsgContent BY <2>0, FormIs
  <2>6. /\ \A name \in {"n_content", "n_title"} :
             /\ name \in DOMAIN form.msg_content <=> Taken(name)
             /\ name \in DOMAIN form.msg_content => form.msg_content[name] = cmd[name]
        /\ form.msg_content.n_extras = [key \in {cmd.n_extras[1]} |-> cmd.n_extras[2]]
    BY <2>5, MsgContentIs
  <2>7. "n_content" \in DOMAIN form.msg_content => form.msg_content.n_content = content
    BY <1>4, <2>6
  <2>8. "n_content" \notin DOMAIN form.msg_content => ~ValidUtf8(res[6])
    <3>1. Taken("n_content") <=> ValidUtf8(content) BY <1>4
    <3>2. ValidUtf8(<<>>) BY DEF ValidUtf8
    <3> QED BY <1>7, <1>9, <1>10, <2>6, <3>1, <3>2
  <2>9. form.msg_content.n_extras = [key \in {<<"warnning_type">>} |-> <<w.code>>]
    BY <1>4, <2>6
  <2>10. "n_title" \in DOMAIN form.msg_content <=> w.content = "field"
    <3>1. Taken("n_title") <=> content # <<>> BY <1>4, <1>8
    <3> QED BY <1>9, <1>10, <2>6, <3>1
  <2>11. content = IF w.content = "field" THEN <<w.title>> \o res[6] ELSE <<>> BY DEF content
  <2> QED BY <1>1, <2>1, <2>2, <2>3, <2>4, <2>7, <2>8, <2>9, <2>10, <2>11 DEF RequestTrue
<1>12. ASSUME RowPlain PROVE RowTrue
  <2>1. /\ row.owner_id = cmd.customizedID /\ row.push_no = cmd.sendno
        /\ row.app_key = cmd.app_key /\ row.app_type = cmd.platform
        /\ row.push_type = cmd.receiver_type /\ row.push_id = cmd.receiver_value
        /\ row.msg_content = cmd.n_content /\ row.msg_title = cmd.n_title
        /\ row.msg_live = cmd.time_to_live /\ row.msg_show_type = cmd.msg_type
    BY <1>1, <1>12, RowIs
  <2>2. \A name \in {"sendno", "app_key", "platform", "receiver_type", "receiver_value",
                     "time_to_live", "msg_type"} :
          name \in DOMAIN Form => Form[name] = cmd[name]
    BY FormIs
  <2>3. \A name \in {"n_content", "n_title"} :
          name \in DOMAIN Form.msg_content => Form.msg_content[name] = cmd[name]
    <3>1. Form.msg_content = MsgContent BY FormIs
    <3> QED BY <3>1, MsgContentIs
  <2> QED BY <1>1, <1>4, <2>1, <2>2, <2>3 DEF RowTrue
<1> QED BY <1>1, <1>11, <1>12

-----------------------------------------------------------------------------
\* PathInv holds in every state.
THEOREM Inductive == PathSpec => []PathInv
<1> QED BY PathInvInit, PathInvStep, PTL DEF PathSpec

\* Whatever the record, front is never past its last character when the loop
\* condition compares the two for equality.
THEOREM NeverPastEnd == PathSpec => []FrontInside
<1>1. PathInv => FrontInside BY DEF PathInv, SplitInv
<1> QED BY <1>1, Inductive, PTL

\* No field that string_filter returns contains a delimiter.
THEOREM NoDelimiterInField == PathSpec => []FieldsClean
<1>1. PathInv => FieldsClean BY DEF PathInv, SplitInv
<1> QED BY <1>1, Inductive, PTL

\* Records of any length, delimiters in any place: string_filter returns the
\* fields between the delimiters, but for those that begin at the last
\* character, and only if each of them fits into temp.
THEOREM SplitsTheRecord == PathSpec => []FieldsReturned
<1>1. PathInv => FieldsReturned BY DEF PathInv, SplitInv
<1> QED BY <1>1, Inductive, PTL

\* Which records are served and which one ends the process, told from the
\* text, signs and blanks in front of a number included, for any settings;
\* and which texts the program has no defined way for.
THEOREM ServesExactly == PathSpec => []ServedExactly
<1>1. PathInv => ServedExactly BY DEF PathInv
<1> QED BY <1>1, Inductive, PTL

\* The request goes to the receiver of the record with its content, unless a
\* text has a character that means something in a form; the row of the table
\* tells of the same request, and there is none if a text has a quote or a
\* backslash.
THEOREM RequestAndRowTrue == PathSpec => []RequestAndRow
<1>1. PathInv => RequestAndRow BY RequestIsTrue DEF RequestAndRow
<1> QED BY <1>1, Inductive, PTL
=============================================================================
