---------------------------- MODULE ProofLemmas ----------------------------
(***************************************************************************)
(* Lemmas that several of the proofs cite and that are about no component. *)
(***************************************************************************)
EXTENDS Integers, FiniteSets, SequencesExt, FiniteSetTheorems, SequenceTheorems, TLAPS

-----------------------------------------------------------------------------
(* How the number of threads at given labels changes when one thread moves *)
(* on.  f and g are the positions of the threads before and after a step.  *)
(* The proofs about semaphores cite these lemmas: a semaphore, a list and  *)
(* the threads between their calls add up to the same number in all states.*)

\* A thread that moves from outside of the labels L to inside adds one to
\* the number of threads of S at L.
LEMMA CountEnter ==
  ASSUME NEW S, IsFiniteSet(S), NEW f, NEW g, NEW L, NEW t \in S,
         f[t] \notin L, g[t] \in L, \A u \in S \ {t} : g[u] = f[u]
  PROVE  Cardinality({u \in S : g[u] \in L})
           = Cardinality({u \in S : f[u] \in L}) + 1
<1> DEFINE F == {u \in S : f[u] \in L}
           G == {u \in S : g[u] \in L}
<1>1. IsFiniteSet(F) BY FS_Subset
<1>2. G = F \cup {t} /\ t \notin F OBVIOUS
<1>3. Cardinality(F \cup {t}) = Cardinality(F) + 1
  BY <1>1, <1>2, FS_AddElement
<1> QED BY <1>2, <1>3

\* A thread that moves from inside of L to outside takes one away.
LEMMA CountLeave ==
  ASSUME NEW S, IsFiniteSet(S), NEW f, NEW g, NEW L, NEW t \in S,
         f[t] \in L, g[t] \notin L, \A u \in S \ {t} : g[u] = f[u]
  PROVE  Cardinality({u \in S : f[u] \in L})
           = Cardinality({u \in S : g[u] \in L}) + 1
BY CountEnter

\* A thread that stays inside of L or outside of it changes nothing.
LEMMA CountSame ==
  ASSUME NEW S, NEW f, NEW g, NEW L,
         \A u \in S : g[u] \in L <=> f[u] \in L
  PROVE  Cardinality({u \in S : g[u] \in L})
           = Cardinality({u \in S : f[u] \in L})
<1>1. {u \in S : g[u] \in L} = {u \in S : f[u] \in L} OBVIOUS
<1> QED BY <1>1

\* A count is a natural number, and positive once some thread is counted.
LEMMA CountNat ==
  ASSUME NEW S, IsFiniteSet(S), NEW f, NEW L
  PROVE  /\ Cardinality({u \in S : f[u] \in L}) \in Nat
         /\ \A t \in S : f[t] \in L =>
              Cardinality({u \in S : f[u] \in L}) > 0
<1> DEFINE F == {u \in S : f[u] \in L}
<1>1. IsFiniteSet(F) BY FS_Subset
<1>2. Cardinality(F) \in Nat BY <1>1, FS_CardinalityType
<1>3. Cardinality(F) = 0 <=> F = {} BY <1>1, FS_EmptySet
<1> QED BY <1>2, <1>3

-----------------------------------------------------------------------------
(* Induction.  The provers take no theorem whose parameter is a predicate, *)
(* so that a proof by induction is one by the least counterexample: if the *)
(* set of the numbers for which something fails is not empty, it has a     *)
(* least element.  The library says that finite sets are well-founded by   *)
(* inclusion; a number n stands for the set 1..n.                          *)

LEMMA LeastNumber ==
  ASSUME NEW T \in SUBSET Nat, T # {}
  PROVE  \E x \in T : \A y \in T : x <= y
<1> DEFINE F == {1..n : n \in T}
           R == StrictSubsetOrdering(Nat)
<1>1. IsWellFoundedOn(R, FiniteSubsetsOf(Nat)) BY FS_StrictSubsetOrderingWellFounded
<1>2. F \subseteq FiniteSubsetsOf(Nat)
  <2> SUFFICES ASSUME NEW n \in T PROVE 1..n \in FiniteSubsetsOf(Nat) OBVIOUS
  <2>1. n \in Int /\ 1 \in Int OBVIOUS
  <2>2. IsFiniteSet(1..n) BY <2>1, FS_Interval
  <2>3. 1..n \subseteq Nat OBVIOUS
  <2> QED BY <2>2, <2>3 DEF FiniteSubsetsOf
<1>3. F # {} OBVIOUS
<1>4. PICK A \in F : \A B \in F : <<B, A>> \notin R
  <2> HIDE DEF F, R
  <2> QED BY <1>1, <1>2, <1>3, WFMin
<1>5. PICK n \in T : A = 1..n OBVIOUS
<1>6. ASSUME NEW m \in T, m < n PROVE FALSE
  <2>1. 1..m \in F OBVIOUS
  <2>2. 1..m \subseteq 1..n /\ n \in 1..n /\ n \notin 1..m BY <1>6
  <2>3. 1..m \in SUBSET Nat /\ 1..n \in SUBSET Nat OBVIOUS
  <2>4. <<1..m, 1..n>> \in R
    <3> HIDE DEF F
    <3> QED BY <2>2, <2>3 DEF StrictSubsetOrdering
  <2> QED BY <1>4, <1>5, <2>1, <2>4
<1> QED BY <1>6

\* A number written in digits: the function that reads it digit by digit is
\* what its recursive definition says.
IsNumeral(g, d, n) ==
  g = [i \in 0..n |-> IF i = 0 THEN 0 ELSE 10 * g[i - 1] + d[i]]

LEMMA NumeralExists ==
  ASSUME NEW n \in Nat, NEW d \in [1..n -> Nat]
  PROVE  /\ \E g : IsNumeral(g, d, n)
         /\ \A g : IsNumeral(g, d, n) => g \in [0..n -> Nat]
<1> DEFINE Good(g, m) == g[0] = 0 /\ \A i \in 1..m : g[i] = 10 * g[i - 1] + d[i]
           Bad == {m \in 0..n : ~ \E g \in [0..m -> Nat] : Good(g, m)}
<1>1. Bad = {}
  <2> SUFFICES ASSUME Bad # {} PROVE FALSE OBVIOUS
  <2>1. Bad \in SUBSET Nat OBVIOUS
  <2>2. PICK m \in Bad : \A k \in Bad : m <= k
    <3> HIDE DEF Bad
    <3> QED BY <2>1, LeastNumber
  <2>3. m \in 0..n /\ m \in Nat OBVIOUS
  <2>4. CASE m = 0
    <3> DEFINE g == [i \in 0..0 |-> 0]
    <3>1. g \in [0..m -> Nat] /\ Good(g, m) BY <2>4
    <3> QED BY <3>1
  <2>5. CASE m # 0
    <3>1. m - 1 \in 0..n /\ m - 1 \in Nat /\ m \in 1..n BY <2>3, <2>5
    <3>2. m - 1 \notin Bad
      <4> HIDE DEF Bad
      <4> QED BY <2>2, <2>3, <3>1
    <3>3. PICK g \in [0..(m - 1) -> Nat] : Good(g, m - 1) BY <3>1, <3>2
    <3> DEFINE v == 10 * g[m - 1] + d[m]
               h == [i \in 0..m |-> IF i = m THEN v ELSE g[i]]
    <3>4. m - 1 \in 0..(m - 1) BY <3>1
    <3>5. v \in Nat BY <3>1, <3>4
    <3>6. h \in [0..m -> Nat]
      <4>1. \A i \in 0..m : i # m => i \in 0..(m - 1) BY <2>3
      <4> HIDE DEF v
      <4> QED BY <3>5, <4>1
    <3>7. Good(h, m)
      <4>1. h[0] = 0 BY <2>3, <2>5, <3>3
      <4>2. ASSUME NEW i \in 1..m PROVE h[i] = 10 * h[i - 1] + d[i]
        <5>1. i - 1 \in 0..m /\ i - 1 # m /\ i \in 0..m BY <2>3
        <5>2. h[i - 1] = g[i - 1] BY <5>1
        <5>3. CASE i = m BY <5>1, <5>2, <5>3
        <5>4. CASE i # m
          <6>1. i \in 1..(m - 1) BY <2>3, <5>4
          <6>2. h[i] = g[i] BY <5>1, <5>4
          <6> QED BY <3>3, <5>2, <6>1, <6>2
        <5> QED BY <5>3, <5>4
      <4> QED BY <4>1, <4>2
    <3> HIDE DEF h
    <3> QED BY <3>6, <3>7
  <2> QED BY <2>4, <2>5
<1>2. PICK g \in [0..n -> Nat] : Good(g, n)
  <2>1. n \in 0..n OBVIOUS
  <2>2. n \notin Bad
    <3> HIDE DEF Bad
    <3> QED BY <1>1
  <2> QED BY <2>1, <2>2
<1>3. IsNumeral(g, d, n)
  <2>1. \A i \in 0..n : i # 0 => i \in 1..n OBVIOUS
  <2>2. \A i \in 0..n : g[i] = IF i = 0 THEN 0 ELSE 10 * g[i - 1] + d[i] BY <1>2, <2>1
  <2> QED BY <2>2 DEF IsNumeral
<1>4. ASSUME NEW h, IsNumeral(h, d, n) PROVE h = g
  <2>0. DOMAIN h = 0..n BY <1>4 DEF IsNumeral
  <2>1. h[0] = 0 /\ \A i \in 1..n : h[i] = 10 * h[i - 1] + d[i]
    <3>1. 0 \in 0..n /\ \A i \in 1..n : i \in 0..n /\ i # 0 OBVIOUS
    <3> QED BY <1>4, <3>1 DEF IsNumeral
  <2> DEFINE Differ == {i \in 0..n : h[i] # g[i]}
  <2>2. Differ = {}
    <3> SUFFICES ASSUME Differ # {} PROVE FALSE OBVIOUS
    <3>1. Differ \in SUBSET Nat OBVIOUS
    <3>2. PICK m \in Differ : \A k \in Differ : m <= k
      <4> HIDE DEF Differ
      <4> QED BY <3>1, LeastNumber
    <3>3. m \in 0..n /\ m # 0 BY <1>2, <2>1
    <3>4. m \in 1..n /\ m - 1 \in 0..n /\ m - 1 \in Nat /\ m - 1 < m BY <3>3
    <3>5. h[m - 1] = g[m - 1] BY <3>2, <3>4
    <3> QED BY <1>2, <2>1, <3>4, <3>5
  <2>3. h = [i \in 0..n |-> h[i]] BY <1>4, <2>0 DEF IsNumeral
  <2> QED BY <2>2, <2>3
<1> QED BY <1>2, <1>3, <1>4

-----------------------------------------------------------------------------
(* Sequences: cutting and joining them, functions given step by step, and *)
(* FlattenSeq, which the community module gives as a fold.  The proofs    *)
(* about the redis connection cite them.                                   *)

\* Equal concatenations whose first parts are equally long have equal parts.
LEMMA CatCancel ==
  ASSUME NEW S, NEW a \in Seq(S), NEW b \in Seq(S), NEW c \in Seq(S), NEW d \in Seq(S),
         a \o b = c \o d, Len(a) = Len(c)
  PROVE  a = c /\ b = d
<1>1. \A i \in 1..Len(a) : a[i] = c[i]
  <2> SUFFICES ASSUME NEW i \in 1..Len(a) PROVE a[i] = c[i] OBVIOUS
  <2>1. i \in 1..(Len(a) + Len(b)) /\ i \in 1..(Len(c) + Len(d)) BY LenProperties
  <2> QED BY <2>1, ConcatProperties
<1>2. a = c BY ZenonT(60), <1>1, SeqEqual
<1> QED BY <1>2, ConcatSimplifications

\* A sequence cut in two.
LEMMA CutAt ==
  ASSUME NEW S, NEW a \in Seq(S), NEW n \in 0..Len(a)
  PROVE  /\ SubSeq(a, 1, n) \in Seq(S) /\ SubSeq(a, n + 1, Len(a)) \in Seq(S)
         /\ SubSeq(a, 1, n) \o SubSeq(a, n + 1, Len(a)) = a
         /\ Len(SubSeq(a, 1, n)) = n /\ Len(SubSeq(a, n + 1, Len(a))) = Len(a) - n
         /\ \A i \in 1..n : SubSeq(a, 1, n)[i] = a[i]
<1>0. Len(a) \in Nat /\ n \in Int /\ 1 \in Int BY LenProperties
<1>1. \A i \in 1..n : a[i] \in S BY ElementOfSeq, <1>0
<1>2. \A i \in (n + 1)..Len(a) : a[i] \in S BY ElementOfSeq, <1>0
<1>3. /\ SubSeq(a, 1, n) \in Seq(S) /\ Len(SubSeq(a, 1, n)) = n
      /\ \A i \in 1..n : SubSeq(a, 1, n)[i] = a[i]
  BY <1>0, <1>1, SubSeqProperties
<1>4. SubSeq(a, n + 1, Len(a)) \in Seq(S) /\ Len(SubSeq(a, n + 1, Len(a))) = Len(a) - n
  BY <1>0, <1>2, SubSeqProperties
<1>5. SubSeq(a, 1, n) \o SubSeq(a, n + 1, Len(a)) = SubSeq(a, 1, Len(a))
  <2>1. 1 \in 1..(Len(a) + 1) /\ n \in (1 - 1)..Len(a) /\ Len(a) \in n..Len(a) BY <1>0
  <2> QED BY <2>1, ConcatAdjacentSubSeq
<1>6. SubSeq(a, 1, Len(a)) = a BY SubSeqFull
<1> QED BY Zenon, <1>3, <1>4, <1>5, <1>6

\* The two parts of a concatenation.
LEMMA CutConcat ==
  ASSUME NEW S, NEW a \in Seq(S), NEW b \in Seq(S)
  PROVE  /\ SubSeq(a \o b, 1, Len(a)) = a
         /\ SubSeq(a \o b, Len(a) + 1, Len(a \o b)) = b
<1>1. a \o b \in Seq(S) /\ Len(a \o b) = Len(a) + Len(b) BY ConcatProperties
<1>2. Len(a) \in 0..Len(a \o b) BY <1>1, LenProperties
<1> DEFINE c == a \o b
           u == SubSeq(c, 1, Len(a))
           v == SubSeq(c, Len(a) + 1, Len(c))
<1>3. u \in Seq(S) /\ v \in Seq(S) /\ u \o v = c /\ Len(u) = Len(a)
  <2> HIDE DEF c
  <2> QED BY <1>1, <1>2, CutAt DEF c
<1>4. u = a /\ v = b
  <2> HIDE DEF u, v
  <2> QED BY <1>3, CatCancel
<1> QED BY <1>4

\* step says what follows a value at each of the places 1..n.
IsStep(step, n, V) == step \in [(1..n) \X V -> V]

\* f takes these steps from first on.
IsRecursive(f, n, first, step) ==
  f[1] = first /\ \A i \in 2..n : f[i] = step[<<i, f[i - 1]>>]

\* A recursion on 1..n defines a function.
LEMMA Recursion ==
  ASSUME NEW V, NEW n \in Nat \ {0}, NEW first \in V, NEW step, IsStep(step, n, V)
  PROVE  \E f : f \in [1..n -> V] /\ IsRecursive(f, n, first, step)
<1> DEFINE Good(f, m) == IsRecursive(f, m, first, step)
           Bad == {m \in 1..n : ~ \E f \in [1..m -> V] : Good(f, m)}
<1>0. step \in [(1..n) \X V -> V] BY DEF IsStep
<1>1. Bad = {}
  <2> SUFFICES ASSUME Bad # {} PROVE FALSE OBVIOUS
  <2>1. Bad \in SUBSET Nat OBVIOUS
  <2>2. PICK m \in Bad : \A k \in Bad : m <= k
    <3> HIDE DEF Bad
    <3> QED BY <2>1, LeastNumber
  <2>3. m \in 1..n /\ m \in Nat OBVIOUS
  <2>4. CASE m = 1
    <3> DEFINE f == [i \in 1..1 |-> first]
    <3>1. f \in [1..m -> V] /\ Good(f, m) BY <2>4 DEF IsRecursive
    <3> QED BY <3>1
  <2>5. CASE m # 1
    <3>1. m - 1 \in 1..n /\ m - 1 \in Nat /\ m \in 2..n BY <2>3, <2>5
    <3>2. m - 1 \notin Bad
      <4> HIDE DEF Bad
      <4> QED BY <2>2, <2>3, <3>1
    <3>3. PICK f \in [1..(m - 1) -> V] : Good(f, m - 1) BY <3>1, <3>2
    <3> DEFINE v == step[<<m, f[m - 1]>>]
               h == [i \in 1..m |-> IF i = m THEN v ELSE f[i]]
    <3>4. m - 1 \in 1..(m - 1) BY <3>1
    <3>5. v \in V
      <4>1. f[m - 1] \in V BY <3>4
      <4>2. <<m, f[m - 1]>> \in (1..n) \X V BY <2>3, <4>1
      <4> QED BY <1>0, <4>2
    <3>6. h \in [1..m -> V]
      <4>1. \A i \in 1..m : i # m => i \in 1..(m - 1) BY <2>3
      <4> HIDE DEF v
      <4> QED BY <3>5, <4>1
    <3>7. Good(h, m)
      <4>1. h[1] = first
        <5>1. 1 \in 1..m /\ 1 # m BY <2>3, <2>5
        <5>2. h[1] = f[1] BY <5>1
        <5> QED BY <3>3, <5>2 DEF IsRecursive
      <4>2. ASSUME NEW i \in 2..m PROVE h[i] = step[<<i, h[i - 1]>>]
        <5>1. i - 1 \in 1..m /\ i - 1 # m /\ i \in 1..m BY <2>3
        <5>2. h[i - 1] = f[i - 1] BY <5>1
        <5>3. CASE i = m BY <5>1, <5>2, <5>3
        <5>4. CASE i # m
          <6>1. i \in 2..(m - 1) BY <2>3, <5>4
          <6>2. h[i] = f[i] BY <5>1, <5>4
          <6> QED BY <3>3, <5>2, <6>1, <6>2 DEF IsRecursive
        <5> QED BY <5>3, <5>4
      <4> HIDE DEF h
      <4> QED BY <4>1, <4>2 DEF IsRecursive
    <3> HIDE DEF h
    <3> QED BY <3>6, <3>7
  <2> QED BY <2>4, <2>5
<1>2. n \in 1..n OBVIOUS
<1>3. n \notin Bad
  <2> HIDE DEF Bad
  <2> QED BY <1>1
<1> QED BY <1>2, <1>3

-----------------------------------------------------------------------------
(* FlattenSeq                                                              *)

\* f flattens the first n sequences of ss.
Flattens(f, ss, n) == f[1] = ss[1] /\ \A i \in 2..n : f[i] = f[i - 1] \o ss[i]

\* What FlattenSeq computes, one sequence after the other.
LEMMA FlattenIs ==
  ASSUME NEW S, NEW ss \in Seq(Seq(S)), ss # <<>>
  PROVE  \E f \in [1..Len(ss) -> Seq(S)] :
           Flattens(f, ss, Len(ss)) /\ FlattenSeq(ss) = f[Len(ss)]
<1> DEFINE n == Len(ss)
           Is(f) == f = [i \in 1..n |-> IF i = 1 THEN ss[i] ELSE f[i - 1] \o ss[i]]
           step == [p \in (1..n) \X Seq(S) |-> p[2] \o ss[p[1]]]
<1>1. n \in Nat \ {0} BY EmptySeq
<1>2. \A i \in 1..n : ss[i] \in Seq(S) BY ElementOfSeq
<1>3. step \in [(1..n) \X Seq(S) -> Seq(S)]
  <2> SUFFICES ASSUME NEW p \in (1..n) \X Seq(S) PROVE p[2] \o ss[p[1]] \in Seq(S) OBVIOUS
  <2>1. p[1] \in 1..n /\ p[2] \in Seq(S) OBVIOUS
  <2>2. ss[p[1]] \in Seq(S) BY <2>1, <1>2
  <2> QED BY <2>1, <2>2, ConcatProperties
<1>4. ss[1] \in Seq(S) BY <1>1, <1>2
<1>5. PICK g \in [1..n -> Seq(S)] :
        g[1] = ss[1] /\ \A i \in 2..n : g[i] = step[<<i, g[i - 1]>>]
  <2> DEFINE V == Seq(S)
             first == ss[1]
  <2>1. IsStep(step, n, V) /\ first \in V BY <1>3, <1>4 DEF IsStep
  <2> HIDE DEF n, step, V, first, Is
  <2>2. \E f : f \in [1..n -> V] /\ IsRecursive(f, n, first, step)
    BY <1>1, <2>1, Recursion
  <2> QED BY <2>2 DEF V, first, IsRecursive
<1>6. \A i \in 2..n : g[i] = g[i - 1] \o ss[i]
  <2> SUFFICES ASSUME NEW i \in 2..n PROVE g[i] = g[i - 1] \o ss[i] OBVIOUS
  <2>1. i - 1 \in 1..n /\ i \in 1..n BY <1>1
  <2>2. <<i, g[i - 1]>> \in (1..n) \X Seq(S) BY <2>1, <1>5
  <2>3. step[<<i, g[i - 1]>>] = g[i - 1] \o ss[i] BY <2>2
  <2> QED BY <1>5, <2>3
<1>7. Is(g)
  <2>1. \A i \in 1..n : g[i] = IF i = 1 THEN ss[i] ELSE g[i - 1] \o ss[i]
    <3> SUFFICES ASSUME NEW i \in 1..n PROVE g[i] = IF i = 1 THEN ss[i] ELSE g[i - 1] \o ss[i]
      OBVIOUS
    <3>1. i = 1 \/ i \in 2..n BY <1>1
    <3> QED BY <1>5, <1>6, <3>1
  <2>2. g = [i \in 1..n |-> g[i]] BY <1>5
  <2> QED BY <2>1, <2>2
<1> DEFINE h == CHOOSE f : Is(f)
<1>8. Is(h)
  <2> HIDE DEF Is
  <2> QED BY <1>7
<1>9. FlattenSeq(ss) = h[n] BY <1>1 DEF FlattenSeq
<1>10. h[1] = ss[1] /\ (\A i \in 2..n : h[i] = h[i - 1] \o ss[i]) /\ DOMAIN h = 1..n
  <2>1. \A i \in 1..n : h[i] = IF i = 1 THEN ss[i] ELSE h[i - 1] \o ss[i]
    <3> HIDE DEF h
    <3> QED BY <1>8
  <2>2. DOMAIN h = 1..n
    <3> HIDE DEF h
    <3> QED BY <1>8
  <2>3. 1 \in 1..n /\ \A i \in 2..n : i \in 1..n /\ i # 1 BY <1>1
  <2> HIDE DEF h, n
  <2> QED BY <2>1, <2>2, <2>3
<1>11. \A i \in 1..n : h[i] \in Seq(S)
  <2> DEFINE Bad == {i \in 1..n : h[i] \notin Seq(S)}
  <2> SUFFICES ASSUME Bad # {} PROVE FALSE OBVIOUS
  <2>1. Bad \in SUBSET Nat
    <3> HIDE DEF h, n
    <3> QED BY <1>1
  <2>2. PICK m \in Bad : \A k \in Bad : m <= k
    <3> HIDE DEF Bad
    <3> QED BY <2>1, LeastNumber
  <2>3. m \in 1..n /\ h[m] \notin Seq(S) BY <2>2
  <2>4. m # 1
    <3> HIDE DEF h
    <3> QED BY <1>10, <1>4, <2>3
  <2>5. m \in 2..n /\ m - 1 \in 1..n /\ m - 1 < m BY <1>1, <2>3, <2>4
  <2>6. h[m - 1] \in Seq(S)
    <3>1. m - 1 \notin Bad
      <4> HIDE DEF Bad
      <4> QED BY <2>2, <2>5
    <3> HIDE DEF h
    <3> QED BY <3>1, <2>5
  <2>7. h[m] = h[m - 1] \o ss[m]
    <3> HIDE DEF h
    <3> QED BY <1>10, <2>5
  <2>8. ss[m] \in Seq(S) BY <1>2, <2>5
  <2>9. h[m - 1] \o ss[m] \in Seq(S)
    <3> HIDE DEF h
    <3> QED BY <2>6, <2>8, ConcatProperties
  <2> HIDE DEF h
  <2> QED BY <2>3, <2>7, <2>9
<1>12. h \in [1..n -> Seq(S)]
  <2>1. h = [i \in 1..n |-> h[i]]
    <3> HIDE DEF h
    <3> QED BY <1>8
  <2> HIDE DEF h, n
  <2> QED BY <1>11, <2>1
<1>13. Flattens(h, ss, n)
  <2> HIDE DEF h
  <2> QED BY <1>10 DEF Flattens
<1> HIDE DEF h
<1> QED BY <1>9, <1>12, <1>13

\* Nothing flattened is nothing.
LEMMA FlattenEmpty == FlattenSeq(<<>>) = <<>>
BY DEF FlattenSeq

\* What is flattened has the elements of the sequences.
LEMMA FlattenType ==
  ASSUME NEW S, NEW ss \in Seq(Seq(S))
  PROVE  FlattenSeq(ss) \in Seq(S)
<1>1. CASE ss = <<>> BY <1>1, FlattenEmpty, EmptySeq
<1>2. CASE ss # <<>>
  <2>1. PICK f \in [1..Len(ss) -> Seq(S)] : FlattenSeq(ss) = f[Len(ss)] BY <1>2, FlattenIs
  <2>2. Len(ss) \in 1..Len(ss) BY <1>2, EmptySeq
  <2> QED BY <2>1, <2>2
<1> QED BY <1>1, <1>2

\* Sequences that agree up to n are flattened alike up to n.
LEMMA FlattensSame ==
  ASSUME NEW n \in Nat \ {0}, NEW f, NEW g, NEW ss, NEW tt,
         Flattens(f, ss, n), Flattens(g, tt, n), \A i \in 1..n : ss[i] = tt[i]
  PROVE  f[n] = g[n]
<1> DEFINE Bad == {i \in 1..n : f[i] # g[i]}
<1> SUFFICES ASSUME f[n] # g[n] PROVE FALSE OBVIOUS
<1>0. Bad # {} /\ Bad \in SUBSET Nat OBVIOUS
<1>1. PICK m \in Bad : \A k \in Bad : m <= k
  <2> HIDE DEF Bad
  <2> QED BY <1>0, LeastNumber
<1>2. m \in 1..n /\ f[m] # g[m] OBVIOUS
<1>3. m # 1 BY <1>2 DEF Flattens
<1>4. m \in 2..n /\ m - 1 \in 1..n /\ m - 1 < m BY <1>2, <1>3
<1>5. m - 1 \notin Bad
  <2> HIDE DEF Bad
  <2> QED BY <1>1, <1>4
<1>6. f[m - 1] = g[m - 1] BY <1>4, <1>5
<1>7. f[m] = f[m - 1] \o ss[m] /\ g[m] = g[m - 1] \o tt[m] BY <1>4 DEF Flattens
<1> QED BY <1>2, <1>4, <1>6, <1>7

\* A sequence more at the end adds its elements at the end.
LEMMA FlattenAppend ==
  ASSUME NEW S, NEW ss \in Seq(Seq(S)), NEW x \in Seq(S)
  PROVE  FlattenSeq(Append(ss, x)) = FlattenSeq(ss) \o x
<1> DEFINE tt == Append(ss, x)
           n == Len(ss)
<1>1. /\ tt \in Seq(Seq(S)) /\ tt # <<>> /\ Len(tt) = n + 1
      /\ (\A i \in 1..n : tt[i] = ss[i]) /\ tt[n + 1] = x
  BY AppendProperties
<1>2. n \in Nat BY LenProperties
<1>3. PICK f \in [1..Len(tt) -> Seq(S)] : Flattens(f, tt, Len(tt)) /\ FlattenSeq(tt) = f[Len(tt)]
  <2> HIDE DEF tt
  <2> QED BY <1>1, FlattenIs
<1>4. CASE n = 0
  <2>1. ss = <<>> BY <1>4, EmptySeq
  <2>2. FlattenSeq(ss) = <<>> BY <2>1, FlattenEmpty
  <2>3. FlattenSeq(tt) = x
    <3> HIDE DEF tt
    <3> QED BY <1>1, <1>3, <1>4 DEF Flattens
  <2>4. <<>> \o x = x BY ConcatEmptySeq
  <2> QED BY <2>2, <2>3, <2>4
<1>5. CASE n # 0
  <2>1. n \in Nat \ {0} /\ ss # <<>> BY <1>2, <1>5, EmptySeq
  <2>2. PICK g \in [1..n -> Seq(S)] : Flattens(g, ss, n) /\ FlattenSeq(ss) = g[n]
    BY <2>1, FlattenIs
  <2>3. Flattens(f, tt, n) /\ f[n + 1] = f[n] \o tt[n + 1]
    <3> DEFINE k == n + 1
    <3>1. k \in 2..k /\ k - 1 = n /\ k = n + 1 /\ \A i \in 2..n : i \in 2..k BY <2>1
    <3>2. f[1] = tt[1] /\ \A i \in 2..k : f[i] = f[i - 1] \o tt[i]
      <4> HIDE DEF tt, n
      <4> QED BY <1>1, <1>3 DEF Flattens
    <3>3. f[k] = f[n] \o tt[k]
      <4> HIDE DEF tt, n, k
      <4> QED BY <3>1, <3>2
    <3> HIDE DEF tt, n
    <3> QED BY <3>1, <3>2, <3>3 DEF Flattens
  <2>4. f[n] = g[n]
    <3> HIDE DEF tt, n
    <3> QED BY <1>1, <2>1, <2>2, <2>3, FlattensSame
  <2>5. FlattenSeq(tt) = FlattenSeq(ss) \o x
    <3> HIDE DEF tt, n
    <3> QED BY <1>1, <1>3, <2>2, <2>3, <2>4
  <2> QED BY <2>5
<1> QED BY <1>4, <1>5

\* An element may be appended before or after something is put in front.
LEMMA ConcatAppend ==
  ASSUME NEW T, NEW s \in Seq(T), NEW u \in Seq(T), NEW x \in T
  PROVE  s \o Append(u, x) = Append(s \o u, x)
<1>1. Append(u, x) = u \o <<x>> BY AppendIsConcat
<1> DEFINE v == s \o u
           w == <<x>>
<1>2. v \in Seq(T) /\ w \in Seq(T) BY ConcatProperties
<1>3. Append(v, x) = v \o w
  <2> HIDE DEF v
  <2> QED BY <1>2, AppendIsConcat
<1>4. v \o w = s \o (u \o w)
  <2> HIDE DEF w
  <2> QED BY SMTT(60), <1>2, ConcatAssociative
<1> QED BY <1>1, <1>3, <1>4

\* Two lists of sequences may be flattened one by one.
LEMMA FlattenConcat ==
  ASSUME NEW S, NEW ss \in Seq(Seq(S)), NEW tt \in Seq(Seq(S))
  PROVE  FlattenSeq(ss \o tt) = FlattenSeq(ss) \o FlattenSeq(tt)
<1> DEFINE Q == Seq(Seq(S))
           Bad == {n \in Nat : \E t \in Q : Len(t) = n
                                 /\ FlattenSeq(ss \o t) # FlattenSeq(ss) \o FlattenSeq(t)}
<1> SUFFICES ASSUME FlattenSeq(ss \o tt) # FlattenSeq(ss) \o FlattenSeq(tt) PROVE FALSE
  OBVIOUS
<1>0. Len(tt) \in Bad
  <2>1. Len(tt) \in Nat BY LenProperties
  <2> QED BY <2>1
<1>00. Bad # {} /\ Bad \in SUBSET Nat BY <1>0
<1>1. PICK n \in Bad : \A k \in Bad : n <= k
  <2> HIDE DEF Bad
  <2> QED BY <1>00, LeastNumber
<1>2. PICK t \in Q : Len(t) = n /\ FlattenSeq(ss \o t) # FlattenSeq(ss) \o FlattenSeq(t) BY <1>1
<1>3. t # <<>>
  <2> SUFFICES ASSUME t = <<>> PROVE FALSE OBVIOUS
  <2>1. ss \o t = ss BY ConcatEmptySeq
  <2>2. FlattenSeq(ss) \in Seq(S) BY FlattenType
  <2>3. FlattenSeq(ss) \o FlattenSeq(t) = FlattenSeq(ss) BY <2>2, FlattenEmpty, ConcatEmptySeq
  <2> QED BY <1>2, <2>1, <2>3
<1>4. PICK u \in Q, x \in Seq(S) : t = Append(u, x) BY <1>3, SequenceEmptyOrAppend
<1>5. Len(t) = Len(u) + 1 /\ Len(u) \in Nat BY <1>4, AppendProperties, LenProperties
<1>6. FlattenSeq(ss \o u) = FlattenSeq(ss) \o FlattenSeq(u)
  <2>1. Len(u) < n /\ n \in Int BY <1>2, <1>5
  <2>2. Len(u) \notin Bad
    <3>1. n \in Nat OBVIOUS
    <3> HIDE DEF Bad
    <3> QED BY <1>1, <1>5, <2>1, <3>1
  <2> QED BY <1>5, <2>2
<1>7. ss \o t = Append(ss \o u, x)
  <2> DEFINE T == Seq(S)
  <2>1. ss \in Seq(T) /\ u \in Seq(T) /\ x \in T OBVIOUS
  <2> HIDE DEF T, Bad, Q
  <2>2. ss \o Append(u, x) = Append(ss \o u, x) BY SMTT(60), <2>1, ConcatAppend
  <2> QED BY <1>4, <2>2
<1>8. FlattenSeq(ss \o t) = FlattenSeq(ss \o u) \o x
  <2>1. ss \o u \in Q BY ConcatProperties
  <2> QED BY <1>7, <2>1, FlattenAppend
<1>9. FlattenSeq(t) = FlattenSeq(u) \o x BY Zenon, <1>4, FlattenAppend
<1>10. FlattenSeq(ss) \in Seq(S) /\ FlattenSeq(u) \in Seq(S) BY FlattenType
<1> QED BY SMTT(60), <1>2, <1>6, <1>8, <1>9, <1>10, ConcatAssociative

\* What G makes of the elements of a sequence, one after the other.
Writes(G, A, S) == G \in [A -> Seq(S)]
FlatOf(G, s) == FlattenSeq([i \in DOMAIN s |-> G[s[i]]])

\* The pieces are sequences, as many as there are elements.
LEMMA FlatOfIs ==
  ASSUME NEW S, NEW A, NEW G, Writes(G, A, S), NEW s \in Seq(A)
  PROVE  /\ [i \in DOMAIN s |-> G[s[i]]] \in Seq(Seq(S))
         /\ Len([i \in DOMAIN s |-> G[s[i]]]) = Len(s)
         /\ FlatOf(G, s) \in Seq(S)
<1> DEFINE m == [i \in DOMAIN s |-> G[s[i]]]
<1>1. DOMAIN s = 1..Len(s) /\ Len(s) \in Nat BY LenProperties
<1>2. \A i \in 1..Len(s) : G[s[i]] \in Seq(S) BY ElementOfSeq DEF Writes
<1>3. m \in [1..Len(s) -> Seq(S)] BY <1>1, <1>2
<1>4. m \in Seq(Seq(S)) BY <1>1, <1>3, SeqDef
<1>5. Len(m) = Len(s)
  <2>1. DOMAIN m = 1..Len(m) /\ Len(m) \in Nat BY <1>4, LenProperties
  <2>2. DOMAIN m = 1..Len(s) BY <1>1
  <2>3. 1..Len(m) = 1..Len(s) BY <2>1, <2>2
  <2>4. \A a, b \in Nat : 1..a = 1..b => a = b
    <3> SUFFICES ASSUME NEW a \in Nat, NEW b \in Nat, 1..a = 1..b PROVE a = b OBVIOUS
    <3>1. a > 0 => a \in 1..b OBVIOUS
    <3>2. b > 0 => b \in 1..a OBVIOUS
    <3> QED BY <3>1, <3>2
  <2> HIDE DEF m
  <2> QED BY Zenon, <1>1, <2>1, <2>3, <2>4
<1>6. FlattenSeq(m) \in Seq(S)
  <2> HIDE DEF m
  <2> QED BY <1>4, FlattenType
<1> QED BY <1>4, <1>5, <1>6 DEF FlatOf

\* Of nothing G makes nothing.
LEMMA FlatOfEmpty == ASSUME NEW G PROVE FlatOf(G, <<>>) = <<>>
<1>1. [i \in DOMAIN <<>> |-> G[<<>>[i]]] = <<>> OBVIOUS
<1> QED BY <1>1, FlattenEmpty DEF FlatOf

\* What G makes of two sequences may be put together.
LEMMA FlatOfConcat ==
  ASSUME NEW S, NEW A, NEW G, Writes(G, A, S), NEW s \in Seq(A), NEW t \in Seq(A)
  PROVE  FlatOf(G, s \o t) = FlatOf(G, s) \o FlatOf(G, t)
<1> DEFINE m == [i \in DOMAIN s |-> G[s[i]]]
           n == [i \in DOMAIN t |-> G[t[i]]]
           c == s \o t
           p == [i \in DOMAIN c |-> G[c[i]]]
<1>1. c \in Seq(A) /\ Len(c) = Len(s) + Len(t)
      /\ \A i \in 1..(Len(s) + Len(t)) : c[i] = IF i <= Len(s) THEN s[i] ELSE t[i - Len(s)]
  BY ConcatProperties
<1>2. m \in Seq(Seq(S)) /\ n \in Seq(Seq(S)) /\ Len(m) = Len(s) /\ Len(n) = Len(t)
  <2>1. m \in Seq(Seq(S)) /\ Len(m) = Len(s) BY FlatOfIs
  <2>2. n \in Seq(Seq(S)) /\ Len(n) = Len(t) BY FlatOfIs
  <2> QED BY <2>1, <2>2
<1>3. p \in Seq(Seq(S)) /\ Len(p) = Len(c)
  <2>1. c \in Seq(A) BY <1>1
  <2> HIDE DEF c
  <2> QED BY <2>1, FlatOfIs
<1>4. DOMAIN s = 1..Len(s) /\ DOMAIN t = 1..Len(t) /\ DOMAIN c = 1..Len(c)
      /\ Len(s) \in Nat /\ Len(t) \in Nat
  <2>1. DOMAIN c = 1..Len(c)
    <3> HIDE DEF c
    <3> QED BY <1>1, LenProperties
  <2> QED BY <2>1, LenProperties
<1>5. /\ m \o n \in Seq(Seq(S)) /\ Len(m \o n) = Len(s) + Len(t)
      /\ \A i \in 1..(Len(s) + Len(t)) : (m \o n)[i] = IF i <= Len(s) THEN m[i] ELSE n[i - Len(s)]
  <2> DEFINE T == Seq(S)
  <2>1. m \in Seq(T) /\ n \in Seq(T) BY <1>2
  <2> HIDE DEF m, n, T
  <2>2. /\ m \o n \in Seq(T) /\ Len(m \o n) = Len(m) + Len(n)
        /\ \A i \in 1..(Len(m) + Len(n)) : (m \o n)[i] = IF i <= Len(m) THEN m[i] ELSE n[i - Len(m)]
    BY <2>1, ConcatProperties
  <2> QED BY <1>2, <2>2 DEF T
<1>6. \A i \in 1..Len(p) : p[i] = (m \o n)[i]
  <2> SUFFICES ASSUME NEW i \in 1..(Len(s) + Len(t)) PROVE p[i] = (m \o n)[i] BY <1>1, <1>3
  <2>1. p[i] = G[c[i]] BY <1>1, <1>4
  <2>2. CASE i <= Len(s)
    <3>1. i \in DOMAIN s BY <1>4, <2>2
    <3>2. m[i] = G[s[i]] BY <3>1
    <3> HIDE DEF m, n, p, c
    <3> QED BY <1>1, <1>5, <2>1, <2>2, <3>2
  <2>3. CASE ~ (i <= Len(s))
    <3>1. i - Len(s) \in DOMAIN t BY <1>4, <2>3
    <3>2. n[i - Len(s)] = G[t[i - Len(s)]] BY <3>1
    <3> HIDE DEF m, n, p, c
    <3> QED BY <1>1, <1>5, <2>1, <2>3, <3>2
  <2> QED BY <2>2, <2>3
<1>7. p = m \o n
  <2> DEFINE T == Seq(S)
             q == m \o n
  <2>1. p \in Seq(T) /\ q \in Seq(T) /\ Len(p) = Len(q) /\ \A i \in 1..Len(p) : p[i] = q[i]
    <3> HIDE DEF p, m, n, c
    <3> QED BY <1>1, <1>3, <1>5, <1>6
  <2> HIDE DEF p, q, T
  <2>2. p = q BY <2>1, SeqEqual
  <2> QED BY <2>2 DEF q
<1>8. FlattenSeq(m \o n) = FlattenSeq(m) \o FlattenSeq(n)
  <2> HIDE DEF m, n
  <2> QED BY <1>2, FlattenConcat
<1> QED BY <1>7, <1>8 DEF FlatOf

\* What G makes of one element.
LEMMA FlatOfOne ==
  ASSUME NEW S, NEW A, NEW G, Writes(G, A, S), NEW x \in A
  PROVE  FlatOf(G, <<x>>) = G[x]
<1>1. [i \in DOMAIN <<x>> |-> G[<<x>>[i]]] = Append(<<>>, G[x])
  OBVIOUS
<1>2. <<>> \in Seq(Seq(S)) /\ G[x] \in Seq(S) BY DEF Writes
<1>3. FlattenSeq(Append(<<>>, G[x])) = <<>> \o G[x] BY <1>2, FlattenAppend, FlattenEmpty
<1>4. <<>> \o G[x] = G[x] BY <1>2, ConcatEmptySeq
<1> QED BY <1>1, <1>3, <1>4 DEF FlatOf

\* What G makes of a sequence begins with what it makes of its first element.
LEMMA FlatOfHead ==
  ASSUME NEW S, NEW A, NEW G, Writes(G, A, S), NEW s \in Seq(A), s # <<>>
  PROVE  FlatOf(G, s) = G[Head(s)] \o FlatOf(G, Tail(s))
<1>1. Head(s) \in A /\ Tail(s) \in Seq(A) BY HeadTailProperties
<1>2. s = <<Head(s)>> \o Tail(s)
  <2>1. <<Head(s)>> \in Seq(A) /\ Len(<<Head(s)>>) = 1 BY <1>1
  <2>2. Len(s) \in Nat \ {0} /\ Len(Tail(s)) = Len(s) - 1
        /\ (\A i \in 1..Len(Tail(s)) : Tail(s)[i] = s[i + 1]) /\ s[1] = Head(s)
    BY HeadTailProperties, EmptySeq
  <2> DEFINE t == <<Head(s)>> \o Tail(s)
  <2>3. t \in Seq(A) /\ Len(t) = Len(s)
        /\ \A i \in 1..Len(s) : t[i] = IF i <= 1 THEN Head(s) ELSE Tail(s)[i - 1]
    BY <1>1, <2>1, <2>2, ConcatProperties
  <2>4. \A i \in 1..Len(s) : s[i] = t[i]
    <3> SUFFICES ASSUME NEW i \in 1..Len(s) PROVE s[i] = t[i] OBVIOUS
    <3>1. CASE i = 1 BY <2>2, <2>3, <3>1
    <3>2. CASE i # 1
      <4>1. i - 1 \in 1..Len(Tail(s)) BY <2>2, <3>2
      <4> HIDE DEF t
      <4> QED BY <2>2, <2>3, <3>2, <4>1
    <3> QED BY <3>1, <3>2
  <2> HIDE DEF t
  <2>5. s = t BY <2>3, <2>4, SeqEqual
  <2> QED BY <2>5 DEF t
<1>3. FlatOf(G, <<Head(s)>> \o Tail(s)) = FlatOf(G, <<Head(s)>>) \o FlatOf(G, Tail(s))
  <2> DEFINE h == <<Head(s)>>
             t == Tail(s)
  <2>1. h \in Seq(A) /\ t \in Seq(A) BY <1>1
  <2> HIDE DEF h, t
  <2>2. FlatOf(G, h \o t) = FlatOf(G, h) \o FlatOf(G, t) BY <2>1, FlatOfConcat
  <2> QED BY <2>2 DEF h, t
<1>4. FlatOf(G, <<Head(s)>>) = G[Head(s)] BY <1>1, FlatOfOne
<1> QED BY <1>2, <1>3, <1>4

-----------------------------------------------------------------------------
(* Sequences                                                               *)

\* A sequence of one element.
LEMMA OneElement ==
  ASSUME NEW S, NEW x \in S
  PROVE  <<x>> \in Seq(S) /\ Len(<<x>>) = 1 /\ <<x>> # <<>> /\ <<x>>[1] = x
OBVIOUS

\* A sequence of two elements,
LEMMA TwoElements ==
  ASSUME NEW S, NEW x \in S, NEW y \in S
  PROVE  <<x, y>> \in Seq(S) /\ Len(<<x, y>>) = 2 /\ <<x, y>>[1] = x /\ <<x, y>>[2] = y
OBVIOUS

\* of three,
LEMMA ThreeElements ==
  ASSUME NEW S, NEW x \in S, NEW y \in S, NEW z \in S
  PROVE  /\ <<x, y, z>> \in Seq(S) /\ Len(<<x, y, z>>) = 3
         /\ <<x, y, z>>[1] = x /\ <<x, y, z>>[2] = y /\ <<x, y, z>>[3] = z
OBVIOUS

\* and of four.
LEMMA FourElements ==
  ASSUME NEW S, NEW x \in S, NEW y \in S, NEW z \in S, NEW u \in S
  PROVE  /\ <<x, y, z, u>> \in Seq(S) /\ Len(<<x, y, z, u>>) = 4
         /\ <<x, y, z, u>>[1] = x /\ <<x, y, z, u>>[2] = y /\ <<x, y, z, u>>[3] = z
OBVIOUS

\* A pair is a sequence of two.
LEMMA ProductIs ==
  ASSUME NEW S, NEW K \in SUBSET S, NEW p \in K \X S
  PROVE  p \in Seq(S) /\ Len(p) = 2 /\ p[1] \in K
<1>1. PICK k \in K, v \in S : p = <<k, v>> OBVIOUS
<1>2. <<k, v>> \in Seq(S) /\ Len(<<k, v>>) = 2 /\ <<k, v>>[1] = k BY <1>1, TwoElements
<1> QED BY <1>1, <1>2

\* What every sequence has.
LEMMA SeqFacts ==
  ASSUME NEW S, NEW s \in Seq(S)
  PROVE  /\ Len(s) \in Nat /\ DOMAIN s = 1..Len(s) /\ \A i \in 1..Len(s) : s[i] \in S
         /\ (s = <<>>) <=> (Len(s) = 0)
<1>1. Len(s) \in Nat /\ DOMAIN s = 1..Len(s) BY LenProperties
<1>2. \A i \in 1..Len(s) : s[i] \in S BY ElementOfSeq
<1> QED BY <1>1, <1>2, EmptySeq

\* A function on 1..n is a sequence.
LEMMA ListIs ==
  ASSUME NEW S, NEW n \in Nat, NEW f \in [1..n -> S]
  PROVE  f \in Seq(S) /\ Len(f) = n /\ DOMAIN f = 1..n /\ \A i \in 1..n : f[i] \in S
<1>1. f \in Seq(S) BY SeqDef
<1>2. DOMAIN f = 1..n OBVIOUS
<1>3. DOMAIN f = 1..Len(f) /\ Len(f) \in Nat BY <1>1, LenProperties
<1> QED BY <1>1, <1>2, <1>3

\* Sequences over a set are sequences over a larger one.
LEMMA SeqMore ==
  ASSUME NEW S, NEW U, S \subseteq U, NEW s \in Seq(S) PROVE s \in Seq(U)
<1>1. Len(s) \in Nat /\ s \in [1..Len(s) -> S] BY LenProperties
<1>2. s \in [1..Len(s) -> U] BY <1>1
<1> QED BY <1>1, <1>2, ListIs

\* What follows the verb of a command, and what follows that.
LEMMA ArgsAre ==
  ASSUME NEW cmd \in Seq(STRING), cmd # <<>>
  PROVE  /\ Tail(cmd) \in Seq(STRING) /\ Len(Tail(cmd)) = Len(cmd) - 1 /\ Len(cmd) \in Nat \ {0}
         /\ \A i \in 1..(Len(cmd) - 1) : Tail(cmd)[i] = cmd[i + 1]
         /\ \A i \in 1..Len(cmd) : cmd[i] \in STRING
BY HeadTailProperties, EmptySeq, ElementOfSeq

\* A sequence without its first element.
LEMMA TailIs ==
  ASSUME NEW S, NEW q \in Seq(S), q # <<>>
  PROVE  /\ Tail(q) \in Seq(S) /\ Len(Tail(q)) = Len(q) - 1 /\ Len(q) \in Nat \ {0} /\ q[1] \in S
         /\ \A i \in 1..Len(Tail(q)) : Tail(q)[i] = q[i + 1] /\ i + 1 \in 1..Len(q)
<1>1. /\ Tail(q) \in Seq(S) /\ Len(Tail(q)) = Len(q) - 1 /\ Head(q) \in S /\ Head(q) = q[1]
      /\ \A i \in 1..Len(Tail(q)) : Tail(q)[i] = q[i + 1]
  BY HeadTailProperties
<1>2. Len(q) \in Nat \ {0} BY SeqFacts
<1>3. \A i \in 1..(Len(q) - 1) : i + 1 \in 1..Len(q) BY <1>2
<1> QED BY <1>1, <1>2, <1>3

\* What Append and Tail do, in either order.
LEMMA TailAppended ==
  ASSUME NEW S, NEW q \in Seq(S), NEW x
  PROVE  /\ Append(<<>>, x) = <<x>> /\ Tail(<<x>>) = <<>>
         /\ q # <<>> => Tail(Append(q, x)) = Append(Tail(q), x)
OBVIOUS

\* One element more.
LEMMA AppendedIs ==
  ASSUME NEW S, NEW q \in Seq(S), NEW x \in S
  PROVE  /\ Append(q, x) \in Seq(S) /\ Len(Append(q, x)) = Len(q) + 1
         /\ \A i \in 1..Len(q) : Append(q, x)[i] = q[i]
         /\ Append(q, x)[Len(q) + 1] = x
BY AppendProperties

\* Two sequences, one after the other.
LEMMA ConcatIs ==
  ASSUME NEW S, NEW a \in Seq(S), NEW b \in Seq(S)
  PROVE  /\ a \o b \in Seq(S) /\ Len(a \o b) = Len(a) + Len(b)
         /\ \A i \in 1..Len(a) : (a \o b)[i] = a[i]
         /\ \A i \in 1..Len(b) : (a \o b)[Len(a) + i] = b[i]
<1>1. a \o b \in Seq(S) /\ Len(a \o b) = Len(a) + Len(b) BY ConcatProperties
<1>2. \A i \in 1..(Len(a) + Len(b)) :
        (a \o b)[i] = IF i <= Len(a) THEN a[i] ELSE b[i - Len(a)] BY ConcatProperties
<1>3. Len(a) \in Nat /\ Len(b) \in Nat BY LenProperties
<1>4. \A i \in 1..Len(a) : (a \o b)[i] = a[i]
  <2> SUFFICES ASSUME NEW i \in 1..Len(a) PROVE (a \o b)[i] = a[i] OBVIOUS
  <2>1. i \in 1..(Len(a) + Len(b)) /\ i <= Len(a) BY <1>3
  <2> QED BY <1>2, <2>1
<1>5. \A i \in 1..Len(b) : (a \o b)[Len(a) + i] = b[i]
  <2> SUFFICES ASSUME NEW i \in 1..Len(b) PROVE (a \o b)[Len(a) + i] = b[i] OBVIOUS
  <2>1. Len(a) + i \in 1..(Len(a) + Len(b)) /\ ~(Len(a) + i <= Len(a)) /\ (Len(a) + i) - Len(a) = i
    BY <1>3
  <2> QED BY <1>2, <2>1
<1> QED BY <1>1, <1>4, <1>5

\* The elements of two sequences, one after the other.
LEMMA CatElements ==
  ASSUME NEW S, NEW a \in Seq(S), NEW b \in Seq(S), NEW i \in 1..Len(a \o b)
  PROVE  \/ \E j \in 1..Len(a) : (a \o b)[i] = a[j]
         \/ \E j \in 1..Len(b) : (a \o b)[i] = b[j]
<1> DEFINE c == a \o b
<1>1. /\ c \in Seq(S) /\ Len(c) = Len(a) + Len(b) /\ Len(a) \in Nat /\ Len(b) \in Nat
      /\ \A k \in 1..Len(a) : c[k] = a[k]
      /\ \A k \in 1..Len(b) : c[Len(a) + k] = b[k]
  BY ConcatIs, SeqFacts
<1>2. i \in 1..Len(c) OBVIOUS
<1> HIDE DEF c
<1>3. CASE i <= Len(a)
  <2>1. i \in 1..Len(a) /\ c[i] = a[i] BY <1>1, <1>2, <1>3
  <2> QED BY <2>1 DEF c
<1>4. CASE i > Len(a)
  <2>1. i - Len(a) \in 1..Len(b) /\ i = Len(a) + (i - Len(a)) BY <1>1, <1>2, <1>4
  <2>2. c[i] = b[i - Len(a)] BY <1>1, <2>1
  <2> QED BY <2>1, <2>2 DEF c
<1> QED BY <1>1, <1>2, <1>3, <1>4

\* A sequence with one element in front.
LEMMA Prefixed ==
  ASSUME NEW S, NEW x \in S, NEW s \in Seq(S)
  PROVE  /\ <<x>> \o s \in Seq(S) /\ Len(<<x>> \o s) = Len(s) + 1 /\ (<<x>> \o s)[1] = x
         /\ \A i \in 1..Len(s) : (<<x>> \o s)[i + 1] = s[i]
<1> DEFINE w == <<x>>
<1>0. w \in Seq(S) BY OneElement
<1>1. Len(w) = 1 /\ w[1] = x BY OneElement
<1> HIDE DEF w
<1>2. /\ w \o s \in Seq(S) /\ Len(w \o s) = Len(w) + Len(s)
      /\ \A i \in 1..Len(w) : (w \o s)[i] = w[i]
      /\ \A i \in 1..Len(s) : (w \o s)[Len(w) + i] = s[i]
  BY <1>0, ConcatIs
<1>3. Len(s) \in Nat BY LenProperties
<1>4. Len(w \o s) = Len(s) + 1 /\ (w \o s)[1] = x BY <1>1, <1>2, <1>3
<1>5. \A i \in 1..Len(s) : (w \o s)[i + 1] = s[i]
  <2> SUFFICES ASSUME NEW i \in 1..Len(s) PROVE (w \o s)[i + 1] = s[i] OBVIOUS
  <2>1. Len(w) + i = i + 1 BY <1>1, <1>3
  <2> QED BY <1>2, <2>1
<1> QED BY <1>2, <1>4, <1>5 DEF w

\* A sequence with one element in front and one behind it.
LEMMA BetweenIs ==
  ASSUME NEW S, NEW a \in S, NEW z \in S, NEW w \in Seq(S)
  PROVE  LET q == <<a>> \o w \o <<z>>
         IN  Len(q) = Len(w) + 2 /\ q[1] = a /\ q[Len(w) + 2] = z /\ \A i \in 1..Len(w) : q[i + 1] = w[i]
<1> DEFINE p == <<a>> \o w
           e == <<z>>
           q == p \o e
<1>1. Len(w) \in Nat BY SeqFacts
<1>2. p \in Seq(S) /\ Len(p) = Len(w) + 1 /\ p[1] = a /\ \A i \in 1..Len(w) : p[i + 1] = w[i]
  BY Prefixed
<1>3. e \in Seq(S) /\ Len(e) = 1 /\ e[1] = z BY OneElement
<1> HIDE DEF p, e
<1>4. /\ Len(q) = Len(p) + Len(e)
      /\ \A i \in 1..Len(p) : q[i] = p[i]
      /\ \A i \in 1..Len(e) : q[Len(p) + i] = e[i]
  <2>1. p \in Seq(S) /\ e \in Seq(S) BY <1>2, <1>3
  <2> QED BY <2>1, ConcatIs
<1> HIDE DEF q
<1>5. Len(q) = Len(w) + 2 BY <1>1, <1>2, <1>3, <1>4
<1>6. q[1] = a BY <1>1, <1>2, <1>4
<1>7. q[Len(w) + 2] = z
  <2>1. 1 \in 1..Len(e) /\ Len(p) + 1 = Len(w) + 2 BY <1>1, <1>2, <1>3
  <2> QED BY <1>3, <1>4, <2>1
<1>8. \A i \in 1..Len(w) : q[i + 1] = w[i]
  <2>1. \A i \in 1..Len(w) : i + 1 \in 1..Len(p) BY <1>1, <1>2
  <2> QED BY <1>2, <1>4, <2>1
<1> QED BY <1>5, <1>6, <1>7, <1>8 DEF p, e, q

\* Two elements, a sequence and one element more.
LEMMA Around ==
  ASSUME NEW S, NEW a \in S, NEW x \in S, NEW y \in Seq(S), NEW d \in S
  PROVE  LET q == <<a>> \o (<<x>> \o y \o <<d>>)
         IN  /\ Len(q) = Len(y) + 3 /\ q[1] = a /\ q[2] = x /\ q[Len(y) + 3] = d
             /\ \A i \in 1..Len(y) : q[i + 2] = y[i]
<1> DEFINE p == <<x>> \o y
           r == p \o <<d>>
           q == <<a>> \o r
<1>1. Len(y) \in Nat BY SeqFacts
<1>2. p \in Seq(S) /\ Len(p) = Len(y) + 1 /\ p[1] = x /\ \A i \in 1..Len(y) : p[i + 1] = y[i]
  BY Prefixed
<1>3. <<d>> \in Seq(S) /\ Len(<<d>>) = 1 /\ <<d>>[1] = d BY OneElement
<1> DEFINE e == <<d>>
<1> HIDE DEF p, e
<1>4. /\ r \in Seq(S) /\ Len(r) = Len(y) + 2
      /\ \A i \in 1..Len(p) : r[i] = p[i]
      /\ r[Len(p) + 1] = d
  <2>1. e \in Seq(S) BY <1>3 DEF e
  <2>2. Len(e) = 1 /\ e[1] = d BY <1>3 DEF e
  <2>3. p \in Seq(S) BY <1>2
  <2>4. p \o e \in Seq(S) /\ Len(p \o e) = Len(p) + Len(e) BY <2>1, <2>3, ConcatIs
  <2>5. \A i \in 1..Len(p) : (p \o e)[i] = p[i] BY <2>1, <2>3, ConcatIs
  <2>6. \A i \in 1..Len(e) : (p \o e)[Len(p) + i] = e[i] BY <2>1, <2>3, ConcatIs
  <2>7. (p \o e)[Len(p) + 1] = d
    <3>1. 1 \in 1..Len(e) BY <2>2
    <3> QED BY <2>2, <2>6, <3>1
  <2>8. p \o e = r BY DEF e
  <2>9. Len(p) + Len(e) = Len(y) + 2 BY <1>1, <1>2, <2>2
  <2> QED BY <2>4, <2>5, <2>7, <2>8, <2>9
<1> HIDE DEF r
<1>5. q \in Seq(S) /\ Len(q) = Len(r) + 1 /\ q[1] = a /\ \A i \in 1..Len(r) : q[i + 1] = r[i]
  BY <1>4, Prefixed
<1> HIDE DEF q
<1>6. r[1] = x /\ r[Len(y) + 2] = d BY <1>1, <1>2, <1>4
<1>7. q[2] = x /\ q[Len(y) + 3] = d
  <2>1. 1 \in 1..Len(r) /\ Len(y) + 2 \in 1..Len(r) BY <1>1, <1>4
  <2>2. q[1 + 1] = r[1] /\ q[(Len(y) + 2) + 1] = r[Len(y) + 2] BY <1>5, <2>1
  <2>3. 1 + 1 = 2 /\ (Len(y) + 2) + 1 = Len(y) + 3 BY <1>1
  <2> QED BY <1>6, <2>2, <2>3
<1>8. ASSUME NEW i \in 1..Len(y) PROVE q[i + 2] = y[i]
  <2>1. i + 1 \in 1..Len(p) /\ i + 1 \in 1..Len(r) BY <1>1, <1>2, <1>4
  <2>2. q[(i + 1) + 1] = r[i + 1] /\ r[i + 1] = p[i + 1] /\ p[i + 1] = y[i] BY <1>2, <1>4, <1>5, <2>1
  <2>3. (i + 1) + 1 = i + 2 OBVIOUS
  <2> QED BY <2>2, <2>3
<1>9. Len(q) = Len(y) + 3 BY <1>1, <1>4, <1>5
<1> QED BY <1>5, <1>7, <1>8, <1>9 DEF q, r, p

\* The first n words.
LEMMA FirstWords ==
  ASSUME NEW words \in Seq(STRING), NEW n \in Nat, n <= Len(words)
  PROVE  /\ [i \in 1..n |-> words[i]] \in Seq(STRING)
         /\ n = 0 => [i \in 1..n |-> words[i]] = <<>>
         /\ n = Len(words) => [i \in 1..n |-> words[i]] = words
         /\ n < Len(words) =>
              Append([i \in 1..n |-> words[i]], words[n + 1]) = [i \in 1..(n + 1) |-> words[i]]
<1> DEFINE q == [i \in 1..n |-> words[i]]
           r == [i \in 1..(n + 1) |-> words[i]]
<1>1. Len(words) \in Nat /\ DOMAIN words = 1..Len(words) /\ \A i \in 1..Len(words) : words[i] \in STRING
  BY SeqFacts
<1>2. q \in [1..n -> STRING] BY <1>1
<1>3. q \in Seq(STRING) /\ DOMAIN q = 1..n BY <1>2, ListIs
<1>4. Len(q) = n
  <2> HIDE DEF q
  <2> QED BY <1>2, ListIs
<1>5. n = 0 => q = <<>>
  <2> HIDE DEF q
  <2> QED BY <1>3, <1>4, EmptySeq
<1>6. n = Len(words) => q = words BY <1>1
<1>7. ASSUME n < Len(words) PROVE Append(q, words[n + 1]) = r
  <2> DEFINE p == Append(q, words[n + 1])
  <2>1. n + 1 \in 1..Len(words) BY <1>1, <1>7
  <2>2. words[n + 1] \in STRING BY <1>1, <2>1
  <2>3. /\ p \in Seq(STRING) /\ Len(p) = n + 1
        /\ \A i \in 1..n : p[i] = q[i]
        /\ p[n + 1] = words[n + 1]
    <3> HIDE DEF q
    <3> QED BY <1>3, <1>4, <2>2, AppendedIs
  <2>4. r \in [1..(n + 1) -> STRING]
    <3>1. \A i \in 1..(n + 1) : i \in 1..Len(words) BY <1>1, <1>7
    <3> QED BY <1>1, <3>1
  <2>5. r \in Seq(STRING) /\ Len(r) = n + 1
    <3> HIDE DEF r
    <3>1. n + 1 \in Nat OBVIOUS
    <3> QED BY <2>4, <3>1, ListIs
  <2>6. \A i \in 1..(n + 1) : p[i] = r[i]
    <3>1. \A i \in 1..(n + 1) : i \in 1..n \/ i = n + 1 OBVIOUS
    <3>2. \A i \in 1..n : p[i] = words[i] BY <2>3
    <3>3. \A i \in 1..(n + 1) : r[i] = words[i] OBVIOUS
    <3> HIDE DEF p, r
    <3> QED BY <2>3, <3>1, <3>2, <3>3
  <2>7. DOMAIN p = 1..(n + 1) /\ DOMAIN r = 1..(n + 1)
    <3> HIDE DEF p, r
    <3> QED BY <2>3, <2>5, SeqFacts
  <2> HIDE DEF p, r
  <2>8. p \in [1..(n + 1) -> STRING] /\ r \in [1..(n + 1) -> STRING]
    <3>1. p \in [DOMAIN p -> STRING] BY <2>3, SeqFacts
    <3> QED BY <2>4, <2>7, <3>1
  <2>9. p = r BY <2>6, <2>8
  <2> QED BY <2>9 DEF p, r
<1> HIDE DEF q, r
<1>8. q \in Seq(STRING) /\ (n = 0 => q = <<>>) /\ (n = Len(words) => q = words) BY <1>3, <1>5, <1>6
<1>9. n < Len(words) => Append(q, words[n + 1]) = r BY <1>7
<1> QED BY <1>8, <1>9 DEF q, r

\* One list of one element more.
LEMMA OneMoreList ==
  ASSUME NEW R, NEW h \in Seq(Seq(R)), NEW r \in R
  PROVE  /\ Append(h, <<r>>) \in Seq(Seq(R)) /\ Len(Append(h, <<r>>)) = Len(h) + 1
         /\ Len(h) \in Nat
         /\ Len(h) > 0 => Append(h, <<r>>)[1] = h[1]
         /\ Len(h) > 1 => Append(h, <<r>>)[2] = h[2]
         /\ Len(h) = 0 => Append(h, <<r>>)[1] = <<r>>
         /\ Len(h) = 1 => Append(h, <<r>>)[2] = <<r>>
         /\ <<r>>[1] = r
<1> DEFINE x == <<r>>
           e == Append(h, x)
<1>1. x \in Seq(R) BY OneElement
<1>2. <<r>>[1] = r OBVIOUS
<1>3. Len(h) \in Nat BY SeqFacts
<1> HIDE DEF x
<1>4. e \in Seq(Seq(R)) /\ Len(e) = Len(h) + 1 BY <1>1, AppendedIs
<1>5. \A i \in 1..Len(h) : e[i] = h[i] BY <1>1, AppendedIs
<1>6. e[Len(h) + 1] = x BY <1>1, AppendedIs
<1> HIDE DEF e
<1>7. (Len(h) > 0 => 1 \in 1..Len(h)) /\ (Len(h) > 1 => 2 \in 1..Len(h)) BY <1>3
<1>8. (Len(h) > 0 => e[1] = h[1]) /\ (Len(h) > 1 => e[2] = h[2]) BY <1>5, <1>7
<1>9. (Len(h) = 0 => e[1] = x) /\ (Len(h) = 1 => e[2] = x)
  <2> DEFINE n == Len(h)
  <2>1. n \in Nat /\ e[n + 1] = x BY <1>3, <1>6
  <2> HIDE DEF n
  <2>2. (n = 0 => e[1] = x) /\ (n = 1 => e[2] = x) BY <2>1
  <2> QED BY <2>2 DEF n
<1> QED BY <1>2, <1>3, <1>4, <1>8, <1>9 DEF e, x

\* r are the elements of s at the places listed in q.
Picks(r, s, q) == r = [j \in DOMAIN q |-> s[q[j]]]

\* They are as many, all of s.
LEMMA PickedIs ==
  ASSUME NEW T, NEW s \in Seq(T), NEW S \in SUBSET (1..Len(s)), NEW q \in Seq(S),
         NEW r, Picks(r, s, q)
  PROVE  r \in Seq(T) /\ Len(r) = Len(q) /\ \A j \in 1..Len(q) : \E i \in S : r[j] = s[i]
<1> DEFINE n == Len(q)
<1>1. DOMAIN q = 1..n /\ n \in Nat /\ \A j \in 1..n : q[j] \in S BY SeqFacts
<1>0. r = [j \in DOMAIN q |-> s[q[j]]] BY DEF Picks
<1> HIDE DEF n
<1>2. \A j \in 1..n : s[q[j]] \in T
  <2> SUFFICES ASSUME NEW j \in 1..n PROVE s[q[j]] \in T OBVIOUS
  <2>1. q[j] \in 1..Len(s) BY <1>1
  <2> QED BY <2>1, ElementOfSeq
<1>3. r \in [1..n -> T] BY <1>0, <1>1, <1>2
<1>4. \A j \in 1..n : \E i \in S : r[j] = s[i]
  <2> SUFFICES ASSUME NEW j \in 1..n PROVE \E i \in S : r[j] = s[i] OBVIOUS
  <2>1. q[j] \in S /\ r[j] = s[q[j]] BY <1>0, <1>1
  <2> QED BY <2>1
<1>5. r \in Seq(T) /\ Len(r) = n BY <1>1, <1>3, ListIs
<1> QED BY <1>4, <1>5 DEF n

\* Pairs, one after the other.
LEMMA FlattenPairs ==
  ASSUME NEW S, NEW pairs \in Seq(Seq(S)), \A i \in 1..Len(pairs) : Len(pairs[i]) = 2
  PROVE  FlattenSeq(pairs) \in Seq(S) /\ Len(FlattenSeq(pairs)) = 2 * Len(pairs)
<1> DEFINE n == Len(pairs)
           w == FlattenSeq(pairs)
<1>a. n \in Nat BY SeqFacts
<1>b. \A i \in 1..n : pairs[i] \in Seq(S) /\ Len(pairs[i]) = 2 BY SeqFacts
<1>1. CASE n = 0
  <2>1. pairs = <<>> BY <1>1, SeqFacts
  <2>2. w = <<>> BY <2>1, FlattenEmpty
  <2> QED BY <1>1, <2>2, EmptySeq
<1>2. CASE n # 0
  <2>1. pairs # <<>> BY <1>2, SeqFacts
  <2>2. PICK f \in [1..n -> Seq(S)] : Flattens(f, pairs, n) /\ w = f[n]
    BY <1>b, <2>1, FlattenIs
  <2> DEFINE Bad == {i \in 1..n : Len(f[i]) # 2 * i}
  <2>3. Bad = {}
    <3> SUFFICES ASSUME Bad # {} PROVE FALSE OBVIOUS
    <3>1. Bad \in SUBSET Nat BY <1>a
    <3>2. PICK m \in Bad : \A k \in Bad : m <= k
      <4> HIDE DEF Bad
      <4> QED BY <3>1, LeastNumber
    <3>3. m \in 1..n /\ Len(f[m]) # 2 * m OBVIOUS
    <3>4. CASE m = 1 BY <1>b, <2>2, <3>3, <3>4 DEF Flattens
    <3>5. CASE m # 1
      <4>1. m - 1 \in 1..n /\ m \in 2..n BY <1>a, <3>3, <3>5
      <4>2. m - 1 \notin Bad
        <5> HIDE DEF Bad
        <5> QED BY <1>a, <3>2, <3>3
      <4>3. Len(f[m - 1]) = 2 * (m - 1) BY <4>1, <4>2
      <4>4. f[m] = f[m - 1] \o pairs[m] BY <2>2, <4>1 DEF Flattens
      <4>5. f[m - 1] \in Seq(S) /\ pairs[m] \in Seq(S) /\ Len(pairs[m]) = 2
        BY <1>b, <2>2, <3>3, <4>1
      <4>6. Len(f[m]) = Len(f[m - 1]) + Len(pairs[m])
        <5> DEFINE a == f[m - 1]
                   b == pairs[m]
        <5>1. a \in Seq(S) /\ b \in Seq(S) BY <4>5
        <5> HIDE DEF a, b
        <5>2. Len(a \o b) = Len(a) + Len(b) BY <5>1, ConcatIs
        <5> QED BY <4>4, <5>2 DEF a, b
      <4>7. Len(f[m]) = 2 * m BY <1>a, <3>3, <4>3, <4>5, <4>6
      <4> QED BY <3>3, <4>7
    <3> QED BY <3>4, <3>5
  <2>4. n \in 1..n BY <1>a, <1>2
  <2>5. Len(f[n]) = 2 * n BY <2>3, <2>4
  <2>6. f[n] \in Seq(S)
    <3> HIDE DEF n
    <3> QED BY <2>2, <2>4
  <2> QED BY <2>2, <2>5, <2>6
<1> QED BY <1>1, <1>2

\* One entry of a function of functions.
LEMMA NestedExcept ==
  ASSUME NEW S, NEW T, NEW U, NEW f \in [S -> [T -> U]], NEW x \in S, NEW y \in T, NEW v \in U
  PROVE  [f EXCEPT ![x][y] = v] \in [S -> [T -> U]]
OBVIOUS

-----------------------------------------------------------------------------
(* Finite sets, and the lists of their elements                            *)

\* The elements of a sequence are finitely many.
LEMMA ToSetFinite ==
  ASSUME NEW T, NEW s \in Seq(T)
  PROVE  ToSet(s) \subseteq T /\ IsFiniteSet(ToSet(s)) /\ \A i \in 1..Len(s) : s[i] \in ToSet(s)
<1>1. DOMAIN s = 1..Len(s) /\ Len(s) \in Nat /\ s \in [1..Len(s) -> T] BY LenProperties
<1>2. s \in Surjection(1..Len(s), ToSet(s)) BY <1>1 DEF Surjection, ToSet
<1>3. IsFiniteSet(1..Len(s)) BY <1>1, FS_Interval
<1>4. IsFiniteSet(ToSet(s)) BY <1>2, <1>3, FS_Surjection
<1> QED BY <1>1, <1>4 DEF ToSet

\* The one element of a sequence.
LEMMA ToSetOne == \A w : ToSet(<<w>>) = {w}
<1> SUFFICES ASSUME NEW w PROVE ToSet(<<w>>) = {w} OBVIOUS
<1> DEFINE q == <<w>>
<1>1. q \in Seq({w}) /\ Len(q) = 1 /\ q[1] = w BY OneElement
<1> HIDE DEF q
<1>2. DOMAIN q = {1} BY <1>1, SeqFacts
<1>3. ToSet(q) = {w} BY <1>1, <1>2 DEF ToSet
<1> QED BY <1>3 DEF q

\* SetToSeq lists a finite set.
LEMMA SetToSeqIs ==
  ASSUME NEW S, IsFiniteSet(S)
  PROVE  SetToSeq(S) \in Seq(S) /\ Len(SetToSeq(S)) = Cardinality(S)
<1> DEFINE n == Cardinality(S)
<1>1. n \in Nat /\ ExistsBijection(1..n, S) BY FS_CardinalityType
<1>2. PICK f : f \in Bijection(1..n, S) BY <1>1 DEF ExistsBijection
<1>3. f \in [1..n -> S] /\ IsInjective(f)
  BY <1>2 DEF Bijection, Injection, IsInjective
<1>4. SetToSeq(S) \in [1..n -> S] BY <1>3 DEF SetToSeq
<1>5. SetToSeq(S) \in Seq(S) BY <1>1, <1>4, SeqDef
<1>6. DOMAIN SetToSeq(S) = 1..n BY <1>4
<1>7. DOMAIN SetToSeq(S) = 1..Len(SetToSeq(S)) /\ Len(SetToSeq(S)) \in Nat BY <1>5, LenProperties
<1> QED BY <1>1, <1>5, <1>6, <1>7

\* SetToSeq has exactly the elements of the set.
LEMMA SetToSeqHas ==
  ASSUME NEW S, IsFiniteSet(S) PROVE ToSet(SetToSeq(S)) = S
<1> DEFINE n == Cardinality(S)
           q == SetToSeq(S)
<1>1. n \in Nat /\ ExistsBijection(1..n, S) BY FS_CardinalityType
<1>3. PICK f : f \in Bijection(1..n, S) BY <1>1 DEF ExistsBijection
<1>4. f \in [1..n -> S] /\ IsInjective(f) BY <1>3 DEF Bijection, Injection, IsInjective
<1>5. q \in [1..n -> S] /\ IsInjective(q) BY <1>4 DEF SetToSeq
<1>6. q \in Injection(1..n, S)
  <2> HIDE DEF q
  <2> QED BY <1>5 DEF Injection
<1>7. IsFiniteSet(1..n) /\ Cardinality(1..n) = n BY <1>1, FS_Interval
<1>8. q \in Surjection(1..n, S)
  <2> HIDE DEF q
  <2> QED BY <1>6, <1>7, FS_Injection
<1>9. q \in Seq(S) /\ DOMAIN q = 1..n
  <2> HIDE DEF q
  <2> QED BY <1>1, <1>5, ListIs
<1> HIDE DEF q
<1>10. \A x : x \in S <=> \E i \in 1..n : q[i] = x BY <1>5, <1>8 DEF Surjection
<1>11. ToSet(q) = S BY <1>9, <1>10 DEF ToSet
<1> QED BY <1>11 DEF q

\* A finite set of numbers has a greatest one.
LEMMA Greatest ==
  ASSUME NEW S \in SUBSET Int, IsFiniteSet(S), S # {}
  PROVE  \E x \in S : \A y \in S : y <= x
<1> DEFINE Good(U) == \E x \in U : \A y \in U : y <= x
           Bad == {n \in Nat : \E U \in SUBSET Int :
                     IsFiniteSet(U) /\ U # {} /\ Cardinality(U) = n /\ ~Good(U)}
<1> SUFFICES ASSUME ~Good(S) PROVE FALSE OBVIOUS
<1>1. Cardinality(S) \in Bad BY FS_CardinalityType
<1>2. PICK n \in Bad : \A k \in Bad : n <= k
  <2>1. Bad \in SUBSET Nat /\ Bad # {} BY <1>1
  <2> HIDE DEF Bad
  <2> QED BY <2>1, LeastNumber
<1>3. PICK U \in SUBSET Int : IsFiniteSet(U) /\ U # {} /\ Cardinality(U) = n /\ ~Good(U) OBVIOUS
<1>4. PICK x \in U : TRUE BY <1>3
<1> DEFINE V == U \ {x}
<1>5. IsFiniteSet(V) /\ Cardinality(V) = n - 1 BY <1>3, <1>4, FS_RemoveElement
<1>6. V # {}
  <2> SUFFICES ASSUME V = {} PROVE FALSE OBVIOUS
  <2>1. U = {x} OBVIOUS
  <2>2. Good(U) BY <2>1
  <2> QED BY <1>3, <2>2
<1>7. Cardinality(V) \in Nat /\ n \in Nat BY <1>5, FS_CardinalityType
<1>8. n - 1 \notin Bad BY <1>2, <1>7
<1>9. Good(V) BY <1>5, <1>6, <1>7, <1>8
<1>10. PICK y \in V : \A z \in V : z <= y BY <1>9
<1>11. CASE x <= y
  <2>1. \A z \in U : z <= y BY <1>10, <1>11
  <2> QED BY <1>3, <1>10, <2>1
<1>12. CASE y < x
  <2>1. \A z \in U : z <= x BY <1>4, <1>10, <1>12
  <2> QED BY <1>3, <1>4, <2>1
<1> QED BY <1>4, <1>10, <1>11, <1>12

\* q lists n elements of S in order.
Increases(q, n, S) == q \in [1..n -> S] /\ \A i, j \in 1..n : i < j => q[i] < q[j]

\* A finite set of integers has an increasing list.
LEMMA Ordered ==
  ASSUME NEW S \in SUBSET Int, IsFiniteSet(S)
  PROVE  \E q : Increases(q, Cardinality(S), S)
<1> DEFINE Bad == {n \in Nat : \E U \in SUBSET Int :
                     IsFiniteSet(U) /\ Cardinality(U) = n /\ ~ \E q : Increases(q, n, U)}
<1> SUFFICES ASSUME ~ \E q : Increases(q, Cardinality(S), S) PROVE FALSE OBVIOUS
<1>1. Cardinality(S) \in Bad BY FS_CardinalityType
<1>2. PICK n \in Bad : \A k \in Bad : n <= k
  <2>1. Bad \in SUBSET Nat /\ Bad # {} BY <1>1
  <2> HIDE DEF Bad
  <2> QED BY <2>1, LeastNumber
<1>3. PICK U \in SUBSET Int : IsFiniteSet(U) /\ Cardinality(U) = n /\ ~ \E q : Increases(q, n, U)
  OBVIOUS
<1>4. CASE U = {}
  <2>1. n = 0 BY <1>3, <1>4, FS_EmptySet
  <2>2. Increases([i \in 1..0 |-> 0], n, U) BY <1>4, <2>1 DEF Increases
  <2> QED BY <1>3, <2>2
<1>5. CASE U # {}
  <2>1. PICK x \in U : \A y \in U : y <= x BY <1>3, <1>5, Greatest
  <2> DEFINE V == U \ {x}
  <2>2. IsFiniteSet(V) /\ Cardinality(V) = n - 1 BY <1>3, <2>1, FS_RemoveElement
  <2>3. n - 1 \in Nat /\ n \in Nat BY <2>2, FS_CardinalityType
  <2>4. n - 1 \notin Bad BY <1>2, <2>3
  <2>5. PICK q : Increases(q, n - 1, V) BY <2>2, <2>3, <2>4
  <2>6. q \in [1..(n - 1) -> V] /\ \A i, j \in 1..(n - 1) : i < j => q[i] < q[j]
    BY <2>5 DEF Increases
  <2> DEFINE r == [i \in 1..n |-> IF i = n THEN x ELSE q[i]]
  <2>7. \A i \in 1..(n - 1) : q[i] \in U /\ q[i] < x
    <3> SUFFICES ASSUME NEW i \in 1..(n - 1) PROVE q[i] \in U /\ q[i] < x OBVIOUS
    <3>1. q[i] \in V BY <2>6
    <3>2. q[i] \in U /\ q[i] # x BY <3>1
    <3>3. q[i] <= x /\ q[i] \in Int /\ x \in Int BY <2>1, <3>2
    <3> QED BY <3>2, <3>3
  <2>8. r \in [1..n -> U]
    <3>1. \A i \in 1..n : i # n => i \in 1..(n - 1) BY <2>3
    <3> QED BY <2>1, <2>7, <3>1
  <2>9. ASSUME NEW i \in 1..n, NEW j \in 1..n, i < j PROVE r[i] < r[j]
    <3>1. i \in 1..(n - 1) /\ i # n BY <2>3, <2>9
    <3>2. CASE j = n BY <2>7, <3>1, <3>2
    <3>3. CASE j # n
      <4>1. j \in 1..(n - 1) BY <2>3, <3>3
      <4> QED BY <2>6, <2>9, <3>1, <3>3, <4>1
    <3> QED BY <3>2, <3>3
  <2>10. Increases(r, n, U)
    <3> HIDE DEF r
    <3> QED BY <2>8, <2>9 DEF Increases
  <2> QED BY <1>3, <2>10
<1> QED BY <1>4, <1>5

\* Such a list has each element of S once.
LEMMA IncreasesIs ==
  ASSUME NEW S \in SUBSET Int, IsFiniteSet(S), NEW n, n = Cardinality(S), NEW q, Increases(q, n, S)
  PROVE  /\ q \in Seq(S) /\ Len(q) = n
         /\ \A i, j \in 1..n : i # j => q[i] # q[j]
         /\ \A x \in S : \E i \in 1..n : q[i] = x
<1>1. n \in Nat BY FS_CardinalityType
<1>2. q \in [1..n -> S] /\ \A i, j \in 1..n : i < j => q[i] < q[j] BY DEF Increases
<1>3. q \in Seq(S) /\ Len(q) = n
  <2>1. q \in Seq(S) BY <1>1, <1>2, SeqDef
  <2>2. DOMAIN q = 1..n /\ DOMAIN q = 1..Len(q) /\ Len(q) \in Nat BY <1>2, <2>1, LenProperties
  <2> QED BY <1>1, <2>1, <2>2
<1>4. \A i, j \in 1..n : i # j => q[i] # q[j]
  <2> SUFFICES ASSUME NEW i \in 1..n, NEW j \in 1..n, i # j PROVE q[i] # q[j] OBVIOUS
  <2>1. q[i] \in Int /\ q[j] \in Int BY <1>2
  <2>2. i < j \/ j < i BY <1>1
  <2> QED BY <1>2, <2>1, <2>2
<1>5. q \in Injection(1..n, S)
  <2> QED BY <1>2, <1>4 DEF Injection, IsInjective
<1>6. IsFiniteSet(1..n) /\ Cardinality(1..n) = n BY <1>1, FS_Interval
<1>7. q \in Surjection(1..n, S)
  <2> QED BY <1>5, <1>6, FS_Injection
<1>8. \A x \in S : \E i \in 1..n : q[i] = x
  <2> QED BY <1>7 DEF Surjection
<1> QED BY <1>3, <1>4, <1>8

-----------------------------------------------------------------------------
(* Sequences of records, each of which says where it comes from            *)

\* The records of q that are from s.
FoundAt(q, s) == {k \in 1..Len(q) : q[k].from = s}

\* The elements taken from two sequences, one after the other.
LEMMA FoundCat ==
  ASSUME NEW R, NEW a \in Seq(R), NEW b \in Seq(R), NEW s
  PROVE  /\ IsFiniteSet(FoundAt(a, s)) /\ Cardinality(FoundAt(a, s)) \in Nat
         /\ Cardinality(FoundAt(a \o b, s)) = Cardinality(FoundAt(a, s)) + Cardinality(FoundAt(b, s))
<1> DEFINE la == Len(a)
           lb == Len(b)
           d  == a \o b
           A  == FoundAt(a, s)
           B  == FoundAt(b, s)
           C  == FoundAt(d, s)
           D  == {la + k : k \in B}
           g  == [k \in B |-> la + k]
<1>1. la \in Nat /\ lb \in Nat BY LenProperties
<1>2. /\ Len(d) = la + lb /\ (\A i \in 1..la : d[i] = a[i])
      /\ \A i \in 1..lb : d[la + i] = b[i]
  BY ConcatIs
<1>3. A \in SUBSET (1..la) /\ B \in SUBSET (1..lb) /\ IsFiniteSet(A) /\ IsFiniteSet(B)
  <2>1. IsFiniteSet(1..la) /\ IsFiniteSet(1..lb)
    <3> HIDE DEF la, lb
    <3> QED BY <1>1, FS_Interval
  <2>2. A \in SUBSET (1..la) /\ B \in SUBSET (1..lb) BY DEF FoundAt
  <2> HIDE DEF A, B, la, lb
  <2> QED BY <2>1, <2>2, FS_Subset
<1> HIDE DEF la, lb
<1>4. g \in Surjection(B, D) BY DEF Surjection
<1>5. g \in Injection(B, D)
  <2>1. \A k, l \in B : g[k] = g[l] => k = l BY <1>1, <1>3
  <2>2. g \in [B -> D] OBVIOUS
  <2> HIDE DEF g, B, D
  <2> QED BY <2>1, <2>2 DEF Injection, IsInjective
<1>6. IsFiniteSet(D) /\ Cardinality(D) = Cardinality(B)
  <2> HIDE DEF g, B, D
  <2> QED BY <1>3, <1>4, <1>5, FS_Surjection
<1>7. A \cap D = {}
  <2> HIDE DEF A, B
  <2>1. \A k \in B : la + k \notin 1..la BY <1>1, <1>3
  <2> QED BY <1>3, <2>1
<1>8. C = A \cup D
  <2>1. \A i \in 1..(la + lb) : i \in 1..la \/ (i - la \in 1..lb /\ la + (i - la) = i) BY <1>1
  <2>2. \A i \in 1..la : i \in 1..(la + lb) BY <1>1
  <2>3. \A i \in 1..lb : la + i \in 1..(la + lb) BY <1>1
  <2> HIDE DEF d
  <2>4. ASSUME NEW i \in C PROVE i \in A \cup D
    <3>1. i \in 1..(la + lb) /\ d[i].from = s BY <1>2, <2>4 DEF FoundAt
    <3>2. CASE i \in 1..la
      <4>1. i \in A BY <1>2, <3>1, <3>2 DEF FoundAt, la
      <4> QED BY <4>1
    <3>3. CASE i \notin 1..la
      <4>1. i - la \in 1..lb /\ la + (i - la) = i BY <2>1, <3>1, <3>3
      <4>2. b[i - la].from = s BY <1>2, <3>1, <4>1
      <4>3. i - la \in B BY <4>1, <4>2 DEF FoundAt, lb
      <4> QED BY <4>1, <4>3
    <3> QED BY <3>2, <3>3
  <2>5. ASSUME NEW i \in A PROVE i \in C
    <3>1. i \in 1..la /\ a[i].from = s BY <2>5 DEF FoundAt, la
    <3> QED BY <1>2, <2>2, <3>1 DEF FoundAt
  <2>6. ASSUME NEW k \in B PROVE la + k \in C
    <3>1. k \in 1..lb /\ b[k].from = s BY <2>6 DEF FoundAt, lb
    <3> QED BY <1>2, <2>3, <3>1 DEF FoundAt
  <2> HIDE DEF A, B, C
  <2> QED BY <2>4, <2>5, <2>6
<1> HIDE DEF A, B, C, D, g, d
<1>9. Cardinality(A \cup D) = Cardinality(A) + Cardinality(D) - Cardinality(A \cap D)
  BY <1>3, <1>6, FS_Union
<1>10. Cardinality({}) = 0 /\ Cardinality(A) \in Nat /\ Cardinality(B) \in Nat
  BY <1>3, FS_EmptySet, FS_CardinalityType
<1>11. Cardinality(C) = Cardinality(A) + Cardinality(B)
  <2>1. Cardinality(C) = Cardinality(A \cup D) BY <1>8
  <2>2. Cardinality(A \cap D) = 0 BY <1>7, <1>10
  <2> QED BY <1>6, <1>9, <1>10, <2>1, <2>2
<1> QED BY <1>3, <1>10, <1>11 DEF A, B, C, d

\* Rows of records of R, each row from a place of its own.
Rowed(rows, ss, R) ==
  /\ rows \in Seq(Seq(R)) /\ rows # <<>>
  /\ \A i, j \in 1..Len(rows) : i # j => ss[i] # ss[j]
  /\ \A i \in 1..Len(rows) : \A k \in 1..Len(rows[i]) : rows[i][k].from = ss[i]

\* One after the other they have as many from every place.
Counted(q, rows, ss, R) ==
  /\ q \in Seq(R)
  /\ \A i \in 1..Len(rows) : Cardinality(FoundAt(q, ss[i])) = Len(rows[i])
  /\ \A k \in 1..Len(q) : \E i \in 1..Len(rows) : q[k].from = ss[i]

\* Those taken from many.
LEMMA FoundFlat ==
  ASSUME NEW R, NEW rows, NEW ss, Rowed(rows, ss, R)
  PROVE  Counted(FlattenSeq(rows), rows, ss, R)
<1>0. /\ rows \in Seq(Seq(R)) /\ rows # <<>>
      /\ \A i, j \in 1..Len(rows) : i # j => ss[i] # ss[j]
      /\ \A i \in 1..Len(rows) : \A k \in 1..Len(rows[i]) : rows[i][k].from = ss[i]
  BY DEF Rowed
<1> DEFINE n == Len(rows)
           q == FlattenSeq(rows)
<1>1. n \in Nat /\ n # 0 /\ \A i \in 1..n : rows[i] \in Seq(R)
  BY <1>0, SeqFacts
<1>2. PICK f \in [1..n -> Seq(R)] : Flattens(f, rows, n) /\ q = f[n] BY <1>0, FlattenIs
<1> HIDE DEF q
<1> DEFINE Good(m) == /\ \A i \in 1..n : Cardinality(FoundAt(f[m], ss[i]))
                                           = IF i <= m THEN Len(rows[i]) ELSE 0
                      /\ \A k \in 1..Len(f[m]) : \E i \in 1..n : f[m][k].from = ss[i]
           Bad == {m \in 1..n : ~Good(m)}
<1>3. ASSUME NEW i \in 1..n, NEW j \in 1..n
      PROVE  Cardinality(FoundAt(rows[j], ss[i])) = IF i = j THEN Len(rows[i]) ELSE 0
  <2> DEFINE l == Len(rows[j])
  <2>1. l \in Nat BY <1>1, LenProperties
  <2>2. CASE i = j
    <3>1. FoundAt(rows[j], ss[i]) = 1..l BY <1>0, <2>2 DEF FoundAt, n
    <3>2. Cardinality(1..l) = l BY <2>1, FS_Interval
    <3> QED BY <2>2, <3>1, <3>2
  <2>3. CASE i # j
    <3>1. ss[i] # ss[j] BY <1>0, <2>3 DEF n
    <3>2. FoundAt(rows[j], ss[i]) = {} BY <1>0, <3>1 DEF FoundAt, n
    <3> QED BY <2>3, <3>2, FS_EmptySet
  <2> QED BY <2>2, <2>3
<1>4. \A j \in 1..n : \A k \in 1..Len(rows[j]) : rows[j][k].from = ss[j] BY <1>0 DEF n
<1> HIDE DEF n
<1>5. Bad = {}
  <2> SUFFICES ASSUME Bad # {} PROVE FALSE OBVIOUS
  <2>1. Bad \in SUBSET Nat BY <1>1
  <2>2. PICK m \in Bad : \A k \in Bad : m <= k
    <3> HIDE DEF Bad
    <3> QED BY <2>1, LeastNumber
  <2>3. m \in 1..n /\ ~Good(m) OBVIOUS
  <2>4. CASE m = 1
    <3>1. f[m] = rows[1] /\ 1 \in 1..n BY <1>1, <1>2, <2>4 DEF Flattens
    <3>2. \A i \in 1..n : (i <= m) <=> (i = 1) BY <2>4
    <3>3. \A i \in 1..n : Cardinality(FoundAt(f[m], ss[i])) = IF i <= m THEN Len(rows[i]) ELSE 0
      BY <1>3, <3>1, <3>2
    <3>4. \A k \in 1..Len(f[m]) : \E i \in 1..n : f[m][k].from = ss[i] BY ZenonT(60), <1>4, <3>1
    <3> QED BY <2>3, <3>3, <3>4
  <2>5. CASE m # 1
    <3> DEFINE p == m - 1
    <3>1. p \in 1..n /\ m \in 2..n /\ p < m BY <1>1, <2>3, <2>5
    <3>2. Good(p)
      <4>1. p \notin Bad
        <5> HIDE DEF Bad, Good
        <5> QED BY <1>1, <2>2, <2>3, <3>1
      <4> QED BY <3>1, <4>1
    <3>3. f[m] = f[p] \o rows[m] BY <1>2, <3>1 DEF Flattens
    <3> DEFINE a == f[p]
               b == rows[m]
    <3>4. a \in Seq(R) /\ b \in Seq(R)
      <4> HIDE DEF p
      <4> QED BY <1>1, <1>2, <2>3, <3>1
    <3> HIDE DEF a, b
    <3>5. f[m] = a \o b BY <3>3 DEF a, b
    <3>6. /\ Len(a \o b) = Len(a) + Len(b) /\ \A k \in 1..Len(a) : (a \o b)[k] = a[k]
          /\ \A k \in 1..Len(b) : (a \o b)[Len(a) + k] = b[k]
      BY <3>4, ConcatIs
    <3>7. ASSUME NEW i \in 1..n
          PROVE  Cardinality(FoundAt(f[m], ss[i])) = IF i <= m THEN Len(rows[i]) ELSE 0
      <4>1. Cardinality(FoundAt(f[m], ss[i])) = Cardinality(FoundAt(a, ss[i])) + Cardinality(FoundAt(b, ss[i]))
        BY <3>4, <3>5, FoundCat
      <4>2. Cardinality(FoundAt(b, ss[i])) = IF i = m THEN Len(rows[i]) ELSE 0 BY <1>3, <2>3 DEF b
      <4>3. Cardinality(FoundAt(a, ss[i])) = IF i <= p THEN Len(rows[i]) ELSE 0 BY <3>2 DEF a
      <4>4. Len(rows[i]) \in Nat BY <1>1, LenProperties
      <4>5. i \in Int /\ m \in Int BY <2>3
      <4>6. (i <= p) <=> (i < m) BY <4>5
      <4> DEFINE l == Len(rows[i])
                 x == Cardinality(FoundAt(f[m], ss[i]))
                 y == Cardinality(FoundAt(a, ss[i]))
                 z == Cardinality(FoundAt(b, ss[i]))
      <4>7. /\ x = y + z /\ l \in Nat
            /\ z = (IF i = m THEN l ELSE 0) /\ y = (IF i < m THEN l ELSE 0)
        BY <4>1, <4>2, <4>3, <4>4, <4>6
      <4> HIDE DEF l, x, y, z
      <4>8. x = IF i <= m THEN l ELSE 0 BY <4>5, <4>7
      <4> QED BY <4>8 DEF l, x
    <3>8. ASSUME NEW k \in 1..Len(f[m]) PROVE \E i \in 1..n : f[m][k].from = ss[i]
      <4>1. Len(a) \in Nat /\ Len(b) \in Nat BY <3>4, LenProperties
      <4>2. k \in 1..(Len(a) + Len(b)) BY <3>5, <3>6
      <4>3. CASE k \in 1..Len(a)
        <5>1. f[m][k] = f[p][k] /\ k \in 1..Len(f[p]) BY <3>5, <3>6, <4>3 DEF a
        <5> QED BY <3>2, <5>1
      <4>4. CASE k \notin 1..Len(a)
        <5>1. k - Len(a) \in 1..Len(b) /\ Len(a) + (k - Len(a)) = k BY <4>1, <4>2, <4>4
        <5>2. f[m][k] = b[k - Len(a)] BY <3>5, <3>6, <5>1
        <5>3. b[k - Len(a)].from = ss[m] BY <1>4, <2>3, <5>1 DEF b
        <5> QED BY <2>3, <5>2, <5>3
      <4> QED BY <4>3, <4>4
    <3> QED BY <2>3, <3>7, <3>8
  <2> QED BY <2>4, <2>5
<1>6. n \in 1..n BY <1>1
<1>7. Good(n) BY <1>5, <1>6
<1>8. \A i \in 1..n : i <= n OBVIOUS
<1>9. \A i \in 1..n : Cardinality(FoundAt(q, ss[i])) = Len(rows[i]) BY <1>2, <1>7, <1>8
<1>10. \A k \in 1..Len(q) : \E i \in 1..n : q[k].from = ss[i] BY <1>2, <1>7
<1>11. q \in Seq(R) BY <1>2, <1>6
<1> QED BY <1>9, <1>10, <1>11 DEF n, q, Counted

\* The places from the k-th on of the records of q that are from s.
LeftFrom(q, k, s) == {i \in k..Len(q) : q[i].from = s}

\* How many are left.
LEMMA LeftIs ==
  ASSUME NEW q, Len(q) \in Nat, NEW k \in Nat \ {0}, NEW s
  PROVE  /\ Cardinality(LeftFrom(q, k, s)) \in Nat
         /\ (Cardinality(LeftFrom(q, k, s)) = 0) <=> (LeftFrom(q, k, s) = {})
         /\ k \in 1..Len(q) =>
              Cardinality(LeftFrom(q, k, s))
                = Cardinality(LeftFrom(q, k + 1, s)) + (IF q[k].from = s THEN 1 ELSE 0)
         /\ k > Len(q) => LeftFrom(q, k, s) = {}
<1> DEFINE F == LeftFrom(q, k, s)
           G == LeftFrom(q, k + 1, s)
           n == Len(q)
<1>1. IsFiniteSet(k..n) /\ IsFiniteSet((k + 1)..n) BY FS_Interval
<1>2. F \subseteq k..n /\ G \subseteq (k + 1)..n BY DEF LeftFrom
<1>3. IsFiniteSet(F) /\ IsFiniteSet(G) BY <1>1, <1>2, FS_Subset
<1>4. Cardinality(F) \in Nat /\ ((Cardinality(F) = 0) <=> (F = {})) /\ Cardinality(G) \in Nat
  BY <1>3, FS_CardinalityType, FS_EmptySet
<1>5. ASSUME k \in 1..n
      PROVE  Cardinality(F) = Cardinality(G) + (IF q[k].from = s THEN 1 ELSE 0)
  <2>1. k..n = {k} \cup ((k + 1)..n) /\ k \notin (k + 1)..n BY <1>5
  <2>2. CASE q[k].from = s
    <3>1. F = G \cup {k} /\ k \notin G BY <2>1, <2>2 DEF LeftFrom
    <3> HIDE DEF F, G
    <3> QED BY <1>3, <2>2, <3>1, FS_AddElement
  <2>3. CASE q[k].from # s
    <3>1. F = G BY <2>1, <2>3 DEF LeftFrom
    <3> HIDE DEF F, G
    <3> QED BY <1>4, <2>3, <3>1
  <2> QED BY <2>2, <2>3
<1>6. k > n => F = {}
  <2>1. k > n => k..n = {} OBVIOUS
  <2> QED BY <1>2, <2>1
<1> QED BY <1>4, <1>5, <1>6

=============================================================================
