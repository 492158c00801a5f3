---------------------------- MODULE SequenceFacts ----------------------------
(***************************************************************************)
(* What the proofs about streams and texts rest on: induction over an      *)
(* interval of numbers in a form that speaks of sets, functions defined by *)
(* recursion over such an interval, and what FlattenSeq does.              *)
(***************************************************************************)
EXTENDS SequencesExt, SequenceTheorems, WellFoundedInduction, TLAPS

LEMMA LeastElement ==
    ASSUME NEW T \in SUBSET Nat, T # {}
    PROVE  \E n \in T : \A m \in T : n <= m
<1> DEFINE R == OpToRel(<, Nat)
<1>1. IsWellFoundedOn(R, Nat)
  BY NatLessThanWellFounded
<1>2. \A x, y \in Nat : x < y => <<x, y>> \in R
  BY DEF OpToRel
<1> HIDE DEF R
<1>3. T \subseteq Nat
  OBVIOUS
<1>4. PICK n \in T : \A m \in T : ~(<<m, n>> \in R)
  BY <1>1, <1>3, WFMin, Zenon
<1>5. ASSUME NEW m \in T PROVE n <= m
  <2>1. ~(m < n)
    BY <1>2, <1>3, <1>4
  <2> QED BY <1>3, <2>1
<1> QED BY <1>5

LEMMA GreatestElement ==
    ASSUME NEW n \in Nat, NEW T \in SUBSET (0 .. n), T # {}
    PROVE  \E x \in T : \A y \in T : y <= x
<1> DEFINE U == {i \in 0 .. n : n - i \in T}
<1>1. U \in SUBSET Nat
  OBVIOUS
<1>2. \A y \in T : n - y \in U
  OBVIOUS
<1>3. U # {}
  BY <1>2
<1> HIDE DEF U
<1>4. PICK u \in U : \A v \in U : u <= v
  BY <1>1, <1>3, LeastElement
<1>5. n - u \in T
  BY DEF U
<1>6. ASSUME NEW y \in T PROVE y <= n - u
  <2>1. u <= n - y /\ u \in Nat
    BY <1>1, <1>2, <1>4
  <2> QED BY <2>1
<1> QED BY <1>5, <1>6

(* The numbers of P are all of them, if 0 is one and each next one is. *)
LEMMA Induction ==
    ASSUME NEW n \in Nat, NEW P, 0 \in P,
           \A i \in 1 .. n : i - 1 \in P => i \in P
    PROVE  \A i \in 0 .. n : i \in P
<1> SUFFICES ASSUME NEW k \in 0 .. n, k \notin P PROVE FALSE
  OBVIOUS
<1> DEFINE T == {i \in 0 .. n : i \notin P}
<1>1. T \in SUBSET Nat
  OBVIOUS
<1>2. k \in T
  OBVIOUS
<1>3. PICK i \in T : \A j \in T : i <= j
  BY <1>1, <1>2, LeastElement
<1>4. i \in 1 .. n
  BY <1>3
<1>5. i - 1 \in 0 .. n /\ i - 1 \notin T
  BY <1>3, <1>4
<1> QED BY <1>3, <1>4, <1>5

(* f starts with x and goes on, at each number up to n, as G says. *)
StepsBy(G, X, n) == G \in [X \X (1 .. n) -> X]
Run(f, x, G, X, n) == /\ f \in [0 .. n -> X] /\ f[0] = x
                      /\ \A i \in 1 .. n : f[i] = G[<<f[i - 1], i>>]

LEMMA Recursion ==
    ASSUME NEW n \in Nat, NEW X, NEW x \in X, NEW G, StepsBy(G, X, n)
    PROVE  \E f : Run(f, x, G, X, n)
<1>0. G \in [X \X (1 .. n) -> X]
  BY DEF StepsBy
<1> DEFINE Reaches(f, m) == /\ f \in [0 .. m -> X] /\ f[0] = x
                            /\ \A i \in 1 .. m : f[i] = G[<<f[i - 1], i>>]
           P == {m \in 0 .. n : \E f : Reaches(f, m)}
<1> HIDE DEF Reaches
<1>1. 0 \in P
  <2>1. Reaches([i \in 0 .. 0 |-> x], 0)
    BY DEF Reaches
  <2>2. 0 \in 0 .. n
    OBVIOUS
  <2> QED BY <2>1, <2>2, Zenon
<1>2. ASSUME NEW m \in 1 .. n, m - 1 \in P PROVE m \in P
  <2>1. PICK f : Reaches(f, m - 1)
    BY <1>2
  <2>2. /\ f \in [0 .. m - 1 -> X] /\ f[0] = x
        /\ \A i \in 1 .. m - 1 : f[i] = G[<<f[i - 1], i>>]
    BY <2>1 DEF Reaches
  <2> DEFINE y == G[<<f[m - 1], m>>]
             g == [i \in 0 .. m |-> IF i = m THEN y ELSE f[i]]
  <2>3. m - 1 \in 0 .. m - 1 /\ y \in X
    BY <1>0, <2>2
  <2>4. g \in [0 .. m -> X] /\ g[0] = x
    BY <2>2, <2>3
  <2>5. ASSUME NEW i \in 1 .. m PROVE g[i] = G[<<g[i - 1], i>>]
    <3>1. g[i - 1] = f[i - 1] /\ g[i] = IF i = m THEN y ELSE f[i]
      OBVIOUS
    <3>2. CASE i = m
      BY <3>1, <3>2
    <3>3. CASE i # m
      BY <2>2, <3>1, <3>3
    <3> QED BY <3>2, <3>3
  <2> HIDE DEF g
  <2>6. Reaches(g, m)
    BY <2>4, <2>5 DEF Reaches
  <2>7. m \in 0 .. n
    OBVIOUS
  <2> QED BY <2>6, <2>7, Zenon
<1> HIDE DEF P
<1>3. n \in P
  BY <1>1, <1>2, Induction
<1> QED BY <1>3 DEF P, Reaches, Run
-----------------------------------------------------------------------------
(* FlattenSeq, as its definition by recursion says. *)
LEMMA FlattenDef ==
    ASSUME NEW S, NEW s \in Seq(Seq(S)), s # <<>>
    PROVE  \E f \in [1 .. Len(s) -> Seq(S)] :
               /\ \A i \in 1 .. Len(s) : f[i] = IF i = 1 THEN s[i] ELSE f[i - 1] \o s[i]
               /\ FlattenSeq(s) = f[Len(s)]
<1> DEFINE n == Len(s)
           G == [p \in Seq(S) \X (1 .. n) |-> p[1] \o s[p[2]]]
           Eq(f) == f = [i \in 1 .. n |-> IF i = 1 THEN s[i] ELSE f[i - 1] \o s[i]]
           c == CHOOSE f : Eq(f)
<1>1. n \in Nat /\ n # 0 /\ \A i \in 1 .. n : s[i] \in Seq(S)
  OBVIOUS
<1>2. PICK g \in [0 .. n -> Seq(S)] : g[0] = <<>> /\ \A i \in 1 .. n : g[i] = G[<<g[i - 1], i>>]
  <2>1. \A a \in Seq(S), b \in Seq(S) : a \o b \in Seq(S)
    OBVIOUS
  <2>2. G \in [Seq(S) \X (1 .. n) -> Seq(S)]
    BY <1>1, <2>1
  <2>3. <<>> \in Seq(S)
    OBVIOUS
  <2>4. StepsBy(G, Seq(S), n)
    BY <2>2 DEF StepsBy
  <2> HIDE DEF G, n
  <2>5. \E g : Run(g, <<>>, G, Seq(S), n)
    BY <1>1, <2>3, <2>4, Recursion
  <2> QED BY <2>5 DEF Run
<1>3. ASSUME NEW i \in 1 .. n PROVE g[i] = g[i - 1] \o s[i]
  <2>1. g[i - 1] \in Seq(S)
    <3>1. i - 1 \in 0 .. n
      BY <1>1
    <3> HIDE DEF n
    <3> QED BY <1>2, <3>1
  <2>2. <<g[i - 1], i>> \in Seq(S) \X (1 .. n)
    BY <2>1
  <2>3. G[<<g[i - 1], i>>] = g[i - 1] \o s[i]
    BY <2>2, Zenon
  <2> QED BY <1>2, <2>3
<1>4. g[1] = s[1]
  <2>1. g[1] = <<>> \o s[1]
    <3>1. 1 \in 1 .. n /\ 1 - 1 = 0
      BY <1>1
    <3>2. g[1] = g[1 - 1] \o s[1]
      BY <1>3, <3>1
    <3> QED BY <1>2, <3>1, <3>2
  <2>2. s[1] \in Seq(S)
    BY <1>1
  <2> QED BY <2>1, <2>2, ConcatEmptySeq, Zenon
<1>5. Eq([i \in 1 .. n |-> g[i]])
  <2> DEFINE f == [i \in 1 .. n |-> g[i]]
  <2>1. \A i \in 1 .. n : f[i] = IF i = 1 THEN s[i] ELSE f[i - 1] \o s[i]
    <3> SUFFICES ASSUME NEW i \in 1 .. n PROVE f[i] = IF i = 1 THEN s[i] ELSE f[i - 1] \o s[i]
      OBVIOUS
    <3>1. i # 1 => i - 1 \in 1 .. n
      BY <1>1
    <3>2. f[i] = g[i] /\ (i # 1 => f[i - 1] = g[i - 1])
      BY <3>1
    <3> HIDE DEF f, n
    <3> QED BY <1>3, <1>4, <3>2
  <2> QED BY <2>1, Zenon
<1>6. Eq(c)
  BY <1>5
<1>7. FlattenSeq(s) = c[n]
  BY <1>1 DEF FlattenSeq
<1>8. \A i \in 1 .. n : c[i] = IF i = 1 THEN s[i] ELSE c[i - 1] \o s[i]
  BY <1>6
<1>9. c \in [1 .. n -> Seq(S)]
  <2> DEFINE P == {0} \cup {i \in 1 .. n : c[i] \in Seq(S)}
  <2> HIDE DEF c
  <2>1. ASSUME NEW i \in 1 .. n, i - 1 \in P PROVE i \in P
    <3>1. CASE i = 1
      BY <1>1, <1>8, <3>1
    <3>2. CASE i # 1
      <4>1. c[i - 1] \in Seq(S) /\ s[i] \in Seq(S)
        BY <1>1, <2>1, <3>2
      <4>2. c[i] = c[i - 1] \o s[i]
        BY <1>8, <3>2
      <4>3. c[i] \in Seq(S)
        BY <4>1, <4>2, ConcatProperties
      <4> QED BY <4>3
    <3> QED BY <3>1, <3>2
  <2>2. \A i \in 0 .. n : i \in P
    <3> HIDE DEF P
    <3>1. 0 \in P
      BY DEF P
    <3> QED BY <1>1, <2>1, <3>1, Induction
  <2>3. \A i \in 1 .. n : c[i] \in Seq(S)
    BY <2>2
  <2> QED BY <1>6, <2>3
<1> QED BY <1>7, <1>8, <1>9

LEMMA FlattenEmpty == FlattenSeq(<<>>) = <<>>
BY DEF FlattenSeq

(* The same from the empty sequence on, whether or not s is empty. *)
Flattens(f, s, S) == /\ f[0] = <<>> /\ FlattenSeq(s) = f[Len(s)]
                     /\ \A i \in 0 .. Len(s) : f[i] \in Seq(S)
                     /\ \A i \in 1 .. Len(s) : f[i] = f[i - 1] \o s[i]

LEMMA FlattenRun ==
    ASSUME NEW S, NEW s \in Seq(Seq(S))
    PROVE  \E f : Flattens(f, s, S)
<1>1. CASE s = <<>>
  <2> DEFINE f == [i \in 0 .. 0 |-> <<>>]
  <2>1. f[0] = <<>> /\ f[0] \in Seq(S)
    OBVIOUS
  <2>2. Len(s) = 0 /\ FlattenSeq(s) = <<>>
    BY <1>1, FlattenEmpty
  <2> HIDE DEF f
  <2>3. \A i \in 0 .. 0 : f[i] \in Seq(S)
    <3>1. \A i \in 0 .. 0 : i = 0
      OBVIOUS
    <3> QED BY <2>1, <3>1
  <2>4. \A i \in 1 .. 0 : f[i] = f[i - 1] \o s[i]
    <3>1. \A i \in 1 .. 0 : FALSE
      OBVIOUS
    <3> QED BY <3>1, Zenon
  <2>5. Flattens(f, s, S)
    BY <2>1, <2>2, <2>3, <2>4, Zenon DEF Flattens
  <2> QED BY <2>5
<1>2. CASE s # <<>>
  <2>1. PICK c \in [1 .. Len(s) -> Seq(S)] :
            /\ \A i \in 1 .. Len(s) : c[i] = IF i = 1 THEN s[i] ELSE c[i - 1] \o s[i]
            /\ FlattenSeq(s) = c[Len(s)]
    BY <1>2, FlattenDef
  <2> DEFINE f == [i \in 0 .. Len(s) |-> IF i = 0 THEN <<>> ELSE c[i]]
  <2>2. Len(s) \in Nat /\ Len(s) # 0
    BY <1>2
  <2>3. f[0] = <<>> /\ f[Len(s)] = c[Len(s)]
    BY <2>2
  <2>4. ASSUME NEW i \in 0 .. Len(s) PROVE f[i] \in Seq(S)
    <3>1. CASE i = 0
      BY <2>3, <3>1
    <3>2. CASE i # 0
      <4>1. i \in 1 .. Len(s) /\ f[i] = c[i]
        BY <2>2, <3>2
      <4> QED BY <2>1, <4>1
    <3> QED BY <3>1, <3>2
  <2>5. ASSUME NEW i \in 1 .. Len(s) PROVE f[i] = f[i - 1] \o s[i]
    <3>1. f[i] = c[i] /\ s[i] \in Seq(S) /\ (i # 1 => f[i - 1] = c[i - 1])
      BY <2>2
    <3>2. CASE i = 1
      <4>1. c[1] = s[1]
        <5>1. c[i] = IF i = 1 THEN s[i] ELSE c[i - 1] \o s[i]
          BY <2>1, Zenon
        <5> QED BY <3>2, <5>1
      <4>2. f[i - 1] = <<>>
        BY <2>3, <3>2
      <4>3. <<>> \o s[1] = s[1]
        BY <3>1, <3>2, ConcatEmptySeq
      <4> HIDE DEF f
      <4> QED BY <3>1, <3>2, <4>1, <4>2, <4>3, Zenon
    <3>3. CASE i # 1
      <4>1. c[i] = c[i - 1] \o s[i]
        BY <2>1, <3>3
      <4> HIDE DEF f
      <4> QED BY <3>1, <3>3, <4>1, Zenon
    <3> QED BY <3>2, <3>3
  <2> HIDE DEF f
  <2>6. Flattens(f, s, S)
    BY <2>1, <2>3, <2>4, <2>5 DEF Flattens
  <2> QED BY <2>6
<1> QED BY <1>1, <1>2

LEMMA FlattenType ==
    ASSUME NEW S, NEW s \in Seq(Seq(S))
    PROVE  FlattenSeq(s) \in Seq(S)
<1>1. PICK f : Flattens(f, s, S)
  BY FlattenRun
<1>2. Len(s) \in 0 .. Len(s)
  OBVIOUS
<1> QED BY <1>1, <1>2 DEF Flattens

LEMMA FlattenConcat ==
    ASSUME NEW S, NEW s \in Seq(Seq(S)), NEW t \in Seq(Seq(S))
    PROVE  FlattenSeq(s \o t) = FlattenSeq(s) \o FlattenSeq(t)
<1> DEFINE u == s \o t
           m == Len(s)
           n == Len(t)
<1>0. /\ m \in Nat /\ n \in Nat /\ u \in Seq(Seq(S)) /\ Len(u) = m + n
      /\ \A i \in 1 .. m : u[i] = s[i]
      /\ \A j \in 1 .. n : u[m + j] = t[j] /\ t[j] \in Seq(S)
  OBVIOUS
<1> HIDE DEF u
<1>1. PICK f : Flattens(f, u, S)
  BY <1>0, FlattenRun
<1>2. PICK g : Flattens(g, s, S)
  BY FlattenRun
<1>3. PICK h : Flattens(h, t, S)
  BY FlattenRun
<1>4. /\ g[0] = <<>> /\ FlattenSeq(s) = g[m]
      /\ \A i \in 0 .. m : g[i] \in Seq(S)
      /\ \A i \in 1 .. m : g[i] = g[i - 1] \o s[i]
  BY <1>2 DEF Flattens
<1>5. /\ h[0] = <<>> /\ FlattenSeq(t) = h[n]
      /\ \A i \in 0 .. n : h[i] \in Seq(S)
      /\ \A i \in 1 .. n : h[i] = h[i - 1] \o t[i]
  BY <1>3 DEF Flattens
<1>6. /\ f[0] = <<>> /\ FlattenSeq(u) = f[m + n]
      /\ \A i \in 1 .. m + n : f[i] = f[i - 1] \o u[i]
  BY <1>0, <1>1 DEF Flattens
<1> HIDE DEF m, n
<1>7. f[m] = g[m] /\ g[m] \in Seq(S)
  <2> DEFINE P == {i \in 0 .. m : f[i] = g[i]}
  <2>1. 0 \in P
    BY <1>0, <1>4, <1>6
  <2>2. ASSUME NEW i \in 1 .. m, i - 1 \in P PROVE i \in P
    <3>1. f[i - 1] = g[i - 1]
      BY <2>2
    <3>2. i \in 1 .. m + n /\ u[i] = s[i] /\ i \in 0 .. m
      BY <1>0
    <3>3. f[i] = f[i - 1] \o u[i] /\ g[i] = g[i - 1] \o s[i]
      BY <1>4, <1>6, <3>2
    <3>4. f[i] = g[i]
      BY <3>1, <3>2, <3>3, Zenon
    <3> QED BY <3>2, <3>4
  <2> HIDE DEF P
  <2>3. m \in Nat /\ m \in 0 .. m
    BY <1>0
  <2>4. \A i \in 0 .. m : i \in P
    BY <2>1, <2>2, <2>3, Induction
  <2>5. m \in P
    BY <2>3, <2>4
  <2> QED BY <1>4, <2>3, <2>5 DEF P
<1>8. f[m + n] = g[m] \o h[n]
  <2> DEFINE P == {i \in 0 .. n : f[m + i] = g[m] \o h[i]}
  <2>1. 0 \in P
    <3>1. g[m] \o h[0] = g[m] /\ m + 0 = m /\ 0 \in 0 .. n
      BY <1>0, <1>5, <1>7, ConcatEmptySeq
    <3> QED BY <1>7, <3>1
  <2>2. ASSUME NEW i \in 1 .. n, i - 1 \in P PROVE i \in P
    <3>1. f[m + (i - 1)] = g[m] \o h[i - 1]
      BY <2>2
    <3>2. /\ m + i \in 1 .. m + n /\ (m + i) - 1 = m + (i - 1)
          /\ i \in 0 .. n /\ i - 1 \in 0 .. n
      BY <1>0
    <3>3. f[m + i] = f[m + (i - 1)] \o u[m + i]
      <4>1. f[m + i] = f[(m + i) - 1] \o u[m + i]
        BY <1>6, <3>2, Zenon
      <4> QED BY <3>2, <4>1
    <3>4. h[i] = h[i - 1] \o t[i] /\ u[m + i] = t[i] /\ t[i] \in Seq(S) /\ h[i - 1] \in Seq(S)
      BY <1>0, <1>5, <3>2
    <3>5. (g[m] \o h[i - 1]) \o t[i] = g[m] \o (h[i - 1] \o t[i])
      <4>1. \A a, b, c \in Seq(S) : (a \o b) \o c = a \o (b \o c)
        OBVIOUS
      <4> QED BY <1>7, <3>4, <4>1, Zenon
    <3>6. f[m + i] = g[m] \o h[i]
      BY <3>1, <3>2, <3>3, <3>4, <3>5, Zenon
    <3> QED BY <3>2, <3>6
  <2> HIDE DEF P
  <2>3. n \in Nat /\ n \in 0 .. n
    BY <1>0
  <2>4. \A i \in 0 .. n : i \in P
    BY <2>1, <2>2, <2>3, Induction
  <2>5. n \in P
    BY <2>3, <2>4
  <2> QED BY <2>5 DEF P
<1>9. FlattenSeq(u) = FlattenSeq(s) \o FlattenSeq(t)
  BY <1>4, <1>5, <1>6, <1>8, Zenon
<1> QED BY <1>9 DEF u

(* A sequence flattened is its two parts flattened, wherever it is cut. *)
LEMMA FlattenCut ==
    ASSUME NEW S, NEW s \in Seq(Seq(S)), NEW t \in Seq(Seq(S)), NEW u \in Seq(Seq(S)),
           Len(u) = Len(s) + Len(t),
           \A i \in 1 .. Len(s) : u[i] = s[i],
           \A i \in 1 .. Len(t) : u[Len(s) + i] = t[i]
    PROVE  FlattenSeq(u) = FlattenSeq(s) \o FlattenSeq(t)
<1>1. /\ s \o t \in Seq(Seq(S)) /\ Len(s \o t) = Len(u)
      /\ \A i \in 1 .. Len(u) : (s \o t)[i] = u[i]
  <2>1. s \o t \in Seq(Seq(S)) /\ Len(s \o t) = Len(u)
    OBVIOUS
  <2>2. ASSUME NEW i \in 1 .. Len(u) PROVE (s \o t)[i] = u[i]
    <3>1. CASE i <= Len(s)
      BY <3>1
    <3>2. CASE i > Len(s)
      <4> DEFINE j == i - Len(s)
      <4>1. j \in 1 .. Len(t) /\ Len(s) + j = i /\ i \in 1 .. Len(s) + Len(t)
        BY <3>2
      <4>2. (s \o t)[i] = t[j]
        BY <3>2, <4>1
      <4> HIDE DEF j
      <4> QED BY <4>1, <4>2
    <3> QED BY <3>1, <3>2
  <2> QED BY <2>1, <2>2
<1>2. s \o t = u
  BY <1>1, SeqEqual
<1> QED BY <1>2, FlattenConcat
-----------------------------------------------------------------------------
(* The largest and the least number of a set. *)
LEMMA MaxOfNumbers ==
    ASSUME NEW n \in Nat, NEW T \in SUBSET (0 .. n), T # {}
    PROVE  Max(T) \in T /\ \A y \in T : y <= Max(T)
<1>1. \E x \in T : \A y \in T : x >= y
  BY GreatestElement
<1> QED BY <1>1 DEF Max

LEMMA MinOfNumbers ==
    ASSUME NEW T \in SUBSET Nat, T # {}
    PROVE  Min(T) \in T /\ \A y \in T : Min(T) <= y
<1>1. \E x \in T : \A y \in T : x =< y
  BY LeastElement
<1> QED BY <1>1 DEF Min
-----------------------------------------------------------------------------
(* Short sequences, element by element. *)
LEMMA OfLengthOne ==
    ASSUME NEW S, NEW s \in Seq(S), Len(s) = 1
    PROVE  s = <<s[1]>>
<1>1. s[1] \in S
  OBVIOUS
<1>2. <<s[1]>> \in Seq(S) /\ Len(<<s[1]>>) = 1 /\ <<s[1]>>[1] = s[1]
  BY <1>1
<1>3. \A i \in 1 .. Len(s) : i = 1
  OBVIOUS
<1>4. \A i \in 1 .. Len(s) : s[i] = <<s[1]>>[i]
  BY <1>2, <1>3, Zenon
<1> QED BY <1>2, <1>4, SeqEqual

LEMMA OfLengthTwo ==
    ASSUME NEW S, NEW s \in Seq(S), Len(s) = 2
    PROVE  s = <<s[1], s[2]>>
<1> DEFINE t == <<s[1], s[2]>>
<1>1. s[1] \in S /\ s[2] \in S
  <2>1. 1 \in 1 .. Len(s) /\ 2 \in 1 .. Len(s)
    OBVIOUS
  <2> QED BY <2>1, ElementOfSeq
<1>2. t \in Seq(S) /\ Len(t) = 2 /\ t[1] = s[1] /\ t[2] = s[2]
  BY <1>1
<1>3. \A i \in 1 .. Len(s) : i = 1 \/ i = 2
  OBVIOUS
<1> HIDE DEF t
<1>4. \A i \in 1 .. Len(s) : s[i] = t[i]
  BY <1>2, <1>3, Zenon
<1>5. s = t
  BY <1>2, <1>4, SeqEqual
<1> QED BY <1>5 DEF t
-----------------------------------------------------------------------------
(* Beginnings of sequences. *)
LEMMA PrefixOfConcat ==
    ASSUME NEW S, NEW a \in Seq(S), NEW b \in Seq(S)
    PROVE  IsPrefix(a, a \o b)
BY DEF IsPrefix

LEMMA PrefixOfSame ==
    ASSUME NEW S, NEW a \in Seq(S)
    PROVE  IsPrefix(a, a)
BY DEF IsPrefix

LEMMA PrefixAfterSame ==
    ASSUME NEW S, NEW a \in Seq(S), NEW b \in Seq(S), NEW c \in Seq(S), IsPrefix(b, c)
    PROVE  IsPrefix(a \o b, a \o c)
<1>1. Len(b) <= Len(c) /\ \A i \in 1 .. Len(b) : b[i] = c[i]
  <2>1. SubSeq(b, 1, Len(b)) = SubSeq(c, 1, Len(b)) /\ Len(b) <= Len(c)
    BY DEF IsPrefix
  <2>2. \A i \in 1 .. Len(b) : SubSeq(b, 1, Len(b))[i] = b[i] /\ SubSeq(c, 1, Len(b))[i] = c[i]
    BY <2>1
  <2> QED BY <2>1, <2>2
<1>2. \A i \in 1 .. Len(a \o b) : (a \o b)[i] = (a \o c)[i]
  BY <1>1
<1>3. Len(a \o b) <= Len(a \o c)
  BY <1>1
<1> QED BY <1>2, <1>3 DEF IsPrefix

LEMMA PrefixTransitive ==
    ASSUME NEW S, NEW a \in Seq(S), NEW b \in Seq(S), NEW c \in Seq(S),
           IsPrefix(a, b), IsPrefix(b, c)
    PROVE  IsPrefix(a, c)
<1>1. ASSUME NEW x \in Seq(S), NEW y \in Seq(S), IsPrefix(x, y)
      PROVE  Len(x) <= Len(y) /\ \A i \in 1 .. Len(x) : x[i] = y[i]
  <2>1. SubSeq(x, 1, Len(x)) = SubSeq(y, 1, Len(x)) /\ Len(x) <= Len(y)
    BY <1>1 DEF IsPrefix
  <2>2. \A i \in 1 .. Len(x) : SubSeq(x, 1, Len(x))[i] = x[i] /\ SubSeq(y, 1, Len(x))[i] = y[i]
    BY <2>1
  <2> QED BY <2>1, <2>2
<1>2. Len(a) <= Len(c) /\ \A i \in 1 .. Len(a) : a[i] = c[i]
  BY <1>1
<1> QED BY <1>2 DEF IsPrefix

LEMMA PrefixOfLonger ==
    ASSUME NEW S, NEW s \in Seq(S), NEW m \in 0 .. Len(s), NEW n \in m .. Len(s)
    PROVE  IsPrefix(SubSeq(s, 1, m), SubSeq(s, 1, n))
BY DEF IsPrefix
=============================================================================
