--------------------------- MODULE RestoringProofs ---------------------------
(***************************************************************************)
(* What the two writers compute on any stream: where the raw writer cuts,  *)
(* no token is cut; restoring the parts of a stream that is cut there, or  *)
(* of events that are cut at a line feed, is restoring the whole.          *)
(***************************************************************************)
EXTENDS RestoringWriter, SSERestoringWriter, SequenceFacts

LEMMA TokenIsFive == TokenLen = 5
BY DEF TokenLen, Open, CloseMark

LEMMA TokenAt ==
    ASSUME NEW S, NEW b \in Seq(S), NEW i \in 1 .. Len(b)
    PROVE  IsToken(b, i) <=> /\ i + 4 <= Len(b) /\ b[i] = "L" /\ b[i + 1] = "o"
                             /\ b[i + 2] \in Digit /\ b[i + 3] = "L" /\ b[i + 4] = "c"
<1>1. IsToken(b, i) <=> /\ i + 4 <= Len(b) /\ SubSeq(b, i, i + 1) = <<"L", "o">>
                        /\ b[i + 2] \in Digit /\ SubSeq(b, i + 3, i + 4) = <<"L", "c">>
  BY DEF IsToken, TokenLen, Open, CloseMark
<1>2. ASSUME NEW k \in 1 .. Len(b) - 1, NEW x, NEW y
      PROVE  SubSeq(b, k, k + 1) = <<x, y>> <=> b[k] = x /\ b[k + 1] = y
  <2> DEFINE p == SubSeq(b, k, k + 1)
  <2>1. p \in Seq(S) /\ Len(p) = 2 /\ p[1] = b[k] /\ p[2] = b[k + 1]
    OBVIOUS
  <2>2. Len(<<x, y>>) = 2 /\ <<x, y>>[1] = x /\ <<x, y>>[2] = y
    OBVIOUS
  <2>3. \A q : q = 1 \/ q = 2 <=> q \in 1 .. 2
    OBVIOUS
  <2>4. p = <<x, y>> <=> p[1] = x /\ p[2] = y
    <3>1. p = <<p[1], p[2]>>
      BY <2>1, OfLengthTwo
    <3> QED BY <2>2, <3>1
  <2> HIDE DEF p
  <2> QED BY <2>1, <2>4 DEF p
<1>3. i + 4 <= Len(b) => i \in 1 .. Len(b) - 1 /\ i + 3 \in 1 .. Len(b) - 1 /\ (i + 3) + 1 = i + 4
  OBVIOUS
<1>4. i + 4 <= Len(b) => /\ SubSeq(b, i, i + 1) = <<"L", "o">> <=> b[i] = "L" /\ b[i + 1] = "o"
                         /\ SubSeq(b, i + 3, i + 4) = <<"L", "c">> <=> b[i + 3] = "L" /\ b[i + 4] = "c"
  <2> SUFFICES ASSUME i + 4 <= Len(b)
               PROVE  /\ SubSeq(b, i, i + 1) = <<"L", "o">> <=> b[i] = "L" /\ b[i + 1] = "o"
                      /\ SubSeq(b, i + 3, i + 4) = <<"L", "c">> <=> b[i + 3] = "L" /\ b[i + 4] = "c"
    OBVIOUS
  <2>1. SubSeq(b, i, i + 1) = <<"L", "o">> <=> b[i] = "L" /\ b[i + 1] = "o"
    BY <1>2, <1>3
  <2>2. SubSeq(b, i + 3, (i + 3) + 1) = <<"L", "c">> <=> b[i + 3] = "L" /\ b[(i + 3) + 1] = "c"
    <3> DEFINE k == i + 3
    <3>1. k \in 1 .. Len(b) - 1
      BY <1>3
    <3> HIDE DEF k
    <3>2. SubSeq(b, k, k + 1) = <<"L", "c">> <=> b[k] = "L" /\ b[k + 1] = "c"
      BY <1>2, <3>1
    <3> QED BY <3>2 DEF k
  <2> QED BY <1>3, <2>1, <2>2
<1> QED BY <1>1, <1>4

LEMMA MayOpenAt ==
    ASSUME NEW S, NEW b \in Seq(S), NEW i \in 1 .. Len(b)
    PROVE  MayOpen(b, i) <=> b[i] = "L" /\ (i = Len(b) \/ b[i + 1] = "o")
<1> DEFINE rest == SubSeq(b, i, Len(b))
<1>1. /\ rest \in Seq(S) /\ Len(rest) = Len(b) - i + 1 /\ rest[1] = b[i]
      /\ i < Len(b) => rest[2] = b[i + 1]
  OBVIOUS
<1>2. Len(Open) = 2 /\ Open[1] = "L" /\ Open[2] = "o"
  BY DEF Open
<1>3. CASE i = Len(b)
  <2>1. Len(rest) = 1
    BY <1>1, <1>3
  <2>2. ~IsPrefix(Open, rest)
    BY <1>2, <2>1 DEF IsPrefix
  <2>3. SubSeq(rest, 1, 1) = <<rest[1]>>
    <3>1. SubSeq(rest, 1, 1) \in Seq(S) /\ Len(SubSeq(rest, 1, 1)) = 1 /\ SubSeq(rest, 1, 1)[1] = rest[1]
      BY <1>1, <2>1
    <3> QED BY <3>1, OfLengthOne
  <2>4. SubSeq(Open, 1, 1) = <<"L">>
    <3>1. Open \in Seq({"L", "o"})
      BY DEF Open
    <3>2. /\ SubSeq(Open, 1, 1) \in Seq({"L", "o"}) /\ Len(SubSeq(Open, 1, 1)) = 1
          /\ SubSeq(Open, 1, 1)[1] = "L"
      BY <1>2, <3>1
    <3> QED BY <3>2, OfLengthOne
  <2>5. IsPrefix(rest, Open) <=> b[i] = "L"
    BY <1>1, <1>2, <2>1, <2>3, <2>4 DEF IsPrefix
  <2> QED BY <1>3, <2>2, <2>5 DEF MayOpen
<1>4. CASE i # Len(b)
  <2>1. Len(rest) >= 2
    BY <1>1, <1>4
  <2>2. SubSeq(rest, 1, 2) = <<rest[1], rest[2]>>
    <3>1. /\ SubSeq(rest, 1, 2) \in Seq(S) /\ Len(SubSeq(rest, 1, 2)) = 2
          /\ SubSeq(rest, 1, 2)[1] = rest[1] /\ SubSeq(rest, 1, 2)[2] = rest[2]
      BY <1>1, <2>1
    <3> QED BY <3>1, OfLengthTwo
  <2>3. SubSeq(Open, 1, 2) = <<"L", "o">>
    <3>1. Open \in Seq({"L", "o"})
      BY DEF Open
    <3> QED BY <1>2, <3>1, SubSeqFull DEF Open
  <2>4. IsPrefix(Open, rest) <=> b[i] = "L" /\ b[i + 1] = "o"
    BY <1>1, <1>2, <1>4, <2>1, <2>2, <2>3 DEF IsPrefix
  <2>5. IsPrefix(rest, Open) => IsPrefix(Open, rest)
    BY <1>2, <2>1 DEF IsPrefix
  <2> QED BY <1>4, <2>4, <2>5 DEF MayOpen
<1> QED BY <1>3, <1>4
-----------------------------------------------------------------------------
(* A token of b begins at or before position c and ends after it. *)
Spans(b, c) == \E j \in 1 .. c : IsToken(b, j) /\ c < j + 4

LEMMA RestoredAtType ==
    ASSUME NEW S, NEW b \in Seq(S), NEW i \in 1 .. Len(b)
    PROVE  RestoredAt(b, i) \in Seq(S \cup {"V"})
<1>1. b[i] \in S
  OBVIOUS
<1>2. <<>> \in Seq(S \cup {"V"}) /\ <<"V">> \in Seq(S \cup {"V"}) /\ <<b[i]>> \in Seq(S \cup {"V"})
  BY <1>1
<1> QED BY <1>2 DEF RestoredAt

LEMMA RestoredAtSeq ==
    ASSUME NEW S, NEW b \in Seq(S)
    PROVE  /\ [i \in DOMAIN b |-> RestoredAt(b, i)] \in Seq(Seq(S \cup {"V"}))
           /\ Len([i \in DOMAIN b |-> RestoredAt(b, i)]) = Len(b)
<1>1. DOMAIN b = 1 .. Len(b) /\ Len(b) \in Nat
  OBVIOUS
<1>2. \A i \in 1 .. Len(b) : RestoredAt(b, i) \in Seq(S \cup {"V"})
  BY RestoredAtType
<1> QED BY <1>1, <1>2, IsASeq

LEMMA RestoreType ==
    ASSUME NEW S, NEW b \in Seq(S)
    PROVE  Restore(b) \in Seq(S \cup {"V"})
BY RestoredAtSeq, FlattenType DEF Restore

(* Restoring both parts of a stream is restoring it, if no token spans the
   place where it is cut. *)
LEMMA RestoreCut ==
    ASSUME NEW S, NEW b \in Seq(S), NEW c \in 0 .. Len(b), ~Spans(b, c)
    PROVE  Restore(b) = Restore(SubSeq(b, 1, c)) \o Restore(SubSeq(b, c + 1, Len(b)))
<1> DEFINE a == SubSeq(b, 1, c)
           d == SubSeq(b, c + 1, Len(b))
<1>1. /\ a \in Seq(S) /\ Len(a) = c /\ \A i \in 1 .. c : a[i] = b[i]
      /\ DOMAIN a = 1 .. c /\ DOMAIN b = 1 .. Len(b)
  OBVIOUS
<1>2. /\ d \in Seq(S) /\ Len(d) = Len(b) - c /\ \A i \in 1 .. Len(b) - c : d[i] = b[c + i]
      /\ DOMAIN d = 1 .. Len(b) - c
  OBVIOUS
<1>3. Len(b) \in Nat /\ c \in Nat
  OBVIOUS
<1> HIDE DEF a, d
<1>4. ASSUME NEW j \in 1 .. c PROVE IsKnown(a, j) <=> IsKnown(b, j)
  <2>1. j \in 1 .. Len(a) /\ j \in 1 .. Len(b)
    BY <1>1, <1>3
  <2>2. IsToken(b, j) => j + 4 <= c
    BY <1>3 DEF Spans
  <2>3. IsToken(a, j) <=> IsToken(b, j)
    <3>1. IsToken(a, j) <=> /\ j + 4 <= Len(a) /\ a[j] = "L" /\ a[j + 1] = "o"
                            /\ a[j + 2] \in Digit /\ a[j + 3] = "L" /\ a[j + 4] = "c"
      BY <1>1, <2>1, TokenAt
    <3>2. IsToken(b, j) <=> /\ j + 4 <= Len(b) /\ b[j] = "L" /\ b[j + 1] = "o"
                            /\ b[j + 2] \in Digit /\ b[j + 3] = "L" /\ b[j + 4] = "c"
      BY <2>1, TokenAt
    <3>3. j + 4 <= c => \A k \in 0 .. 4 : j + k \in 1 .. c
      BY <1>3
    <3>4. j + 4 <= c => /\ a[j] = b[j] /\ a[j + 1] = b[j + 1] /\ a[j + 2] = b[j + 2]
                        /\ a[j + 3] = b[j + 3] /\ a[j + 4] = b[j + 4]
      BY <1>1, <3>3
    <3>5. j + 4 <= Len(a) <=> j + 4 <= c
      BY <1>1
    <3>6. j + 4 <= c => j + 4 <= Len(b)
      BY <1>3
    <3> QED BY <2>2, <3>1, <3>2, <3>4, <3>5, <3>6
  <2>4. IsToken(b, j) => a[j + 2] = b[j + 2]
    BY <1>1, <1>3, <2>2
  <2> QED BY <2>3, <2>4, TokenIsFive DEF IsKnown, Open
<1>5. ASSUME NEW j \in 1 .. Len(b) - c PROVE IsKnown(d, j) <=> IsKnown(b, c + j)
  <2>1. j \in 1 .. Len(d) /\ c + j \in 1 .. Len(b)
    BY <1>2, <1>3
  <2>2. IsToken(d, j) <=> /\ j + 4 <= Len(d) /\ d[j] = "L" /\ d[j + 1] = "o"
                          /\ d[j + 2] \in Digit /\ d[j + 3] = "L" /\ d[j + 4] = "c"
    BY <1>2, <2>1, TokenAt
  <2>3. IsToken(b, c + j) <=> /\ (c + j) + 4 <= Len(b) /\ b[c + j] = "L" /\ b[(c + j) + 1] = "o"
                              /\ b[(c + j) + 2] \in Digit /\ b[(c + j) + 3] = "L"
                              /\ b[(c + j) + 4] = "c"
    BY <2>1, TokenAt
  <2>4. (c + j) + 4 <= Len(b) <=> j + 4 <= Len(d)
    BY <1>2, <1>3
  <2>5. j + 4 <= Len(d) => /\ d[j] = b[c + j] /\ d[j + 1] = b[(c + j) + 1]
                           /\ d[j + 2] = b[(c + j) + 2] /\ d[j + 3] = b[(c + j) + 3]
                           /\ d[j + 4] = b[(c + j) + 4]
    <3> SUFFICES ASSUME j + 4 <= Len(d)
                 PROVE  \A k \in 0 .. 4 : d[j + k] = b[(c + j) + k]
      <4>1. j + 0 = j /\ (c + j) + 0 = c + j
        BY <1>3
      <4> QED BY <4>1
    <3> TAKE k \in 0 .. 4
    <3>1. j + k \in 1 .. Len(b) - c /\ c + (j + k) = (c + j) + k
      BY <1>2, <1>3
    <3> QED BY <1>2, <3>1
  <2>6. IsToken(d, j) <=> IsToken(b, c + j)
    BY <2>2, <2>3, <2>4, <2>5
  <2>7. IsToken(d, j) => d[j + 2] = b[(c + j) + 2]
    BY <2>2, <2>5
  <2> QED BY <2>6, <2>7 DEF IsKnown, Open
<1>6. ASSUME NEW i \in 1 .. c PROVE RestoredAt(a, i) = RestoredAt(b, i)
  <2>1. (\E j \in DOMAIN a : j < i /\ i < j + TokenLen /\ IsKnown(a, j))
           <=> (\E j \in DOMAIN b : j < i /\ i < j + TokenLen /\ IsKnown(b, j))
    <3>1. \A j \in 1 .. Len(b) : j < i => j \in 1 .. c
      BY <1>3
    <3>2. \A j \in 1 .. c : j \in 1 .. Len(b)
      BY <1>3
    <3> QED BY <1>1, <1>4, <3>1, <3>2, Zenon
  <2> QED BY <1>1, <1>4, <2>1 DEF RestoredAt
<1>7. ASSUME NEW i \in 1 .. Len(b) - c PROVE RestoredAt(d, i) = RestoredAt(b, c + i)
  <2>1. (\E j \in DOMAIN d : j < i /\ i < j + TokenLen /\ IsKnown(d, j))
           <=> (\E j \in DOMAIN b : j < c + i /\ c + i < j + TokenLen /\ IsKnown(b, j))
    <3>1. ASSUME NEW j \in DOMAIN d, j < i, i < j + TokenLen, IsKnown(d, j)
          PROVE  \E k \in DOMAIN b : k < c + i /\ c + i < k + TokenLen /\ IsKnown(b, k)
      <4>1. c + j \in DOMAIN b /\ c + j < c + i /\ c + i < (c + j) + TokenLen
        BY <1>1, <1>2, <1>3, <3>1, TokenIsFive
      <4>2. IsKnown(b, c + j)
        BY <1>2, <1>5, <3>1
      <4> QED BY <4>1, <4>2
    <3>2. ASSUME NEW k \in DOMAIN b, k < c + i, c + i < k + TokenLen, IsKnown(b, k)
          PROVE  \E j \in DOMAIN d : j < i /\ i < j + TokenLen /\ IsKnown(d, j)
      <4>1. k > c
        <5>1. IsToken(b, k) /\ k \in 1 .. Len(b) /\ c < k + 4
          BY <1>1, <1>3, <3>2, TokenIsFive DEF IsKnown
        <5> QED BY <1>3, <5>1 DEF Spans
      <4>2. k - c \in 1 .. Len(b) - c /\ c + (k - c) = k
        BY <1>1, <1>3, <4>1
      <4>3. k - c \in DOMAIN d /\ k - c < i /\ i < (k - c) + TokenLen
        BY <1>1, <1>2, <1>3, <3>2, <4>2, TokenIsFive
      <4>4. IsKnown(d, k - c)
        BY <1>5, <3>2, <4>2
      <4> QED BY <4>3, <4>4
    <3> QED BY <3>1, <3>2
  <2>2. d[i] = b[c + i] /\ (IsKnown(d, i) <=> IsKnown(b, c + i))
    BY <1>2, <1>5
  <2> QED BY <2>1, <2>2 DEF RestoredAt
<1> DEFINE s == [i \in DOMAIN a |-> RestoredAt(a, i)]
           t == [i \in DOMAIN d |-> RestoredAt(d, i)]
           u == [i \in DOMAIN b |-> RestoredAt(b, i)]
           X == S \cup {"V"}
<1>8. /\ s \in Seq(Seq(X)) /\ Len(s) = c
      /\ t \in Seq(Seq(X)) /\ Len(t) = Len(b) - c
      /\ u \in Seq(Seq(X)) /\ Len(u) = Len(b)
  BY <1>1, <1>2, RestoredAtSeq
<1>9. \A i \in 1 .. c : u[i] = s[i]
  <2>1. \A i \in 1 .. c : i \in 1 .. Len(b)
    BY <1>3
  <2> QED BY <1>1, <1>6, <2>1
<1>10. \A i \in 1 .. Len(b) - c : u[c + i] = t[i]
  <2>1. \A i \in 1 .. Len(b) - c : c + i \in 1 .. Len(b)
    BY <1>3
  <2> QED BY <1>1, <1>2, <1>7, <2>1
<1>11. FlattenSeq(u) = FlattenSeq(s) \o FlattenSeq(t)
  <2> HIDE DEF s, t, u, X
  <2>1. Len(u) = Len(s) + Len(t)
    BY <1>3, <1>8
  <2>2. \A i \in 1 .. Len(s) : u[i] = s[i]
    BY <1>8, <1>9
  <2>3. \A i \in 1 .. Len(t) : u[Len(s) + i] = t[i]
    BY <1>8, <1>10
  <2>4. s \in Seq(Seq(X)) /\ t \in Seq(Seq(X)) /\ u \in Seq(Seq(X))
    BY <1>8
  <2> QED BY <2>1, <2>2, <2>3, <2>4, FlattenCut
<1> QED BY <1>11 DEF Restore, a, d
-----------------------------------------------------------------------------
(* Every token of b ends at SafeEnd or before; SafeEnd is the end of one, if
   it is not 0. *)
LEMMA SafeEndFacts ==
    ASSUME NEW S, NEW b \in Seq(S)
    PROVE  /\ SafeEnd(b) \in 0 .. Len(b)
           /\ SafeEnd(b) # 0 => SafeEnd(b) - 4 \in 1 .. Len(b) /\ IsToken(b, SafeEnd(b) - 4)
           /\ \A j \in 1 .. Len(b) : IsToken(b, j) => j + 4 <= SafeEnd(b)
<1>1. Len(b) \in Nat /\ DOMAIN b = 1 .. Len(b)
  OBVIOUS
<1>2. TokenEnds(b) = {i + 4 : i \in {j \in 1 .. Len(b) : IsToken(b, j)}}
  BY <1>1, TokenIsFive DEF TokenEnds
<1>3. \A i \in 1 .. Len(b) : IsToken(b, i) => i + 4 \in 1 .. Len(b)
  <2>1. ASSUME NEW i \in 1 .. Len(b), IsToken(b, i) PROVE i + 4 \in 1 .. Len(b)
    <3>1. i + 4 <= Len(b)
      BY <2>1, TokenAt
    <3> QED BY <1>1, <3>1
  <2> QED BY <2>1
<1> DEFINE T == TokenEnds(b) \cup {0}
<1>4. T \in SUBSET (0 .. Len(b)) /\ T # {}
  BY <1>1, <1>2, <1>3
<1>5. SafeEnd(b) \in T /\ \A y \in T : y <= SafeEnd(b)
  <2> HIDE DEF T
  <2>1. Max(T) \in T /\ \A y \in T : y <= Max(T)
    BY <1>1, <1>4, MaxOfNumbers
  <2> QED BY <2>1 DEF SafeEnd, T
<1>6. SafeEnd(b) # 0 => SafeEnd(b) - 4 \in 1 .. Len(b) /\ IsToken(b, SafeEnd(b) - 4)
  <2> SUFFICES ASSUME SafeEnd(b) # 0
               PROVE  SafeEnd(b) - 4 \in 1 .. Len(b) /\ IsToken(b, SafeEnd(b) - 4)
    OBVIOUS
  <2>1. PICK j \in 1 .. Len(b) : IsToken(b, j) /\ SafeEnd(b) = j + 4
    BY <1>2, <1>5
  <2>2. SafeEnd(b) - 4 = j
    BY <1>1, <2>1
  <2> QED BY <2>1, <2>2
<1>7. \A j \in 1 .. Len(b) : IsToken(b, j) => j + 4 \in T
  BY <1>2
<1> QED BY <1>4, <1>5, <1>6, <1>7

LEMMA SafeCutPointFacts ==
    ASSUME NEW S, NEW b \in Seq(S)
    PROVE  /\ SafeCutPoint(b) \in SafeEnd(b) .. Len(b)
           /\ \A i \in SafeEnd(b) + 1 .. SafeCutPoint(b) : ~MayOpen(b, i)
<1> DEFINE T == {i \in SafeEnd(b) + 1 .. Len(b) : MayOpen(b, i)}
<1>1. SafeEnd(b) \in 0 .. Len(b) /\ Len(b) \in Nat
  BY SafeEndFacts
<1>2. SafeCutPoint(b) = IF T = {} THEN Len(b) ELSE Min(T) - 1
  BY DEF SafeCutPoint
<1>3. CASE T = {}
  BY <1>1, <1>2, <1>3
<1>4. CASE T # {}
  <2>1. T \in SUBSET Nat
    BY <1>1
  <2> DEFINE m == Min(T)
  <2>2. m \in T /\ \A y \in T : m <= y
    <3> HIDE DEF T
    <3> QED BY <1>4, <2>1, MinOfNumbers
  <2>3. SafeCutPoint(b) = m - 1
    BY <1>2, <1>4
  <2> HIDE DEF m
  <2>4. m \in SafeEnd(b) + 1 .. Len(b) /\ MayOpen(b, m)
    BY <2>2
  <2>5. m - 1 \in SafeEnd(b) .. Len(b)
    BY <1>1, <2>4
  <2>6. ASSUME NEW i \in SafeEnd(b) + 1 .. m - 1 PROVE ~MayOpen(b, i)
    <3>1. i \in SafeEnd(b) + 1 .. Len(b) /\ ~(m <= i)
      BY <1>1, <2>4
    <3> QED BY <2>2, <3>1
  <2> QED BY <2>3, <2>4, <2>5, <2>6
<1> QED BY <1>3, <1>4

(* Where the writer cuts, no token of the stream is cut, however the stream
   goes on, and what it holds back has no whole token (streamsafe.go:9-36).  s is the stream, of which r has been read and c0
   passed on before. *)
THEOREM NoTokenIsCut ==
    ASSUME NEW S, NEW s \in Seq(S), NEW r \in 0 .. Len(s), NEW c0 \in 0 .. r, ~Spans(s, c0)
    PROVE  LET w == SubSeq(s, c0 + 1, r)
               cut == SafeCutPoint(w)
           IN  /\ cut \in 0 .. r - c0
               /\ ~Spans(s, c0 + cut)
               /\ NoTokenIn(SubSeq(w, cut + 1, Len(w)))
<1> DEFINE w == SubSeq(s, c0 + 1, r)
           cut == SafeCutPoint(w)
           e == SafeEnd(w)
<1>1. /\ w \in Seq(S) /\ Len(w) = r - c0 /\ \A k \in 1 .. r - c0 : w[k] = s[c0 + k]
      /\ r \in Nat /\ c0 \in Nat /\ r - c0 \in Nat /\ Len(s) \in Nat
  OBVIOUS
<1> HIDE DEF w
<1>2. /\ e \in 0 .. r - c0
      /\ e # 0 => e - 4 \in 1 .. r - c0 /\ IsToken(w, e - 4)
      /\ \A j \in 1 .. r - c0 : IsToken(w, j) => j + 4 <= e
  BY <1>1, SafeEndFacts
<1>3. /\ cut \in e .. r - c0
      /\ \A i \in e + 1 .. cut : ~MayOpen(w, i)
  BY <1>1, SafeCutPointFacts
<1> HIDE DEF cut, e
<1>4. cut \in 0 .. r - c0
  BY <1>1, <1>2, <1>3
<1>5. ASSUME NEW j \in 1 .. c0 + cut, IsToken(s, j), c0 + cut < j + 4 PROVE FALSE
  <2>1. j \in 1 .. Len(s)
    BY <1>1, <1>4
  <2>2. /\ j + 4 <= Len(s) /\ s[j] = "L" /\ s[j + 1] = "o"
        /\ s[j + 2] \in Digit /\ s[j + 3] = "L" /\ s[j + 4] = "c"
    BY <1>5, <2>1, TokenAt
  <2>3. CASE j <= c0
    <3>1. j \in 1 .. c0 /\ c0 < j + 4
      BY <1>1, <1>4, <1>5, <2>3
    <3> QED BY <1>5, <3>1 DEF Spans
  <2>4. CASE j > c0
    <3> DEFINE k == j - c0
    <3>1. k \in 1 .. cut /\ k \in 1 .. r - c0 /\ cut < k + 4 /\ c0 + k = j
      BY <1>1, <1>4, <1>5, <2>4
    <3> HIDE DEF k
    <3>2. w[k] = "L" /\ (k # r - c0 => w[k + 1] = "o")
      <4>1. w[k] = s[c0 + k]
        BY <1>1, <3>1
      <4>2. k # r - c0 => k + 1 \in 1 .. r - c0 /\ c0 + (k + 1) = j + 1
        BY <1>1, <3>1
      <4> QED BY <1>1, <2>2, <3>1, <4>1, <4>2
    <3>3. CASE k > e
      <4>1. MayOpen(w, k)
        BY <1>1, <3>1, <3>2, MayOpenAt
      <4>2. k \in e + 1 .. cut
        BY <1>2, <3>1, <3>3
      <4> QED BY <1>3, <4>1, <4>2
    <3>4. CASE k <= e
      <4> DEFINE p == e - 4
      <4>1. e # 0 /\ p \in 1 .. r - c0 /\ IsToken(w, p)
        BY <1>2, <3>1, <3>4
      <4>2. /\ p + 4 = e /\ w[p + 1] = "o" /\ w[p + 2] \in Digit
            /\ w[p + 3] = "L" /\ w[p + 4] = "c"
        <5>1. p + 4 = e
          BY <1>2
        <5> HIDE DEF p
        <5> QED BY <1>1, <4>1, <5>1, TokenAt
      <4> HIDE DEF p
      <4>3. k = p + 1 \/ k = p + 2 \/ k = p + 3 \/ k = p + 4
        BY <1>2, <1>3, <1>4, <3>1, <3>4, <4>1, <4>2
      <4>4. CASE k = p + 3
        <5>1. k + 1 = p + 4 /\ k # r - c0
          BY <1>2, <4>1, <4>2, <4>4
        <5> QED BY <3>2, <4>2, <5>1
      <4> QED BY <3>2, <4>2, <4>3, <4>4 DEF Digit
    <3> QED BY <1>2, <3>1, <3>3, <3>4
  <2> QED BY <1>1, <1>4, <2>3, <2>4
<1>6. NoTokenIn(SubSeq(w, cut + 1, Len(w)))
  <2> DEFINE v == SubSeq(w, cut + 1, Len(w))
  <2>1. v \in Seq(S) /\ Len(v) = r - c0 - cut /\ \A k \in 1 .. r - c0 - cut : v[k] = w[cut + k]
    BY <1>1, <1>4
  <2> HIDE DEF v
  <2> SUFFICES ASSUME NEW i \in DOMAIN v, IsToken(v, i) PROVE FALSE
    BY DEF NoTokenIn, v
  <2>2. i \in 1 .. Len(v)
    BY <2>1
  <2>3. /\ i + 4 <= Len(v) /\ v[i] = "L" /\ v[i + 1] = "o"
        /\ v[i + 2] \in Digit /\ v[i + 3] = "L" /\ v[i + 4] = "c"
    BY <2>1, <2>2, TokenAt
  <2> DEFINE k == cut + i
  <2>4. k \in 1 .. r - c0 /\ k + 4 <= r - c0
    <3>1. \A n, x, y \in Nat : x <= n /\ y \in 1 .. n - x /\ y + 4 <= n - x
                               => x + y \in 1 .. n /\ (x + y) + 4 <= n
      OBVIOUS
    <3>2. cut \in Nat /\ i \in Nat /\ cut <= r - c0 /\ Len(v) = (r - c0) - cut
      BY <1>1, <1>4, <2>1, <2>2
    <3> QED BY <1>1, <2>2, <2>3, <3>1, <3>2
  <2>5. v[i] = w[k] /\ v[i + 1] = w[k + 1] /\ v[i + 2] = w[k + 2]
        /\ v[i + 3] = w[k + 3] /\ v[i + 4] = w[k + 4]
    <3>1. \A d \in 0 .. 4 : i + d \in 1 .. r - c0 - cut /\ cut + (i + d) = k + d
      <4>1. cut \in Nat /\ Len(v) = r - c0 - cut
        BY <1>1, <1>4, <2>1
      <4>2. i \in 1 .. Len(v) /\ i + 4 <= Len(v) /\ Len(v) \in Nat
        BY <2>1, <2>2, <2>3
      <4>3. \A d \in 0 .. 4 : i + d \in 1 .. Len(v) /\ cut + (i + d) = (cut + i) + d
        BY <4>1, <4>2
      <4> QED BY <4>1, <4>3
    <3>2. \A d \in 0 .. 4 : v[i + d] = w[k + d]
      BY <2>1, <3>1
    <3>3. i + 0 = i /\ k + 0 = k
      BY <1>1, <1>4, <2>2
    <3> HIDE DEF k
    <3> QED BY <3>2, <3>3
  <2> HIDE DEF k
  <2>6. IsToken(w, k)
    BY <1>1, <2>3, <2>4, <2>5, TokenAt
  <2>7. k + 4 <= e
    BY <1>2, <2>4, <2>6
  <2> QED BY <1>1, <1>2, <1>3, <1>4, <2>2, <2>7 DEF k
<1>7. ~Spans(s, c0 + cut)
  BY <1>5 DEF Spans
<1> QED BY <1>1, <1>4, <1>6, <1>7 DEF w, cut
-----------------------------------------------------------------------------
(* The line a position stands in goes back to the nearest line feed before it
   and on to the nearest one from it on. *)
LEMMA LineStartIs ==
    ASSUME NEW S, NEW b \in Seq(S), NEW i \in 1 .. Len(b), NEW f \in 1 .. i,
           f = 1 \/ b[f - 1] = "n", \A j \in f .. i - 1 : b[j] # "n"
    PROVE  LineStart(b, i) = f
<1> DEFINE T == {j \in LineFeeds(b) : j < i} \cup {0}
<1>1. Len(b) \in Nat /\ LineFeeds(b) = {j \in 1 .. Len(b) : b[j] = "n"}
  BY DEF LineFeeds
<1>2. T \in SUBSET (0 .. Len(b)) /\ T # {}
  BY <1>1
<1>3. f - 1 \in T
  BY <1>1
<1>4. \A j \in T : j <= f - 1
  <2> SUFFICES ASSUME NEW j \in T, j > f - 1 PROVE FALSE
    BY <1>1
  <2>1. j \in f .. i - 1 /\ b[j] = "n"
    BY <1>1
  <2> QED BY <2>1
<1> HIDE DEF T
<1>5. Max(T) \in T /\ \A y \in T : y <= Max(T)
  BY <1>1, <1>2, MaxOfNumbers
<1>6. Max(T) = f - 1
  <2> DEFINE m == Max(T)
  <2>1. m \in T /\ \A y \in T : y <= m
    BY <1>5
  <2> HIDE DEF m
  <2>2. m <= f - 1 /\ f - 1 <= m /\ m \in Nat
    BY <1>2, <1>3, <1>4, <2>1
  <2>3. m = f - 1
    BY <2>2
  <2> QED BY <2>3 DEF m
<1> QED BY <1>6 DEF LineStart, T

LEMMA LineEndIs ==
    ASSUME NEW S, NEW b \in Seq(S), NEW i \in 1 .. Len(b), NEW l \in i - 1 .. Len(b),
           l = Len(b) \/ b[l + 1] = "n", \A j \in i .. l : b[j] # "n"
    PROVE  LineEnd(b, i) = l
<1> DEFINE T == {j \in LineFeeds(b) : j >= i} \cup {Len(b) + 1}
<1>1. Len(b) \in Nat /\ LineFeeds(b) = {j \in 1 .. Len(b) : b[j] = "n"}
  BY DEF LineFeeds
<1>2. T \in SUBSET Nat /\ T # {}
  BY <1>1
<1>3. l + 1 \in T
  BY <1>1
<1>4. \A j \in T : l + 1 <= j
  <2> SUFFICES ASSUME NEW j \in T, j < l + 1 PROVE FALSE
    BY <1>1
  <2>1. j \in i .. l /\ b[j] = "n"
    BY <1>1
  <2> QED BY <2>1
<1> HIDE DEF T
<1>5. Min(T) \in T /\ \A y \in T : Min(T) <= y
  BY <1>2, MinOfNumbers
<1>6. Min(T) - 1 = l
  <2> DEFINE m == Min(T)
  <2>1. m \in T /\ \A y \in T : m <= y
    BY <1>5
  <2> HIDE DEF m
  <2>2. m <= l + 1 /\ l + 1 <= m /\ m \in Nat /\ l \in Int
    BY <1>1, <1>2, <1>3, <1>4, <2>1
  <2>3. m - 1 = l
    BY <2>2
  <2> QED BY <2>3 DEF m
<1> QED BY <1>6 DEF LineEnd, T

(* Every position has such a line. *)
IsLine(b, i, f, l) ==
    /\ f \in 1 .. i /\ l \in i - 1 .. Len(b)
    /\ f = 1 \/ b[f - 1] = "n"
    /\ \A j \in f .. i - 1 : b[j] # "n"
    /\ l = Len(b) \/ b[l + 1] = "n"
    /\ \A j \in i .. l : b[j] # "n"

LEMMA LineExists ==
    ASSUME NEW S, NEW b \in Seq(S), NEW i \in 1 .. Len(b)
    PROVE  \E f, l : IsLine(b, i, f, l)
<1>1. Len(b) \in Nat
  OBVIOUS
<1>2. \E f \in 1 .. i : (f = 1 \/ b[f - 1] = "n") /\ \A j \in f .. i - 1 : b[j] # "n"
  <2> DEFINE T == {j \in 0 .. Len(b) : j < i /\ (j = 0 \/ b[j] = "n")}
  <2>1. T \in SUBSET (0 .. Len(b)) /\ 0 \in T
    BY <1>1
  <2>2. PICK x \in T : \A y \in T : y <= x
    <3> HIDE DEF T
    <3> QED BY <1>1, <2>1, GreatestElement
  <2>3. x + 1 \in 1 .. i /\ (x + 1) - 1 = x /\ (x = 0 \/ b[x] = "n")
    BY <2>2
  <2>4. ASSUME NEW j \in x + 1 .. i - 1 PROVE b[j] # "n"
    <3>1. j \in 0 .. Len(b) /\ j < i /\ ~(j <= x)
      BY <2>3
    <3> QED BY <2>2, <3>1
  <2> QED BY <2>3, <2>4
<1>3. \E l \in i - 1 .. Len(b) : (l = Len(b) \/ b[l + 1] = "n") /\ \A j \in i .. l : b[j] # "n"
  <2> DEFINE T == {j \in i .. Len(b) + 1 : j = Len(b) + 1 \/ b[j] = "n"}
  <2>1. T \in SUBSET Nat /\ Len(b) + 1 \in T
    BY <1>1
  <2>2. PICK x \in T : \A y \in T : x <= y
    <3> HIDE DEF T
    <3> QED BY <2>1, LeastElement
  <2>3. x - 1 \in i - 1 .. Len(b) /\ (x - 1) + 1 = x /\ (x - 1 = Len(b) \/ b[x] = "n")
    BY <1>1, <2>2
  <2>4. ASSUME NEW j \in i .. x - 1 PROVE b[j] # "n"
    <3>1. j \in i .. Len(b) + 1 /\ ~(x <= j)
      BY <1>1, <2>3
    <3> QED BY <2>2, <3>1
  <2> QED BY <2>3, <2>4
<1> QED BY <1>2, <1>3 DEF IsLine

LEMMA LineOfIs ==
    ASSUME NEW S, NEW b \in Seq(S), NEW i \in 1 .. Len(b), NEW f, NEW l, IsLine(b, i, f, l)
    PROVE  LineOf(b, i) = SubSeq(b, f, l)
<1>1. LineStart(b, i) = f
  BY LineStartIs DEF IsLine
<1>2. LineEnd(b, i) = l
  BY LineEndIs DEF IsLine
<1> QED BY <1>1, <1>2 DEF LineOf
-----------------------------------------------------------------------------
(* What restoring an event is made of. *)
SSESymbol(S) == S \cup {"V", "Vq"}

LEMMA RestoredInEventType ==
    ASSUME NEW S, NEW b \in Seq(S), NEW i \in 1 .. Len(b)
    PROVE  RestoredInEvent(b, i) \in Seq(SSESymbol(S))
<1>1. b[i] \in SSESymbol(S)
  BY DEF SSESymbol
<1>2. \A p : RestoreIn(p, b[i]) \in SSESymbol(S)
  BY <1>1 DEF RestoreIn, SSESymbol
<1>3. <<>> \in Seq(SSESymbol(S)) /\ \A x \in SSESymbol(S) : <<x>> \in Seq(SSESymbol(S))
  OBVIOUS
<1>4. <<RestoreIn(Payload(LineOf(b, i)), b[i])>> \in Seq(SSESymbol(S))
  BY <1>2, <1>3
<1> QED BY <1>1, <1>3, <1>4 DEF RestoredInEvent

LEMMA RestoredInEventSeq ==
    ASSUME NEW S, NEW b \in Seq(S)
    PROVE  /\ [i \in DOMAIN b |-> RestoredInEvent(b, i)] \in Seq(Seq(SSESymbol(S)))
           /\ Len([i \in DOMAIN b |-> RestoredInEvent(b, i)]) = Len(b)
<1>1. DOMAIN b = 1 .. Len(b) /\ Len(b) \in Nat
  OBVIOUS
<1>2. \A i \in 1 .. Len(b) : RestoredInEvent(b, i) \in Seq(SSESymbol(S))
  BY RestoredInEventType
<1> QED BY <1>1, <1>2, IsASeq

LEMMA RestoreSSEEventType ==
    ASSUME NEW S, NEW b \in Seq(S)
    PROVE  RestoreSSEEvent(b) \in Seq(SSESymbol(S))
BY RestoredInEventSeq, FlattenType DEF RestoreSSEEvent

(* A symbol is restored by what its line is, not by where the line stands. *)
LEMMA SameLineSameSymbol ==
    ASSUME NEW a, NEW i, NEW b, NEW j, a[i] = b[j],
           a[i] # "n" => LineOf(a, i) = LineOf(b, j)
    PROVE  RestoredInEvent(a, i) = RestoredInEvent(b, j)
BY DEF RestoredInEvent

(* Restoring both parts of a stream of lines is restoring it, if the first
   part ends with a line feed. *)
LEMMA EventCut ==
    ASSUME NEW S, NEW b \in Seq(S), NEW c \in 0 .. Len(b), c = 0 \/ b[c] = "n"
    PROVE  RestoreSSEEvent(b)
             = RestoreSSEEvent(SubSeq(b, 1, c)) \o RestoreSSEEvent(SubSeq(b, c + 1, Len(b)))
<1> DEFINE a == SubSeq(b, 1, c)
           d == SubSeq(b, c + 1, Len(b))
<1>1. /\ a \in Seq(S) /\ Len(a) = c /\ \A i \in 1 .. c : a[i] = b[i]
      /\ DOMAIN a = 1 .. c /\ DOMAIN b = 1 .. Len(b)
  OBVIOUS
<1>2. /\ d \in Seq(S) /\ Len(d) = Len(b) - c /\ \A i \in 1 .. Len(b) - c : d[i] = b[c + i]
      /\ DOMAIN d = 1 .. Len(b) - c
  OBVIOUS
<1>3. Len(b) \in Nat /\ c \in Nat /\ c <= Len(b)
  OBVIOUS
<1>4. ASSUME NEW f \in 1 .. c, NEW l \in f - 1 .. c PROVE SubSeq(a, f, l) = SubSeq(b, f, l)
  <2>1. f \in 1 .. Len(b) + 1 /\ l \in f - 1 .. Len(b) /\ Len(a) = c
    BY <1>1, <1>3
  <2>2. \A k \in 1 .. l - f + 1 : f + k - 1 \in 1 .. c
    BY <1>3
  <2> QED BY <1>1, <1>3, <2>1, <2>2
<1>5. ASSUME NEW f \in 1 .. Len(b) - c, NEW l \in f - 1 .. Len(b) - c
      PROVE  SubSeq(d, f, l) = SubSeq(b, c + f, c + l)
  BY <1>3
<1> HIDE DEF a, d
<1>6. ASSUME NEW i \in 1 .. c PROVE RestoredInEvent(a, i) = RestoredInEvent(b, i)
  <2>1. a[i] = b[i] /\ i \in 1 .. Len(b) /\ i \in 1 .. Len(a)
    BY <1>1, <1>3
  <2>2. ASSUME b[i] # "n" PROVE LineOf(a, i) = LineOf(b, i)
    <3>1. PICK f, l : IsLine(b, i, f, l)
      BY <2>1, LineExists
    <3>2. /\ f \in 1 .. i /\ l \in i - 1 .. Len(b)
          /\ f = 1 \/ b[f - 1] = "n"
          /\ \A j \in f .. i - 1 : b[j] # "n"
          /\ l = Len(b) \/ b[l + 1] = "n"
          /\ \A j \in i .. l : b[j] # "n"
      BY <3>1 DEF IsLine
    <3>3. l < c
      <4>1. b[c] = "n"
        BY <1>3
      <4>2. ~(c \in i .. l)
        BY <3>2, <4>1
      <4> QED BY <1>3, <3>2, <4>2
    <3>4. l + 1 \in 1 .. c /\ b[l + 1] = "n" /\ l \in i - 1 .. Len(a)
      <4>1. l \in Int /\ l >= i - 1 /\ l # Len(b)
        BY <1>3, <3>2, <3>3
      <4>2. b[l + 1] = "n"
        BY <3>2, <4>1
      <4>3. Len(a) = c
        BY <1>1
      <4>4. i \in Int /\ i >= 1
        OBVIOUS
      <4> QED BY <1>3, <3>3, <4>1, <4>2, <4>3, <4>4
    <3>5. \A j \in f .. i - 1 : j \in 1 .. c
      BY <1>3, <3>2
    <3>6. \A j \in i .. l : j \in 1 .. c
      BY <1>3, <3>2, <3>3
    <3>7. f = 1 \/ a[f - 1] = "n"
      <4>1. f # 1 => f - 1 \in 1 .. c
        BY <1>3, <3>2
      <4> QED BY <1>1, <3>2, <4>1
    <3>8. IsLine(a, i, f, l)
      BY <1>1, <3>2, <3>4, <3>5, <3>6, <3>7 DEF IsLine
    <3>9. LineOf(a, i) = SubSeq(a, f, l) /\ LineOf(b, i) = SubSeq(b, f, l)
      BY <1>1, <2>1, <3>1, <3>8, LineOfIs
    <3>10. f \in 1 .. c /\ l \in f - 1 .. c
      BY <1>3, <3>2, <3>3
    <3> QED BY <1>4, <3>9, <3>10
  <2> QED BY <2>1, <2>2, SameLineSameSymbol
<1>7. ASSUME NEW i \in 1 .. Len(b) - c PROVE RestoredInEvent(d, i) = RestoredInEvent(b, c + i)
  <2>1. d[i] = b[c + i] /\ c + i \in 1 .. Len(b) /\ i \in 1 .. Len(d)
    BY <1>2, <1>3
  <2>2. LineOf(d, i) = LineOf(b, c + i)
    <3>1. PICK f, l : IsLine(b, c + i, f, l)
      BY <2>1, LineExists
    <3>2. /\ f \in 1 .. c + i /\ l \in (c + i) - 1 .. Len(b)
          /\ f = 1 \/ b[f - 1] = "n"
          /\ \A j \in f .. (c + i) - 1 : b[j] # "n"
          /\ l = Len(b) \/ b[l + 1] = "n"
          /\ \A j \in c + i .. l : b[j] # "n"
      BY <3>1 DEF IsLine
    <3>3. f > c
      <4>1. c # 0 => ~(c \in f .. (c + i) - 1)
        BY <3>2
      <4> QED BY <1>3, <3>2, <4>1
    <3> DEFINE g == f - c
               m == l - c
    <3>4. /\ g \in 1 .. i /\ m \in i - 1 .. Len(d) /\ c + g = f /\ c + m = l
          /\ g \in 1 .. Len(b) - c /\ m \in g - 1 .. Len(b) - c
      BY <1>2, <1>3, <3>2, <3>3
    <3> HIDE DEF g, m
    <3>5. g = 1 \/ d[g - 1] = "n"
      <4>1. g # 1 => g - 1 \in 1 .. Len(b) - c /\ c + (g - 1) = f - 1 /\ f # 1
        BY <1>3, <3>4
      <4> QED BY <1>2, <3>2, <4>1
    <3>6. m = Len(d) \/ d[m + 1] = "n"
      <4>1. m # Len(d) => m + 1 \in 1 .. Len(b) - c /\ c + (m + 1) = l + 1 /\ l # Len(b)
        <5>1. m \in Int /\ m >= 0 /\ m <= Len(b) - c /\ l = c + m /\ Len(d) = Len(b) - c
          BY <1>2, <1>3, <3>4
        <5> QED BY <1>3, <5>1
      <4> QED BY <1>2, <3>2, <4>1
    <3>7. ASSUME NEW j \in g .. i - 1 PROVE d[j] # "n"
      <4>1. j \in 1 .. Len(b) - c /\ c + j \in f .. (c + i) - 1
        BY <1>3, <3>4
      <4> QED BY <1>2, <3>2, <4>1
    <3>8. ASSUME NEW j \in i .. m PROVE d[j] # "n"
      <4>1. j \in 1 .. Len(b) - c /\ c + j \in c + i .. l
        BY <1>3, <3>4
      <4> QED BY <1>2, <3>2, <4>1
    <3>9. IsLine(d, i, g, m)
      BY <3>4, <3>5, <3>6, <3>7, <3>8 DEF IsLine
    <3>10. LineOf(d, i) = SubSeq(d, g, m)
      BY <1>2, <2>1, <3>9, LineOfIs
    <3>11. LineOf(b, c + i) = SubSeq(b, f, l)
      BY <2>1, <3>1, LineOfIs
    <3> QED BY <1>5, <3>4, <3>10, <3>11
  <2> QED BY <2>1, <2>2, SameLineSameSymbol
<1> DEFINE s == [i \in DOMAIN a |-> RestoredInEvent(a, i)]
           t == [i \in DOMAIN d |-> RestoredInEvent(d, i)]
           u == [i \in DOMAIN b |-> RestoredInEvent(b, i)]
           X == SSESymbol(S)
<1>8. /\ s \in Seq(Seq(X)) /\ Len(s) = c
      /\ t \in Seq(Seq(X)) /\ Len(t) = Len(b) - c
      /\ u \in Seq(Seq(X)) /\ Len(u) = Len(b)
  BY <1>1, <1>2, RestoredInEventSeq
<1>9. \A i \in 1 .. c : u[i] = s[i]
  <2>1. \A i \in 1 .. c : i \in 1 .. Len(b)
    BY <1>3
  <2> QED BY <1>1, <1>6, <2>1
<1>10. \A i \in 1 .. Len(b) - c : u[c + i] = t[i]
  <2>1. \A i \in 1 .. Len(b) - c : c + i \in 1 .. Len(b)
    BY <1>3
  <2> QED BY <1>1, <1>2, <1>7, <2>1
<1>11. FlattenSeq(u) = FlattenSeq(s) \o FlattenSeq(t)
  <2> HIDE DEF s, t, u, X
  <2>1. Len(u) = Len(s) + Len(t)
    BY <1>3, <1>8
  <2>2. \A i \in 1 .. Len(s) : u[i] = s[i]
    BY <1>8, <1>9
  <2>3. \A i \in 1 .. Len(t) : u[Len(s) + i] = t[i]
    BY <1>8, <1>10
  <2>4. s \in Seq(Seq(X)) /\ t \in Seq(Seq(X)) /\ u \in Seq(Seq(X))
    BY <1>8
  <2> QED BY <2>1, <2>2, <2>3, <2>4, FlattenCut
<1> QED BY <1>11 DEF RestoreSSEEvent, a, d
-----------------------------------------------------------------------------
(* Restoring a body event by event, as restoreSSE does, is restoring all its
   lines at once (restore.go:75-107). *)
THEOREM EventByEventIsAsOne ==
    ASSUME NEW S, NEW b \in Seq(S)
    PROVE  RestoreSSE(b) = RestoreSSEEvent(b)
<1> DEFINE n == Len(b) + 1
           ends(i) == {k \in EventEnds(b) : k > i}
           tail(i) == SubSeq(b, i, Len(b))
           Eq(f) == f = [i \in 1 .. n |->
                            IF ends(i) = {} THEN RestoreSSEEvent(tail(i))
                            ELSE RestoreSSEEvent(SubSeq(b, i, Min(ends(i)))) \o f[Min(ends(i)) + 1]]
           g == [i \in 1 .. n |-> RestoreSSEEvent(tail(i))]
           c == CHOOSE f : Eq(f)
<1>1. Len(b) \in Nat /\ n \in Nat /\ 1 \in 1 .. n
  OBVIOUS
<1>2. ASSUME NEW i \in 1 .. n, ends(i) # {}
      PROVE  /\ Min(ends(i)) + 1 \in i + 1 .. n
             /\ RestoreSSEEvent(tail(i))
                  = RestoreSSEEvent(SubSeq(b, i, Min(ends(i)))) \o RestoreSSEEvent(tail(Min(ends(i)) + 1))
  <2> DEFINE T == ends(i)
             m == Min(T)
  <2>1. T \in SUBSET Nat /\ T # {}
    BY <1>2 DEF EventEnds
  <2>2. m \in T
    <3> HIDE DEF T
    <3> QED BY <2>1, MinOfNumbers
  <2>3. m \in 2 .. Len(b) /\ m > i /\ b[m] = "n"
    BY <2>2 DEF EventEnds
  <2> HIDE DEF m
  <2> DEFINE w == tail(i)
             k == m - i + 1
  <2>4. /\ w \in Seq(S) /\ Len(w) = Len(b) - i + 1 /\ k \in 1 .. Len(w)
        /\ w[k] = b[m] /\ SubSeq(w, 1, k) = SubSeq(b, i, m)
        /\ SubSeq(w, k + 1, Len(w)) = tail(m + 1)
    <3>1. w \in Seq(S) /\ Len(w) = Len(b) - i + 1 /\ k \in 1 .. Len(w)
      BY <2>3
    <3>2. w[k] = b[m]
      BY <2>3
    <3>3. SubSeq(w, 1, k) = SubSeq(b, i, m)
      BY <2>3
    <3>4. SubSeq(w, k + 1, Len(w)) = tail(m + 1)
      BY <2>3
    <3> QED BY <3>1, <3>2, <3>3, <3>4
  <2> HIDE DEF w, k
  <2>5. RestoreSSEEvent(w) = RestoreSSEEvent(SubSeq(w, 1, k)) \o RestoreSSEEvent(SubSeq(w, k + 1, Len(w)))
    <3>1. k \in 0 .. Len(w)
      BY <2>4
    <3> QED BY <2>3, <2>4, <3>1, EventCut
  <2>6. m + 1 \in i + 1 .. n
    BY <2>3
  <2> QED BY <2>4, <2>5, <2>6 DEF w, m
<1> HIDE DEF ends, tail, n
<1>3. ASSUME NEW i \in 1 .. n
      PROVE  g[i] = IF ends(i) = {} THEN RestoreSSEEvent(tail(i))
                    ELSE RestoreSSEEvent(SubSeq(b, i, Min(ends(i)))) \o g[Min(ends(i)) + 1]
  <2>1. CASE ends(i) = {}
    BY <2>1
  <2>2. CASE ends(i) # {}
    <3>1. Min(ends(i)) + 1 \in 1 .. n
      BY <1>2, <2>2
    <3>2. g[Min(ends(i)) + 1] = RestoreSSEEvent(tail(Min(ends(i)) + 1))
      BY <3>1
    <3> QED BY <1>2, <2>2, <3>2
  <2> QED BY <2>1, <2>2
<1>4. Eq(g)
  BY <1>3, Zenon
<1>5. Eq(c)
  BY <1>4, Zenon
<1>6. ASSUME NEW i \in 1 .. n PROVE c[i] = g[i]
  <2> SUFFICES ASSUME c[i] # g[i] PROVE FALSE
    OBVIOUS
  <2> DEFINE T == {j \in 1 .. n : c[j] # g[j]}
  <2> HIDE DEF c, g
  <2>1. T \in SUBSET (0 .. n) /\ T # {}
    BY <1>1
  <2>2. PICK x \in T : \A y \in T : y <= x
    <3> HIDE DEF T
    <3> QED BY <1>1, <2>1, GreatestElement
  <2>3. x \in 1 .. n /\ c[x] # g[x]
    BY <2>2
  <2>4. c[x] = IF ends(x) = {} THEN RestoreSSEEvent(tail(x))
               ELSE RestoreSSEEvent(SubSeq(b, x, Min(ends(x)))) \o c[Min(ends(x)) + 1]
    <3> DEFINE e(y) == IF ends(y) = {} THEN RestoreSSEEvent(tail(y))
                       ELSE RestoreSSEEvent(SubSeq(b, y, Min(ends(y)))) \o c[Min(ends(y)) + 1]
    <3>1. c = [y \in 1 .. n |-> e(y)]
      BY <1>5, Zenon
    <3> HIDE DEF e
    <3>2. c[x] = e(x)
      BY <2>3, <3>1
    <3> QED BY <3>2 DEF e
  <2>5. CASE ends(x) = {}
    BY <1>3, <2>3, <2>4, <2>5
  <2>6. CASE ends(x) # {}
    <3>1. Min(ends(x)) + 1 \in x + 1 .. n
      BY <1>2, <2>3, <2>6
    <3>2. Min(ends(x)) + 1 \notin T /\ Min(ends(x)) + 1 \in 1 .. n
      BY <1>1, <2>2, <2>3, <3>1
    <3>3. c[Min(ends(x)) + 1] = g[Min(ends(x)) + 1]
      BY <3>2
    <3> QED BY <1>3, <2>3, <2>4, <2>6, <3>3
  <2> QED BY <2>5, <2>6
<1>7. RestoreSSE(b) = c[1]
  BY Zenon DEF RestoreSSE, ends, tail, n
<1>8. g[1] = RestoreSSEEvent(b)
  <2>1. tail(1) = b
    BY SubSeqFull DEF tail
  <2> QED BY <1>1, <2>1
<1> QED BY <1>1, <1>6, <1>7, <1>8
-----------------------------------------------------------------------------
(* What Write takes off its buffer b: the lines up to a line feed, each event
   restored, and no complete event is left. *)
Takes(b, out, end) ==
    /\ end \in 0 .. Len(b) /\ (end = 0 \/ b[end] = "n")
    /\ out = RestoreSSEEvent(SubSeq(b, 1, end))

LEMMA TakesNext ==
    ASSUME NEW S, NEW b \in Seq(S), NEW out, NEW end, Takes(b, out, end),
           NEW k \in end + 1 .. Len(b), b[k] = "n"
    PROVE  Takes(b, out \o RestoreSSEEvent(SubSeq(b, end + 1, k)), k)
<1> DEFINE w == SubSeq(b, 1, k)
<1>1. end \in 0 .. Len(b) /\ (end = 0 \/ b[end] = "n") /\ out = RestoreSSEEvent(SubSeq(b, 1, end))
  BY DEF Takes
<1>2. Len(b) \in Nat /\ end \in Nat /\ k \in 1 .. Len(b) /\ end \in 0 .. k
  BY <1>1
<1>3. w \in Seq(S) /\ Len(w) = k /\ \A i \in 1 .. k : w[i] = b[i]
  BY <1>2
<1>4. SubSeq(w, 1, end) = SubSeq(b, 1, end)
  BY <1>2
<1>5. SubSeq(w, end + 1, k) = SubSeq(b, end + 1, k)
  BY <1>2
<1> HIDE DEF w
<1>6. RestoreSSEEvent(w) = RestoreSSEEvent(SubSeq(w, 1, end)) \o RestoreSSEEvent(SubSeq(w, end + 1, Len(w)))
  <2>1. end \in 0 .. Len(w) /\ (end = 0 \/ w[end] = "n")
    BY <1>1, <1>2, <1>3
  <2> QED BY <1>3, <2>1, EventCut
<1>7. RestoreSSEEvent(w) = out \o RestoreSSEEvent(SubSeq(b, end + 1, k))
  BY <1>1, <1>3, <1>4, <1>5, <1>6
<1> QED BY <1>2, <1>7 DEF Takes, w

(* The loop of Write takes lines off its buffer up to a line feed, restored as
   one event would be, and leaves no complete event (stream_sse.go:27-45). *)
THEOREM DrainedTakesEvents ==
    ASSUME NEW S, NEW b \in Seq(S)
    PROVE  \E end : /\ Takes(b, Drained(b).out, end)
                    /\ Drained(b).rest = SubSeq(b, end + 1, Len(b))
                    /\ EventEnds(Drained(b).rest) = {}
<1> DEFINE n == Len(b)
           start == [out |-> <<>>, end |-> 0]
           next(k, before) ==
               IF k > before.end + 1 /\ k \in EventEnds(b)
               THEN [out |-> before.out \o RestoreSSEEvent(SubSeq(b, before.end + 1, k)), end |-> k]
               ELSE before
           Eq(f) == f = [k \in 0 .. n |-> IF k = 0 THEN start ELSE next(k, f[k - 1])]
           scan == CHOOSE f : Eq(f)
           X == [out : Seq(SSESymbol(S)), end : Nat]
<1>1. n \in Nat /\ 0 \in 0 .. n /\ n \in 0 .. n
  OBVIOUS
<1>2. start \in X /\ start.out = <<>> /\ start.end = 0
  OBVIOUS
<1>3. ASSUME NEW before \in X, NEW k \in 1 .. n PROVE next(k, before) \in X
  <2>1. CASE k > before.end + 1 /\ k \in EventEnds(b)
    <3>1. SubSeq(b, before.end + 1, k) \in Seq(S) /\ before.end \in Nat /\ before.out \in Seq(SSESymbol(S))
      OBVIOUS
    <3>2. RestoreSSEEvent(SubSeq(b, before.end + 1, k)) \in Seq(SSESymbol(S))
      BY <3>1, RestoreSSEEventType
    <3>3. before.out \o RestoreSSEEvent(SubSeq(b, before.end + 1, k)) \in Seq(SSESymbol(S)) /\ k \in Nat
      BY <1>1, <3>1, <3>2, ConcatProperties
    <3> QED BY <2>1, <3>3
  <2>2. CASE ~(k > before.end + 1 /\ k \in EventEnds(b))
    BY <2>2
  <2> QED BY <2>1, <2>2
<1> HIDE DEF X, start, next
<1>4. PICK f : Eq(f)
  <2> DEFINE G == [p \in X \X (1 .. n) |-> next(p[2], p[1])]
  <2>1. G \in [X \X (1 .. n) -> X]
    BY <1>3
  <2>2. \A before \in X, k \in 1 .. n : G[<<before, k>>] = next(k, before)
    OBVIOUS
  <2>3. StepsBy(G, X, n)
    BY <2>1 DEF StepsBy
  <2> HIDE DEF G, n
  <2>4. PICK r : Run(r, start, G, X, n)
    BY <1>1, <1>2, <2>3, Recursion
  <2>5. /\ r \in [0 .. n -> X] /\ r[0] = start
        /\ \A i \in 1 .. n : r[i] = G[<<r[i - 1], i>>]
    BY <2>4 DEF Run
  <2>6. ASSUME NEW k \in 0 .. n PROVE r[k] = IF k = 0 THEN start ELSE next(k, r[k - 1])
    <3>1. CASE k = 0
      BY <2>5, <3>1
    <3>2. CASE k # 0
      <4>1. k \in 1 .. n /\ k - 1 \in 0 .. n
        BY <1>1, <3>2
      <4>2. r[k - 1] \in X /\ r[k] = G[<<r[k - 1], k>>]
        BY <2>5, <4>1
      <4> QED BY <2>2, <3>2, <4>1, <4>2
    <3> QED BY <3>1, <3>2
  <2>7. r = [k \in 0 .. n |-> r[k]]
    BY <2>5
  <2>8. Eq(r)
    BY <2>6, <2>7
  <2> QED BY <2>8
<1>5. Eq(scan)
  BY <1>4, Zenon
<1>6. scan[0] = start /\ \A k \in 1 .. n : scan[k] = next(k, scan[k - 1])
  <2> DEFINE e(k) == IF k = 0 THEN start ELSE next(k, scan[k - 1])
  <2> HIDE DEF scan
  <2>1. scan = [k \in 0 .. n |-> e(k)]
    BY <1>5, Zenon
  <2> HIDE DEF e
  <2>2. \A k \in 0 .. n : scan[k] = e(k)
    BY <2>1
  <2>3. \A k \in 1 .. n : k \in 0 .. n /\ k # 0
    BY <1>1
  <2> QED BY <1>1, <2>2, <2>3 DEF e
<1>7. /\ Drained(b).out = scan[n].out
      /\ Drained(b).rest = SubSeq(b, scan[n].end + 1, n)
  BY Zenon DEF Drained, start, next
<1> HIDE DEF scan
<1> DEFINE Good(k) == /\ scan[k].end \in 0 .. k
                      /\ Takes(b, scan[k].out, scan[k].end)
                      /\ \A j \in EventEnds(b) : j <= k => j <= scan[k].end + 1
           P == {k \in 0 .. n : Good(k)}
<1>8. 0 \in P
  <2>1. RestoreSSEEvent(SubSeq(b, 1, 0)) = <<>>
    <3>1. SubSeq(b, 1, 0) = <<>> /\ [i \in DOMAIN <<>> |-> RestoredInEvent(<<>>, i)] = <<>>
      OBVIOUS
    <3> QED BY <3>1, FlattenEmpty DEF RestoreSSEEvent
  <2>2. Takes(b, start.out, start.end)
    BY <1>1, <1>2, <2>1 DEF Takes
  <2>3. \A j \in EventEnds(b) : ~(j <= 0)
    BY <1>1 DEF EventEnds
  <2> QED BY <1>1, <1>2, <1>6, <2>2, <2>3
<1>9. ASSUME NEW k \in 1 .. n, k - 1 \in P PROVE k \in P
  <2> DEFINE before == scan[k - 1]
  <2>1. /\ before.end \in 0 .. k - 1
        /\ Takes(b, before.out, before.end)
        /\ \A j \in EventEnds(b) : j <= k - 1 => j <= before.end + 1
    BY <1>9
  <2>2. scan[k] = next(k, before)
    BY <1>6
  <2> HIDE DEF before
  <2>3. CASE k > before.end + 1 /\ k \in EventEnds(b)
    <3>1. scan[k] = [out |-> before.out \o RestoreSSEEvent(SubSeq(b, before.end + 1, k)), end |-> k]
      BY <2>2, <2>3 DEF next
    <3>2. b[k] = "n" /\ k \in before.end + 1 .. Len(b)
      BY <2>1, <2>3 DEF EventEnds
    <3>3. Takes(b, before.out \o RestoreSSEEvent(SubSeq(b, before.end + 1, k)), k)
      BY <2>1, <3>2, TakesNext
    <3>4. \A j \in EventEnds(b) : j <= k => j <= k + 1
      BY <1>1 DEF EventEnds
    <3>5. Good(k)
      BY <1>1, <3>1, <3>3, <3>4
    <3> QED BY <1>1, <3>5
  <2>4. CASE ~(k > before.end + 1 /\ k \in EventEnds(b))
    <3>1. scan[k] = before
      BY <2>2, <2>4 DEF next
    <3>2. ASSUME NEW j \in EventEnds(b), j <= k PROVE j <= before.end + 1
      <4>1. CASE j = k
        BY <1>1, <2>1, <2>4, <4>1
      <4>2. CASE j # k
        <5>1. j \in Int /\ k \in Int
          BY <1>1 DEF EventEnds
        <5>2. j <= k - 1
          BY <3>2, <4>2, <5>1
        <5> QED BY <2>1, <5>2
      <4> QED BY <4>1, <4>2
    <3>3. before.end \in 0 .. k
      BY <2>1
    <3>4. Good(k)
      BY <2>1, <3>1, <3>2, <3>3
    <3> QED BY <1>1, <3>4
  <2> QED BY <2>3, <2>4
<1>10. Good(n)
  <2> HIDE DEF P, n
  <2>1. \A k \in 0 .. n : k \in P
    BY <1>1, <1>8, <1>9, Induction
  <2> QED BY <1>1, <2>1 DEF P
<1> DEFINE end == scan[n].end
           rest == SubSeq(b, end + 1, n)
<1>11. EventEnds(rest) = {}
  <2>1. end \in 0 .. n /\ \A j \in EventEnds(b) : j <= n => j <= end + 1
    BY <1>10
  <2> HIDE DEF end
  <2> SUFFICES ASSUME NEW j \in EventEnds(rest) PROVE FALSE
    OBVIOUS
  <2>2. Len(rest) = n - end /\ \A i \in 1 .. n - end : rest[i] = b[end + i]
    BY <2>1
  <2> HIDE DEF rest
  <2>3. j \in 2 .. n - end /\ rest[j - 1] = "n" /\ rest[j] = "n"
    BY <2>2 DEF EventEnds
  <2>4. j - 1 \in 1 .. n - end /\ end + (j - 1) = (end + j) - 1 /\ end + j \in 2 .. n
    BY <1>1, <2>1, <2>3
  <2>5. b[(end + j) - 1] = "n" /\ b[end + j] = "n"
    BY <2>2, <2>3, <2>4
  <2>6. end + j \in EventEnds(b)
    BY <2>4, <2>5 DEF EventEnds
  <2>7. end + j <= end + 1
    BY <2>1, <2>4, <2>6
  <2> QED BY <1>1, <2>1, <2>3, <2>7
<1> QED BY <1>7, <1>10, <1>11
=============================================================================
