----------------------------- MODULE SetupProofs -----------------------------
(***************************************************************************)
(* Proofs about Setup, for any number of terminals, releases and commands. *)
(***************************************************************************)
EXTENDS Setup, SequenceFacts

(* The profile.  What its elements are. *)
Piece == {newline, profileBegin, profileEnd} \cup Export \cup Words

LEMMA Pieces ==
    /\ Text = Seq(Piece)
    /\ newline \in Piece /\ profileBegin \in Piece /\ profileEnd \in Piece /\ Export \subseteq Piece
    /\ newline # profileBegin /\ newline # profileEnd /\ profileBegin # profileEnd
    /\ newline \notin Export /\ profileBegin \notin Export /\ profileEnd \notin Export
  BY DEF newline, profileBegin, profileEnd, Export, Piece, Text

(* A least number. *)
LEMMA LeastIs ==
    ASSUME NEW T \in SUBSET Nat, NEW k \in T, \A j \in T : k <= j
    PROVE  Min(T) = k
<1>0. T # {} /\ T \subseteq Nat
  OBVIOUS
<1>1. Min(T) \in T /\ Min(T) <= k
  BY <1>0, MinOfNumbers, Zenon
<1>2. Min(T) \in Nat /\ k \in Nat /\ k <= Min(T)
  BY <1>0, <1>1, Zenon
<1> QED BY <1>1, <1>2

(* Index finds the first one, and 0 where there is none. *)
LEMMA IndexIs ==
    ASSUME NEW text \in Text, NEW i \in 1 .. Len(text), NEW s, NEW k \in i .. Len(text),
           text[k] = s, \A j \in i .. k - 1 : text[j] # s
    PROVE  Index(text, i, s) = k
<1> DEFINE T == {j \in i .. Len(text) : text[j] = s}
<1>0. Len(text) \in Nat
  BY DEF Text
<1>1. T \in SUBSET Nat /\ k \in T
  BY <1>0
<1>2. ASSUME NEW j \in T PROVE k <= j
  BY <1>0
<1>3. Index(text, i, s) = IF T # {} THEN Min(T) ELSE 0
  BY DEF Index, SelectInSubSeq
<1> HIDE DEF T
<1> QED BY <1>1, <1>2, <1>3, LeastIs

LEMMA IndexNone ==
    ASSUME NEW text \in Text, NEW i \in 1 .. Len(text) + 1, NEW s
    PROVE  /\ Index(text, i, s) = 0 => \A j \in i .. Len(text) : text[j] # s
           /\ (\A j \in i .. Len(text) : text[j] # s) => Index(text, i, s) = 0
           /\ Index(text, i, s) # 0 => /\ Index(text, i, s) \in i .. Len(text)
                                       /\ text[Index(text, i, s)] = s
                                       /\ \A j \in i .. Index(text, i, s) - 1 : text[j] # s
<1> DEFINE T == {j \in i .. Len(text) : text[j] = s}
<1>0. Len(text) \in Nat
  BY DEF Text
<1>1. T \in SUBSET Nat /\ 0 \notin T
  BY <1>0
<1>3. Index(text, i, s) = IF T # {} THEN Min(T) ELSE 0
  BY DEF Index, SelectInSubSeq
<1>4. T # {} => Min(T) \in T /\ \A j \in T : Min(T) <= j
  <2> HIDE DEF T
  <2> QED BY <1>1, MinOfNumbers
<1>5. CASE T = {}
  BY <1>3, <1>5
<1>6. CASE T # {}
  <2> DEFINE k == Min(T)
  <2>1. k \in T /\ (\A j \in T : k <= j) /\ Index(text, i, s) = k
    BY <1>3, <1>4, <1>6
  <2> HIDE DEF k
  <2>2. k \in i .. Len(text) /\ text[k] = s /\ k # 0
    BY <1>1, <2>1
  <2>3. ASSUME NEW j \in i .. k - 1 PROVE text[j] # s
    BY <1>0, <2>1, <2>2
  <2> QED BY <2>1, <2>2, <2>3
<1> QED BY <1>5, <1>6
-----------------------------------------------------------------------------
(* Behind skips newlines, and only those. *)
Skips(text, i, k) ==
    /\ k \in i + 1 .. Len(text) + 1
    /\ \A j \in i + 1 .. k - 1 : text[j] = newline
    /\ k <= Len(text) => text[k] # newline

LEMMA BehindIs ==
    ASSUME NEW text \in Text, NEW i \in 0 .. Len(text), NEW k, Skips(text, i, k)
    PROVE  Behind(text, i) = SubSeq(text, k, Len(text))
<1> DEFINE T == {j \in i + 1 .. Len(text) : text[j] # newline}
<1>0. Len(text) \in Nat
  BY DEF Text
<1>1. T \in SUBSET Nat /\ 0 \notin T
  BY <1>0
<1> DEFINE next == IF T # {} THEN Min(T) ELSE 0
<1>2. Behind(text, i) = IF next = 0 THEN <<>> ELSE SubSeq(text, next, Len(text))
  BY DEF Behind, SelectInSubSeq
<1>3. CASE k <= Len(text)
  <2>1. k \in T
    BY <1>0, <1>3 DEF Skips
  <2>2. ASSUME NEW j \in T PROVE k <= j
    BY <1>0 DEF Skips
  <2> HIDE DEF T
  <2>3. Min(T) = k /\ T # {}
    BY <1>1, <2>1, <2>2, LeastIs
  <2> QED BY <1>1, <1>2, <2>1, <2>3
<1>4. CASE k = Len(text) + 1
  <2>1. T = {}
    BY <1>0, <1>4 DEF Skips
  <2>2. SubSeq(text, k, Len(text)) = <<>>
    BY <1>0, <1>4 DEF Text
  <2> QED BY <1>2, <2>1, <2>2
<1> QED BY <1>0, <1>3, <1>4 DEF Skips

LEMMA SomethingSkips ==
    ASSUME NEW text \in Text, NEW i \in 0 .. Len(text)
    PROVE  \E k : Skips(text, i, k)
<1> DEFINE T == {j \in i + 1 .. Len(text) : text[j] # newline}
<1>0. Len(text) \in Nat
  BY DEF Text
<1>1. T \in SUBSET Nat
  BY <1>0
<1>2. CASE T = {}
  <2>1. Skips(text, i, Len(text) + 1)
    BY <1>0, <1>2 DEF Skips
  <2> QED BY <2>1
<1>3. CASE T # {}
  <2> DEFINE k == Min(T)
  <2>1. k \in T /\ \A j \in T : k <= j
    <3> HIDE DEF T
    <3> QED BY <1>1, <1>3, MinOfNumbers
  <2> HIDE DEF k
  <2>2. k \in i + 1 .. Len(text) /\ text[k] # newline
    BY <2>1
  <2>3. ASSUME NEW j \in i + 1 .. k - 1 PROVE text[j] = newline
    BY <1>0, <2>1, <2>2
  <2>4. Skips(text, i, k)
    BY <1>0, <2>2, <2>3 DEF Skips
  <2> QED BY <2>4
<1> QED BY <1>2, <1>3
-----------------------------------------------------------------------------
(* The elements of a sequence put together of two. *)
LEMMA ElementsOfConcat ==
    ASSUME NEW S, NEW a \in Seq(S), NEW b \in Seq(S)
    PROVE  ToSet(a \o b) = ToSet(a) \cup ToSet(b)
<1>0. /\ Len(a) \in Nat /\ Len(b) \in Nat /\ Len(a \o b) = Len(a) + Len(b)
      /\ a \o b \in Seq(S)
  OBVIOUS
<1>1. /\ ToSet(a) = {a[i] : i \in 1 .. Len(a)} /\ ToSet(b) = {b[i] : i \in 1 .. Len(b)}
      /\ ToSet(a \o b) = {(a \o b)[i] : i \in 1 .. Len(a) + Len(b)}
  BY <1>0 DEF ToSet
<1>2. ASSUME NEW i \in 1 .. Len(a) PROVE (a \o b)[i] = a[i] /\ i \in 1 .. Len(a) + Len(b)
  BY <1>0
<1>3. ASSUME NEW i \in 1 .. Len(b)
      PROVE  (a \o b)[Len(a) + i] = b[i] /\ Len(a) + i \in 1 .. Len(a) + Len(b)
  BY <1>0
<1>4. ASSUME NEW i \in 1 .. Len(a) + Len(b)
      PROVE  (a \o b)[i] \in ToSet(a) \cup ToSet(b)
  <2>1. CASE i <= Len(a)
    <3>1. i \in 1 .. Len(a)
      BY <1>0, <2>1
    <3> QED BY <1>1, <1>2, <3>1
  <2>2. CASE i > Len(a)
    <3> DEFINE j == i - Len(a)
    <3>1. j \in 1 .. Len(b) /\ Len(a) + j = i
      BY <1>0, <2>2
    <3> HIDE DEF j
    <3> QED BY <1>1, <1>3, <3>1
  <2> QED BY <1>0, <2>1, <2>2
<1>5. ASSUME NEW x \in ToSet(a) \cup ToSet(b) PROVE x \in ToSet(a \o b)
  BY <1>1, <1>2, <1>3
<1>6. ASSUME NEW x \in ToSet(a \o b) PROVE x \in ToSet(a) \cup ToSet(b)
  BY <1>1, <1>4
<1> QED BY <1>5, <1>6

LEMMA SourcedOfConcat ==
    ASSUME NEW a \in Text, NEW b \in Text
    PROVE  Sourced(a \o b) = Sourced(a) \cup Sourced(b)
<1>1. ToSet(a \o b) = ToSet(a) \cup ToSet(b)
  BY ElementsOfConcat DEF Text
<1> QED BY <1>1 DEF Sourced

(* The same of the user's own text in it. *)
Owns(a) == [i \in DOMAIN a |-> Own(a[i])]

LEMMA OwnsType ==
    ASSUME NEW a \in Text
    PROVE  Owns(a) \in Seq(Text) /\ Len(Owns(a)) = Len(a) /\ Mine(a) = FlattenSeq(Owns(a))
           /\ \A i \in 1 .. Len(a) : Owns(a)[i] = Own(a[i])
<1>1. ASSUME NEW x \in Piece PROVE Own(x) \in Seq(Piece)
  BY DEF Own
<1>2. a \in Seq(Piece) /\ Text = Seq(Piece)
  BY Pieces
<1>3. DOMAIN a = 1 .. Len(a) /\ Len(a) \in Nat /\ \A i \in 1 .. Len(a) : a[i] \in Piece
  BY <1>2
<1>4. Owns(a) = [i \in 1 .. Len(a) |-> Own(a[i])]
  BY <1>3 DEF Owns
<1>5. \A i \in 1 .. Len(a) : Own(a[i]) \in Text
  BY <1>1, <1>2, <1>3
<1>6. Owns(a) \in Seq(Text) /\ Len(Owns(a)) = Len(a) /\ \A i \in 1 .. Len(a) : Owns(a)[i] = Own(a[i])
  BY <1>3, <1>4, <1>5
<1> QED BY <1>6 DEF Mine, Owns

LEMMA MineType ==
    ASSUME NEW a \in Text
    PROVE  Mine(a) \in Text
<1>1. Owns(a) \in Seq(Seq(Piece)) /\ Mine(a) = FlattenSeq(Owns(a)) /\ Text = Seq(Piece)
  BY OwnsType, Pieces
<1> QED BY <1>1, FlattenType

LEMMA MineOfConcat ==
    ASSUME NEW a \in Text, NEW b \in Text
    PROVE  Mine(a \o b) = Mine(a) \o Mine(b)
<1>1. a \in Seq(Piece) /\ b \in Seq(Piece) /\ a \o b \in Text /\ Text = Seq(Piece)
  BY Pieces
<1>2. /\ Len(a) \in Nat /\ Len(b) \in Nat /\ Len(a \o b) = Len(a) + Len(b)
      /\ \A i \in 1 .. Len(a) : (a \o b)[i] = a[i] /\ i \in 1 .. Len(a) + Len(b)
      /\ \A i \in 1 .. Len(b) : (a \o b)[Len(a) + i] = b[i]
                               /\ Len(a) + i \in 1 .. Len(a) + Len(b)
  BY <1>1
<1> DEFINE s == Owns(a)
           t == Owns(b)
           u == Owns(a \o b)
<1>3. /\ s \in Seq(Seq(Piece)) /\ t \in Seq(Seq(Piece)) /\ u \in Seq(Seq(Piece))
      /\ Len(s) = Len(a) /\ Len(t) = Len(b) /\ Len(u) = Len(a) + Len(b)
      /\ \A i \in 1 .. Len(a) : s[i] = Own(a[i])
      /\ \A i \in 1 .. Len(b) : t[i] = Own(b[i])
      /\ \A i \in 1 .. Len(a) + Len(b) : u[i] = Own((a \o b)[i])
      /\ Mine(a) = FlattenSeq(s) /\ Mine(b) = FlattenSeq(t) /\ Mine(a \o b) = FlattenSeq(u)
  BY <1>1, <1>2, OwnsType
<1> HIDE DEF s, t, u
<1>4. /\ Len(u) = Len(s) + Len(t)
      /\ \A i \in 1 .. Len(s) : u[i] = s[i]
      /\ \A i \in 1 .. Len(t) : u[Len(s) + i] = t[i]
  BY <1>2, <1>3
<1>5. FlattenSeq(u) = FlattenSeq(s) \o FlattenSeq(t)
  BY <1>3, <1>4, FlattenCut
<1> QED BY <1>3, <1>5

LEMMA MineOfNone ==
    ASSUME NEW a \in Text,
           \A i \in 1 .. Len(a) : a[i] \in {newline, profileBegin, profileEnd} \cup Export
    PROVE  Mine(a) = <<>>
<1>0. /\ Owns(a) \in Seq(Seq(Piece)) /\ Len(Owns(a)) = Len(a) /\ Mine(a) = FlattenSeq(Owns(a))
      /\ \A i \in 1 .. Len(a) : Owns(a)[i] = Own(a[i])
  BY OwnsType, Pieces
<1>1. \A i \in 1 .. Len(a) : Owns(a)[i] = <<>>
  BY <1>0 DEF Own
<1>2. PICK f : Flattens(f, Owns(a), Piece)
  BY <1>0, FlattenRun
<1> DEFINE n == Len(a)
           P == {i \in 0 .. n : f[i] = <<>>}
<1>9. n \in Nat
  BY DEF Text
<1>3. 0 \in P
  BY <1>9, <1>2 DEF Flattens
<1>4. ASSUME NEW i \in 1 .. n, i - 1 \in P PROVE i \in P
  <2>1. f[i] = f[i - 1] \o Owns(a)[i]
    BY <1>0, <1>2 DEF Flattens
  <2>2. f[i] = <<>> \o <<>>
    BY <1>1, <1>4, <2>1
  <2>3. <<>> \o <<>> = <<>>
    OBVIOUS
  <2> QED BY <1>9, <2>2, <2>3
<1> HIDE DEF n, P
<1>5. n \in P
  <2>1. \A i \in 0 .. n : i \in P
    BY <1>9, <1>3, <1>4, Induction
  <2> QED BY <1>9, <2>1
<1> QED BY <1>0, <1>2, <1>5 DEF n, P, Flattens
-----------------------------------------------------------------------------
(* A block begins with its marker, ends with the other and a newline, has no
   other end marker and nothing of the user's, and exports what `env` says. *)
BlockFact(blk, these) ==
    /\ blk \in Text /\ Len(blk) \in Nat /\ Len(blk) >= 4
    /\ blk[1] = profileBegin /\ blk[Len(blk) - 1] = profileEnd /\ blk[Len(blk)] = newline
    /\ \A i \in 1 .. Len(blk) - 2 : blk[i] # profileEnd
    /\ \A i \in 1 .. Len(blk) : blk[i] \in {newline, profileBegin, profileEnd} \cup Export
    /\ Sourced(blk) = ToSet(EnvExports(these))

(* An export statement and its newline, if it is there. *)
Line(x, there) == IF there THEN <<x, newline>> ELSE <<>>
Exported(x, there) == IF there THEN <<x>> ELSE <<>>

LEMMA LineIs ==
    ASSUME NEW x \in Export, NEW there \in BOOLEAN
    PROVE  /\ Line(x, there) \in Seq({newline, profileBegin} \cup Export)
           /\ Sourced(Line(x, there)) = ToSet(Exported(x, there))
           /\ Exported(x, there) \in Seq(Export)
<1>1. CASE there
  <2>1. Line(x, there) = <<x, newline>> /\ Exported(x, there) = <<x>>
    BY <1>1 DEF Line, Exported
  <2>2. ToSet(<<x, newline>>) = {x, newline} /\ ToSet(<<x>>) = {x}
    BY DEF ToSet
  <2>3. {x, newline} \cap Export = {x}
    BY Pieces
  <2>4. <<x, newline>> \in Seq({newline, profileBegin} \cup Export) /\ <<x>> \in Seq(Export)
    OBVIOUS
  <2> QED BY <2>1, <2>2, <2>3, <2>4 DEF Sourced
<1>2. CASE ~there
  <2>1. Line(x, there) = <<>> /\ Exported(x, there) = <<>>
    BY <1>2 DEF Line, Exported
  <2>2. ToSet(<<>>) = {}
    BY DEF ToSet
  <2> QED BY <2>1, <2>2 DEF Sourced
<1> QED BY <1>1, <1>2

LEMMA ConcatIs ==
    ASSUME NEW S, NEW a \in Seq(S), NEW b \in Seq(S)
    PROVE  /\ a \o b \in Seq(S) /\ Len(a \o b) = Len(a) + Len(b)
           /\ Len(a) \in Nat /\ Len(b) \in Nat
           /\ \A i \in 1 .. Len(a) : (a \o b)[i] = a[i]
           /\ \A i \in 1 .. Len(b) : (a \o b)[Len(a) + i] = b[i]
  OBVIOUS

LEMMA BlockIs ==
    ASSUME NEW these
    PROVE  BlockFact(Block(these), these)
<1> DEFINE o == WithOpenAI(these)
           c == "claude" \in these
           a == <<profileBegin, newline>>
           x == Line("OPENAI_BASE_URL", o)
           y == Line("ANTHROPIC_BASE_URL", c)
           z == <<profileEnd, newline>>
           B == {newline, profileBegin} \cup Export
<1>1. Block(these) = ((a \o x) \o y) \o z
  BY DEF Block, Line
<1>2. EnvExports(these) = Exported("OPENAI_BASE_URL", o) \o Exported("ANTHROPIC_BASE_URL", c)
  BY DEF EnvExports, Exported, WithOpenAI
<1>3. /\ o \in BOOLEAN /\ c \in BOOLEAN
      /\ "OPENAI_BASE_URL" \in Export /\ "ANTHROPIC_BASE_URL" \in Export
  BY DEF WithOpenAI, Export
<1>4. /\ x \in Seq(B) /\ y \in Seq(B) /\ a \in Seq(B) /\ Len(a) = 2 /\ a[1] = profileBegin
      /\ Sourced(x) = ToSet(Exported("OPENAI_BASE_URL", o))
      /\ Sourced(y) = ToSet(Exported("ANTHROPIC_BASE_URL", c))
      /\ Exported("OPENAI_BASE_URL", o) \in Seq(Export)
      /\ Exported("ANTHROPIC_BASE_URL", c) \in Seq(Export)
  <2> HIDE DEF o, c
  <2> QED BY <1>3, LineIs
<1>16. ToSet(EnvExports(these))
         = ToSet(Exported("OPENAI_BASE_URL", o)) \cup ToSet(Exported("ANTHROPIC_BASE_URL", c))
  BY <1>2, <1>4, ElementsOfConcat
<1>5. z \in Text /\ Len(z) = 2 /\ z[1] = profileEnd /\ z[2] = newline
  BY Pieces
<1>6. /\ Sourced(a) = {} /\ Sourced(z) = {}
  <2>1. ToSet(a) = {profileBegin, newline} /\ ToSet(z) = {profileEnd, newline}
    BY DEF ToSet
  <2> QED BY <2>1, Pieces DEF Sourced
<1>7. \A s : s \in Seq(B) => s \in Text
  BY DEF Text
<1> HIDE DEF a, x, y, z, o, c
<1> DEFINE body == (a \o x) \o y
<1>8. body \in Seq(B) /\ Len(body) \in Nat /\ Len(body) >= 2 /\ body[1] = profileBegin
  <2> HIDE DEF B
  <2>0. a \in Seq(B) /\ x \in Seq(B)
    BY <1>4
  <2>1. /\ a \o x \in Seq(B) /\ Len(a \o x) = Len(a) + Len(x) /\ Len(x) \in Nat
        /\ \A i \in 1 .. Len(a) : (a \o x)[i] = a[i]
    BY <2>0, ConcatIs
  <2>2. 1 \in 1 .. Len(a) /\ 1 \in 1 .. Len(a \o x) /\ Len(a \o x) >= 2
    BY <1>4, <2>1
  <2>3. /\ body \in Seq(B) /\ Len(body) = Len(a \o x) + Len(y) /\ Len(y) \in Nat
        /\ \A i \in 1 .. Len(a \o x) : body[i] = (a \o x)[i]
    <3>1. ASSUME NEW w \in Seq(B)
          PROVE  /\ w \o y \in Seq(B) /\ Len(w \o y) = Len(w) + Len(y) /\ Len(y) \in Nat
                 /\ \A i \in 1 .. Len(w) : (w \o y)[i] = w[i]
      BY <1>4, ConcatIs
    <3> QED BY <2>1, <3>1, Zenon
  <2>4. body[1] = profileBegin
    <3>1. (a \o x)[1] = profileBegin
      BY <1>4, <2>1, <2>2, Zenon
    <3>2. body[1] = (a \o x)[1]
      BY <2>2, <2>3, Zenon
    <3> QED BY <3>1, <3>2, Zenon
  <2>5. Len(a \o x) \in Nat
    BY <1>4, <2>1
  <2> HIDE DEF body
  <2> QED BY <2>2, <2>3, <2>4, <2>5
<1>9. Sourced(body \o z) = ToSet(EnvExports(these))
  <2>0. a \o x \in Seq(B)
    BY <1>4, ConcatIs
  <2>1. a \o x \in Text /\ body \in Text /\ a \in Text /\ x \in Text /\ y \in Text
    BY <1>4, <1>7, <1>8, <2>0, Zenon
  <2>2. Sourced(body \o z) = ((Sourced(a) \cup Sourced(x)) \cup Sourced(y)) \cup Sourced(z)
    BY <1>5, <2>1, SourcedOfConcat
  <2> QED BY <1>4, <1>6, <1>16, <2>2
<1> HIDE DEF body
<1>10. \A i \in 1 .. Len(body) : body[i] \in B /\ body[i] # profileEnd
  BY <1>8, Pieces
<1>11. /\ body \o z \in Text /\ Len(body \o z) = Len(body) + 2
       /\ \A i \in 1 .. Len(body) : (body \o z)[i] = body[i]
       /\ (body \o z)[Len(body) + 1] = profileEnd /\ (body \o z)[Len(body) + 2] = newline
  <2>1. body \in Text
    BY <1>7, <1>8, Zenon
  <2>2. body \in Seq(Piece) /\ z \in Seq(Piece) /\ Text = Seq(Piece)
    BY <1>5, <2>1, Pieces
  <2>3. /\ body \o z \in Seq(Piece) /\ Len(body \o z) = Len(body) + Len(z)
        /\ \A i \in 1 .. Len(body) : (body \o z)[i] = body[i]
        /\ \A i \in 1 .. Len(z) : (body \o z)[Len(body) + i] = z[i]
    BY <2>2, ConcatIs
  <2>4. 1 \in 1 .. Len(z) /\ 2 \in 1 .. Len(z)
    BY <1>5
  <2> QED BY <1>5, <2>2, <2>3, <2>4, Zenon
<1> DEFINE blk == body \o z
<1>12. Block(these) = blk
  BY <1>1 DEF body
<1> HIDE DEF blk
<1>13. /\ blk \in Text /\ Len(blk) = Len(body) + 2
       /\ \A i \in 1 .. Len(body) : blk[i] = body[i]
       /\ blk[Len(body) + 1] = profileEnd /\ blk[Len(body) + 2] = newline
       /\ Sourced(blk) = ToSet(EnvExports(these))
  BY <1>9, <1>11 DEF blk
<1>14. /\ blk[1] = profileBegin /\ blk[Len(blk) - 1] = profileEnd /\ blk[Len(blk)] = newline
       /\ \A i \in 1 .. Len(blk) - 2 : blk[i] # profileEnd
       /\ Len(blk) >= 4 /\ Len(blk) \in Nat
  BY <1>8, <1>10, <1>13
<1>15. \A i \in 1 .. Len(blk) : blk[i] \in {newline, profileBegin, profileEnd} \cup Export
  BY <1>8, <1>10, <1>13
<1> QED BY <1>12, <1>13, <1>14, <1>15 DEF BlockFact
-----------------------------------------------------------------------------
LEMMA ThreeParts ==
    ASSUME NEW S, NEW a \in Seq(S), NEW b \in Seq(S), NEW c \in Seq(S), NEW t,
           t = (a \o b) \o c
    PROVE  /\ t \in Seq(S) /\ Len(t) = (Len(a) + Len(b)) + Len(c)
           /\ \A i \in 1 .. Len(a) : t[i] = a[i]
           /\ \A i \in 1 .. Len(b) : t[Len(a) + i] = b[i]
           /\ \A i \in 1 .. Len(c) : t[(Len(a) + Len(b)) + i] = c[i]
<1> DEFINE u == a \o b
<1>1. /\ u \in Seq(S) /\ Len(u) = Len(a) + Len(b)
      /\ Len(a) \in Nat /\ Len(b) \in Nat /\ Len(c) \in Nat
      /\ \A i \in 1 .. Len(a) : u[i] = a[i]
      /\ \A i \in 1 .. Len(b) : u[Len(a) + i] = b[i]
  BY ConcatIs
<1> HIDE DEF u
<1>2. t = u \o c
  BY DEF u
<1>3. /\ t \in Seq(S) /\ Len(t) = Len(u) + Len(c)
      /\ \A i \in 1 .. Len(u) : t[i] = u[i]
      /\ \A i \in 1 .. Len(c) : t[Len(u) + i] = c[i]
  <2>1. /\ u \o c \in Seq(S) /\ Len(u \o c) = Len(u) + Len(c)
        /\ \A i \in 1 .. Len(u) : (u \o c)[i] = u[i]
        /\ \A i \in 1 .. Len(c) : (u \o c)[Len(u) + i] = c[i]
    <3>1. ASSUME NEW w \in Seq(S)
          PROVE  /\ w \o c \in Seq(S) /\ Len(w \o c) = Len(w) + Len(c)
                 /\ \A i \in 1 .. Len(w) : (w \o c)[i] = w[i]
                 /\ \A i \in 1 .. Len(c) : (w \o c)[Len(w) + i] = c[i]
      BY ConcatIs
    <3>2. u \in Seq(S)
      BY <1>1
    <3> QED BY <3>1, <3>2, Zenon
  <2> QED BY <1>2, <2>1, Zenon
<1>4. \A i \in 1 .. Len(a) : i \in 1 .. Len(u)
  BY <1>1
<1>5. \A i \in 1 .. Len(b) : Len(a) + i \in 1 .. Len(u)
  BY <1>1
<1> QED BY <1>1, <1>3, <1>4, <1>5, Zenon

(* What a part of a sequence is. *)
LEMMA PartIs ==
    ASSUME NEW S, NEW t \in Seq(S), NEW a \in Seq(S), NEW m \in Nat,
           m + Len(a) <= Len(t), \A i \in 1 .. Len(a) : t[m + i] = a[i]
    PROVE  SubSeq(t, m + 1, m + Len(a)) = a
<1> DEFINE u == SubSeq(t, m + 1, m + Len(a))
<1>1. Len(a) \in Nat /\ Len(t) \in Nat
  OBVIOUS
<1>2. u \in Seq(S) /\ Len(u) = Len(a) /\ \A i \in 1 .. Len(a) : u[i] = t[m + i]
  BY <1>1
<1>3. \A i \in 1 .. Len(u) : u[i] = a[i]
  BY <1>2
<1> HIDE DEF u
<1>4. u = a
  BY <1>2, <1>3, SeqEqual
<1> QED BY <1>4 DEF u

(* A block is replaced where it is, whoever it was for. *)
LEMMA Rewritten ==
    ASSUME NEW pre \in Text, NEW post \in Text, NEW was, NEW these,
           \A i \in 1 .. Len(pre) : pre[i] # profileBegin,
           post = <<>> \/ post[1] # newline
    PROVE  WriteShellProfile((pre \o Block(was)) \o post, these)
             = (pre \o Block(these)) \o post
<1> DEFINE blk == Block(was)
           t == (pre \o blk) \o post
           p == Len(pre)
           n == Len(blk)
           q == Len(post)
<1>1. BlockFact(blk, was)
  BY BlockIs
<1> HIDE DEF blk, t
<1>2. /\ t \in Text /\ Len(t) = (p + n) + q
      /\ \A i \in 1 .. p : t[i] = pre[i]
      /\ \A i \in 1 .. n : t[p + i] = blk[i]
      /\ \A i \in 1 .. q : t[(p + n) + i] = post[i]
  BY <1>1, Pieces, ThreeParts DEF BlockFact, t
<1>3. p \in Nat /\ n \in Nat /\ q \in Nat /\ n >= 4
  BY <1>1, Pieces DEF BlockFact
<1>4. /\ blk[1] = profileBegin /\ blk[n - 1] = profileEnd /\ blk[n] = newline
      /\ \A i \in 1 .. n - 2 : blk[i] # profileEnd
  BY <1>1 DEF BlockFact
<1>5. post # <<>> => q >= 1 /\ t[(p + n) + 1] # newline
  <2>1. q = 0 => post = <<>>
    BY Pieces
  <2> QED BY <1>2, <1>3, <2>1
<1> HIDE DEF p, n, q
<1>6. Begin(t) = p + 1
  <2>1. t[p + 1] = profileBegin
    BY <1>2, <1>3, <1>4
  <2>2. \A j \in 1 .. (p + 1) - 1 : t[j] # profileBegin
    BY <1>2, <1>3 DEF p
  <2>3. 1 \in 1 .. Len(t) /\ p + 1 \in 1 .. Len(t)
    BY <1>2, <1>3
  <2> QED BY <1>2, <2>1, <2>2, <2>3, IndexIs DEF Begin
<1>7. End(t) = (p + n) - 1
  <2>1. t[(p + n) - 1] = profileEnd
    BY <1>2, <1>3, <1>4
  <2>2. ASSUME NEW j \in p + 1 .. ((p + n) - 1) - 1 PROVE t[j] # profileEnd
    <3>1. j - p \in 1 .. n - 2 /\ j - p \in 1 .. n /\ p + (j - p) = j
      BY <1>3
    <3>2. t[p + (j - p)] = blk[j - p]
      BY <1>2, <3>1
    <3> QED BY <1>4, <3>1, <3>2
  <2>3. p + 1 \in 1 .. Len(t) /\ (p + n) - 1 \in p + 1 .. Len(t)
    BY <1>2, <1>3
  <2>4. Index(t, p + 1, profileEnd) = (p + n) - 1
    BY <1>2, <2>1, <2>2, <2>3, IndexIs
  <2> QED BY <1>6, <2>4 DEF End
<1>8. Behind(t, (p + n) - 1) = SubSeq(t, (p + n) + 1, Len(t))
  <2>1. t[p + n] = newline
    BY <1>2, <1>3, <1>4
  <2>2. (p + n) + 1 <= Len(t) => t[(p + n) + 1] # newline
    <3>1. (p + n) + 1 <= Len(t) => q # 0
      BY <1>2, <1>3
    <3>2. post = <<>> => q = 0
      BY DEF q
    <3> QED BY <1>5, <3>1, <3>2
  <2>3. Skips(t, (p + n) - 1, (p + n) + 1)
    BY <1>2, <1>3, <2>1, <2>2 DEF Skips
  <2>4. (p + n) - 1 \in 0 .. Len(t)
    BY <1>2, <1>3
  <2> QED BY <1>2, <2>3, <2>4, BehindIs
<1>9. SubSeq(t, (p + n) + 1, Len(t)) = post
  BY <1>2, <1>3, Pieces, PartIs DEF q
<1>10. SubSeq(t, 1, p) = pre
  <2>1. /\ 0 + Len(pre) <= Len(t) /\ \A i \in 1 .. Len(pre) : t[0 + i] = pre[i]
        /\ 0 + 1 = 1 /\ 0 + Len(pre) = p
    BY <1>2, <1>3 DEF p
  <2> QED BY <1>2, <2>1, Pieces, PartIs
<1>11. HasBegin(t) /\ End(t) # 0 /\ Begin(t) - 1 = p
  BY <1>3, <1>6, <1>7 DEF HasBegin, Begin
<1>12. WriteShellProfile(t, these) = (pre \o Block(these)) \o post
  BY <1>7, <1>8, <1>9, <1>10, <1>11 DEF WriteShellProfile
<1> QED BY <1>12 DEF t, blk
-----------------------------------------------------------------------------
(* What install makes of a profile without a block, or with a closed one:
   something before, the block, and something behind. *)
Around(text, pre, post) ==
    /\ pre \in Text /\ post \in Text
    /\ \A i \in 1 .. Len(pre) : pre[i] # profileBegin
    /\ post = <<>> \/ post[1] # newline
    /\ \A these : WriteShellProfile(text, these) = (pre \o Block(these)) \o post
    /\ Mine(pre) \o Mine(post) = Mine(Outside(text))
    /\ Sourced(pre) \subseteq Sourced(Outside(text))
    /\ Sourced(post) \subseteq Sourced(Outside(text))

LEMMA EmptyText == <<>> \in Text /\ Mine(<<>>) = <<>> /\ Sourced(<<>>) = {}
<1>1. <<>> \in Text /\ \A i \in 1 .. Len(<<>>) : FALSE
  BY DEF Text
<1>2. Mine(<<>>) = <<>>
  BY <1>1, MineOfNone
<1>3. Sourced(<<>>) = {}
  BY DEF Sourced, ToSet
<1> QED BY <1>1, <1>2, <1>3

LEMMA NewlinesOnly ==
    ASSUME NEW a \in Text, \A i \in 1 .. Len(a) : a[i] = newline
    PROVE  Mine(a) = <<>> /\ Sourced(a) = {}
<1>1. Mine(a) = <<>>
  BY MineOfNone
<1>2. ASSUME NEW x \in ToSet(a) PROVE x = newline
  BY Pieces DEF ToSet
<1>3. Sourced(a) = {}
  BY <1>2, Pieces DEF Sourced
<1> QED BY <1>1, <1>3

LEMMA EmptyConcat ==
    ASSUME NEW S, NEW a \in Seq(S)
    PROVE  a \o <<>> = a /\ <<>> \o a = a
  OBVIOUS

LEMMA ConcatAssoc ==
    ASSUME NEW S, NEW a \in Seq(S), NEW b \in Seq(S), NEW c \in Seq(S)
    PROVE  (a \o b) \o c = a \o (b \o c)
  OBVIOUS

LEMMA AroundAdded ==
    ASSUME NEW text \in Text, ~HasBegin(text)
    PROVE  \E pre, post : Around(text, pre, post)
<1> DEFINE first == IF text # <<>> /\ Last(text) # newline THEN <<newline>> ELSE <<>>
           sep == first \o <<newline>>
           pre == text \o sep
<1>1. text \in Seq(Piece) /\ Text = Seq(Piece) /\ newline \in Piece
  BY Pieces
<1>2. first \in Seq(Piece) /\ first \in Seq({newline}) /\ <<newline>> \in Seq(Piece)
  <2>1. /\ <<>> \in Seq(Piece) /\ <<>> \in Seq({newline})
        /\ <<newline>> \in Seq(Piece) /\ <<newline>> \in Seq({newline})
    BY <1>1
  <2>2. first = <<>> \/ first = <<newline>>
    BY Zenon
  <2> QED BY <2>1, <2>2
<1>3. sep \in Text /\ \A i \in 1 .. Len(sep) : sep[i] = newline
  <2>1. <<newline>> \in Seq({newline})
    OBVIOUS
  <2> HIDE DEF first
  <2>2. sep \in Seq({newline})
    BY <1>2, <2>1
  <2> HIDE DEF sep
  <2> QED BY <1>1, <2>2
<1>4. ASSUME NEW these
      PROVE  WriteShellProfile(text, these) = (pre \o Block(these)) \o <<>>
  <2> DEFINE blk == Block(these)
  <2>1. blk \in Seq(Piece)
    BY BlockIs, Pieces DEF BlockFact
  <2> HIDE DEF blk
  <2>2. WriteShellProfile(text, these) = ((text \o first) \o <<newline>>) \o blk
    BY DEF WriteShellProfile, Added, blk
  <2> HIDE DEF first
  <2>3. (text \o first) \o <<newline>> = pre
    BY <1>1, <1>2, ConcatAssoc
  <2>4. pre \o blk \in Seq(Piece)
    <3> HIDE DEF sep
    <3>1. pre \in Seq(Piece)
      BY <1>1, <1>3, ConcatIs
    <3> QED BY <2>1, <3>1, ConcatIs
  <2>5. (pre \o blk) \o <<>> = pre \o blk
    <3> HIDE DEF pre
    <3> QED BY <2>4, EmptyConcat
  <2> QED BY <2>2, <2>3, <2>5 DEF blk
<1> HIDE DEF sep
<1>5. pre \in Text /\ \A i \in 1 .. Len(pre) : pre[i] # profileBegin
  <2>1. /\ pre \in Seq(Piece) /\ Len(pre) = Len(text) + Len(sep)
        /\ Len(text) \in Nat /\ Len(sep) \in Nat
        /\ \A i \in 1 .. Len(text) : pre[i] = text[i]
        /\ \A i \in 1 .. Len(sep) : pre[Len(text) + i] = sep[i]
    BY <1>1, <1>3, ConcatIs
  <2>2. \A i \in 1 .. Len(text) : text[i] # profileBegin
    BY <2>1, IndexNone DEF HasBegin
  <2> HIDE DEF pre
  <2>3. ASSUME NEW i \in 1 .. Len(pre) PROVE pre[i] # profileBegin
    <3>1. CASE i <= Len(text)
      BY <2>1, <2>2, <3>1
    <3>2. CASE i > Len(text)
      <4>1. i - Len(text) \in 1 .. Len(sep) /\ Len(text) + (i - Len(text)) = i
        BY <2>1, <3>2
      <4>2. pre[i] = newline
        BY <1>3, <2>1, <4>1
      <4> QED BY <4>2, Pieces
    <3> QED BY <2>1, <3>1, <3>2
  <2> QED BY <1>1, <2>1, <2>3
<1>6. Mine(sep) = <<>> /\ Sourced(sep) = {}
  BY <1>3, NewlinesOnly
<1>7. Mine(pre) = Mine(text) /\ Sourced(pre) = Sourced(text)
  <2>1. Mine(pre) = Mine(text) \o Mine(sep) /\ Sourced(pre) = Sourced(text) \cup Sourced(sep)
    BY <1>3, MineOfConcat, SourcedOfConcat
  <2> QED BY <1>1, <1>6, <2>1, MineType, EmptyConcat
<1>8. Outside(text) = text
  BY DEF Outside
<1> HIDE DEF pre
<1>9. Mine(pre) \o Mine(<<>>) = Mine(Outside(text))
  BY <1>1, <1>5, <1>7, <1>8, MineType, EmptyConcat, EmptyText
<1>10. Around(text, pre, <<>>)
  BY <1>4, <1>5, <1>7, <1>8, <1>9, EmptyText DEF Around
<1> QED BY <1>10

LEMMA AroundReplaced ==
    ASSUME NEW text \in Text, HasBegin(text), End(text) # 0
    PROVE  \E pre, post : Around(text, pre, post)
<1> DEFINE b == Begin(text)
           e == End(text)
           pre == SubSeq(text, 1, b - 1)
           rest == SubSeq(text, e + 1, Len(text))
           post == Behind(text, e)
<1>1. Text = Seq(Piece) /\ text \in Seq(Piece) /\ Len(text) \in Nat
  BY Pieces
<1>2. b \in 1 .. Len(text) /\ \A j \in 1 .. b - 1 : text[j] # profileBegin
  <2>1. 1 \in 1 .. Len(text) + 1 /\ Index(text, 1, profileBegin) # 0
    BY <1>1 DEF HasBegin
  <2> QED BY <2>1, IndexNone DEF Begin
<1>3. e \in b .. Len(text)
  <2>1. b \in 1 .. Len(text) + 1 /\ Index(text, b, profileEnd) # 0
    BY <1>1, <1>2 DEF End
  <2> HIDE DEF b
  <2>2. Index(text, b, profileEnd) \in b .. Len(text)
    BY <2>1, IndexNone
  <2> QED BY <2>2 DEF End, b
<1>4. PICK k : Skips(text, e, k)
  BY <1>1, <1>2, <1>3, SomethingSkips
<1>5. post = SubSeq(text, k, Len(text))
  <2>1. e \in 0 .. Len(text)
    BY <1>1, <1>2, <1>3
  <2> HIDE DEF e
  <2> QED BY <1>4, <2>1, BehindIs
<1>6. \A these : WriteShellProfile(text, these) = (pre \o Block(these)) \o post
  BY DEF WriteShellProfile
<1>7. Outside(text) = pre \o rest
  BY DEF Outside
<1> DEFINE nl == SubSeq(text, e + 1, k - 1)
<1>8. k \in e + 1 .. Len(text) + 1 /\ b \in Nat /\ e \in Nat /\ b >= 1 /\ e >= 1
  BY <1>1, <1>2, <1>3, <1>4 DEF Skips
<1> HIDE DEF b, e
<1>9. /\ pre \in Text /\ Len(pre) = b - 1
      /\ \A i \in 1 .. Len(pre) : pre[i] # profileBegin
  <2>1. /\ pre \in Seq(Piece) /\ Len(pre) = b - 1
        /\ \A i \in 1 .. b - 1 : pre[i] = text[i]
    BY <1>1, <1>2, <1>8
  <2> QED BY <1>1, <1>2, <2>1
<1>10. post \in Text /\ (post = <<>> \/ post[1] # newline)
  <2> DEFINE u == SubSeq(text, k, Len(text))
  <2>1. u \in Seq(Piece) /\ (k <= Len(text) => u[1] = text[k]) /\ (k = Len(text) + 1 => u = <<>>)
    BY <1>1, <1>8
  <2>2. k <= Len(text) => text[k] # newline
    BY <1>4 DEF Skips
  <2> HIDE DEF u, post
  <2>3. k <= Len(text) \/ k = Len(text) + 1
    BY <1>1, <1>8
  <2> QED BY <1>1, <1>5, <2>1, <2>2, <2>3 DEF u
<1>11. nl \in Text /\ \A i \in 1 .. Len(nl) : nl[i] = newline
  <2>1. /\ nl \in Seq(Piece) /\ Len(nl) = (k - 1) - e
        /\ \A i \in 1 .. (k - 1) - e : nl[i] = text[e + i]
    BY <1>1, <1>8
  <2>2. ASSUME NEW i \in 1 .. (k - 1) - e PROVE text[e + i] = newline
    <3>1. e + i \in e + 1 .. k - 1
      BY <1>8
    <3> QED BY <1>4, <3>1 DEF Skips
  <2> QED BY <1>1, <2>1, <2>2
<1>12. rest = nl \o SubSeq(text, k, Len(text))
  <2> DEFINE u == SubSeq(text, k, Len(text))
             v == nl \o u
  <2>1. u \in Seq(Piece) /\ Len(u) = (Len(text) + 1) - k
        /\ \A i \in 1 .. Len(u) : u[i] = text[(k - 1) + i]
    BY <1>1, <1>8
  <2>2. /\ nl \in Seq(Piece) /\ Len(nl) = (k - 1) - e
        /\ \A i \in 1 .. Len(nl) : nl[i] = text[e + i]
    BY <1>1, <1>8
  <2>3. rest \in Seq(Piece) /\ Len(rest) = Len(text) - e
        /\ \A i \in 1 .. Len(rest) : rest[i] = text[e + i]
    BY <1>1, <1>8
  <2> HIDE DEF nl, u, rest
  <2>4. /\ v \in Seq(Piece) /\ Len(v) = Len(nl) + Len(u) /\ Len(nl) \in Nat /\ Len(u) \in Nat
        /\ \A i \in 1 .. Len(nl) : v[i] = nl[i]
        /\ \A i \in 1 .. Len(u) : v[Len(nl) + i] = u[i]
    <3>1. ASSUME NEW x \in Seq(Piece), NEW y \in Seq(Piece)
          PROVE  /\ x \o y \in Seq(Piece) /\ Len(x \o y) = Len(x) + Len(y)
                 /\ Len(x) \in Nat /\ Len(y) \in Nat
                 /\ \A i \in 1 .. Len(x) : (x \o y)[i] = x[i]
                 /\ \A i \in 1 .. Len(y) : (x \o y)[Len(x) + i] = y[i]
      BY ConcatIs
    <3>2. nl \in Seq(Piece) /\ u \in Seq(Piece)
      BY <2>1, <2>2
    <3> QED BY <3>1, <3>2, Zenon
  <2> HIDE DEF v
  <2>5. Len(v) = Len(rest)
    BY <1>1, <1>8, <2>1, <2>2, <2>3, <2>4
  <2>6. ASSUME NEW i \in 1 .. Len(v) PROVE v[i] = rest[i]
    <3>1. CASE i <= Len(nl)
      BY <2>2, <2>3, <2>4, <2>5, <3>1
    <3>2. CASE i > Len(nl)
      <4>1. /\ i - Len(nl) \in 1 .. Len(u) /\ Len(nl) + (i - Len(nl)) = i
            /\ (k - 1) + (i - Len(nl)) = e + i
        BY <1>8, <2>2, <2>4, <3>2
      <4>2. v[i] = text[e + i]
        BY <2>1, <2>4, <4>1
      <4> QED BY <2>3, <2>5, <4>2
    <3> QED BY <2>4, <3>1, <3>2
  <2>7. v = rest
    BY <2>3, <2>4, <2>5, <2>6, SeqEqual
  <2> QED BY <2>7 DEF v, u
<1> HIDE DEF pre, rest, post, nl
<1>13. rest = nl \o post
  BY <1>5, <1>12
<1>14. Mine(rest) = Mine(post) /\ Sourced(rest) = Sourced(post)
  <2>1. Mine(nl) = <<>> /\ Sourced(nl) = {}
    BY <1>11, NewlinesOnly
  <2>2. Mine(rest) = Mine(nl) \o Mine(post) /\ Sourced(rest) = Sourced(nl) \cup Sourced(post)
    BY <1>10, <1>11, <1>13, MineOfConcat, SourcedOfConcat
  <2>3. <<>> \o Mine(post) = Mine(post)
    BY <1>1, <1>10, MineType, EmptyConcat
  <2> QED BY <2>1, <2>2, <2>3
<1>15. rest \in Text
  BY <1>1, <1>10, <1>11, <1>13, ConcatIs
<1>16. /\ Mine(Outside(text)) = Mine(pre) \o Mine(post)
       /\ Sourced(Outside(text)) = Sourced(pre) \cup Sourced(post)
  <2>1. /\ Mine(pre \o rest) = Mine(pre) \o Mine(rest)
        /\ Sourced(pre \o rest) = Sourced(pre) \cup Sourced(rest)
    BY <1>9, <1>15, MineOfConcat, SourcedOfConcat
  <2> QED BY <1>7, <1>14, <2>1, Zenon
<1>17. Around(text, pre, post)
  BY <1>6, <1>9, <1>10, <1>16 DEF Around
<1> QED BY <1>17
-----------------------------------------------------------------------------
LEMMA TrimRightType ==
    ASSUME NEW text \in Text
    PROVE  TrimRight(text) \in Text
<1> DEFINE T == {i \in 1 .. Len(text) : text[i] # newline}
           k == IF T # {} THEN Max(T) ELSE 0
<1>1. text \in Seq(Piece) /\ Text = Seq(Piece) /\ Len(text) \in Nat
  BY Pieces
<1>2. TrimRight(text) = SubSeq(text, 1, k)
  BY DEF TrimRight, SelectLastInSeq
<1>3. k \in 0 .. Len(text)
  <2>1. T \in SUBSET (0 .. Len(text))
    BY <1>1
  <2>2. ASSUME T # {} PROVE Max(T) \in T
    <3> HIDE DEF T
    <3> QED BY <1>1, <2>1, <2>2, MaxOfNumbers
  <2> QED BY <1>1, <2>1, <2>2
<1> HIDE DEF k
<1>4. SubSeq(text, 1, k) \in Seq(Piece)
  BY <1>1, <1>3
<1> QED BY <1>1, <1>2, <1>4

LEMMA WriteType ==
    ASSUME NEW text \in Text, NEW these
    PROVE  WriteShellProfile(text, these) \in Text
<1>1. CASE HasBegin(text) /\ End(text) = 0
  <2> DEFINE blk == Block(these)
             sep == <<newline, newline>>
             trimmed == TrimRight(text)
  <2>1. blk \in Text /\ sep \in Text /\ trimmed \in Text
    BY BlockIs, TrimRightType, Pieces DEF BlockFact
  <2>2. WriteShellProfile(text, these) = (trimmed \o sep) \o blk
    BY <1>1 DEF WriteShellProfile
  <2> HIDE DEF blk, sep, trimmed
  <2> QED BY <2>1, <2>2, Pieces, ThreeParts
<1>2. CASE HasBegin(text) => End(text) # 0
  <2>1. PICK pre, post : Around(text, pre, post)
    BY <1>2, AroundAdded, AroundReplaced
  <2> DEFINE blk == Block(these)
  <2>2. blk \in Text
    BY BlockIs DEF BlockFact
  <2>3. WriteShellProfile(text, these) = (pre \o blk) \o post /\ pre \in Text /\ post \in Text
    BY <2>1 DEF Around
  <2> HIDE DEF blk
  <2> QED BY <2>2, <2>3, Pieces, ThreeParts
<1> QED BY <1>1, <1>2

(* Writing the block keeps the user's own text, exports what `env` prints,
   and done again changes nothing. *)
LEMMA WrittenProfile ==
    ASSUME NEW text \in Text, HasBegin(text) => End(text) # 0
    PROVE  \E pre, post : Around(text, pre, post)
  BY AroundAdded, AroundReplaced

LEMMA WriteKeepsMine ==
    ASSUME NEW text \in Text, Whole(text), NEW these
    PROVE  Mine(WriteShellProfile(text, these)) = Mine(text)
<1>1. PICK pre, post : Around(text, pre, post)
  BY WrittenProfile DEF Whole
<1> DEFINE blk == Block(these)
<1>2. BlockFact(blk, these)
  BY BlockIs
<1> HIDE DEF blk
<1>3. /\ pre \in Text /\ post \in Text /\ blk \in Text
      /\ WriteShellProfile(text, these) = (pre \o blk) \o post
      /\ Mine(pre) \o Mine(post) = Mine(Outside(text))
  BY <1>1, <1>2 DEF Around, BlockFact, blk
<1>4. Mine(blk) = <<>>
  BY <1>2, MineOfNone DEF BlockFact
<1>5. pre \o blk \in Text
  BY <1>3, ConcatIs DEF Text
<1>6. Mine((pre \o blk) \o post) = (Mine(pre) \o Mine(blk)) \o Mine(post)
  BY <1>3, <1>5, MineOfConcat
<1>7. Mine(pre) \o <<>> = Mine(pre)
  BY <1>3, MineType, EmptyConcat DEF Text
<1>8. Mine(Outside(text)) = Mine(text)
  BY DEF Whole, Outside
<1> QED BY <1>3, <1>4, <1>6, <1>7, <1>8

LEMMA WriteTwice ==
    ASSUME NEW text \in Text, Whole(text), NEW these
    PROVE  LET once == WriteShellProfile(text, these)
           IN  WriteShellProfile(once, these) = once
<1>1. PICK pre, post : Around(text, pre, post)
  BY WrittenProfile DEF Whole
<1>2. WriteShellProfile(text, these) = (pre \o Block(these)) \o post
  BY <1>1 DEF Around
<1>3. WriteShellProfile((pre \o Block(these)) \o post, these) = (pre \o Block(these)) \o post
  BY <1>1, Rewritten DEF Around
<1> QED BY <1>2, <1>3

LEMMA WriteExports ==
    ASSUME NEW text \in Text, Tidy(text), NEW these
    PROVE  Sourced(WriteShellProfile(text, these)) = ToSet(EnvExports(these))
<1>1. PICK pre, post : Around(text, pre, post)
  BY WrittenProfile DEF Whole, Tidy
<1> DEFINE blk == Block(these)
<1>2. BlockFact(blk, these)
  BY BlockIs
<1> HIDE DEF blk
<1>3. /\ pre \in Text /\ post \in Text /\ blk \in Text
      /\ WriteShellProfile(text, these) = (pre \o blk) \o post
      /\ Sourced(pre) = {} /\ Sourced(post) = {}
      /\ Sourced(blk) = ToSet(EnvExports(these))
  BY <1>1, <1>2 DEF Around, BlockFact, blk, Tidy
<1>4. pre \o blk \in Text
  BY <1>3, ConcatIs DEF Text
<1>5. Sourced((pre \o blk) \o post) = (Sourced(pre) \cup Sourced(blk)) \cup Sourced(post)
  BY <1>3, <1>4, SourcedOfConcat
<1> QED BY <1>3, <1>5
-----------------------------------------------------------------------------
USE TermAssumption, TagAssumption, SelectionsAssumption, GivenAssumption

(* The commands.  What a record of a job is made of. *)
LEMMA JobFields ==
    ASSUME NEW j \in Job
    PROVE  /\ j.op \in Op \cup {"none"} /\ j.cfg \in Config /\ j.fresh \in BOOLEAN
           /\ j.agents \in SUBSET Agent /\ j.write \in BOOLEAN /\ j.tidy \in BOOLEAN
           /\ j.tag \in Tag \cup {"none"} /\ j.force \in BOOLEAN
           /\ j.todo \in SUBSET Entry /\ j.open \in Entry \cup {"none"}
           /\ j.fd \in {"none", "tmp", "model", "gone"}
  BY DEF Job

LEMMA IdleIsJob == Idle \in Job /\ Default \in Config
  BY DEF Idle, Job, Place, Default, Config, Upstream, Op

LEMMA Files == Absent \in File /\ Full \in File /\ \A t \in Term : Opened(t) \in File
  BY DEF Absent, Full, Opened, File

LEMMA StartsLeft ==
    ASSUME NEW t, NEW op \in Op, NEW j, Starts(t, op, j), left \in [Op -> Nat]
    PROVE  left' \in [Op -> Nat]
<1>1. left[op] \in Nat /\ left[op] - 1 \in Nat
  BY DEF Starts
<1> QED BY <1>1 DEF Starts

(* A job stays one when its place or its freshness changes. *)
LEMMA JobAt ==
    ASSUME NEW j \in Job, NEW at \in Place
    PROVE  [j EXCEPT !.at = at] \in Job
  BY DEF Job

LEMMA JobTidy ==
    ASSUME NEW j \in Job, NEW at \in Place, NEW b \in BOOLEAN
    PROVE  [j EXCEPT !.at = at, !.tidy = b] \in Job
  BY DEF Job

LEMMA JobFresh ==
    ASSUME NEW j \in Job
    PROVE  [j EXCEPT !.fresh = IF j.op = "none" THEN @ ELSE FALSE] \in Job
<1>1. j.fresh \in BOOLEAN
  BY DEF Job
<1>2. CASE j.op = "none"
  BY <1>1, <1>2 DEF Job
<1>3. CASE j.op # "none"
  BY <1>3 DEF Job
<1> QED BY <1>2, <1>3

LEMMA OutdatedType ==
    ASSUME TypeOK, NEW t \in Term, NEW at \in Place, Outdated(t, at)
    PROVE  job' \in [Term -> Job]
<1>1. ASSUME NEW u \in Term PROVE job'[u] \in Job
  <2>1. job[u] \in Job /\ job[t] \in Job
    BY DEF TypeOK
  <2>2. CASE u = t
    BY <2>1, <2>2, JobAt, IdleIsJob DEF Outdated
  <2>3. CASE u # t
    BY <2>1, <2>3, JobFresh DEF Outdated
  <2> QED BY <2>2, <2>3
<1>2. job' = [u \in Term |-> job'[u]]
  BY DEF Outdated
<1> QED BY <1>1, <1>2

LEMMA LoadIsConfig == TypeOK /\ Loads => Load \in Config
  BY IdleIsJob DEF TypeOK, Load, Loads

LEMMA TypeInit == Init => TypeOK
<1> SUFFICES ASSUME Init PROVE TypeOK
  OBVIOUS
<1>1. bin \in [Tag -> [Entry -> File]] /\ model \in File /\ tmp \in File
  BY Files DEF Init
<1>2. job \in [Term -> Job]
  BY IdleIsJob DEF Init
<1>3. settings \in Settings /\ left \in [Op -> Nat]
  BY DEF Init
<1>4. last \in Outcome
  BY DEF Init, None, Outcome
<1> QED BY <1>1, <1>2, <1>3, <1>4 DEF Init, TypeOK
-----------------------------------------------------------------------------
LEMMA PartlyType ==
    ASSUME NEW cfg \in Config
    PROVE  Partly(cfg) \subseteq Config \cup {Broken}
<1>1. Default \in Config
  BY IdleIsJob
<1>2. [Default EXCEPT !.upstream = cfg.upstream] \in Config /\ [Default EXCEPT !.upstream = "cut"] \in Config
  BY <1>1 DEF Config
<1>3. [cfg EXCEPT !.paths = "none"] \in Config /\ [cfg EXCEPT !.paths = "cut"] \in Config
  BY DEF Config
<1> QED BY <1>2, <1>3 DEF Partly

LEMMA TypeConfig ==
    ASSUME TypeOK, NEW t \in Term, Truncate(t) \/ Save(t) \/ SaveFails(t) \/ InitConfig(t)
    PROVE  TypeOK'
<1>1. CASE Truncate(t)
  <2>1. job' \in [Term -> Job]
    BY <1>1, OutdatedType DEF Truncate, Place
  <2> QED BY <1>1, <2>1, IdleIsJob DEF Truncate, TypeOK, files, home
<1>2. CASE Save(t)
  <2>1. job' \in [Term -> Job]
    BY <1>2, OutdatedType DEF Save, Place
  <2>2. Change(t) \in Config \cup {NoConfig}
    BY IdleIsJob DEF Change, TypeOK, Job, Config
  <2>3. job[t].cfg \in Config
    BY DEF TypeOK, Job
  <2> QED BY <1>2, <2>1, <2>2, <2>3 DEF Save, TypeOK, files, home
<1>3. CASE InitConfig(t)
  <2>1. PICK up \in Upstream \ {""} :
          Starts(t, "init", [Idle EXCEPT !.op = "init", !.at = "truncate",
                                         !.cfg = [Default EXCEPT !.upstream = up]])
    BY <1>3 DEF InitConfig
  <2>2. [Idle EXCEPT !.op = "init", !.at = "truncate",
                     !.cfg = [Default EXCEPT !.upstream = up]] \in Job
    BY DEF Idle, Job, Place, Default, Config, Op
  <2>3. job' \in [Term -> Job]
    BY <2>1, <2>2 DEF Starts, TypeOK
  <2>4. left' \in [Op -> Nat]
    BY <2>1, StartsLeft DEF TypeOK, Op
  <2> QED BY <1>3, <2>3, <2>4 DEF InitConfig, TypeOK, files, home, past
<1>4. CASE SaveFails(t)
  <2>1. job' \in [Term -> Job]
    BY <1>4, OutdatedType DEF SaveFails, Place
  <2>2. job[t].cfg \in Config
    BY DEF TypeOK, Job
  <2>3. config' \in Config \cup {Broken}
    BY <1>4, <2>2, PartlyType DEF SaveFails
  <2> QED BY <1>4, <2>1, <2>3 DEF SaveFails, TypeOK, files, home
<1> QED BY <1>1, <1>2, <1>3, <1>4
-----------------------------------------------------------------------------
LEMMA GotoType ==
    ASSUME TypeOK, NEW t \in Term, NEW from, NEW at \in Place, Goto(t, from, at)
    PROVE  job' \in [Term -> Job]
  BY JobAt DEF Goto, TypeOK

LEMMA OverType ==
    ASSUME TypeOK, NEW t \in Term, Over(t)
    PROVE  job' \in [Term -> Job]
  BY IdleIsJob DEF Over, TypeOK

LEMMA ResolvedIsUpstream ==
    ASSUME NEW chosen, NEW flag \in Flag, NEW up \in ResolveUpstream(chosen, flag)
    PROVE  up \in Upstream
  BY DEF ResolveUpstream, Upstream

LEMMA MergedIsSettings ==
    ASSUME NEW s \in Settings
    PROVE  MergeJSONEnv(s) \in Settings
<1>1. s.other \in {"none", "string", "number", "blank"}
  BY DEF Settings
<1> QED BY <1>1 DEF MergeJSONEnv, Settings

LEMMA BeginningsType ==
    ASSUME NEW text \in Text
    PROVE  Beginnings(text) \subseteq Text
<1>1. text \in Seq(Piece) /\ Text = Seq(Piece)
  BY Pieces
<1>2. ASSUME NEW k \in 0 .. Len(text) PROVE SubSeq(text, 1, k) \in Seq(Piece)
  BY <1>1
<1> QED BY <1>1, <1>2 DEF Beginnings, Prefixes

LEMMA BrokenIsSettings == BrokenSettings \in Settings
  BY DEF BrokenSettings, Settings

LEMMA TypeInstall ==
    ASSUME TypeOK, NEW t \in Term,
           \/ Install(t) \/ SaveAgents(t) \/ WriteProfile(t) \/ ProfileFails(t)
           \/ MergeSettings(t) \/ SettingsFail(t) \/ LeaveSettings(t) \/ Panic(t) \/ CutShort(t)
    PROVE  TypeOK'
<1> USE DEF files, past, Rest
<1>0. job[t].agents \in SUBSET Agent /\ job[t].tidy \in BOOLEAN
  BY DEF TypeOK, Job
<1>1. CASE Install(t)
  <2>1. PICK chosen \in Selections, flag \in Flag, write \in BOOLEAN :
          \E up \in ResolveUpstream(chosen, flag) :
             Starts(t, "install", [Idle EXCEPT !.op = "install", !.at = "truncate",
                                               !.cfg = WithUpstream(up),
                                               !.agents = chosen, !.write = write])
    BY <1>1 DEF Install
  <2>2. PICK up \in ResolveUpstream(chosen, flag) :
             Starts(t, "install", [Idle EXCEPT !.op = "install", !.at = "truncate",
                                               !.cfg = WithUpstream(up),
                                               !.agents = chosen, !.write = write])
    BY <2>1
  <2> DEFINE j == [Idle EXCEPT !.op = "install", !.at = "truncate",
                               !.cfg = WithUpstream(up),
                               !.agents = chosen, !.write = write]
  <2>3. WithUpstream(up) \in Config
    BY <1>1, LoadIsConfig, ResolvedIsUpstream DEF Install, WithUpstream, Config
  <2>4. j \in Job
    BY <2>3 DEF Idle, Job, Place, Op
  <2> HIDE DEF j
  <2>5. Starts(t, "install", j)
    BY <2>2 DEF j
  <2>6. job' \in [Term -> Job]
    BY <2>4, <2>5 DEF Starts, TypeOK
  <2>7. left' \in [Op -> Nat]
    BY <2>5, StartsLeft DEF TypeOK, Op
  <2>8. last' \in Outcome
    BY <1>1 DEF Install, None, Outcome
  <2> QED BY <1>1, <2>6, <2>7, <2>8 DEF Install, TypeOK
<1>2. CASE SaveAgents(t)
  <2>1. job' \in [Term -> Job]
    BY <1>2, GotoType DEF SaveAgents, Place
  <2> QED BY <1>0, <1>2, <2>1 DEF SaveAgents, TypeOK
<1>3. CASE WriteProfile(t)
  <2>1. Tidy(profile) \in BOOLEAN
    BY DEF Tidy
  <2>2. [job[t] EXCEPT !.at = "settings", !.tidy = Tidy(profile)] \in Job
    BY <2>1, JobTidy DEF TypeOK, Place
  <2>3. job' \in [Term -> Job]
    BY <1>3, <2>2 DEF WriteProfile, TypeOK
  <2>4. profile' \in Text
    BY <1>3, WriteType DEF WriteProfile, TypeOK
  <2> QED BY <1>3, <2>3, <2>4 DEF WriteProfile, TypeOK
<1>4. CASE ProfileFails(t)
  <2>1. job' \in [Term -> Job]
    BY <1>4, GotoType DEF ProfileFails, Place
  <2>2. WriteShellProfile(profile, job[t].agents) \in Text
    BY WriteType DEF TypeOK
  <2>3. profile' \in Text
    BY <1>4, <2>2, BeginningsType DEF ProfileFails, TypeOK
  <2> QED BY <1>4, <2>1, <2>3 DEF ProfileFails, TypeOK
<1>5. ASSUME NEW w \in BOOLEAN, Ends(t, w)
      PROVE  job' \in [Term -> Job] /\ last' \in Outcome
  BY <1>0, <1>5, OverType DEF Ends, Outcome
<1>6. CASE MergeSettings(t)
  <2>1. settings' \in Settings
    BY <1>6, MergedIsSettings DEF MergeSettings, TypeOK
  <2> QED BY <1>5, <1>6, <2>1 DEF MergeSettings, TypeOK
<1>7. CASE LeaveSettings(t)
  <2>1. ("claude" \in job[t].agents) \in BOOLEAN
    OBVIOUS
  <2>2. job' \in [Term -> Job] /\ last' \in Outcome
    BY <1>5, <1>7, <2>1 DEF LeaveSettings
  <2> QED BY <1>7, <2>2 DEF LeaveSettings, TypeOK
<1>8. CASE Panic(t)
  BY <1>8, OverType DEF Panic, TypeOK, home
<1>9. CASE CutShort(t)
  <2>1. job' \in [Term -> Job]
    BY <1>9, OverType DEF CutShort
  <2>2. WriteShellProfile(profile, job[t].agents) \in Text
    BY WriteType DEF TypeOK
  <2>3. settings' \in Settings
    BY <1>9, BrokenIsSettings DEF CutShort, TypeOK
  <2>4. agents' \subseteq Agent
    BY <1>0, <1>9 DEF CutShort, TypeOK
  <2>5. profile' \in Text
    BY <1>9, <2>2, BeginningsType DEF CutShort, TypeOK
  <2> QED BY <1>9, <2>1, <2>3, <2>4, <2>5 DEF CutShort, TypeOK
<1>10. CASE SettingsFail(t)
  <2>1. job' \in [Term -> Job] /\ last' \in Outcome
    BY <1>5, <1>10 DEF SettingsFail
  <2> QED BY <1>10, <2>1, BrokenIsSettings DEF SettingsFail, TypeOK
<1> QED BY <1>1, <1>2, <1>3, <1>4, <1>6, <1>7, <1>8, <1>9, <1>10
-----------------------------------------------------------------------------
LEMMA WithPathsType ==
    ASSUME NEW t \in Term, job[t] \in Job, NEW yes \in BOOLEAN
    PROVE  WithPaths(t, yes) \in Config
<1>1. (job[t].cfg.enabled \/ yes) \in BOOLEAN
  OBVIOUS
<1>2. ASSUME NEW b \in BOOLEAN
      PROVE  [job[t].cfg EXCEPT !.paths = job[t].tag, !.enabled = b] \in Config
  BY DEF Job, Config
<1>3. WithPaths(t, yes)
        = [job[t].cfg EXCEPT !.paths = job[t].tag, !.enabled = job[t].cfg.enabled \/ yes]
  BY Zenon DEF WithPaths
<1> QED BY <1>1, <1>2, <1>3

LEMMA OpenedType ==
    ASSUME bin \in [Tag -> [Entry -> File]], NEW b \in Tag, NEW f \in Entry, NEW file \in File
    PROVE  [bin EXCEPT ![b][f] = file] \in [Tag -> [Entry -> File]]
<1>1. [bin[b] EXCEPT ![f] = file] \in [Entry -> File]
  OBVIOUS
<1> QED BY <1>1

LEMMA WrittenType ==
    ASSUME NEW t, NEW file \in File
    PROVE  Written(t, file) \subseteq File
  BY Files DEF Written

LEMMA FdType ==
    ASSUME NEW fd \in {"none", "tmp", "model", "gone"}
    PROVE  Moved(fd) \in {"none", "tmp", "model", "gone"}
           /\ Unlinked(fd) \in {"none", "tmp", "model", "gone"}
  BY DEF Moved, Unlinked

(* A pull that fails and removes .tmp. *)
FetchFails(t) == DownloadFails(t) \/ RenameFails(t)

LEMMA TypePull ==
    ASSUME TypeOK, NEW t \in Term,
           \/ Pull(t) \/ Release(t) \/ (\E f \in Entry : Extract(t, f)) \/ Extracted(t)
           \/ FindModel(t) \/ OpenTmp(t) \/ Copied(t) \/ DownloadFails(t)
           \/ Rename(t) \/ RenameFails(t) \/ Answer(t)
    PROVE  TypeOK'
<1> USE DEF files, past, home, Elsewhere
<1>0. /\ job[t] \in Job /\ job[t].todo \in SUBSET Entry
      /\ job[t].open \in Entry \cup {"none"} /\ job[t].tag \in Tag \cup {"none"}
      /\ job[t].force \in BOOLEAN
  BY DEF TypeOK, Job
<1>1. CASE Pull(t)
  <2>1. PICK force \in BOOLEAN :
          Starts(t, "pull", [Idle EXCEPT !.op = "pull", !.at = "release",
                                         !.cfg = Load, !.force = force])
    BY <1>1 DEF Pull
  <2> DEFINE j == [Idle EXCEPT !.op = "pull", !.at = "release",
                               !.cfg = Load, !.force = force]
  <2>2. j \in Job
    BY <1>1, LoadIsConfig DEF Pull, Idle, Job, Place, Op
  <2> HIDE DEF j
  <2>3. Starts(t, "pull", j)
    BY <2>1 DEF j
  <2>4. job' \in [Term -> Job] /\ left' \in [Op -> Nat]
    BY <2>2, <2>3, StartsLeft DEF Starts, TypeOK, Op
  <2> QED BY <1>1, <2>4 DEF Pull, TypeOK
<1>2. CASE Release(t)
  <2>1. PICK b \in Tag :
          job' = [job EXCEPT ![t].at = "unpack", ![t].tag = b,
                             ![t].todo = IF job[t].force \/ ~bin[b]["llama-server"].there
                                         THEN Entry ELSE {}]
    BY <1>2 DEF Release
  <2> DEFINE todo == IF job[t].force \/ ~bin[b]["llama-server"].there THEN Entry ELSE {}
  <2>2. todo \in SUBSET Entry
    OBVIOUS
  <2> HIDE DEF todo
  <2>3. job' = [job EXCEPT ![t] = [job[t] EXCEPT !.at = "unpack", !.tag = b, !.todo = todo]]
    BY <2>1 DEF todo, TypeOK
  <2>4. [job[t] EXCEPT !.at = "unpack", !.tag = b, !.todo = todo] \in Job
    BY <1>0, <2>2 DEF Job, Place
  <2>5. job' \in [Term -> Job]
    BY <2>3, <2>4 DEF TypeOK
  <2> QED BY <1>2, <2>5 DEF Release, TypeOK
<1>3. ASSUME NEW f \in Entry, Extract(t, f) PROVE TypeOK'
  <2>1. bin' \in [Tag -> [Entry -> File]]
    <3>1. bin' = [bin EXCEPT ![job[t].tag][f] = Opened(t)]
      BY <1>3 DEF Extract
    <3>2. CASE job[t].tag \in Tag
      BY <3>1, <3>2, Files, OpenedType DEF TypeOK
    <3>3. CASE job[t].tag \notin Tag
      BY <3>1, <3>3 DEF TypeOK
    <3> QED BY <3>2, <3>3
  <2>2. job' = [job EXCEPT ![t] = [job[t] EXCEPT !.open = f, !.todo = @ \ {f}]]
    BY <1>3 DEF Extract, TypeOK
  <2>3. job[t].todo \ {f} \in SUBSET Entry
    BY <1>0
  <2>4. [job[t] EXCEPT !.open = f, !.todo = @ \ {f}] \in Job
    BY <1>0, <2>3 DEF Job
  <2>5. job' \in [Term -> Job]
    BY <2>2, <2>4 DEF TypeOK
  <2> QED BY <1>3, <2>1, <2>5 DEF Extract, TypeOK
<1>4. CASE Extracted(t)
  <2>1. PICK file \in Written(t, bin[job[t].tag][job[t].open]) :
          /\ bin' = [bin EXCEPT ![job[t].tag][job[t].open] = file]
          /\ cut' = IF file = Full THEN cut \ {<<job[t].tag, job[t].open>>} ELSE cut
    BY <1>4 DEF Extracted
  <2>2. bin' \in [Tag -> [Entry -> File]]
    <3>1. CASE job[t].tag \in Tag
      <4>1. job[t].open \in Entry
        BY <1>0, <1>4 DEF Extracted
      <4>2. bin[job[t].tag][job[t].open] \in File
        BY <3>1, <4>1 DEF TypeOK
      <4>3. file \in File
        BY <4>2, WrittenType
      <4> QED BY <2>1, <3>1, <4>1, <4>3, OpenedType DEF TypeOK
    <3>2. CASE job[t].tag \notin Tag
      BY <2>1, <3>2 DEF TypeOK
    <3> QED BY <3>1, <3>2
  <2>3. job' = [job EXCEPT ![t] = [job[t] EXCEPT !.open = "none"]]
    BY <1>4 DEF Extracted, TypeOK
  <2>4. [job[t] EXCEPT !.open = "none"] \in Job
    BY <1>0 DEF Job
  <2>5. job' \in [Term -> Job]
    BY <2>3, <2>4 DEF TypeOK
  <2>6. cut' \subseteq Tag \X Entry
    BY <2>1 DEF TypeOK
  <2> QED BY <1>4, <2>2, <2>5, <2>6 DEF Extracted, TypeOK
<1>5. CASE FindModel(t)
  <2>1. job' \in [Term -> Job]
    BY <1>5, GotoType DEF FindModel, Place
  <2> QED BY <1>5, <2>1 DEF FindModel, TypeOK
<1>6. CASE OpenTmp(t)
  <2>1. job' = [job EXCEPT ![t] = [job[t] EXCEPT !.at = "copy", !.fd = "tmp"]]
    BY <1>6 DEF OpenTmp, TypeOK
  <2>2. [job[t] EXCEPT !.at = "copy", !.fd = "tmp"] \in Job
    BY <1>0 DEF Job, Place
  <2>3. job' \in [Term -> Job]
    BY <2>1, <2>2 DEF TypeOK
  <2>4. (overlap \/ \E u \in Term \ {t} : job[u].at \in {"copy", "rename"}) \in BOOLEAN
    OBVIOUS
  <2> QED BY <1>6, <2>3, <2>4, Files DEF OpenTmp, TypeOK
<1>7. CASE Copied(t)
  <2>1. job' = [job EXCEPT ![t] = [job[t] EXCEPT !.at = "rename", !.fd = "none"]]
    BY <1>7 DEF Copied, TypeOK
  <2>2. [job[t] EXCEPT !.at = "rename", !.fd = "none"] \in Job
    BY <1>0 DEF Job, Place
  <2>3. job' \in [Term -> Job]
    BY <2>1, <2>2 DEF TypeOK
  <2>4. tmp' \in File /\ model' \in File
    BY <1>7, WrittenType DEF Copied, TypeOK
  <2> QED BY <1>7, <2>3, <2>4 DEF Copied, TypeOK
<1>8. CASE FetchFails(t)
  <2>1. ASSUME NEW u \in Term PROVE job'[u] \in Job
    <3>1. job[u] \in Job /\ job[u].fd \in {"none", "tmp", "model", "gone"}
      BY DEF TypeOK, Job
    <3>2. [job[u] EXCEPT !.fd = Unlinked(job[u].fd)] \in Job
      BY <3>1, FdType DEF Job
    <3>3. job'[u] = IF u = t THEN Idle ELSE [job[u] EXCEPT !.fd = Unlinked(job[u].fd)]
      BY <1>8 DEF FetchFails, DownloadFails, RenameFails, GivesUp
    <3> QED BY <3>2, <3>3, IdleIsJob
  <2>2. job' = [u \in Term |-> job'[u]]
    BY <1>8 DEF FetchFails, DownloadFails, RenameFails, GivesUp
  <2>3. job' \in [Term -> Job]
    BY <2>1, <2>2
  <2> QED BY <1>8, <2>3, Files DEF FetchFails, DownloadFails, RenameFails, GivesUp, TypeOK
<1>9. CASE Rename(t)
  <2>1. ASSUME NEW u \in Term PROVE job'[u] \in Job
    <3>1. job[u] \in Job /\ job[u].fd \in {"none", "tmp", "model", "gone"}
      BY DEF TypeOK, Job
    <3>2. [job[u] EXCEPT !.fd = Moved(job[u].fd)] \in Job
      BY <3>1, FdType DEF Job
    <3>3. job'[u] = IF u = t THEN [job[t] EXCEPT !.at = "answer"]
                    ELSE [job[u] EXCEPT !.fd = Moved(job[u].fd)]
      BY <1>9 DEF Rename
    <3> QED BY <1>0, <3>2, <3>3, JobAt DEF Place
  <2>2. job' = [u \in Term |-> job'[u]]
    BY <1>9 DEF Rename
  <2>3. job' \in [Term -> Job]
    BY <2>1, <2>2
  <2> QED BY <1>9, <2>3, Files DEF Rename, TypeOK
<1>11. CASE Answer(t)
  <2>1. PICK yes \in BOOLEAN :
          job' = [job EXCEPT ![t].at = "truncate", ![t].cfg = WithPaths(t, yes)]
    BY <1>11 DEF Answer
  <2> DEFINE cfg == WithPaths(t, yes)
  <2>2. cfg \in Config
    BY <1>0, WithPathsType
  <2> HIDE DEF cfg
  <2>3. job' = [job EXCEPT ![t] = [job[t] EXCEPT !.at = "truncate", !.cfg = cfg]]
    BY <2>1 DEF TypeOK, cfg
  <2>4. [job[t] EXCEPT !.at = "truncate", !.cfg = cfg] \in Job
    BY <1>0, <2>2 DEF Job, Place
  <2>5. job' \in [Term -> Job]
    BY <2>3, <2>4 DEF TypeOK
  <2> QED BY <1>11, <2>5 DEF Answer, TypeOK
<1> QED BY <1>1, <1>2, <1>3, <1>4, <1>5, <1>6, <1>7, <1>8, <1>9, <1>11 DEF FetchFails

(* A pull knows its release from the start of the extraction on. *)
HasRelease ==
    \A t \in Term : job[t].at \in {"unpack", "open", "copy", "rename", "answer"}
                     => job[t].tag \in Tag

LEMMA TypeDies ==
    ASSUME TypeOK, HasRelease, NEW t \in Term, Dies(t)
    PROVE  TypeOK'
<1>1. job' \in [Term -> Job]
  BY OverType DEF Dies
<1>2. (lost \/ job[t].at = "save") \in BOOLEAN
  OBVIOUS
<1>3. cut' \subseteq Tag \X Entry
  <2>1. job[t].todo \subseteq Entry
    BY DEF TypeOK, Job
  <2>2. LeftOut(t) \subseteq Tag \X Entry
    BY <2>1 DEF LeftOut, HasRelease
  <2> QED BY <2>2 DEF Dies, TypeOK
<1> QED BY <1>1, <1>2, <1>3 DEF Dies, TypeOK, files, home

LEMMA TypeNext == TypeOK /\ HasRelease /\ [Next]_vars => TypeOK'
<1> SUFFICES ASSUME TypeOK, HasRelease, [Next]_vars PROVE TypeOK'
  OBVIOUS
<1>1. CASE Next
  BY <1>1, TypeConfig, TypeInstall, TypePull, TypeDies DEF Next
<1>2. CASE UNCHANGED vars
  BY <1>2 DEF vars, TypeOK
<1> QED BY <1>1, <1>2
-----------------------------------------------------------------------------
(* One step of the command in t. *)
Step(t) ==
    \/ Install(t) \/ InitConfig(t) \/ Pull(t) \/ Truncate(t) \/ Save(t) \/ SaveFails(t)
    \/ SaveAgents(t) \/ WriteProfile(t) \/ ProfileFails(t)
    \/ MergeSettings(t) \/ SettingsFail(t) \/ LeaveSettings(t) \/ Panic(t) \/ CutShort(t)
    \/ Release(t) \/ (\E f \in Entry : Extract(t, f)) \/ Extracted(t)
    \/ FindModel(t) \/ OpenTmp(t) \/ Copied(t) \/ FetchFails(t)
    \/ Rename(t) \/ Answer(t) \/ Dies(t)

LEMMA NextIsStep == Next <=> \E t \in Term : Step(t)
  BY DEF Next, Step, FetchFails

LEMMA Started ==
    ASSUME TypeOK, NEW t \in Term, Install(t) \/ InitConfig(t) \/ Pull(t)
    PROVE  /\ job[t] = Idle /\ job'[t].at \in {"truncate", "release"} /\ ~job'[t].tidy
           /\ \A u \in Term \ {t} : job'[u] = job[u]
           /\ UNCHANGED <<bin, model, tmp, overlap>>
<1>1. ASSUME NEW op, NEW j, Starts(t, op, j)
      PROVE  job[t] = Idle /\ job'[t] = j /\ \A u \in Term \ {t} : job'[u] = job[u]
  BY <1>1 DEF Starts, TypeOK
<1>2. CASE Install(t)
  <2>1. PICK chosen \in Selections, flag \in Flag, write \in BOOLEAN :
          \E up \in ResolveUpstream(chosen, flag) :
             Starts(t, "install", [Idle EXCEPT !.op = "install", !.at = "truncate",
                                               !.cfg = WithUpstream(up),
                                               !.agents = chosen, !.write = write])
    BY <1>2 DEF Install
  <2>2. PICK up \in ResolveUpstream(chosen, flag) :
             Starts(t, "install", [Idle EXCEPT !.op = "install", !.at = "truncate",
                                               !.cfg = WithUpstream(up),
                                               !.agents = chosen, !.write = write])
    BY <2>1
  <2>3. /\ job[t] = Idle /\ \A u \in Term \ {t} : job'[u] = job[u]
        /\ job'[t] = [Idle EXCEPT !.op = "install", !.at = "truncate", !.cfg = WithUpstream(up),
                                  !.agents = chosen, !.write = write]
    BY <1>1, <2>2
  <2>4. job'[t].at = "truncate" /\ ~job'[t].tidy
    BY <2>3 DEF Idle
  <2> QED BY <1>2, <2>3, <2>4 DEF Install, files
<1>3. CASE InitConfig(t)
  <2>1. PICK up \in Upstream \ {""} :
          Starts(t, "init", [Idle EXCEPT !.op = "init", !.at = "truncate",
                                         !.cfg = [Default EXCEPT !.upstream = up]])
    BY <1>3 DEF InitConfig
  <2>2. /\ job[t] = Idle /\ \A u \in Term \ {t} : job'[u] = job[u]
        /\ job'[t] = [Idle EXCEPT !.op = "init", !.at = "truncate",
                                  !.cfg = [Default EXCEPT !.upstream = up]]
    BY <1>1, <2>1
  <2>3. job'[t].at = "truncate" /\ ~job'[t].tidy
    BY <2>2 DEF Idle
  <2> QED BY <1>3, <2>2, <2>3 DEF InitConfig, files
<1>4. CASE Pull(t)
  <2>1. PICK force \in BOOLEAN :
          Starts(t, "pull", [Idle EXCEPT !.op = "pull", !.at = "release",
                                         !.cfg = Load, !.force = force])
    BY <1>4 DEF Pull
  <2>2. /\ job[t] = Idle /\ \A u \in Term \ {t} : job'[u] = job[u]
        /\ job'[t] = [Idle EXCEPT !.op = "pull", !.at = "release", !.cfg = Load, !.force = force]
    BY <1>1, <2>1
  <2>3. job'[t].at = "release" /\ ~job'[t].tidy
    BY <2>2 DEF Idle
  <2> QED BY <1>4, <2>2, <2>3 DEF Pull, files
<1> QED BY <1>2, <1>3, <1>4

(* The steps that do not lead into a download, or end it. *)
OtherStep(t) ==
    \/ Install(t) \/ InitConfig(t) \/ Pull(t) \/ Truncate(t) \/ Save(t) \/ SaveFails(t)
    \/ SaveAgents(t) \/ WriteProfile(t) \/ ProfileFails(t)
    \/ MergeSettings(t) \/ SettingsFail(t) \/ LeaveSettings(t) \/ Panic(t) \/ CutShort(t)
    \/ Dies(t)

(* A step leaves the command of another terminal as it is, but for the file
   its download goes to and whether config.yaml is as it was loaded. *)
LEMMA OthersStay ==
    ASSUME TypeOK, NEW t \in Term, NEW u \in Term \ {t}, Step(t)
    PROVE  /\ job'[u].at = job[u].at /\ job'[u].tag = job[u].tag /\ job'[u].op = job[u].op
           /\ job'[u].todo = job[u].todo /\ job'[u].open = job[u].open
           /\ job'[u].cfg = job[u].cfg
           /\ job'[u].agents = job[u].agents /\ job'[u].tidy = job[u].tidy
           /\ FetchFails(t) => job'[u].fd = Unlinked(job[u].fd)
           /\ Rename(t) => job'[u].fd = Moved(job[u].fd)
           /\ \/ OtherStep(t) \/ Release(t) \/ (\E f \in Entry : Extract(t, f)) \/ Extracted(t)
              \/ FindModel(t) \/ OpenTmp(t) \/ Copied(t) \/ Answer(t)
              => job'[u].fd = job[u].fd
<1>0. job \in [Term -> Job] /\ job[u] \in Job
  BY DEF TypeOK
<1>1. ASSUME Install(t) \/ InitConfig(t) \/ Pull(t)
      PROVE  job'[u] = job[u]
  BY <1>1, Started
<1>2. ASSUME Truncate(t) \/ Save(t) \/ SaveFails(t)
      PROVE  job'[u] = [job[u] EXCEPT !.fresh = IF job[u].op = "none" THEN @ ELSE FALSE]
  BY <1>0, <1>2 DEF Truncate, Save, SaveFails, Outdated
<1>3. ASSUME \/ SaveAgents(t) \/ WriteProfile(t) \/ ProfileFails(t)
             \/ MergeSettings(t) \/ SettingsFail(t) \/ LeaveSettings(t) \/ Panic(t) \/ CutShort(t)
      PROVE  job'[u] = job[u]
  BY <1>0, <1>3 DEF SaveAgents, WriteProfile, ProfileFails, MergeSettings, SettingsFail,
                    LeaveSettings,
                    Panic, CutShort, Goto, Ends, Over
<1>4. ASSUME \/ Release(t) \/ (\E f \in Entry : Extract(t, f)) \/ Extracted(t)
             \/ FindModel(t) \/ OpenTmp(t) \/ Copied(t)
             \/ Answer(t) \/ Dies(t)
      PROVE  job'[u] = job[u]
  BY <1>0, <1>4 DEF Release, Extract, Extracted, FindModel, OpenTmp, Copied,
                    Answer, Dies, Goto, Over
<1>5. ASSUME FetchFails(t)
      PROVE  job'[u] = [job[u] EXCEPT !.fd = Unlinked(@)]
  BY <1>0, <1>5 DEF FetchFails, DownloadFails, RenameFails, GivesUp
<1>6. ASSUME Rename(t)
      PROVE  job'[u] = [job[u] EXCEPT !.fd = Moved(@)]
  BY <1>0, <1>6 DEF Rename
<1>8. \/ OtherStep(t) \/ Release(t) \/ (\E f \in Entry : Extract(t, f)) \/ Extracted(t)
      \/ FindModel(t) \/ OpenTmp(t) \/ Copied(t) \/ Answer(t)
      => job'[u].fd = job[u].fd
  <2>1. CASE Truncate(t) \/ Save(t) \/ SaveFails(t)
    BY <1>0, <1>2, <2>1 DEF Job
  <2> QED BY <1>1, <1>3, <1>4, <2>1 DEF OtherStep
<1>9. FetchFails(t) => job'[u].fd = Unlinked(job[u].fd)
  BY <1>0, <1>5 DEF Job
<1>10. Rename(t) => job'[u].fd = Moved(job[u].fd)
  BY <1>0, <1>6 DEF Job
<1>11. /\ job'[u].at = job[u].at /\ job'[u].tag = job[u].tag /\ job'[u].op = job[u].op
       /\ job'[u].todo = job[u].todo /\ job'[u].open = job[u].open
       /\ job'[u].cfg = job[u].cfg
       /\ job'[u].agents = job[u].agents /\ job'[u].tidy = job[u].tidy
  <2>2. CASE Truncate(t) \/ Save(t) \/ SaveFails(t)
    BY <1>0, <1>2, <2>2 DEF Job
  <2>3. CASE FetchFails(t)
    BY <1>0, <1>5, <2>3 DEF Job
  <2>4. CASE Rename(t)
    BY <1>0, <1>6, <2>4 DEF Job
  <2> QED BY <1>1, <1>3, <1>4, <2>2, <2>3, <2>4 DEF Step
<1> QED BY <1>8, <1>9, <1>10, <1>11

LEMMA OutdatedAt ==
    ASSUME TypeOK, NEW t \in Term, NEW at, Outdated(t, at)
    PROVE  job'[t].at = at
<1>1. CASE at = "idle"
  BY <1>1 DEF Outdated, Idle
<1>2. CASE at # "idle"
  BY <1>2 DEF Outdated, TypeOK, Job
<1> QED BY <1>1, <1>2

LEMMA OtherStepLeaves ==
    ASSUME TypeOK, NEW t \in Term, OtherStep(t)
    PROVE  /\ job'[t].at \notin {"unpack", "open", "copy", "rename", "answer"}
           /\ UNCHANGED <<bin, model, tmp, overlap>>
<1>0. job \in [Term -> Job] /\ job[t] \in Job
  BY DEF TypeOK
<1>1. CASE Install(t) \/ InitConfig(t) \/ Pull(t)
  BY <1>1, Started
<1>2. CASE Truncate(t) \/ Save(t) \/ SaveFails(t)
  <2>2. job'[t].at \in {"save", "agents", "idle"}
    BY <1>2, OutdatedAt DEF Truncate, Save, SaveFails
  <2> QED BY <1>2, <2>2 DEF Truncate, Save, SaveFails, files
<1>3. CASE SaveAgents(t) \/ WriteProfile(t) \/ ProfileFails(t)
  <2>1. job'[t].at \in {"profile", "settings"}
    BY <1>0, <1>3 DEF SaveAgents, WriteProfile, ProfileFails, Goto, Job
  <2> QED BY <1>3, <2>1 DEF SaveAgents, WriteProfile, ProfileFails, Rest, files
<1>4. CASE MergeSettings(t) \/ SettingsFail(t) \/ LeaveSettings(t) \/ Panic(t) \/ CutShort(t)
  <2>1. job'[t] = Idle
    BY <1>0, <1>4 DEF MergeSettings, SettingsFail, LeaveSettings, Panic, CutShort, Ends, Over
  <2>2. Rest
    BY <1>4 DEF MergeSettings, SettingsFail, LeaveSettings, Panic, CutShort
  <2>3. job'[t].at = "idle"
    BY <2>1 DEF Idle
  <2> QED BY <2>2, <2>3 DEF Rest, files
<1>5. CASE Dies(t)
  <2>1. job'[t] = Idle
    BY <1>0, <1>5 DEF Dies, Over
  <2> QED BY <1>5, <2>1 DEF Dies, files, Idle
<1> QED BY <1>1, <1>2, <1>3, <1>4, <1>5 DEF OtherStep

LEMMA FailedLeaves ==
    ASSUME TypeOK, NEW t \in Term, FetchFails(t)
    PROVE  job'[t] = Idle /\ tmp' = Absent /\ UNCHANGED <<bin, model, overlap>>
  BY DEF FetchFails, DownloadFails, RenameFails, GivesUp, TypeOK

LEMMA PullStep ==
    ASSUME TypeOK, NEW t \in Term
    PROVE  /\ Release(t) => job'[t].at = "unpack" /\ job'[t].tag \in Tag
           /\ (\E f \in Entry : Extract(t, f))
              => job[t].at = "unpack" /\ job'[t].at = "unpack" /\ job'[t].tag = job[t].tag
           /\ Extracted(t)
              => job[t].at = "unpack" /\ job'[t].at = "unpack" /\ job'[t].tag = job[t].tag
           /\ FindModel(t) => /\ job[t].at = "unpack" /\ job'[t].at \in {"open", "answer"}
                              /\ job'[t].tag = job[t].tag
           /\ OpenTmp(t) => job[t].at = "open" /\ job'[t].at = "copy" /\ job'[t].tag = job[t].tag
           /\ Copied(t) => job[t].at = "copy" /\ job'[t].at = "rename" /\ job'[t].tag = job[t].tag
           /\ Rename(t) => job[t].at = "rename" /\ job'[t].at = "answer" /\ job'[t].tag = job[t].tag
           /\ Answer(t) => job[t].at = "answer" /\ job'[t].at = "truncate" /\ job'[t].tag = job[t].tag
<1>0. job \in [Term -> Job] /\ job[t] \in Job
  BY DEF TypeOK
<1>1. Release(t) => job'[t].at = "unpack" /\ job'[t].tag \in Tag
  BY <1>0 DEF Release, Job
<1>2. ASSUME NEW f \in Entry, Extract(t, f)
      PROVE  job[t].at = "unpack" /\ job'[t].at = "unpack" /\ job'[t].tag = job[t].tag
  BY <1>0, <1>2 DEF Extract, Job
<1>3. Extracted(t)
        => job[t].at = "unpack" /\ job'[t].at = "unpack" /\ job'[t].tag = job[t].tag
  BY <1>0 DEF Extracted, Job
<1>4. FindModel(t) => /\ job[t].at = "unpack" /\ job'[t].at \in {"open", "answer"}
                      /\ job'[t].tag = job[t].tag
  BY <1>0 DEF FindModel, Goto, Job
<1>5. OpenTmp(t) => job[t].at = "open" /\ job'[t].at = "copy" /\ job'[t].tag = job[t].tag
  BY <1>0 DEF OpenTmp, Job
<1>6. Copied(t) => job[t].at = "copy" /\ job'[t].at = "rename" /\ job'[t].tag = job[t].tag
  BY <1>0 DEF Copied, Job
<1>7. Rename(t) => job[t].at = "rename" /\ job'[t].at = "answer" /\ job'[t].tag = job[t].tag
  BY <1>0 DEF Rename, Job
<1>8. Answer(t) => job[t].at = "answer" /\ job'[t].at = "truncate" /\ job'[t].tag = job[t].tag
  BY <1>0 DEF Answer, Job
<1> QED BY <1>1, <1>2, <1>3, <1>4, <1>5, <1>6, <1>7, <1>8

LEMMA Steps ==
    ASSUME NEW t, Step(t)
    PROVE  \/ OtherStep(t) \/ FetchFails(t) \/ Release(t) \/ (\E f \in Entry : Extract(t, f))
           \/ Extracted(t) \/ FindModel(t) \/ OpenTmp(t) \/ Copied(t) \/ Rename(t) \/ Answer(t)
  BY DEF Step, OtherStep

(* Only a command that begins looks for the release. *)
LEMMA NeverBack ==
    ASSUME TypeOK, NEW t \in Term, Step(t), ~(Install(t) \/ InitConfig(t) \/ Pull(t))
    PROVE  job'[t].at # "release"
<1>0. job \in [Term -> Job] /\ job[t] \in Job
  BY DEF TypeOK
<1>1. CASE Truncate(t) \/ Save(t) \/ SaveFails(t)
  BY <1>1, OutdatedAt DEF Truncate, Save, SaveFails
<1>2. CASE SaveAgents(t) \/ WriteProfile(t) \/ ProfileFails(t)
  BY <1>0, <1>2 DEF SaveAgents, WriteProfile, ProfileFails, Goto, Job
<1>3. CASE \/ MergeSettings(t) \/ SettingsFail(t) \/ LeaveSettings(t) \/ Panic(t) \/ CutShort(t)
           \/ Dies(t)
  <2>1. job'[t] = Idle
    BY <1>0, <1>3 DEF MergeSettings, SettingsFail, LeaveSettings, Panic, CutShort, Ends, Over, Dies
  <2> QED BY <2>1 DEF Idle
<1>4. CASE FetchFails(t)
  BY <1>4, FailedLeaves DEF Idle
<1> QED BY <1>1, <1>2, <1>3, <1>4, PullStep DEF Step

LEMMA ReleaseNext == TypeOK /\ HasRelease /\ [Next]_vars => HasRelease'
<1> SUFFICES ASSUME TypeOK, HasRelease, [Next]_vars PROVE HasRelease'
  OBVIOUS
<1>1. ASSUME NEW t \in Term, Step(t), NEW u \in Term,
             job'[u].at \in {"unpack", "open", "copy", "rename", "answer"}
      PROVE  job'[u].tag \in Tag
  <2>1. CASE u # t
    BY <1>1, <2>1, OthersStay DEF HasRelease
  <2>2. CASE u = t
    <3>1. ~OtherStep(t)
      BY <1>1, <2>2, OtherStepLeaves
    <3>2. ~FetchFails(t)
      BY <1>1, <2>2, FailedLeaves DEF Idle
    <3> QED BY <1>1, <2>2, <3>1, <3>2, Steps, PullStep DEF HasRelease
  <2> QED BY <2>1, <2>2
<1>2. CASE Next
  BY <1>1, <1>2, NextIsStep DEF HasRelease
<1>3. CASE UNCHANGED vars
  BY <1>3 DEF vars, HasRelease
<1> QED BY <1>2, <1>3

Typed == TypeOK /\ HasRelease

LEMMA TypedAlways == Spec => []Typed
<1>1. Init => Typed
  BY TypeInit DEF Init, HasRelease, Idle, Typed
<1>2. Typed /\ [Next]_vars => Typed'
  BY TypeNext, ReleaseNext DEF Typed
<1> QED BY <1>1, <1>2, PTL DEF Spec

(* The files, the configuration and the commands are of their types, whatever
   commands run, and wherever they end. *)
THEOREM SetupTypes == Spec => []TypeOK
  BY TypedAlways, PTL DEF Typed
-----------------------------------------------------------------------------
(* Why the model is never half written, as long as no download began over
   another: at most one pull is between opening .tmp and renaming it, what it
   writes is .tmp while that is there, and .tmp is complete when it has
   written it. *)
Downloading(t) == job[t].at \in {"copy", "rename"}

DownloadInv ==
    ~overlap =>
    /\ model.there => model.full
    /\ \A t \in Term : job[t].at = "copy" =>
          IF job[t].fd = "tmp" THEN tmp.there /\ tmp.by = t
          ELSE job[t].fd = "gone" /\ ~tmp.there
    /\ \A t \in Term : job[t].at = "rename" /\ tmp.there => tmp.full
    /\ \A t, u \in Term : Downloading(t) /\ Downloading(u) => t = u

(* The steps that write neither file of a download. *)
LEMMA DownloadKept ==
    ASSUME TypeOK, DownloadInv, NEW t \in Term, ~(job'[t].at \in {"copy", "rename"}),
           model' = model, tmp' = tmp, overlap' = overlap,
           \A u \in Term \ {t} : job'[u].at = job[u].at /\ job'[u].fd = job[u].fd
    PROVE  DownloadInv'
  BY DEF DownloadInv, Downloading

LEMMA DownloadStep ==
    ASSUME TypeOK, DownloadInv, NEW t \in Term, Step(t)
    PROVE  DownloadInv'
<1>0. /\ job \in [Term -> Job] /\ job[t] \in Job
      /\ \A u \in Term : job[u].fd \in {"none", "tmp", "model", "gone"}
  BY DEF TypeOK, Job
<1>1. CASE OtherStep(t)
  BY <1>1, OtherStepLeaves, OthersStay, DownloadKept
<1>2. CASE \/ Release(t) \/ (\E f \in Entry : Extract(t, f)) \/ Extracted(t)
           \/ FindModel(t) \/ Answer(t)
  <2>1. job'[t].at \in {"unpack", "open", "answer", "truncate"}
    BY <1>2, PullStep
  <2>2. \A u \in Term \ {t} : job'[u].at = job[u].at /\ job'[u].fd = job[u].fd
    BY <1>2, OthersStay DEF Step
  <2>3. UNCHANGED <<model, tmp, overlap>>
    BY <1>2 DEF Release, Extract, Extracted, FindModel, Answer
  <2> QED BY <2>1, <2>2, <2>3, DownloadKept
<1>3. CASE OpenTmp(t)
  <2> SUFFICES ASSUME ~overlap' PROVE DownloadInv'
    BY DEF DownloadInv
  <2>1. ~overlap /\ \A u \in Term \ {t} : ~Downloading(u)
    BY <1>3 DEF OpenTmp, Downloading
  <2>2. job'[t].at = "copy" /\ job'[t].fd = "tmp" /\ tmp'.there /\ tmp'.by = t
    BY <1>0, <1>3 DEF OpenTmp, Job, Opened
  <2>3. \A u \in Term \ {t} : ~Downloading(u)'
    BY <1>3, <2>1, OthersStay DEF Downloading, Step
  <2>4. model' = model
    BY <1>3 DEF OpenTmp
  <2> QED BY <2>1, <2>2, <2>3, <2>4 DEF DownloadInv, Downloading
<1>4. CASE Copied(t)
  <2> SUFFICES ASSUME ~overlap' PROVE DownloadInv'
    BY DEF DownloadInv
  <2>1. ~overlap
    BY <1>4 DEF Copied
  <2>2. job[t].at = "copy" /\ job'[t].at = "rename"
    BY <1>4, PullStep
  <2>3. \A u \in Term \ {t} : ~Downloading(u)'
    BY <1>4, <2>1, <2>2, OthersStay DEF Downloading, Step, DownloadInv
  <2>4. job[t].fd \in {"tmp", "gone"}
    BY <2>1, <2>2 DEF DownloadInv
  <2>5. model' = model
    BY <1>4, <2>4 DEF Copied
  <2>6. tmp'.there => tmp'.full
    <3>1. CASE job[t].fd = "tmp"
      <4>1. tmp.by = t
        BY <2>1, <2>2, <3>1 DEF DownloadInv
      <4>2. tmp' = Full
        BY <1>4, <3>1, <4>1 DEF Copied, Written
      <4> QED BY <4>2 DEF Full
    <3>2. CASE job[t].fd = "gone"
      BY <1>4, <2>1, <2>2, <3>2 DEF DownloadInv, Copied
    <3> QED BY <2>4, <3>1, <3>2
  <2> QED BY <2>1, <2>2, <2>3, <2>5, <2>6 DEF DownloadInv, Downloading
<1>5. CASE FetchFails(t)
  <2> SUFFICES ASSUME ~overlap' PROVE DownloadInv'
    BY DEF DownloadInv
  <2>1. ~overlap /\ model' = model /\ ~tmp'.there /\ ~Downloading(t)'
    BY <1>5, FailedLeaves DEF Absent, Idle, Downloading
  <2>2. \A u \in Term \ {t} : job'[u].at = job[u].at /\ job'[u].fd = Unlinked(job[u].fd)
    BY <1>5, OthersStay DEF Step
  <2>3. ASSUME NEW u \in Term, job'[u].at = "copy"
        PROVE  job'[u].fd = "gone"
    <3>1. u # t /\ job[u].at = "copy"
      BY <2>1, <2>2, <2>3 DEF Downloading
    <3>2. job[u].fd \in {"tmp", "gone"}
      BY <2>1, <3>1 DEF DownloadInv
    <3> QED BY <2>2, <3>1, <3>2 DEF Unlinked
  <2> QED BY <2>1, <2>2, <2>3 DEF DownloadInv, Downloading
<1>6. CASE Rename(t)
  <2> SUFFICES ASSUME ~overlap' PROVE DownloadInv'
    BY DEF DownloadInv
  <2>1. ~overlap /\ job[t].at = "rename" /\ tmp.there /\ model' = tmp /\ tmp' = Absent
    BY <1>6 DEF Rename
  <2>2. model'.full
    BY <2>1 DEF DownloadInv
  <2>3. ~Downloading(t)'
    BY <1>6, PullStep DEF Downloading
  <2>4. \A u \in Term \ {t} : ~Downloading(u)'
    BY <1>6, <2>1, OthersStay DEF Downloading, Step, DownloadInv
  <2> QED BY <2>1, <2>2, <2>3, <2>4 DEF DownloadInv, Downloading
<1> QED BY <1>1, <1>2, <1>3, <1>4, <1>5, <1>6, Steps

(* "a partial download never looks like a complete model" (download.go:122-
   124), for any number of pulls in any order, unless one download begins
   while another is still running. *)
THEOREM PulledModelComplete == Spec => []ModelCompleteUnlessOverlap
<1>1. Init => DownloadInv
  BY DEF Init, DownloadInv, Downloading, Absent, Idle
<1>2. Typed /\ DownloadInv /\ [Next]_vars => DownloadInv'
  <2> SUFFICES ASSUME Typed, DownloadInv, [Next]_vars PROVE DownloadInv'
    OBVIOUS
  <2>1. CASE Next
    BY <2>1, NextIsStep, DownloadStep DEF Typed
  <2>2. CASE UNCHANGED vars
    BY <2>2 DEF vars, DownloadInv, Downloading
  <2> QED BY <2>1, <2>2
<1>3. DownloadInv => ModelCompleteUnlessOverlap
  BY DEF DownloadInv, ModelCompleteUnlessOverlap
<1> QED BY <1>1, <1>2, <1>3, TypedAlways, PTL DEF Spec
-----------------------------------------------------------------------------
(* A file that is there stays there. *)
Kept(file, new) == file.there => new.there

LEMMA FilesStay ==
    ASSUME TypeOK, HasRelease, NEW t \in Term, Step(t)
    PROVE  /\ \A b \in Tag, f \in Entry : Kept(bin[b][f], bin'[b][f])
           /\ Kept(model, model')
<1>1. CASE OtherStep(t)
  BY <1>1, OtherStepLeaves DEF Kept
<1>2. CASE FetchFails(t)
  BY <1>2, FailedLeaves DEF Kept
<1>3. CASE Release(t) \/ FindModel(t) \/ OpenTmp(t) \/ Answer(t)
  <2>1. bin' = bin /\ model' = model
    BY <1>3 DEF Release, FindModel, OpenTmp, Answer
  <2> QED BY <2>1 DEF Kept
<1>4. ASSUME NEW f \in Entry, Extract(t, f)
      PROVE  /\ \A b \in Tag, g \in Entry : Kept(bin[b][g], bin'[b][g])
             /\ Kept(model, model')
  <2>1. bin' = [bin EXCEPT ![job[t].tag][f] = Opened(t)] /\ model' = model
    BY <1>4 DEF Extract
  <2>2. job[t].tag \in Tag
    BY <1>4 DEF Extract, HasRelease
  <2>3. \A b \in Tag, g \in Entry : bin'[b][g] = bin[b][g] \/ bin'[b][g] = Opened(t)
    BY <2>1, <2>2 DEF TypeOK
  <2> QED BY <2>1, <2>3 DEF Kept, Opened
<1>5. CASE Extracted(t)
  <2>1. PICK file \in Written(t, bin[job[t].tag][job[t].open]) :
          bin' = [bin EXCEPT ![job[t].tag][job[t].open] = file]
    BY <1>5 DEF Extracted
  <2>2. job[t].tag \in Tag /\ job[t].open \in Entry
    BY <1>5 DEF Extracted, HasRelease, TypeOK, Job
  <2>3. file = Full \/ file = bin[job[t].tag][job[t].open]
    BY DEF Written
  <2>4. \A b \in Tag, g \in Entry : bin'[b][g] = bin[b][g] \/ bin'[b][g] = Full
    BY <2>1, <2>2, <2>3 DEF TypeOK
  <2>5. model' = model
    BY <1>5 DEF Extracted
  <2> QED BY <2>4, <2>5 DEF Kept, Full
<1>6. CASE Copied(t)
  <2>1. model' = Full \/ model' = model
    BY <1>6 DEF Copied, Written
  <2>2. bin' = bin
    BY <1>6 DEF Copied
  <2> QED BY <2>1, <2>2 DEF Kept, Full
<1>7. CASE Rename(t)
  <2>1. bin' = bin /\ model'.there
    BY <1>7 DEF Rename
  <2> QED BY <2>1 DEF Kept
<1> QED BY <1>1, <1>2, <1>3, <1>4, <1>5, <1>6, <1>7, Steps

(* Why the configuration names files that are there, as long as none was left
   half written: a pull passes each place only with what the places before it
   put there, no step takes a file away, and what a command holds was in the
   file or has been fetched. *)
Backed(cfg) ==
    /\ cfg.paths # "cut"
    /\ cfg.paths # "none" => bin[cfg.paths]["llama-server"].there /\ model.there
    /\ cfg.enabled => cfg.paths # "none"

PathsInv ==
    /\ Loads
    /\ config # NoConfig => Backed(config)
    /\ \A t \in Term : Backed(job[t].cfg)
    /\ \A t \in Term : job[t].at = "answer" => model.there
    /\ \A t \in Term : job[t].at \in {"open", "copy", "rename", "answer"}
                       => bin[job[t].tag]["llama-server"].there
    /\ \A t \in Term : job[t].at = "unpack" /\ ~bin[job[t].tag]["llama-server"].there
                       => "llama-server" \in job[t].todo

LEMMA BackedStays ==
    ASSUME NEW cfg \in Config, Backed(cfg),
           \A b \in Tag, f \in Entry : Kept(bin[b][f], bin'[b][f]), Kept(model, model')
    PROVE  Backed(cfg)'
<1>1. cfg.paths # "none" => cfg.paths \in Tag
  BY DEF Config, Backed
<1> QED BY <1>1 DEF Backed, Kept, Entry

LEMMA BackedLoad ==
    ASSUME TypeOK, PathsInv
    PROVE  Load \in Config /\ Backed(Load)
  BY LoadIsConfig DEF Load, Default, Backed, PathsInv

(* What the command in t holds after its step, and what it leaves. *)
LEMMA BackedStep ==
    ASSUME TypeOK, HasRelease, PathsInv, NEW t \in Term, Step(t)
    PROVE  /\ job'[t].cfg \in Config /\ Backed(job'[t].cfg)
           /\ config' = config \/ config' = Default \/ config' = job[t].cfg \/ torn'
<1>0. /\ job \in [Term -> Job] /\ job[t] \in Job
      /\ job[t].cfg \in Config /\ Backed(job[t].cfg)
  BY DEF TypeOK, Job, PathsInv
<1>1. Default \in Config /\ Backed(Default) /\ Idle.cfg = Default
  BY IdleIsJob DEF Default, Backed, Idle
<1>2. CASE Install(t)
  <2>1. PICK chosen \in Selections, flag \in Flag, write \in BOOLEAN :
          \E up \in ResolveUpstream(chosen, flag) :
             Starts(t, "install", [Idle EXCEPT !.op = "install", !.at = "truncate",
                                               !.cfg = WithUpstream(up),
                                               !.agents = chosen, !.write = write])
    BY <1>2 DEF Install
  <2>2. PICK up \in ResolveUpstream(chosen, flag) :
             Starts(t, "install", [Idle EXCEPT !.op = "install", !.at = "truncate",
                                               !.cfg = WithUpstream(up),
                                               !.agents = chosen, !.write = write])
    BY <2>1
  <2>3. job'[t].cfg = WithUpstream(up)
    BY <1>0, <2>2 DEF Starts, Idle
  <2>4. WithUpstream(up) \in Config /\ Backed(WithUpstream(up))
    BY BackedLoad, ResolvedIsUpstream DEF WithUpstream, Config, Backed
  <2> QED BY <1>2, <2>3, <2>4 DEF Install
<1>3. CASE InitConfig(t)
  <2>1. PICK up \in Upstream \ {""} :
          Starts(t, "init", [Idle EXCEPT !.op = "init", !.at = "truncate",
                                         !.cfg = [Default EXCEPT !.upstream = up]])
    BY <1>3 DEF InitConfig
  <2>2. job'[t].cfg = [Default EXCEPT !.upstream = up]
    BY <1>0, <2>1 DEF Starts, Idle
  <2>3. [Default EXCEPT !.upstream = up] \in Config /\ Backed([Default EXCEPT !.upstream = up])
    BY DEF Default, Config, Backed
  <2> QED BY <1>3, <2>2, <2>3 DEF InitConfig
<1>4. CASE Pull(t)
  <2>1. PICK force \in BOOLEAN :
          Starts(t, "pull", [Idle EXCEPT !.op = "pull", !.at = "release",
                                         !.cfg = Load, !.force = force])
    BY <1>4 DEF Pull
  <2>2. job'[t].cfg = Load
    BY <1>0, <2>1 DEF Starts, Idle
  <2> QED BY <1>4, <2>2, BackedLoad DEF Pull
<1>5. CASE Truncate(t) \/ Save(t) \/ SaveFails(t)
  <2>1. config' = Default \/ config' = job[t].cfg \/ torn'
    BY <1>5 DEF Truncate, Save, SaveFails
  <2>2. ASSUME NEW at, Outdated(t, at)
        PROVE  job'[t].cfg \in {Default, job[t].cfg}
    <3>1. CASE at = "idle"
      BY <1>1, <2>2, <3>1 DEF Outdated
    <3>2. CASE at # "idle"
      BY <1>0, <2>2, <3>2 DEF Outdated, Job
    <3> QED BY <3>1, <3>2
  <2>3. job'[t].cfg \in {Default, job[t].cfg}
    BY <1>5, <2>2 DEF Truncate, Save, SaveFails
  <2> QED BY <1>0, <1>1, <2>1, <2>3
<1>6. CASE SaveAgents(t) \/ WriteProfile(t) \/ ProfileFails(t) \/ FindModel(t)
  <2>1. job'[t].cfg = job[t].cfg
    BY <1>0, <1>6 DEF SaveAgents, WriteProfile, ProfileFails, FindModel, Goto, Job
  <2>2. config' = config
    BY <1>6 DEF SaveAgents, WriteProfile, ProfileFails, FindModel, Rest, Elsewhere
  <2> QED BY <1>0, <2>1, <2>2
<1>7. CASE \/ MergeSettings(t) \/ SettingsFail(t) \/ LeaveSettings(t) \/ Panic(t) \/ CutShort(t)
           \/ FetchFails(t) \/ Dies(t)
  <2>1. job'[t] = Idle
    BY <1>0, <1>7 DEF MergeSettings, SettingsFail, LeaveSettings, Panic, CutShort, Ends, Over,
                      FetchFails, DownloadFails, RenameFails, GivesUp, Dies
  <2>2. config' = config
    BY <1>7 DEF MergeSettings, SettingsFail, LeaveSettings, Panic, CutShort, FetchFails,
                DownloadFails, RenameFails, GivesUp,
                Dies, Rest, Elsewhere
  <2> QED BY <1>1, <2>1, <2>2
<1>8. CASE \/ Release(t) \/ (\E f \in Entry : Extract(t, f)) \/ Extracted(t) \/ OpenTmp(t)
           \/ Copied(t) \/ Rename(t)
  <2>1. CASE Release(t)
    BY <1>0, <2>1 DEF Release, Elsewhere, Job
  <2>2. ASSUME NEW f \in Entry, Extract(t, f)
        PROVE  job'[t].cfg = job[t].cfg /\ config' = config
    BY <1>0, <2>2 DEF Extract, Elsewhere, Job
  <2>3. CASE Extracted(t)
    BY <1>0, <2>3 DEF Extracted, Elsewhere, Job
  <2>4. CASE OpenTmp(t)
    BY <1>0, <2>4 DEF OpenTmp, Elsewhere, Job
  <2>5. CASE Copied(t)
    BY <1>0, <2>5 DEF Copied, Elsewhere, Job
  <2>6. CASE Rename(t)
    BY <1>0, <2>6 DEF Rename, Elsewhere, Job
  <2> QED BY <1>0, <1>8, <2>1, <2>2, <2>3, <2>4, <2>5, <2>6
<1>9. CASE Answer(t)
  <2>1. PICK yes \in BOOLEAN :
          job' = [job EXCEPT ![t].at = "truncate", ![t].cfg = WithPaths(t, yes)]
    BY <1>9 DEF Answer
  <2> DEFINE cfg == WithPaths(t, yes)
  <2>2. cfg \in Config
    BY <1>0, WithPathsType
  <2>3. cfg.paths = job[t].tag
    BY <1>0 DEF WithPaths, Job, Config
  <2>4. job[t].tag \in Tag /\ bin[job[t].tag]["llama-server"].there /\ model.there
    BY <1>9 DEF Answer, HasRelease, PathsInv
  <2>5. Backed(cfg)
    BY <2>3, <2>4, TagAssumption DEF Backed
  <2> HIDE DEF cfg
  <2>6. job'[t].cfg = cfg
    BY <1>0, <2>1 DEF Job, cfg
  <2> QED BY <1>9, <2>2, <2>5, <2>6 DEF Answer, Elsewhere
<1> QED BY <1>2, <1>3, <1>4, <1>5, <1>6, <1>7, <1>8, <1>9 DEF Step

LEMMA PathsStep ==
    ASSUME TypeOK, HasRelease, PathsInv, NEW t \in Term, Step(t), ~torn'
    PROVE  PathsInv'
<1>0. job \in [Term -> Job] /\ \A u \in Term : job[u] \in Job /\ job[u].cfg \in Config
  BY DEF TypeOK, Job
<1>a. /\ \A b \in Tag, f \in Entry : Kept(bin[b][f], bin'[b][f])
      /\ Kept(model, model')
  BY FilesStay
<1>b. "llama-server" \in Entry
  BY DEF Entry
<1>1. config' # NoConfig => Backed(config)'
  <2>1. CASE config' = config
    <3>1. config = NoConfig \/ (config \in Config /\ Backed(config))
      BY DEF TypeOK, PathsInv, Loads
    <3> QED BY <1>a, <2>1, <3>1, BackedStays DEF Backed
  <2>2. CASE config' = Default
    BY <2>2 DEF Default, Backed
  <2>3. CASE config' = job[t].cfg
    <3> DEFINE c == job[t].cfg
    <3>1. c \in Config /\ Backed(c)
      BY <1>0 DEF PathsInv
    <3> HIDE DEF c
    <3>2. PICK d : d = c
      OBVIOUS
    <3>3. Backed(d)
      BY <3>1, <3>2
    <3>4. Backed(d)'
      BY <1>a, <3>1, <3>2, <3>3, BackedStays
    <3> QED BY <2>3, <3>2, <3>4 DEF c, Backed
  <2> QED BY <2>1, <2>2, <2>3, BackedStep
<1>2. \A u \in Term : Backed(job[u].cfg)'
  <2> TAKE u \in Term
  <2>1. CASE u = t
    <3>1. PICK d : d = job'[t].cfg
      OBVIOUS
    <3>2. d \in Config /\ Backed(d)
      BY <3>1, BackedStep
    <3>3. Backed(d)'
      BY <1>a, <3>2, BackedStays
    <3> QED BY <2>1, <3>1, <3>3 DEF Backed
  <2>2. CASE u # t
    <3>1. PICK d : d = job[u].cfg
      OBVIOUS
    <3>2. d \in Config /\ Backed(d)
      BY <1>0, <3>1 DEF PathsInv
    <3>3. Backed(d)'
      BY <1>a, <3>2, BackedStays
    <3>4. job'[u].cfg = d
      BY <2>2, <3>1, OthersStay
    <3> QED BY <3>3, <3>4 DEF Backed
  <2> QED BY <2>1, <2>2
<1>3. \A u \in Term \ {t} :
        /\ job'[u].at = "answer" => model'.there
        /\ job'[u].at \in {"open", "copy", "rename", "answer"}
           => bin'[job'[u].tag]["llama-server"].there
        /\ job'[u].at = "unpack" /\ ~bin'[job'[u].tag]["llama-server"].there
           => "llama-server" \in job'[u].todo
  <2> TAKE u \in Term \ {t}
  <2>1. job'[u].at = job[u].at /\ job'[u].tag = job[u].tag /\ job'[u].todo = job[u].todo
    BY OthersStay
  <2>2. job[u].at \in {"unpack", "open", "copy", "rename", "answer"} => job[u].tag \in Tag
    BY DEF HasRelease
  <2> QED BY <1>a, <1>b, <2>1, <2>2 DEF PathsInv, Kept
<1>4. /\ job'[t].at = "answer" => model'.there
      /\ job'[t].at \in {"open", "copy", "rename", "answer"}
         => bin'[job'[t].tag]["llama-server"].there
      /\ job'[t].at = "unpack" /\ ~bin'[job'[t].tag]["llama-server"].there
         => "llama-server" \in job'[t].todo
  <2>1. CASE OtherStep(t)
    BY <2>1, OtherStepLeaves
  <2>2. CASE FetchFails(t)
    BY <2>2, FailedLeaves DEF Idle
  <2>3. CASE Release(t)
    <3>1. job'[t].at = "unpack" /\ bin' = bin
      BY <2>3, PullStep DEF Release
    <3>2. PICK b \in Tag :
            job' = [job EXCEPT ![t].at = "unpack", ![t].tag = b,
                               ![t].todo = IF job[t].force \/ ~bin[b]["llama-server"].there
                                           THEN Entry ELSE {}]
      BY <2>3 DEF Release
    <3>3. job'[t].tag = b /\ (~bin[b]["llama-server"].there => job'[t].todo = Entry)
      BY <1>0, <3>2 DEF Job
    <3> QED BY <1>b, <3>1, <3>3
  <2>4. ASSUME NEW f \in Entry, Extract(t, f)
        PROVE  /\ job'[t].at = "unpack"
               /\ ~bin'[job'[t].tag]["llama-server"].there => "llama-server" \in job'[t].todo
    <3>1. job[t].at = "unpack" /\ job'[t].at = "unpack" /\ job'[t].tag = job[t].tag
      BY <2>4, PullStep
    <3>2. job[t].tag \in Tag
      BY <3>1 DEF HasRelease
    <3>3. job'[t].todo = job[t].todo \ {f}
      BY <1>0, <2>4 DEF Extract, Job
    <3>4. CASE f = "llama-server"
      <4>1. bin'[job[t].tag][f].there
        BY <2>4, <3>2 DEF Extract, TypeOK, Opened
      <4> QED BY <3>1, <3>4, <4>1
    <3>5. CASE f # "llama-server"
      BY <1>a, <1>b, <3>1, <3>2, <3>3, <3>5 DEF PathsInv, Kept
    <3> QED BY <3>1, <3>4, <3>5
  <2>5. CASE Extracted(t)
    <3>1. job[t].at = "unpack" /\ job'[t].at = "unpack" /\ job'[t].tag = job[t].tag
      BY <2>5, PullStep
    <3>2. job[t].tag \in Tag
      BY <3>1 DEF HasRelease
    <3>3. job'[t].todo = job[t].todo
      BY <1>0, <2>5 DEF Extracted, Job
    <3> QED BY <1>a, <1>b, <3>1, <3>2, <3>3 DEF PathsInv, Kept
  <2>6. CASE FindModel(t)
    <3>1. job[t].at = "unpack" /\ job'[t].at \in {"open", "answer"} /\ job'[t].tag = job[t].tag
      BY <2>6, PullStep
    <3>2. bin[job[t].tag]["llama-server"].there
      BY <2>6, <3>1 DEF FindModel, PathsInv
    <3>3. UNCHANGED <<bin, model>>
      BY <2>6 DEF FindModel
    <3>4. job'[t].at = "answer" => model.there
      BY <1>0, <2>6 DEF FindModel, Goto, Job
    <3> QED BY <3>1, <3>2, <3>3, <3>4
  <2>7. CASE OpenTmp(t) \/ Copied(t) \/ Rename(t)
    <3>1. /\ job[t].at \in {"open", "copy", "rename"} /\ job'[t].tag = job[t].tag
          /\ job'[t].at \in {"copy", "rename", "answer"}
      BY <2>7, PullStep
    <3>2. bin' = bin
      BY <2>7 DEF OpenTmp, Copied, Rename
    <3>3. job'[t].at = "answer" => model'.there
      <4>1. CASE Rename(t)
        BY <4>1 DEF Rename
      <4>2. CASE OpenTmp(t) \/ Copied(t)
        BY <4>2, PullStep
      <4> QED BY <2>7, <4>1, <4>2
    <3> QED BY <3>1, <3>2, <3>3 DEF PathsInv
  <2>8. CASE Answer(t)
    BY <2>8, PullStep
  <2> QED BY <2>1, <2>2, <2>3, <2>4, <2>5, <2>6, <2>7, <2>8, Steps
<1>5. Loads'
  <2>1. Broken \notin Config /\ Default \in Config
    BY IdleIsJob DEF Broken, Config
  <2> QED BY <1>0, <2>1, BackedStep DEF Loads, PathsInv
<1> QED BY <1>1, <1>2, <1>3, <1>4, <1>5 DEF PathsInv

LEMMA TornStays ==
    ASSUME NEW t \in Term, Step(t), torn
    PROVE  torn'
<1>1. CASE SaveFails(t)
  BY <1>1 DEF SaveFails
<1>2. CASE Truncate(t) \/ Save(t) \/ Dies(t)
  BY <1>2 DEF Truncate, Save, Dies
<1>3. CASE ~(Truncate(t) \/ Save(t) \/ SaveFails(t) \/ Dies(t))
  BY <1>3 DEF Step, Install, InitConfig, Pull, SaveAgents, WriteProfile, ProfileFails,
              MergeSettings, SettingsFail, LeaveSettings, Panic, CutShort, Release, Extract,
              Extracted, FindModel, OpenTmp, Copied, FetchFails, DownloadFails, RenameFails,
              GivesUp, Rename, Answer, Rest, Elsewhere, past
<1> QED BY <1>1, <1>2, <1>3

(* What config.yaml names has been downloaded, whichever commands ran
   together and wherever they ended, unless one of them left it half written:
   a daemon does not start with the path of a server or a model that was not
   fetched. *)
THEOREM ConfiguredFilesAreThere == Spec => []ConfiguredFilesExist
<1> DEFINE Inv == ~torn => PathsInv
<1>1. Init => Inv
  <2> SUFFICES ASSUME Init PROVE PathsInv
    OBVIOUS
  <2>3. Loads
    BY DEF Init, Loads, NoConfig, Broken
  <2>1. \A t \in Term : job[t].at = "idle" /\ job[t].cfg = Default
    BY DEF Init, Idle
  <2>2. Backed(Default)
    BY DEF Backed, Default
  <2> QED BY <2>1, <2>2, <2>3 DEF Init, PathsInv
<1>2. Typed /\ Inv /\ [Next]_vars => Inv'
  <2> SUFFICES ASSUME Typed, Inv, [Next]_vars, ~torn' PROVE PathsInv'
    OBVIOUS
  <2>1. CASE Next
    BY <2>1, NextIsStep, PathsStep, TornStays DEF Typed
  <2>2. CASE UNCHANGED vars
    BY <2>2 DEF vars, PathsInv, Backed, Loads
  <2> QED BY <2>1, <2>2
<1>3. Inv => ConfiguredFilesExist
  BY DEF PathsInv, Backed, ConfiguredFilesExist
<1> QED BY <1>1, <1>2, <1>3, TypedAlways, PTL DEF Spec
-----------------------------------------------------------------------------
(* Why the files beside a server that is there are complete, but for those
   that were left out: one that is not complete is being extracted by the
   command that opened it last, and one that is not there is still to be
   extracted by a command that has opened another. *)
Unpacking(t, b) == job[t].at = "unpack" /\ job[t].tag = b

Extracting(t, b, f) == Unpacking(t, b) /\ job[t].open = f /\ f \notin job[t].todo
Extracts(t, b, f) == Unpacking(t, b) /\ f \in job[t].todo /\ job[t].todo # Entry

WholeInv ==
    /\ \A t \in Term : job[t].at = "release" => job[t].open = "none"
    /\ \A b \in Tag, f \in Entry :
          /\ <<b, f>> \notin cut =>
                /\ bin[b][f].there /\ ~bin[b][f].full =>
                      \E t \in Term : bin[b][f].by = t /\ Extracting(t, b, f)
                /\ bin[b]["llama-server"].there =>
                      bin[b][f].there \/ \E t \in Term : Extracts(t, b, f)
          /\ \A t \in Term : Unpacking(t, b) =>
                /\ bin[b]["llama-server"].there \/ f \in job[t].todo \/ bin[b][f].there
                /\ job[t].open = f => bin[b][f].there

LEMMA CutGrows ==
    ASSUME NEW t \in Term, Step(t), ~Extracted(t)
    PROVE  cut \subseteq cut'
<1>1. CASE Dies(t)
  BY <1>1 DEF Dies
<1>2. CASE ~Dies(t)
  BY <1>2 DEF Step, Install, InitConfig, Pull, Truncate, Save, SaveFails, SaveAgents,
              WriteProfile, ProfileFails, MergeSettings, SettingsFail, LeaveSettings, Panic,
              CutShort, Release, Extract, FindModel, OpenTmp, Copied, FetchFails, DownloadFails,
              RenameFails, GivesUp, Rename, Answer, Rest
<1> QED BY <1>1, <1>2

(* What begins holds what it loaded. *)
Begun(t) ==
    \/ /\ job'[t].op = "install" /\ job'[t].at = "truncate"
       /\ \E up \in Upstream : job'[t].cfg = WithUpstream(up)
    \/ /\ job'[t].op = "init" /\ job'[t].at = "truncate" /\ config = NoConfig
    \/ /\ job'[t].op = "pull" /\ job'[t].at = "release" /\ job'[t].cfg = Load
       /\ job'[t].open = "none"

LEMMA StartsBegun ==
    ASSUME TypeOK, NEW t \in Term, Install(t) \/ InitConfig(t) \/ Pull(t)
    PROVE  Begun(t) /\ UNCHANGED <<config, merged, lost>>
<1>1. CASE Install(t)
  <2>1. PICK chosen \in Selections, flag \in Flag, write \in BOOLEAN :
          \E up \in ResolveUpstream(chosen, flag) :
             Starts(t, "install", [Idle EXCEPT !.op = "install", !.at = "truncate",
                                               !.cfg = WithUpstream(up),
                                               !.agents = chosen, !.write = write])
    BY <1>1 DEF Install
  <2>2. PICK up \in ResolveUpstream(chosen, flag) :
             Starts(t, "install", [Idle EXCEPT !.op = "install", !.at = "truncate",
                                               !.cfg = WithUpstream(up),
                                               !.agents = chosen, !.write = write])
    BY <2>1
  <2>3. /\ job'[t].op = "install" /\ job'[t].at = "truncate"
        /\ job'[t].cfg = WithUpstream(up)
    BY <2>2 DEF Starts, Idle, TypeOK
  <2> QED BY <1>1, <2>3, ResolvedIsUpstream DEF Begun, Install, past
<1>2. CASE InitConfig(t)
  <2>1. PICK up \in Upstream \ {""} :
          Starts(t, "init", [Idle EXCEPT !.op = "init", !.at = "truncate",
                                         !.cfg = [Default EXCEPT !.upstream = up]])
    BY <1>2 DEF InitConfig
  <2>2. job'[t].op = "init" /\ job'[t].at = "truncate"
    BY <2>1 DEF Starts, Idle, TypeOK
  <2> QED BY <1>2, <2>2 DEF Begun, InitConfig, past
<1>3. CASE Pull(t)
  <2>1. PICK force \in BOOLEAN :
          Starts(t, "pull", [Idle EXCEPT !.op = "pull", !.at = "release",
                                         !.cfg = Load, !.force = force])
    BY <1>3 DEF Pull
  <2>2. /\ job'[t].op = "pull" /\ job'[t].at = "release" /\ job'[t].cfg = Load
        /\ job'[t].open = "none"
    BY <2>1 DEF Starts, Idle, TypeOK
  <2> QED BY <1>3, <2>2 DEF Begun, Pull, past
<1> QED BY <1>1, <1>2, <1>3

(* A command that begins has no file open. *)
LEMMA ReleaseOpensNone ==
    ASSUME TypeOK, WholeInv, NEW t \in Term, Step(t), NEW u \in Term, job'[u].at = "release"
    PROVE  job'[u].open = "none"
<1>0. job \in [Term -> Job]
  BY DEF TypeOK
<1>1. CASE u # t
  BY <1>1, OthersStay DEF WholeInv
<1>2. CASE u = t /\ (Install(t) \/ InitConfig(t) \/ Pull(t))
  BY <1>2, StartsBegun DEF Begun
<1>3. CASE u = t /\ ~(Install(t) \/ InitConfig(t) \/ Pull(t))
  BY <1>3, NeverBack
<1> QED BY <1>1, <1>2, <1>3

(* A command that extracts has opened every file it does not still have to
   extract, or has found the server there. *)
LEMMA ReachStep ==
    ASSUME TypeOK, HasRelease, WholeInv, NEW t \in Term, Step(t),
           NEW b \in Tag, NEW f \in Entry, NEW u \in Term, Unpacking(u, b)'
    PROVE  /\ bin'[b]["llama-server"].there \/ f \in job'[u].todo \/ bin'[b][f].there
           /\ job'[u].open = f => bin'[b][f].there
<1>0. /\ job \in [Term -> Job] /\ job[t] \in Job /\ "llama-server" \in Entry
      /\ Kept(bin[b]["llama-server"], bin'[b]["llama-server"]) /\ Kept(bin[b][f], bin'[b][f])
  BY FilesStay DEF TypeOK, Entry
<1>1. CASE u # t
  <2>1. Unpacking(u, b) /\ job'[u].todo = job[u].todo /\ job'[u].open = job[u].open
    BY <1>1, OthersStay DEF Unpacking
  <2> QED BY <1>0, <2>1 DEF WholeInv, Kept
<1>2. CASE u = t /\ Release(t)
  <2>1. PICK c \in Tag :
          job' = [job EXCEPT ![t].at = "unpack", ![t].tag = c,
                             ![t].todo = IF job[t].force \/ ~bin[c]["llama-server"].there
                                         THEN Entry ELSE {}]
    BY <1>2 DEF Release
  <2>2. job'[t].tag = c /\ (~bin[c]["llama-server"].there => job'[t].todo = Entry)
    BY <1>0, <2>1 DEF Job
  <2>3. job[t].open = "none"
    BY <1>2 DEF Release, WholeInv
  <2>4. job'[t].open = job[t].open
    BY <1>0, <2>1 DEF Job
  <2>5. "none" \notin Entry
    BY DEF Entry
  <2> QED BY <1>0, <1>2, <2>2, <2>3, <2>4, <2>5 DEF Unpacking, Kept
<1>3. ASSUME u = t, NEW g \in Entry, Extract(t, g)
      PROVE  /\ bin'[b]["llama-server"].there \/ f \in job'[u].todo \/ bin'[b][f].there
             /\ job'[u].open = f => bin'[b][f].there
  <2>1. job[t].at = "unpack" /\ job'[t].tag = job[t].tag /\ job[t].tag \in Tag
    BY <1>3, PullStep DEF Extract, HasRelease
  <2>2. job'[t].todo = job[t].todo \ {g} /\ Unpacking(t, b) /\ job'[t].open = g
    BY <1>0, <1>3, <2>1 DEF Extract, Job, Unpacking
  <2>3. bin'[b][g].there
    BY <1>3, <2>1 DEF Extract, TypeOK, Unpacking, Opened
  <2> QED BY <1>0, <1>3, <2>2, <2>3 DEF WholeInv, Kept
<1>4. CASE u = t /\ Extracted(t)
  <2>1. Unpacking(t, b) /\ job'[t].todo = job[t].todo /\ job'[t].open \notin Entry
    BY <1>0, <1>4, PullStep DEF Extracted, Job, Unpacking, Entry
  <2> QED BY <1>0, <1>4, <2>1 DEF WholeInv, Kept
<1>5. ASSUME u = t, ~Release(t), ~(\E g \in Entry : Extract(t, g)), ~Extracted(t)
      PROVE  FALSE
  <2>1. job'[t].at # "unpack"
    BY <1>5, Steps, OtherStepLeaves, FailedLeaves, PullStep DEF Idle
  <2> QED BY <1>5, <2>1 DEF Unpacking
<1> QED BY <1>1, <1>2, <1>3, <1>4, <1>5

(* What is left out or being extracted, after a step. *)
HoldsNext(b, f) ==
    <<b, f>> \notin cut' =>
       /\ bin'[b][f].there /\ ~bin'[b][f].full =>
             \E u \in Term : bin'[b][f].by = u /\ Extracting(u, b, f)'
       /\ bin'[b]["llama-server"].there =>
             bin'[b][f].there \/ \E u \in Term : Extracts(u, b, f)'

(* A step that writes no file of the server, after which the command is not
   extracting, and left out nothing that is not recorded. *)
LEMMA WholeKept ==
    ASSUME TypeOK, WholeInv, NEW t \in Term, Step(t), ~Extracted(t), bin' = bin,
           \A c \in Tag, g \in Entry :
              Extracting(t, c, g) \/ Extracts(t, c, g) => <<c, g>> \in cut',
           NEW b \in Tag, NEW f \in Entry
    PROVE  HoldsNext(b, f)
<1> SUFFICES ASSUME <<b, f>> \notin cut'
             PROVE  /\ bin[b][f].there /\ ~bin[b][f].full =>
                          \E u \in Term : bin[b][f].by = u /\ Extracting(u, b, f)'
                    /\ bin[b]["llama-server"].there =>
                          bin[b][f].there \/ \E u \in Term : Extracts(u, b, f)'
  BY DEF HoldsNext
<1>1. <<b, f>> \notin cut
  BY CutGrows
<1>2. \A u \in Term \ {t} : /\ Extracting(u, b, f) => Extracting(u, b, f)'
                            /\ Extracts(u, b, f) => Extracts(u, b, f)'
  BY OthersStay DEF Unpacking, Extracting, Extracts
<1>3. ~Extracting(t, b, f) /\ ~Extracts(t, b, f)
  OBVIOUS
<1> QED BY <1>1, <1>2, <1>3 DEF WholeInv

LEMMA WholeStep ==
    ASSUME TypeOK, HasRelease, WholeInv, NEW t \in Term, Step(t)
    PROVE  WholeInv'
<1>0. /\ job \in [Term -> Job] /\ job[t] \in Job
      /\ "llama-server" \in Entry /\ "none" \notin Entry
  BY DEF TypeOK, Entry
<1> SUFFICES ASSUME NEW b \in Tag, NEW f \in Entry PROVE HoldsNext(b, f)
  <2>1. \A b \in Tag, f \in Entry, u \in Term : Unpacking(u, b)' =>
           /\ bin'[b]["llama-server"].there \/ f \in job'[u].todo \/ bin'[b][f].there
           /\ job'[u].open = f => bin'[b][f].there
    BY ReachStep
  <2>2. \A u \in Term : job'[u].at = "release" => job'[u].open = "none"
    BY ReleaseOpensNone
  <2> QED BY <2>1, <2>2 DEF WholeInv, HoldsNext
<1>1. CASE OtherStep(t)
  <2>1. bin' = bin /\ job'[t].at # "unpack"
    BY <1>1, OtherStepLeaves
  <2>2. ~Extracted(t)
    BY <2>1, PullStep
  <2>3. ASSUME NEW c \in Tag, NEW g \in Entry, Extracting(t, c, g) \/ Extracts(t, c, g)
        PROVE  <<c, g>> \in cut'
    <3>1. /\ job[t].at = "unpack" /\ job[t].tag = c /\ job[t].todo # Entry
          /\ g \in job[t].todo \cup ({job[t].open} \cap Entry)
      BY <2>3 DEF Extracting, Extracts, Unpacking
    <3>2. CASE Dies(t)
      BY <3>1, <3>2 DEF Dies, LeftOut
    <3>3. CASE Install(t) \/ InitConfig(t) \/ Pull(t)
      BY <3>1, <3>3, Started DEF Idle
    <3>4. CASE \/ Truncate(t) \/ Save(t) \/ SaveFails(t)
               \/ SaveAgents(t) \/ WriteProfile(t) \/ ProfileFails(t)
               \/ MergeSettings(t) \/ SettingsFail(t) \/ LeaveSettings(t) \/ Panic(t)
               \/ CutShort(t)
      BY <3>1, <3>4 DEF Truncate, Save, SaveFails, SaveAgents, WriteProfile, ProfileFails,
                        MergeSettings, SettingsFail, LeaveSettings, Panic, CutShort, Goto, Ends
    <3> QED BY <1>1, <3>2, <3>3, <3>4 DEF OtherStep
  <2> QED BY <2>1, <2>2, <2>3, WholeKept
<1>2. ASSUME bin' = bin, ~Extracted(t), job[t].at # "unpack" \/ job[t].todo = {},
             job[t].at # "unpack" \/ job[t].open = "none"
      PROVE  HoldsNext(b, f)
  <2>1. \A c \in Tag, g \in Entry : ~Extracting(t, c, g) /\ ~Extracts(t, c, g)
    BY <1>0, <1>2 DEF Extracting, Extracts, Unpacking
  <2> QED BY <1>2, <2>1, WholeKept
<1>3. CASE FetchFails(t) \/ FindModel(t) \/ OpenTmp(t) \/ Copied(t) \/ Rename(t) \/ Answer(t)
  <2>1. ~Extracted(t)
    <3>1. CASE FetchFails(t)
      BY <3>1, FailedLeaves, PullStep DEF Idle
    <3>2. CASE FindModel(t)
      BY <3>2, PullStep
    <3>3. CASE OpenTmp(t) \/ Copied(t) \/ Rename(t) \/ Answer(t)
      BY <3>3, PullStep
    <3> QED BY <1>3, <3>1, <3>2, <3>3
  <2>2. bin' = bin
    BY <1>3 DEF FetchFails, DownloadFails, RenameFails, GivesUp, FindModel, OpenTmp, Copied,
                Rename, Answer
  <2>3. CASE FindModel(t)
    BY <1>2, <2>1, <2>2, <2>3 DEF FindModel
  <2>4. CASE FetchFails(t) \/ OpenTmp(t) \/ Copied(t) \/ Rename(t) \/ Answer(t)
    <3>1. job[t].at # "unpack"
      BY <2>4, PullStep DEF FetchFails, DownloadFails, RenameFails
    <3> QED BY <1>2, <2>1, <2>2, <3>1
  <2> QED BY <1>3, <2>3, <2>4
<1>4. CASE Release(t)
  <2>1. bin' = bin /\ job[t].at # "unpack" /\ ~Extracted(t)
    BY <1>4, PullStep DEF Release
  <2> QED BY <1>2, <2>1
<1>5. ASSUME NEW u \in Term \ {t}
      PROVE  /\ Extracting(u, b, f) => Extracting(u, b, f)'
             /\ Extracts(u, b, f) => Extracts(u, b, f)'
  BY OthersStay DEF Unpacking, Extracting, Extracts
<1>6. ASSUME NEW g \in Entry, Extract(t, g), <<b, f>> \notin cut'
      PROVE  /\ bin'[b][f].there /\ ~bin'[b][f].full =>
                   \E u \in Term : bin'[b][f].by = u /\ Extracting(u, b, f)'
             /\ bin'[b]["llama-server"].there =>
                   bin'[b][f].there \/ \E u \in Term : Extracts(u, b, f)'
  <2>1. /\ job[t].at = "unpack" /\ job'[t].at = "unpack" /\ job'[t].tag = job[t].tag
        /\ job[t].tag \in Tag /\ job[t].open = "none" /\ cut' = cut
    BY <1>6, PullStep DEF Extract, HasRelease
  <2>2. job'[t].open = g /\ job'[t].todo = job[t].todo \ {g}
    BY <1>0, <1>6 DEF Extract, Job
  <2>3. \A h \in Entry : bin'[b][h] = IF b = job[t].tag /\ h = g THEN Opened(t) ELSE bin[b][h]
    BY <1>6, <2>1 DEF Extract, TypeOK
  <2>4. Opened(t).there /\ Opened(t).by = t
    BY DEF Opened
  <2>5. ~Extracting(t, b, f)
    BY <1>0, <2>1 DEF Extracting
  <2>6. bin'[b][f].there /\ ~bin'[b][f].full =>
            \E u \in Term : bin'[b][f].by = u /\ Extracting(u, b, f)'
    <3>1. CASE b = job[t].tag /\ f = g
      <4>1. bin'[b][f] = Opened(t)
        BY <2>3, <3>1
      <4>2. Extracting(t, b, f)'
        BY <2>1, <2>2, <3>1 DEF Extracting, Unpacking
      <4> QED BY <2>4, <4>1, <4>2
    <3>2. CASE ~(b = job[t].tag /\ f = g)
      <4>1. bin'[b][f] = bin[b][f]
        BY <2>3, <3>2
      <4> QED BY <1>5, <1>6, <2>1, <2>5, <4>1 DEF WholeInv
    <3> QED BY <3>1, <3>2
  <2>7. ASSUME bin'[b]["llama-server"].there, ~bin'[b][f].there
        PROVE  \E u \in Term : Extracts(u, b, f)'
    <3>1. ~bin[b][f].there /\ ~(b = job[t].tag /\ f = g)
      BY <2>3, <2>4, <2>7
    <3>2. Unpacking(t, b) /\ f \in job[t].todo => Extracts(t, b, f)'
      <4> SUFFICES ASSUME Unpacking(t, b), f \in job[t].todo PROVE Extracts(t, b, f)'
        OBVIOUS
      <4>1. b = job[t].tag /\ f # g
        BY <3>1 DEF Unpacking
      <4>2. f \in job'[t].todo /\ g \notin job'[t].todo
        BY <2>2, <4>1
      <4> QED BY <1>6, <2>1, <4>1, <4>2 DEF Extracts, Unpacking
    <3>3. CASE bin[b]["llama-server"].there
      <4>1. PICK u \in Term : Extracts(u, b, f)
        BY <1>6, <2>1, <3>1, <3>3 DEF WholeInv
      <4>2. CASE u = t
        BY <3>2, <4>1, <4>2 DEF Extracts
      <4> QED BY <1>5, <4>1, <4>2
    <3>4. CASE ~bin[b]["llama-server"].there
      <4>1. b = job[t].tag /\ Unpacking(t, b)
        BY <1>0, <2>1, <2>3, <2>7, <3>4 DEF Unpacking
      <4>2. f \in job[t].todo
        BY <3>1, <3>4, <4>1 DEF WholeInv
      <4> QED BY <3>2, <4>1, <4>2
    <3> QED BY <3>3, <3>4
  <2> QED BY <2>6, <2>7
<1>7. ASSUME Extracted(t), <<b, f>> \notin cut'
      PROVE  /\ bin'[b][f].there /\ ~bin'[b][f].full =>
                   \E u \in Term : bin'[b][f].by = u /\ Extracting(u, b, f)'
             /\ bin'[b]["llama-server"].there =>
                   bin'[b][f].there \/ \E u \in Term : Extracts(u, b, f)'
  <2>1. /\ job[t].at = "unpack" /\ job'[t].at = "unpack" /\ job'[t].tag = job[t].tag
        /\ job[t].tag \in Tag /\ job[t].open \in Entry
    BY <1>0, <1>7, PullStep DEF Extracted, HasRelease, Job
  <2>2. job'[t].todo = job[t].todo
    BY <1>0, <1>7 DEF Extracted, Job
  <2>3. PICK file \in Written(t, bin[job[t].tag][job[t].open]) :
          /\ bin' = [bin EXCEPT ![job[t].tag][job[t].open] = file]
          /\ cut' = IF file = Full THEN cut \ {<<job[t].tag, job[t].open>>} ELSE cut
    BY <1>7 DEF Extracted
  <2>4. \A h \in Entry : bin'[b][h] = IF b = job[t].tag /\ h = job[t].open THEN file ELSE bin[b][h]
    BY <2>1, <2>3 DEF TypeOK
  <2>5. file = Full \/ (file = bin[job[t].tag][job[t].open] /\ file.by # t)
    BY DEF Written
  <2>6. Extracts(t, b, f) => Extracts(t, b, f)'
    BY <2>1, <2>2 DEF Extracts, Unpacking
  <2>7. CASE b = job[t].tag /\ f = job[t].open /\ file = Full
    <3>1. bin'[b][f] = Full
      BY <2>4, <2>7
    <3> QED BY <3>1 DEF Full
  <2>8. CASE ~(b = job[t].tag /\ f = job[t].open /\ file = Full)
    <3>1. bin'[b][f] = bin[b][f]
      BY <2>4, <2>5, <2>8
    <3>2. <<b, f>> \notin cut
      BY <1>7, <2>3, <2>8
    <3>3. ASSUME bin[b][f].there, ~bin[b][f].full
          PROVE  \E u \in Term : bin[b][f].by = u /\ Extracting(u, b, f)'
      <4>1. PICK u \in Term : bin[b][f].by = u /\ Extracting(u, b, f)
        BY <3>2, <3>3 DEF WholeInv
      <4>2. CASE u = t
        <5>1. b = job[t].tag /\ f = job[t].open
          BY <4>1, <4>2 DEF Extracting, Unpacking
        <5> QED BY <2>5, <2>8, <4>1, <4>2, <5>1
      <4> QED BY <1>5, <4>1, <4>2
    <3>4. ASSUME bin'[b]["llama-server"].there, ~bin[b][f].there
          PROVE  \E u \in Term : Extracts(u, b, f)'
      <4>1. CASE bin[b]["llama-server"].there
        <5>1. PICK u \in Term : Extracts(u, b, f)
          BY <3>2, <3>4, <4>1 DEF WholeInv
        <5> QED BY <1>5, <2>6, <5>1
      <4>2. CASE ~bin[b]["llama-server"].there
        <5>1. b = job[t].tag /\ job[t].open = "llama-server" /\ Unpacking(t, b)
          BY <1>0, <2>1, <2>4, <3>4, <4>2 DEF Unpacking
        <5> QED BY <1>0, <4>2, <5>1 DEF WholeInv
      <4> QED BY <4>1, <4>2
    <3> QED BY <3>1, <3>3, <3>4
  <2> QED BY <2>7, <2>8
<1>8. ASSUME \/ \E g \in Entry : Extract(t, g)
             \/ Extracted(t)
      PROVE  HoldsNext(b, f)
  BY <1>6, <1>7, <1>8 DEF HoldsNext
<1> QED BY <1>1, <1>3, <1>4, <1>8, Steps

(* A pull that finds the server's binary can rely on every file of the release
   that nobody is extracting, for any number of pulls that extract it
   together, but for those a pull that ended early left out. *)
THEOREM ServerWhole == Spec => []ServerWholeUnlessCut
<1>1. Init => WholeInv
  <2> SUFFICES ASSUME Init PROVE WholeInv
    OBVIOUS
  <2>1. \A t \in Term : job[t].at = "idle"
    BY DEF Init, Idle
  <2>2. \A b \in Tag, f \in Entry : ~bin[b][f].there
    BY DEF Init, Absent
  <2>3. "llama-server" \in Entry
    BY DEF Entry
  <2> QED BY <2>1, <2>2, <2>3 DEF WholeInv, Unpacking
<1>2. Typed /\ WholeInv /\ [Next]_vars => WholeInv'
  <2> SUFFICES ASSUME Typed, WholeInv, [Next]_vars PROVE WholeInv'
    OBVIOUS
  <2>1. CASE Next
    BY <2>1, NextIsStep, WholeStep DEF Typed
  <2>2. CASE UNCHANGED vars
    BY <2>2 DEF vars, WholeInv, Unpacking, Extracting, Extracts
  <2> QED BY <2>1, <2>2
<1>3. WholeInv => ServerWholeUnlessCut
  <2> SUFFICES ASSUME WholeInv, NEW b \in Tag, NEW f \in Entry,
                      bin[b]["llama-server"].there, <<b, f>> \notin cut,
                      \A t \in Term : job[t].tag = b /\ job[t].at = "unpack" =>
                                       f \notin job[t].todo /\ job[t].open # f
               PROVE  bin[b][f].full
    BY DEF ServerWholeUnlessCut
  <2>1. \A t \in Term : ~Extracts(t, b, f) /\ ~Extracting(t, b, f)
    BY DEF Extracts, Extracting, Unpacking
  <2> QED BY <2>1 DEF WholeInv
<1> QED BY <1>1, <1>2, <1>3, TypedAlways, PTL DEF Spec
-----------------------------------------------------------------------------
(* Why no change of the configuration is lost: a command whose configuration
   is still what it loaded holds the changes of all that saved before it, and
   its own. *)
Was == IF merged = NoConfig THEN Default ELSE merged
ToSave(t) == job[t].at \in {"release", "unpack", "open", "copy", "rename", "answer",
                           "truncate", "save"}
SavesNow(t) == job[t].at = "save"

OpInv ==
    \A t \in Term :
       /\ job[t].op = "none" => job[t].at = "idle"
       /\ job[t].at \in {"release", "unpack", "open", "copy", "rename", "answer"}
             => job[t].op = "pull"

ChangeInv ==
    ~lost =>
    /\ (\A t \in Term : ~SavesNow(t)) => config = merged
    /\ \A t \in Term :
          /\ job[t].fresh /\ ToSave(t)
          /\ \A u \in Term \ {t} : ~SavesNow(u)
          => Change(t) = job[t].cfg

LEMMA PullOp ==
    ASSUME TypeOK, NEW t \in Term,
           \/ Release(t) \/ (\E f \in Entry : Extract(t, f)) \/ Extracted(t) \/ FindModel(t)
           \/ OpenTmp(t) \/ Copied(t) \/ Rename(t) \/ Answer(t)
    PROVE  job'[t].op = job[t].op /\ job[t].at # "idle"
<1>0. job \in [Term -> Job] /\ job[t] \in Job
  BY DEF TypeOK
<1>1. CASE Release(t)
  <2>1. PICK b \in Tag :
          job' = [job EXCEPT ![t].at = "unpack", ![t].tag = b,
                             ![t].todo = IF job[t].force \/ ~bin[b]["llama-server"].there
                                         THEN Entry ELSE {}]
    BY <1>1 DEF Release
  <2>2. job'[t].op = job[t].op
    BY <1>0, <2>1 DEF Job
  <2> QED BY <1>1, <2>2 DEF Release
<1>2. ASSUME NEW f \in Entry, Extract(t, f)
      PROVE  job'[t].op = job[t].op /\ job[t].at # "idle"
  BY <1>0, <1>2 DEF Extract, Job
<1>3. CASE Extracted(t)
  BY <1>0, <1>3 DEF Extracted, Job
<1>4. CASE FindModel(t)
  BY <1>0, <1>4 DEF FindModel, Goto, Job
<1>5. CASE OpenTmp(t)
  BY <1>0, <1>5 DEF OpenTmp, Job
<1>6. CASE Copied(t)
  BY <1>0, <1>6 DEF Copied, Job
<1>7. CASE Rename(t)
  BY <1>0, <1>7 DEF Rename, Job
<1>8. CASE Answer(t)
  <2>1. PICK yes \in BOOLEAN :
          job' = [job EXCEPT ![t].at = "truncate", ![t].cfg = WithPaths(t, yes)]
    BY <1>8 DEF Answer
  <2>2. job'[t].op = job[t].op
    BY <1>0, <2>1 DEF Job
  <2> QED BY <1>8, <2>2 DEF Answer
<1> QED BY <1>1, <1>2, <1>3, <1>4, <1>5, <1>6, <1>7, <1>8

(* Any other step leaves what the command does, or ends it. *)
LEMMA OpStep ==
    ASSUME TypeOK, NEW t \in Term, Step(t)
    PROVE  \/ Install(t) \/ InitConfig(t) \/ Pull(t)
           \/ job'[t].at = "idle" /\ job'[t].op = "none"
           \/ job'[t].op = job[t].op /\ job[t].at # "idle"
<1>0. job \in [Term -> Job] /\ job[t] \in Job
  BY DEF TypeOK
<1>1. CASE Truncate(t) \/ Save(t) \/ SaveFails(t)
  <2>1. ASSUME NEW at, Outdated(t, at)
        PROVE  \/ job'[t].at = "idle" /\ job'[t].op = "none"
               \/ job'[t].op = job[t].op
    <3>1. CASE at = "idle"
      BY <2>1, <3>1 DEF Outdated, Idle
    <3>2. CASE at # "idle"
      BY <1>0, <2>1, <3>2 DEF Outdated, Job
    <3> QED BY <3>1, <3>2
  <2> QED BY <1>1, <2>1 DEF Truncate, Save, SaveFails
<1>2. CASE SaveAgents(t) \/ WriteProfile(t) \/ ProfileFails(t)
  BY <1>0, <1>2 DEF SaveAgents, WriteProfile, ProfileFails, Goto, Job
<1>3. CASE \/ MergeSettings(t) \/ SettingsFail(t) \/ LeaveSettings(t) \/ Panic(t) \/ CutShort(t)
           \/ FetchFails(t) \/ Dies(t)
  <2>1. job'[t] = Idle
    BY <1>0, <1>3 DEF MergeSettings, SettingsFail, LeaveSettings, Panic, CutShort, Ends, Over,
                      FetchFails, DownloadFails, RenameFails, GivesUp, Dies
  <2> QED BY <2>1 DEF Idle
<1> QED BY <1>1, <1>2, <1>3, PullOp DEF Step

LEMMA OpNext == TypeOK /\ OpInv /\ [Next]_vars => OpInv'
<1> SUFFICES ASSUME TypeOK, OpInv, [Next]_vars PROVE OpInv'
  OBVIOUS
<1>1. ASSUME NEW t \in Term, Step(t), NEW u \in Term
      PROVE  /\ job'[u].op = "none" => job'[u].at = "idle"
             /\ job'[u].at \in {"release", "unpack", "open", "copy", "rename", "answer"}
                   => job'[u].op = "pull"
  <2>1. CASE u # t
    BY <1>1, <2>1, OthersStay DEF OpInv
  <2>2. CASE Install(t) \/ InitConfig(t) \/ Pull(t)
    BY <1>1, <2>1, <2>2, StartsBegun DEF Begun
  <2>3. CASE u = t /\ ~(Install(t) \/ InitConfig(t) \/ Pull(t))
    <3>1. CASE job'[t].at = "idle" /\ job'[t].op = "none"
      BY <2>3, <3>1
    <3>2. CASE job'[t].op = job[t].op /\ job[t].at # "idle"
      <4>1. job[t].op # "none"
        BY <3>2 DEF OpInv
      <4>2. job'[t].at \in {"release", "unpack", "open", "copy", "rename", "answer"}
              => job[t].op = "pull"
        <5>1. CASE OtherStep(t)
          BY <1>1, <2>3, <5>1, NeverBack, OtherStepLeaves
        <5>2. CASE FetchFails(t)
          BY <5>2, FailedLeaves DEF Idle
        <5>3. CASE Release(t)
          BY <5>3 DEF Release, OpInv
        <5>4. CASE \/ (\E f \in Entry : Extract(t, f)) \/ Extracted(t) \/ FindModel(t)
                   \/ OpenTmp(t) \/ Copied(t) \/ Rename(t) \/ Answer(t)
          BY <5>4, PullStep DEF OpInv
        <5> QED BY <1>1, <5>1, <5>2, <5>3, <5>4, Steps
      <4> QED BY <2>3, <3>2, <4>1, <4>2
    <3> QED BY <1>1, <2>3, <3>1, <3>2, OpStep
  <2> QED BY <2>1, <2>2, <2>3
<1>2. CASE Next
  BY <1>1, <1>2, NextIsStep DEF OpInv
<1>3. CASE UNCHANGED vars
  BY <1>3 DEF vars, OpInv
<1> QED BY <1>2, <1>3

(* The configuration a command began with holds all changes so far. *)
LEMMA ChangeBegun ==
    ASSUME TypeOK, NEW t \in Term, Begun(t), config = merged, merged' = merged
    PROVE  Change(t)' = job'[t].cfg
<1>1. Load = Was /\ Was \in Config /\ Load \in Config
  BY IdleIsJob DEF Load, Was, TypeOK
<1>2. Change(t)' = CASE job'[t].op = "install" -> [Was EXCEPT !.upstream = job'[t].cfg.upstream]
                     [] job'[t].op = "pull" ->
                          [Was EXCEPT !.paths = job'[t].cfg.paths, !.enabled = job'[t].cfg.enabled]
                     [] OTHER -> IF merged = NoConfig THEN job'[t].cfg ELSE merged
  BY DEF Change, Was
<1>3. CASE job'[t].op = "install"
  <2>1. PICK up \in Upstream : job'[t].cfg = [Was EXCEPT !.upstream = up]
    BY <1>1, <1>3 DEF Begun, WithUpstream
  <2>2. job'[t].cfg.upstream = up
    BY <1>1, <2>1 DEF Config
  <2> QED BY <1>2, <1>3, <2>1, <2>2
<1>4. CASE job'[t].op = "pull"
  <2>1. job'[t].cfg = Was
    BY <1>1, <1>4 DEF Begun
  <2>2. [Was EXCEPT !.paths = Was.paths, !.enabled = Was.enabled] = Was
    BY <1>1 DEF Config
  <2> QED BY <1>2, <1>4, <2>1, <2>2
<1>5. CASE job'[t].op = "init"
  BY <1>2, <1>5 DEF Begun
<1> QED BY <1>3, <1>4, <1>5 DEF Begun

(* What it does to its own copy is its own change. *)
LEMMA ChangeAnswered ==
    ASSUME TypeOK, OpInv, NEW t \in Term, Answer(t), Change(t) = job[t].cfg
    PROVE  Change(t)' = job'[t].cfg
<1>1. /\ job \in [Term -> Job] /\ job[t] \in Job /\ job[t].cfg \in Config
      /\ Was \in Config
  BY IdleIsJob DEF TypeOK, Job, Was
<1>2. PICK yes \in BOOLEAN :
        job' = [job EXCEPT ![t].at = "truncate", ![t].cfg = WithPaths(t, yes)]
  BY DEF Answer
<1>3. job[t].op = "pull" /\ job'[t].op = "pull"
  BY PullOp DEF Answer, OpInv
<1> DEFINE new == WithPaths(t, yes)
<1>4. new \in Config
  BY <1>1, WithPathsType
<1>5. new.upstream = job[t].cfg.upstream
  BY <1>1 DEF WithPaths, Config
<1> HIDE DEF new
<1>6. job'[t].cfg = new
  BY <1>1, <1>2 DEF Job, new
<1>7. job[t].cfg.upstream = Was.upstream
  BY <1>1, <1>3 DEF Change, Was, Config
<1>8. Change(t)' = [Was EXCEPT !.paths = new.paths, !.enabled = new.enabled]
  BY <1>3, <1>6 DEF Change, Was, Answer, Elsewhere, past
<1>9. [Was EXCEPT !.paths = new.paths, !.enabled = new.enabled] = new
  BY <1>1, <1>4, <1>5, <1>7 DEF Config
<1> QED BY <1>6, <1>8, <1>9

(* A step that changes neither the file nor what the command saves. *)
LEMMA ChangeKept ==
    ASSUME NEW u \in Term, Change(u) = job[u].cfg,
           job'[u].op = job[u].op, job'[u].cfg = job[u].cfg, merged' = merged
    PROVE  Change(u)' = job'[u].cfg
  BY DEF Change

LEMMA FreshStays ==
    ASSUME TypeOK, NEW t \in Term, NEW u \in Term \ {t}, Step(t)
    PROVE  /\ job'[u].fresh => job[u].fresh
           /\ Truncate(t) \/ Save(t) \/ SaveFails(t) => job[u].op = "none" \/ ~job'[u].fresh
<1>0. job \in [Term -> Job] /\ job[u] \in Job /\ job[u].fresh \in BOOLEAN
  BY DEF TypeOK, Job
<1>1. ASSUME Truncate(t) \/ Save(t) \/ SaveFails(t)
      PROVE  /\ job'[u].fresh => job[u].fresh
             /\ job[u].op = "none" \/ ~job'[u].fresh
  <2>1. job'[u] = [job[u] EXCEPT !.fresh = IF job[u].op = "none" THEN @ ELSE FALSE]
    BY <1>0, <1>1 DEF Truncate, Save, SaveFails, Outdated
  <2>2. CASE job[u].op = "none"
    BY <1>0, <2>1, <2>2 DEF Job
  <2>3. CASE job[u].op # "none"
    BY <1>0, <2>1, <2>3 DEF Job
  <2> QED BY <2>2, <2>3
<1>2. CASE Install(t) \/ InitConfig(t) \/ Pull(t)
  BY <1>1, <1>2, Started
<1>3. CASE \/ SaveAgents(t) \/ WriteProfile(t) \/ ProfileFails(t)
           \/ MergeSettings(t) \/ SettingsFail(t) \/ LeaveSettings(t) \/ Panic(t) \/ CutShort(t)
  <2>1. job'[u] = job[u]
    BY <1>0, <1>3 DEF SaveAgents, WriteProfile, ProfileFails, MergeSettings, SettingsFail,
                      LeaveSettings,
                      Panic, CutShort, Goto, Ends, Over
  <2> QED BY <1>1, <2>1
<1>4. CASE \/ Release(t) \/ (\E f \in Entry : Extract(t, f)) \/ Extracted(t)
           \/ FindModel(t) \/ OpenTmp(t) \/ Copied(t)
           \/ Answer(t) \/ Dies(t)
  <2>1. job'[u] = job[u]
    BY <1>0, <1>4 DEF Release, Extract, Extracted, FindModel, OpenTmp, Copied,
                      Answer, Dies, Goto, Over
  <2> QED BY <1>1, <2>1
<1>5. CASE FetchFails(t)
  <2>1. job'[u] = [job[u] EXCEPT !.fd = Unlinked(@)]
    BY <1>0, <1>5 DEF FetchFails, DownloadFails, RenameFails, GivesUp
  <2> QED BY <1>0, <1>1, <2>1 DEF Job
<1>6. CASE Rename(t)
  <2>1. job'[u] = [job[u] EXCEPT !.fd = Moved(@)]
    BY <1>0, <1>6 DEF Rename
  <2> QED BY <1>0, <1>1, <2>1 DEF Job
<1>7. CASE Truncate(t) \/ Save(t) \/ SaveFails(t)
  BY <1>1, <1>7
<1> QED BY <1>2, <1>3, <1>4, <1>5, <1>6, <1>7 DEF Step

LEMMA ChangeStep ==
    ASSUME TypeOK, OpInv, ChangeInv, NEW t \in Term, Step(t)
    PROVE  ChangeInv'
<1> SUFFICES ASSUME ~lost' PROVE ChangeInv'
  BY DEF ChangeInv
<1>0. /\ job \in [Term -> Job] /\ job[t] \in Job
      /\ job[t].cfg \in Config
  BY DEF TypeOK, Job
<1>1. ASSUME NEW u \in Term \ {t}
      PROVE  /\ ToSave(u)' <=> ToSave(u)
             /\ SavesNow(u)' <=> SavesNow(u)
             /\ job'[u].op = job[u].op /\ job'[u].cfg = job[u].cfg
             /\ job'[u].fresh => job[u].fresh
  BY OthersStay, FreshStays DEF ToSave, SavesNow
<1> DEFINE Held(u) == /\ job[u].fresh /\ ToSave(u)
                      /\ \A v \in Term \ {u} : ~SavesNow(v)
                      => Change(u) = job[u].cfg
           HeldNext(u) == /\ job'[u].fresh /\ ToSave(u)'
                          /\ \A v \in Term \ {u} : ~SavesNow(v)'
                          => Change(u)' = job'[u].cfg
<1>2. /\ ~lost => (\A u \in Term : Held(u))
      /\ ~lost /\ (\A u \in Term : ~SavesNow(u)) => config = merged
  BY DEF ChangeInv
<1>3. ASSUME \A u \in Term : HeldNext(u),
             (\A u \in Term : ~SavesNow(u)') => config' = merged'
      PROVE  ChangeInv'
  BY <1>3 DEF ChangeInv
(* The steps that leave the file and were not saving. *)
<1>4. ASSUME ~SavesNow(t), ~SavesNow(t)', UNCHANGED <<config, merged, lost>>,
             HeldNext(t)
      PROVE  ChangeInv'
  <2>1. \A u \in Term \ {t} : HeldNext(u)
    <3> SUFFICES ASSUME NEW u \in Term \ {t}, job'[u].fresh, ToSave(u)',
                        \A v \in Term \ {u} : ~SavesNow(v)'
                 PROVE  Change(u)' = job'[u].cfg
      OBVIOUS
    <3>1. Change(u) = job[u].cfg
      BY <1>1, <1>2, <1>4
    <3> QED BY <1>1, <1>4, <3>1, ChangeKept
  <2>2. (\A u \in Term : ~SavesNow(u)') => config' = merged'
    BY <1>1, <1>2, <1>4
  <2> QED BY <1>3, <1>4, <2>1, <2>2
<1>5. CASE Truncate(t)
  <2>1. job[t].at = "truncate" /\ job'[t].at = "save" /\ job[t].fresh /\ ~lost /\ merged' = merged
    BY <1>5, OutdatedAt DEF Truncate
  <2>2. SavesNow(t)'
    BY <2>1 DEF SavesNow
  <2>3. ASSUME NEW u \in Term \ {t} PROVE HeldNext(u)
    BY <2>2
  <2>4. HeldNext(t)
    <3> SUFFICES ASSUME \A v \in Term \ {t} : ~SavesNow(v)' PROVE Change(t)' = job'[t].cfg
      OBVIOUS
    <3>1. Change(t) = job[t].cfg
      BY <1>1, <1>2, <2>1 DEF ToSave
    <3>2. job'[t].op = job[t].op /\ job'[t].cfg = job[t].cfg
      BY <1>0, <1>5 DEF Truncate, Outdated, Job
    <3> QED BY <2>1, <3>1, <3>2, ChangeKept
  <2> QED BY <1>3, <2>2, <2>3, <2>4
<1>6. CASE Save(t)
  <2>1. /\ job[t].at = "save" /\ job'[t].at \in {"agents", "idle"} /\ job[t].fresh /\ ~lost
        /\ config' = job[t].cfg /\ merged' = Change(t)
    BY <1>6, OutdatedAt DEF Save
  <2>2. ~ToSave(t)' /\ SavesNow(t) /\ ~SavesNow(t)'
    BY <2>1 DEF ToSave, SavesNow
  <2>3. ASSUME NEW u \in Term \ {t} PROVE HeldNext(u)
    <3>1. job[u].op = "none" \/ ~job'[u].fresh
      BY <1>6, FreshStays
    <3>2. job[u].op = "none" => ~ToSave(u)
      BY DEF OpInv, ToSave
    <3> QED BY <1>1, <3>1, <3>2
  <2>4. (\A u \in Term : ~SavesNow(u)') => config' = merged'
    <3> SUFFICES ASSUME \A u \in Term : ~SavesNow(u)' PROVE config' = merged'
      OBVIOUS
    <3>1. Change(t) = job[t].cfg
      BY <1>1, <1>2, <2>1 DEF ToSave
    <3> QED BY <2>1, <3>1
  <2> QED BY <1>3, <2>2, <2>3, <2>4
<1>7. CASE Install(t) \/ InitConfig(t) \/ Pull(t)
  <2>1. Begun(t) /\ UNCHANGED <<config, merged, lost>>
    BY <1>7, StartsBegun
  <2>2. ~SavesNow(t) /\ ~SavesNow(t)'
    BY <1>7, <2>1, Started DEF Begun, SavesNow, Idle
  <2>3. HeldNext(t)
    <3> SUFFICES ASSUME \A v \in Term \ {t} : ~SavesNow(v)' PROVE Change(t)' = job'[t].cfg
      OBVIOUS
    <3>1. config = merged
      BY <1>1, <1>2, <2>1, <2>2
    <3> QED BY <2>1, <3>1, ChangeBegun
  <2> QED BY <1>4, <2>1, <2>2, <2>3
<1>8. CASE Answer(t)
  <2>1. UNCHANGED <<config, merged, lost>> /\ job[t].at = "answer" /\ job'[t].at = "truncate"
    BY <1>8, PullStep DEF Answer, Elsewhere, past
  <2>2. ~SavesNow(t) /\ ~SavesNow(t)'
    BY <2>1 DEF SavesNow
  <2>3. HeldNext(t)
    <3> SUFFICES ASSUME job'[t].fresh, \A v \in Term \ {t} : ~SavesNow(v)'
                 PROVE  Change(t)' = job'[t].cfg
      OBVIOUS
    <3>1. job[t].fresh
      <4>1. PICK yes \in BOOLEAN :
              job' = [job EXCEPT ![t].at = "truncate", ![t].cfg = WithPaths(t, yes)]
        BY <1>8 DEF Answer
      <4>2. job'[t].fresh = job[t].fresh
        BY <1>0, <4>1 DEF Job
      <4> QED BY <4>2
    <3>2. Change(t) = job[t].cfg
      BY <1>1, <1>2, <2>1, <3>1 DEF ToSave
    <3> QED BY <1>8, <3>2, ChangeAnswered
  <2> QED BY <1>4, <2>1, <2>2, <2>3
<1>9. CASE \/ Release(t) \/ (\E f \in Entry : Extract(t, f)) \/ Extracted(t) \/ FindModel(t)
           \/ OpenTmp(t) \/ Copied(t) \/ Rename(t)
  <2>1. UNCHANGED <<config, merged, lost>>
    BY <1>9 DEF Release, Extract, Extracted, FindModel, OpenTmp, Copied, Rename, Elsewhere, past
  <2>2. /\ job[t].at \in {"release", "unpack", "open", "copy", "rename"}
        /\ job'[t].at \in {"unpack", "open", "copy", "rename", "answer"}
    BY <1>9, PullStep DEF Release
  <2>3. job'[t].op = job[t].op
    BY <1>9, PullOp
  <2>4. job'[t].cfg = job[t].cfg /\ job'[t].fresh = job[t].fresh
    <3>1. CASE Release(t)
      <4>1. PICK b \in Tag :
              job' = [job EXCEPT ![t].at = "unpack", ![t].tag = b,
                                 ![t].todo = IF job[t].force \/ ~bin[b]["llama-server"].there
                                             THEN Entry ELSE {}]
        BY <3>1 DEF Release
      <4> QED BY <1>0, <4>1 DEF Job
    <3>2. ASSUME NEW f \in Entry, Extract(t, f)
          PROVE  job'[t].cfg = job[t].cfg /\ job'[t].fresh = job[t].fresh
      BY <1>0, <3>2 DEF Extract, Job
    <3>3. CASE Extracted(t)
      BY <1>0, <3>3 DEF Extracted, Job
    <3>4. CASE FindModel(t)
      BY <1>0, <3>4 DEF FindModel, Goto, Job
    <3>5. CASE OpenTmp(t)
      BY <1>0, <3>5 DEF OpenTmp, Job
    <3>6. CASE Copied(t)
      BY <1>0, <3>6 DEF Copied, Job
    <3>7. CASE Rename(t)
      BY <1>0, <3>7 DEF Rename, Job
    <3> QED BY <1>9, <3>1, <3>2, <3>3, <3>4, <3>5, <3>6, <3>7
  <2>5. ~SavesNow(t) /\ ~SavesNow(t)' /\ ToSave(t)
    BY <2>2 DEF SavesNow, ToSave
  <2>6. HeldNext(t)
    <3> SUFFICES ASSUME job'[t].fresh, \A v \in Term \ {t} : ~SavesNow(v)'
                 PROVE  Change(t)' = job'[t].cfg
      OBVIOUS
    <3>1. Change(t) = job[t].cfg
      BY <1>1, <1>2, <2>1, <2>4, <2>5
    <3> QED BY <2>1, <2>3, <2>4, <3>1, ChangeKept
  <2> QED BY <1>4, <2>1, <2>5, <2>6
<1>10. CASE \/ SaveAgents(t) \/ WriteProfile(t) \/ ProfileFails(t)
            \/ MergeSettings(t) \/ SettingsFail(t) \/ LeaveSettings(t) \/ Panic(t) \/ CutShort(t)
            \/ FetchFails(t) \/ Dies(t)
  <2>1. UNCHANGED <<config, merged, lost>>
    <3>1. CASE Dies(t)
      <4>1. ~lost /\ lost \in BOOLEAN /\ lost' \in BOOLEAN
        BY <3>1 DEF Dies, TypeOK
      <4>2. lost' = lost
        BY <4>1
      <4> QED BY <3>1, <4>2 DEF Dies
    <3>2. CASE FetchFails(t)
      BY <3>2 DEF FetchFails, DownloadFails, RenameFails, GivesUp, Elsewhere, past
    <3>3. CASE \/ SaveAgents(t) \/ WriteProfile(t) \/ ProfileFails(t)
               \/ MergeSettings(t) \/ SettingsFail(t) \/ LeaveSettings(t) \/ Panic(t) \/ CutShort(t)
      BY <3>3 DEF SaveAgents, WriteProfile, ProfileFails, MergeSettings, SettingsFail,
                  LeaveSettings, Panic,
                  CutShort, Rest, past
    <3> QED BY <1>10, <3>1, <3>2, <3>3
  <2>2. ~SavesNow(t)
    BY <1>10 DEF SavesNow, SaveAgents, WriteProfile, ProfileFails, MergeSettings, SettingsFail,
                 LeaveSettings,
                 Panic, CutShort, FetchFails, DownloadFails, RenameFails, GivesUp, Dies, Goto, Ends
  <2>3. job'[t].at \in {"profile", "settings", "idle"}
    <3>1. CASE SaveAgents(t) \/ WriteProfile(t) \/ ProfileFails(t)
      BY <1>0, <3>1 DEF SaveAgents, WriteProfile, ProfileFails, Goto, Job
    <3>2. CASE \/ MergeSettings(t) \/ SettingsFail(t) \/ LeaveSettings(t) \/ Panic(t) \/ CutShort(t)
               \/ FetchFails(t) \/ Dies(t)
      <4>1. job'[t] = Idle
        BY <1>0, <3>2 DEF MergeSettings, SettingsFail, LeaveSettings, Panic, CutShort, Ends, Over,
                          FetchFails, DownloadFails, RenameFails, GivesUp, Dies
      <4> QED BY <4>1 DEF Idle
    <3> QED BY <1>10, <3>1, <3>2
  <2>4. ~SavesNow(t)' /\ HeldNext(t)
    BY <2>3 DEF SavesNow, ToSave
  <2> QED BY <1>4, <2>1, <2>2, <2>4
<1>11. ~SaveFails(t)
  BY DEF SaveFails
<1> QED BY <1>5, <1>6, <1>7, <1>8, <1>9, <1>10, <1>11 DEF Step

(* The changes of install, init and pull add up in config.yaml, for any
   number of commands in any order, unless one of them wrote over a change it
   had not seen or died while writing. *)
THEOREM ChangesAddUp == Spec => []EveryChangeKept
<1> DEFINE Inv == Typed /\ OpInv /\ ChangeInv
<1>1. Init => Inv
  <2> SUFFICES ASSUME Init PROVE Inv
    OBVIOUS
  <2>1. \A t \in Term : job[t].at = "idle"
    BY DEF Init, Idle
  <2>2. OpInv /\ HasRelease
    BY <2>1 DEF OpInv, HasRelease
  <2>3. ChangeInv
    BY <2>1 DEF Init, ChangeInv, ToSave
  <2> QED BY <2>2, <2>3, TypeInit DEF Typed
<1>2. Inv /\ [Next]_vars => Inv'
  <2> SUFFICES ASSUME Inv, [Next]_vars PROVE Inv'
    OBVIOUS
  <2>1. Typed' /\ OpInv'
    BY TypeNext, ReleaseNext, OpNext DEF Typed
  <2>2. CASE Next
    BY <2>1, <2>2, NextIsStep, ChangeStep DEF Typed
  <2>3. CASE UNCHANGED vars
    BY <2>1, <2>3 DEF vars, ChangeInv, ToSave, SavesNow, Change
  <2> QED BY <2>2, <2>3
<1>3. Inv => EveryChangeKept
  BY DEF ChangeInv, EveryChangeKept, SavesNow
<1> QED BY <1>1, <1>2, <1>3, PTL DEF Spec
-----------------------------------------------------------------------------
(* Why an install takes effect: at most one runs, from the first question to
   the last file; while it runs no other has ended, and what it has written so
   far nobody else changes. *)
Installs(t) == job[t].op = "install"

EffectInv ==
    /\ \A t, u \in Term : Installs(t) /\ Installs(u) => t = u
    /\ \A t \in Term :
          /\ job[t].at \in {"agents", "profile", "settings"} => Installs(t)
          /\ job[t].at \in {"profile", "settings"} => agents = job[t].agents
          /\ job[t].tidy => /\ job[t].at = "settings"
                            /\ Sourced(profile) = ToSet(EnvExports(job[t].agents))
    /\ last # None => \A t \in Term : ~Installs(t)
    /\ InstallTakesEffect

(* The steps that change none of what an install writes. *)
LEMMA EffectKept ==
    ASSUME TypeOK, EffectInv, NEW t \in Term, Step(t), UNCHANGED home,
           Installs(t)' => Installs(t),
           job'[t].at \notin {"profile", "settings"}, ~job'[t].tidy,
           job'[t].at = "agents" => Installs(t)'
    PROVE  EffectInv'
<1>1. ASSUME NEW u \in Term \ {t}
      PROVE  job'[u].at = job[u].at /\ job'[u].op = job[u].op
             /\ job'[u].agents = job[u].agents /\ job'[u].tidy = job[u].tidy
  BY OthersStay
<1>2. UNCHANGED <<agents, profile, settings, last>>
  BY DEF home
<1>3. InstallTakesEffect'
  BY <1>2 DEF EffectInv, InstallTakesEffect
<1>4. \A u \in Term : Installs(u)' => Installs(u)
  BY <1>1 DEF Installs
<1>5. last' # None => \A u \in Term : ~Installs(u)'
  BY <1>2, <1>4 DEF EffectInv
<1>6. \A u, v \in Term : Installs(u)' /\ Installs(v)' => u = v
  BY <1>4 DEF EffectInv
<1>7. ASSUME NEW u \in Term
      PROVE  /\ job'[u].at \in {"agents", "profile", "settings"} => Installs(u)'
             /\ job'[u].at \in {"profile", "settings"} => agents' = job'[u].agents
             /\ job'[u].tidy => /\ job'[u].at = "settings"
                                /\ Sourced(profile') = ToSet(EnvExports(job'[u].agents))
  <2>1. CASE u = t
    BY <2>1
  <2>2. CASE u # t
    BY <1>1, <1>2, <2>2 DEF EffectInv, Installs
  <2> QED BY <2>1, <2>2
<1> QED BY <1>3, <1>5, <1>6, <1>7 DEF EffectInv

(* The steps of the one install that runs, while it writes. *)
Writes(t) ==
    \/ SaveAgents(t) \/ WriteProfile(t) \/ ProfileFails(t)
    \/ MergeSettings(t) \/ SettingsFail(t) \/ LeaveSettings(t) \/ CutShort(t)

LEMMA EffectWritten ==
    ASSUME TypeOK, EffectInv, NEW t \in Term, Writes(t)
    PROVE  EffectInv'
<1>0. job \in [Term -> Job] /\ job[t] \in Job /\ profile \in Text
  BY DEF TypeOK
<1>1. ASSUME NEW u \in Term \ {t} PROVE job'[u] = job[u]
  BY <1>0 DEF Writes, SaveAgents, WriteProfile, ProfileFails, MergeSettings, SettingsFail,
              LeaveSettings,
              CutShort, Goto, Ends, Over
<1>2. Installs(t) /\ job[t].at \in {"agents", "profile", "settings"}
  <2>1. job[t].at \in {"agents", "profile", "settings"}
    BY DEF Writes, SaveAgents, WriteProfile, ProfileFails, MergeSettings, SettingsFail,
           LeaveSettings,
           CutShort, Goto, Ends
  <2> QED BY <2>1 DEF EffectInv
<1>3. last = None /\ \A u \in Term \ {t} : ~Installs(u)
  BY <1>2 DEF EffectInv
<1>4. \A u \in Term \ {t} : /\ ~Installs(u)' /\ ~job'[u].tidy
                            /\ job'[u].at \notin {"agents", "profile", "settings"}
  BY <1>1, <1>3 DEF EffectInv, Installs
<1>5. \A u, v \in Term : Installs(u)' /\ Installs(v)' => u = v
  BY <1>4
<1>6. ASSUME last' = last, Installs(t)' \/ job'[t].at = "idle",
             job'[t].at \in {"profile", "settings"} => agents' = job'[t].agents,
             job'[t].tidy => /\ job'[t].at = "settings"
                             /\ Sourced(profile') = ToSet(EnvExports(job'[t].agents))
      PROVE  EffectInv'
  <2>1. last' = None
    BY <1>3, <1>6
  <2>2. InstallTakesEffect'
    BY <2>1 DEF InstallTakesEffect
  <2> QED BY <1>4, <1>5, <1>6, <2>1, <2>2 DEF EffectInv
<1>7. CASE SaveAgents(t)
  <2>1. /\ job[t].at = "agents" /\ job'[t].at \in {"profile", "settings"}
        /\ job'[t].op = job[t].op /\ job'[t].tidy = job[t].tidy
        /\ job'[t].agents = job[t].agents
        /\ agents' = job[t].agents /\ last' = last
    BY <1>0, <1>7 DEF SaveAgents, Goto, Job
  <2>2. ~job[t].tidy
    BY <2>1 DEF EffectInv
  <2> QED BY <1>2, <1>6, <2>1, <2>2 DEF Installs
<1>8. CASE WriteProfile(t)
  <2>1. /\ job[t].at = "profile" /\ job'[t].at = "settings" /\ job'[t].tidy = Tidy(profile)
        /\ job'[t].op = job[t].op /\ job'[t].agents = job[t].agents
    BY <1>0, <1>8 DEF WriteProfile, Job
  <2>2. agents' = agents /\ last' = last /\ agents = job[t].agents
        /\ profile' = WriteShellProfile(profile, job[t].agents)
    BY <1>8, <2>1 DEF WriteProfile, EffectInv
  <2>3. Tidy(profile) => Sourced(profile') = ToSet(EnvExports(job[t].agents))
    BY <1>0, <2>2, WriteExports
  <2> QED BY <1>2, <1>6, <2>1, <2>2, <2>3 DEF Installs
<1>9. CASE ProfileFails(t)
  <2>1. /\ job[t].at = "profile" /\ job'[t].at = "settings"
        /\ job'[t].op = job[t].op /\ job'[t].tidy = job[t].tidy
        /\ job'[t].agents = job[t].agents
        /\ agents' = agents /\ last' = last
    BY <1>0, <1>9 DEF ProfileFails, Goto, Job, home
  <2>2. ~job[t].tidy /\ agents = job[t].agents
    BY <2>1 DEF EffectInv
  <2> QED BY <1>2, <1>6, <2>1, <2>2 DEF Installs
<1>10. CASE CutShort(t)
  <2>1. job'[t] = Idle /\ last' = last
    BY <1>0, <1>10 DEF CutShort, Over
  <2>2. job'[t].at = "idle" /\ ~job'[t].tidy
    BY <2>1 DEF Idle
  <2> QED BY <1>6, <2>1, <2>2
<1>11. CASE MergeSettings(t) \/ SettingsFail(t) \/ LeaveSettings(t)
  <2>1. /\ job'[t] = Idle /\ job[t].at = "settings"
        /\ agents' = agents /\ profile' = profile
    BY <1>0, <1>11 DEF MergeSettings, SettingsFail, LeaveSettings, Ends, Over
  <2>2. ~Installs(t)' /\ ~job'[t].tidy /\ job'[t].at = "idle"
    BY <2>1 DEF Idle, Installs
  <2>3. /\ last'.agents = job[t].agents /\ last'.tidy = job[t].tidy
        /\ "claude" \in job[t].agents /\ ~last'.warned => settings'.url
    <3>1. CASE MergeSettings(t)
      BY <3>1 DEF MergeSettings, Ends, MergeJSONEnv
    <3>2. CASE SettingsFail(t)
      BY <3>2 DEF SettingsFail, Ends
    <3>3. CASE LeaveSettings(t)
      BY <3>3 DEF LeaveSettings, Ends
    <3> QED BY <1>11, <3>1, <3>2, <3>3
  <2>4. agents = job[t].agents
    BY <2>1 DEF EffectInv
  <2>5. job[t].tidy => Sourced(profile) = ToSet(EnvExports(job[t].agents))
    BY DEF EffectInv
  <2>6. InstallTakesEffect'
    BY <2>1, <2>3, <2>4, <2>5 DEF InstallTakesEffect
  <2>7. \A u \in Term : ~Installs(u)'
    BY <1>4, <2>2
  <2> QED BY <1>4, <2>2, <2>6, <2>7 DEF EffectInv
<1> QED BY <1>7, <1>8, <1>9, <1>10, <1>11 DEF Writes

LEMMA EffectStep ==
    ASSUME TypeOK, OpInv, EffectInv, NEW t \in Term, Step(t)
    PROVE  EffectInv'
<1>0. job \in [Term -> Job] /\ job[t] \in Job
  BY DEF TypeOK
<1>1. CASE Install(t)
  <2>1. /\ \A u \in Term : ~Installs(u)
        /\ last' = None /\ UNCHANGED <<agents, profile, settings>>
    BY <1>1 DEF Install, Installs
  <2>2. job'[t].at \in {"truncate", "release"} /\ ~job'[t].tidy
    BY <1>1, Started
  <2>3. \A u \in Term \ {t} : job'[u] = job[u]
    BY <1>1, Started
  <2>4. \A u \in Term \ {t} : ~Installs(u)' /\ ~job'[u].tidy
                              /\ job'[u].at \notin {"agents", "profile", "settings"}
    BY <2>1, <2>3 DEF EffectInv, Installs
  <2>5. InstallTakesEffect'
    BY <2>1 DEF InstallTakesEffect
  <2> QED BY <2>1, <2>2, <2>4, <2>5 DEF EffectInv
<1>2. CASE InitConfig(t) \/ Pull(t)
  <2>1. job'[t].at \in {"truncate", "release"} /\ ~job'[t].tidy
    BY <1>2, Started
  <2>2. UNCHANGED home
    BY <1>2 DEF InitConfig, Pull
  <2>3. ~Installs(t)'
    <3>1. CASE InitConfig(t)
      <4>1. PICK up \in Upstream \ {""} :
              Starts(t, "init", [Idle EXCEPT !.op = "init", !.at = "truncate",
                                             !.cfg = [Default EXCEPT !.upstream = up]])
        BY <3>1 DEF InitConfig
      <4> QED BY <1>0, <4>1 DEF Starts, Idle, Installs
    <3>2. CASE Pull(t)
      <4>1. PICK force \in BOOLEAN :
              Starts(t, "pull", [Idle EXCEPT !.op = "pull", !.at = "release",
                                             !.cfg = Load, !.force = force])
        BY <3>2 DEF Pull
      <4> QED BY <1>0, <4>1 DEF Starts, Idle, Installs
    <3> QED BY <1>2, <3>1, <3>2
  <2> QED BY <2>1, <2>2, <2>3, EffectKept
<1>3. CASE Writes(t)
  BY <1>3, EffectWritten
<1>4. ASSUME ~(Install(t) \/ InitConfig(t) \/ Pull(t))
      PROVE  Installs(t)' => Installs(t)
  BY <1>4, OpStep DEF Installs
<1>5. CASE Truncate(t) \/ Save(t) \/ SaveFails(t)
  <2>1. UNCHANGED home /\ job[t].at \in {"truncate", "save"}
    BY <1>5 DEF Truncate, Save, SaveFails
  <2>2. ~job[t].tidy
    BY <2>1 DEF EffectInv
  <2>3. /\ job'[t].at \in {"save", "agents", "idle"}
        /\ job'[t].at = "agents" => job[t].op = "install"
    BY <1>5, OutdatedAt DEF Truncate, Save, SaveFails
  <2>4. ASSUME NEW at, Outdated(t, at)
        PROVE  /\ ~job'[t].tidy
               /\ at # "idle" => job'[t].op = job[t].op
               /\ at = "idle" => job'[t].op = "none"
    <3>1. CASE at = "idle"
      BY <2>4, <3>1 DEF Outdated, Idle
    <3>2. CASE at # "idle"
      BY <1>0, <2>2, <2>4, <3>2 DEF Outdated, Job
    <3> QED BY <3>1, <3>2
  <2>5. /\ ~job'[t].tidy
        /\ job'[t].op \in {job[t].op, "none"}
        /\ job'[t].at = "agents" => job'[t].op = job[t].op
    <3>1. CASE Truncate(t)
      BY <2>4, <3>1 DEF Truncate
    <3>2. CASE Save(t)
      BY <2>4, <3>2, OutdatedAt DEF Save
    <3>3. CASE SaveFails(t)
      BY <2>4, <3>3, OutdatedAt DEF SaveFails
    <3> QED BY <1>5, <3>1, <3>2, <3>3
  <2> QED BY <2>1, <2>3, <2>5, EffectKept DEF Installs
<1>6. CASE Panic(t) \/ FetchFails(t) \/ Dies(t)
  <2>1. UNCHANGED home /\ job'[t] = Idle
    BY <1>0, <1>6 DEF Panic, FetchFails, DownloadFails, RenameFails, GivesUp, Dies, Over, Elsewhere
  <2>2. ~Installs(t)' /\ job'[t].at = "idle" /\ ~job'[t].tidy
    BY <2>1 DEF Idle, Installs
  <2> QED BY <2>1, <2>2, EffectKept
<1>7. CASE \/ Release(t) \/ (\E f \in Entry : Extract(t, f)) \/ Extracted(t) \/ FindModel(t)
           \/ OpenTmp(t) \/ Copied(t) \/ Rename(t) \/ Answer(t)
  <2>1. UNCHANGED home
    BY <1>7 DEF Release, Extract, Extracted, FindModel, OpenTmp, Copied, Rename, Answer, Elsewhere
  <2>2. /\ job[t].at \in {"release", "unpack", "open", "copy", "rename", "answer"}
        /\ job'[t].at \in {"unpack", "open", "copy", "rename", "answer", "truncate"}
    BY <1>7, PullStep DEF Release
  <2>3. ~job[t].tidy
    BY <2>2 DEF EffectInv
  <2>4. job'[t].tidy = job[t].tidy
    <3>1. CASE Release(t)
      <4>1. PICK b \in Tag :
              job' = [job EXCEPT ![t].at = "unpack", ![t].tag = b,
                                 ![t].todo = IF job[t].force \/ ~bin[b]["llama-server"].there
                                             THEN Entry ELSE {}]
        BY <3>1 DEF Release
      <4> QED BY <1>0, <4>1 DEF Job
    <3>2. ASSUME NEW f \in Entry, Extract(t, f) PROVE job'[t].tidy = job[t].tidy
      BY <1>0, <3>2 DEF Extract, Job
    <3>3. CASE Extracted(t)
      BY <1>0, <3>3 DEF Extracted, Job
    <3>4. CASE FindModel(t)
      BY <1>0, <3>4 DEF FindModel, Goto, Job
    <3>5. CASE OpenTmp(t)
      BY <1>0, <3>5 DEF OpenTmp, Job
    <3>6. CASE Copied(t)
      BY <1>0, <3>6 DEF Copied, Job
    <3>7. CASE Rename(t)
      BY <1>0, <3>7 DEF Rename, Job
    <3>8. CASE Answer(t)
      <4>1. PICK yes \in BOOLEAN :
              job' = [job EXCEPT ![t].at = "truncate", ![t].cfg = WithPaths(t, yes)]
        BY <3>8 DEF Answer
      <4> QED BY <1>0, <4>1 DEF Job
    <3> QED BY <1>7, <3>1, <3>2, <3>3, <3>4, <3>5, <3>6, <3>7, <3>8
  <2>5. Installs(t)' => Installs(t)
    BY <1>7, PullOp DEF Installs
  <2> QED BY <2>1, <2>2, <2>3, <2>4, <2>5, EffectKept
<1> QED BY <1>1, <1>2, <1>3, <1>5, <1>6, <1>7 DEF Step, Writes

LEMMA EffectAlways == Spec => [](Typed /\ OpInv /\ EffectInv)
<1> DEFINE Inv == Typed /\ OpInv /\ EffectInv
<1>1. Init => Inv
  <2> SUFFICES ASSUME Init PROVE Inv
    OBVIOUS
  <2>1. \A t \in Term : job[t] = Idle
    BY DEF Init
  <2>2. OpInv /\ HasRelease /\ \A t \in Term : ~Installs(t)
    BY <2>1 DEF OpInv, HasRelease, Idle, Installs
  <2>3. EffectInv
    BY <2>1, <2>2 DEF Init, EffectInv, InstallTakesEffect, Idle
  <2> QED BY <2>2, <2>3, TypeInit DEF Typed
<1>2. Inv /\ [Next]_vars => Inv'
  <2> SUFFICES ASSUME Inv, [Next]_vars PROVE Inv'
    OBVIOUS
  <2>1. Typed' /\ OpInv'
    BY TypeNext, ReleaseNext, OpNext DEF Typed
  <2>2. CASE Next
    BY <2>1, <2>2, NextIsStep, EffectStep DEF Typed
  <2>3. CASE UNCHANGED vars
    BY <2>1, <2>3 DEF vars, EffectInv, Installs, InstallTakesEffect
  <2> QED BY <2>2, <2>3
<1> QED BY <1>1, <1>2, PTL DEF Spec

(* Where an install has ended and no other has begun, the saved agents are
   those chosen, a profile that was tidy exports what `llmguard env` prints,
   and Claude Code is sent to the proxy if it was chosen, whatever commands
   ran before and run now. *)
THEOREM InstallDone == Spec => []InstallTakesEffect
  BY EffectAlways, PTL DEF EffectInv
-----------------------------------------------------------------------------
(* Where the settings change they are merged, or left half written. *)
LEMMA SettingsStep ==
    ASSUME NEW t, Step(t)
    PROVE  settings' \in {settings, MergeJSONEnv(settings), BrokenSettings}
<1>1. CASE MergeSettings(t)
  BY <1>1 DEF MergeSettings
<1>2. CASE SettingsFail(t) \/ CutShort(t)
  BY <1>2 DEF SettingsFail, CutShort
<1>3. CASE \/ Install(t) \/ InitConfig(t) \/ Pull(t) \/ Truncate(t) \/ Save(t) \/ SaveFails(t)
           \/ SaveAgents(t) \/ WriteProfile(t) \/ ProfileFails(t) \/ LeaveSettings(t)
           \/ Panic(t) \/ Dies(t)
  BY <1>3 DEF Install, InitConfig, Pull, Truncate, Save, SaveFails, SaveAgents, WriteProfile,
              ProfileFails, LeaveSettings, Panic, Dies, home
<1>4. CASE \/ Release(t) \/ (\E f \in Entry : Extract(t, f)) \/ Extracted(t)
           \/ FindModel(t) \/ OpenTmp(t) \/ Copied(t) \/ FetchFails(t)
           \/ Rename(t) \/ Answer(t)
  BY <1>4 DEF Release, Extract, Extracted, FindModel, OpenTmp, Copied, FetchFails,
              DownloadFails, RenameFails, GivesUp, Rename, Answer, Elsewhere, home
<1> QED BY <1>1, <1>2, <1>3, <1>4 DEF Step

(* install loses no line of the user's from a profile it writes to the end and
   whose block is whole, and no variable of the user's whose value is a string
   from the settings, for profiles of any length and whatever else runs. *)
THEOREM UsersTextKept == Spec => UsersOwnKept
<1>1. TypeOK /\ [Next]_vars
      => [\A t \in Term :
            /\ WriteProfile(t) /\ Whole(profile) => Mine(profile') = Mine(profile)
            /\ settings' # settings /\ settings.other = "string" /\ settings'.file = "object"
               => settings'.other = "string"]_vars
  <2> SUFFICES ASSUME TypeOK, Next, NEW t \in Term
               PROVE  /\ WriteProfile(t) /\ Whole(profile) => Mine(profile') = Mine(profile)
                      /\ settings' # settings /\ settings.other = "string"
                         /\ settings'.file = "object"
                         => settings'.other = "string"
    OBVIOUS
  <2>1. ASSUME WriteProfile(t), Whole(profile)
        PROVE  Mine(profile') = Mine(profile)
    BY <2>1, WriteKeepsMine DEF WriteProfile, TypeOK
  <2>2. ASSUME settings' # settings, settings.other = "string", settings'.file = "object"
        PROVE  settings'.other = "string"
    <3>1. settings.env = "map"
      BY <2>2 DEF TypeOK, Settings
    <3>2. settings' \in {settings, MergeJSONEnv(settings), BrokenSettings}
      BY NextIsStep, SettingsStep
    <3> QED BY <2>2, <3>1, <3>2 DEF MergeJSONEnv, BrokenSettings
  <2> QED BY <2>1, <2>2
<1> QED BY <1>1, SetupTypes, PTL DEF Spec, UsersOwnKept

(* An install that runs again, for the same agents, finds its block as it
   would write it: profiles do not grow. *)
THEOREM ReinstallIsNoChange == Spec => ReinstallChangesNothing
<1>1. TypeOK /\ [Next]_vars
      => [\A t \in Term :
            WriteProfile(t) /\ Whole(profile)
            => WriteShellProfile(profile', job[t].agents) = profile']_vars
  <2> SUFFICES ASSUME TypeOK, NEW t \in Term, WriteProfile(t), Whole(profile)
               PROVE  WriteShellProfile(profile', job[t].agents) = profile'
    OBVIOUS
  <2> QED BY WriteTwice DEF WriteProfile, TypeOK
<1> QED BY <1>1, SetupTypes, PTL DEF Spec, ReinstallChangesNothing
=============================================================================
