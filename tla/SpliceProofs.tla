----------------------------- MODULE SpliceProofs -----------------------------
(***************************************************************************)
(* Proofs about Splice, for a string of any length and any matches.        *)
(*                                                                         *)
(* The loop keeps these facts.  The pieces so far are the string up to     *)
(* last, and the last of them is a token.  Every match visited comes       *)
(* before every match still to be visited, and begins before last, or at   *)
(* last and is empty.  Every match visited was replaced or begins inside   *)
(* one that was.                                                           *)
(***************************************************************************)
EXTENDS Splice, TLAPS

(* The pieces are the bytes 0 .. last - 1 in order. *)
TiledTo(end) ==
    /\ pieces = <<>> => end = 0
    /\ pieces # <<>> => pieces[1].from = 0 /\ pieces[Len(pieces)].to = end
    /\ \A i \in 1 .. Len(pieces) : i + 1 \in 1 .. Len(pieces) =>
           pieces[i].to = pieces[i + 1].from

Visited == Kept(found) \ rest

ReplacedBy(i, m) ==
    \/ pieces[i].from = m.from /\ pieces[i].to = m.to
    \/ pieces[i].from <= m.from /\ m.from < pieces[i].to

(* A match replaced is one of the matches visited, and the others visited do
   not come before it and begin at the same byte. *)
PieceSound(i) ==
    /\ pieces[i] \in Visited
    /\ \A m \in Kept(found) : m.from = pieces[i].from => m.to <= pieces[i].to

IInv ==
    /\ TypeOK
    /\ rest \subseteq Kept(found)
    /\ TiledTo(IF done THEN Length ELSE last)
    /\ done => pieces # <<>> /\ rest = {}
    /\ ~done /\ pieces # <<>> => pieces[Len(pieces)].cat # Plain
    /\ \A v \in Visited, m \in rest : Before(v, m)
    /\ \A v \in Visited : v.from <= last /\ (v.from = last => v.to = last)
    /\ \A i \in Masked : PieceSound(i)
    /\ \A m \in Visited : \E i \in Masked : ReplacedBy(i, m)
-----------------------------------------------------------------------------
LEMMA Initially == Init => IInv
<1> SUFFICES ASSUME Init PROVE IInv
  OBVIOUS
<1>1. TypeOK
  <2>1. found \subseteq {m \in Match : m.from <= m.to} /\ test \in BOOLEAN
    BY SpliceAssumption DEF Init
  <2>2. last \in 0 .. Length
    BY SpliceAssumption DEF Init
  <2>3. rest \subseteq found
    BY DEF Init, Kept
  <2>4. pieces \in Seq(Piece)
    <3>1. <<>> \in Seq(Piece)
      OBVIOUS
    <3> QED BY <3>1 DEF Init
  <2> QED BY <2>1, <2>2, <2>3, <2>4 DEF Init, TypeOK
<1>2. Visited = {} /\ Masked = {} /\ rest \subseteq Kept(found)
  BY DEF Init, Visited, Masked
<1>3. TiledTo(IF done THEN Length ELSE last)
  BY DEF Init, TiledTo
<1> QED BY <1>1, <1>2, <1>3 DEF Init, IInv
-----------------------------------------------------------------------------
(* A match that is passed over begins inside the last one replaced. *)
LEMMA SkipKeeps ==
    ASSUME IInv, NEW m \in rest, Skip(m)
    PROVE  IInv'
<1>0. /\ m \in Kept(found) /\ m \in Match /\ m \in found
      /\ Visited' = Visited \cup {m} /\ Kept(found)' = Kept(found)
      /\ pieces' = pieces /\ last' = last /\ done' = done /\ ~done
      /\ rest' = rest \ {m} /\ found' = found
  BY DEF Skip, IInv, TypeOK, Kept, Visited
<1>1. TypeOK'
  BY DEF Skip, IInv, TypeOK
<1>2. TiledTo(IF done THEN Length ELSE last)'
  BY <1>0 DEF IInv, TiledTo
<1>3. \A v \in Visited', x \in rest' : Before(v, x)
  BY <1>0 DEF IInv, Skip, Foremost
<1>4. \A i \in Masked' : PieceSound(i)'
  <2>1. Masked' = Masked
    BY <1>0 DEF Masked
  <2> QED BY <1>0, <2>1 DEF IInv, PieceSound
<1>5. \E i \in Masked : ReplacedBy(i, m)
  <2> DEFINE n == Len(pieces)
  <2>1. n \in Nat /\ DOMAIN pieces = 1 .. n /\ m.from \in Nat /\ m.from < last
    BY <1>0, SpliceAssumption DEF IInv, TypeOK, Skip, Overlaps, Match
  <2>2. pieces # <<>>
    BY <1>0, <2>1 DEF IInv, TiledTo
  <2>3. n \in DOMAIN pieces
    BY <2>1, <2>2 DEF IInv, TypeOK
  <2>4. n \in Masked /\ pieces[n].to = last
    BY <1>0, <2>2, <2>3 DEF IInv, TiledTo, Masked
  <2>5. pieces[n] \in Visited /\ pieces[n] \in Match
    BY <2>4 DEF IInv, PieceSound, Visited, Kept, TypeOK
  <2>6. Before(pieces[n], m)
    BY <2>5 DEF IInv
  <2>7. pieces[n].from <= m.from
    BY <2>1, <2>5, <2>6 DEF Before, Match
  <2> QED BY <2>1, <2>4, <2>7 DEF ReplacedBy
<1>6. \A x \in Visited' : \E i \in Masked' : ReplacedBy(i, x)'
  <2>1. Masked' = Masked /\ \A i, x : ReplacedBy(i, x)' <=> ReplacedBy(i, x)
    BY <1>0 DEF Masked, ReplacedBy
  <2> QED BY <1>0, <1>5, <2>1 DEF IInv
<1>7. rest' \subseteq Kept(found)'
  BY <1>0 DEF IInv
<1>8. \A v \in Visited' : v.from <= last' /\ (v.from = last' => v.to = last')
  <2>1. m.from < last /\ m.from \in Nat /\ last \in Nat
    BY <1>0, SpliceAssumption DEF IInv, TypeOK, Skip, Overlaps, Match
  <2> QED BY <1>0, <2>1 DEF IInv
<1> QED BY <1>0, <1>1, <1>2, <1>3, <1>4, <1>6, <1>7, <1>8 DEF IInv
-----------------------------------------------------------------------------
(* A match that is replaced adds the bytes before it and its token. *)
LEMMA ReplaceKeeps ==
    ASSUME IInv, NEW m \in rest, Replace(m)
    PROVE  IInv'
<1> DEFINE n == Len(pieces)
<1>0. /\ m \in Kept(found) /\ m \in Match /\ m \in found /\ m.from <= m.to
      /\ Visited' = Visited \cup {m} /\ Kept(found)' = Kept(found)
      /\ last' = m.to /\ done' = done /\ ~done
      /\ rest' = rest \ {m} /\ found' = found /\ test' = test
  BY DEF Replace, IInv, TypeOK, Kept, Visited, Behind
<1>1. /\ n \in Nat /\ DOMAIN pieces = 1 .. n
      /\ last \in 0 .. Length /\ last \in Nat /\ Length \in Nat
      /\ m.from \in 0 .. Length /\ m.to \in 0 .. Length
      /\ m.cat \in Category /\ m.cat # Plain
  BY <1>0, SpliceAssumption DEF IInv, TypeOK, Match
<1>2. /\ Bytes(last, m.from) \in Piece /\ m \in Piece
      /\ Bytes(last, m.from).from = last /\ Bytes(last, m.from).to = m.from
      /\ Bytes(last, m.from).cat = Plain
  BY <1>0, <1>1 DEF Bytes, Piece, Match
<1>3. /\ pieces' \in Seq(Piece)
      /\ Len(pieces') = n + 2
      /\ DOMAIN pieces' = 1 .. n + 2
      /\ \A i \in 1 .. n : pieces'[i] = pieces[i]
      /\ pieces'[n + 1] = Bytes(last, m.from)
      /\ pieces'[n + 2] = m
  <2>1. pieces \in Seq(Piece) /\ <<Bytes(last, m.from), m>> \in Seq(Piece)
    BY <1>2 DEF IInv, TypeOK
  <2> DEFINE more == <<Bytes(last, m.from), m>>
  <2>2. pieces' = pieces \o more
    BY DEF Replace
  <2>3. Len(more) = 2 /\ more[1] = Bytes(last, m.from) /\ more[2] = m
    OBVIOUS
  <2> HIDE DEF more
  <2>4. pieces' \in Seq(Piece) /\ Len(pieces') = n + 2
    BY <1>1, <2>1, <2>2, <2>3 DEF more
  <2>5. \A i \in 1 .. n + 2 :
            pieces'[i] = IF i <= n THEN pieces[i] ELSE more[i - n]
    BY <1>1, <2>1, <2>2, <2>3 DEF more
  <2>6. n + 1 \in 1 .. n + 2 /\ n + 2 \in 1 .. n + 2 /\ n + 1 - n = 1 /\ n + 2 - n = 2
    BY <1>1
  <2>7. pieces'[n + 1] = more[1] /\ pieces'[n + 2] = more[2]
    BY <1>1, <2>5, <2>6
  <2>8. \A i \in 1 .. n : pieces'[i] = pieces[i]
    BY <1>1, <2>5
  <2> QED BY <1>1, <2>3, <2>4, <2>7, <2>8
<1>4. TypeOK'
  BY <1>0, <1>1, <1>3 DEF IInv, TypeOK
<1>5. TiledTo(IF done THEN Length ELSE last)'
  <2>1. pieces'[1].from = 0
    <3>1. CASE n = 0
      BY <1>1, <1>2, <1>3, <1>0, <3>1 DEF IInv, TiledTo, TypeOK
    <3>2. CASE n # 0
      BY <1>1, <1>3, <3>2 DEF IInv, TiledTo, TypeOK
    <3> QED BY <3>1, <3>2
  <2>2. pieces'[n + 2].to = last'
    BY <1>0, <1>3
  <2>3. ASSUME NEW i \in 1 .. n + 1
        PROVE  pieces'[i].to = pieces'[i + 1].from
    <3>1. CASE i < n
      BY <1>1, <1>3, <3>1 DEF IInv, TiledTo
    <3>2. CASE i = n
      <4>1. pieces # <<>> /\ pieces[n].to = last
        BY <1>0, <1>1, <3>2 DEF IInv, TiledTo
      <4> QED BY <1>1, <1>2, <1>3, <3>2, <4>1
    <3>3. CASE i = n + 1
      BY <1>1, <1>2, <1>3, <3>3
    <3>4. i < n \/ i = n \/ i = n + 1
      <4>1. n \in Nat
        BY <1>1
      <4> HIDE DEF n
      <4> QED BY <4>1
    <3> QED BY <3>1, <3>2, <3>3, <3>4
  <2>4. pieces' # <<>>
    BY <1>1, <1>3
  <2>5. \A i \in 1 .. n + 2 : i + 1 \in 1 .. n + 2 => i \in 1 .. n + 1
    BY <1>1
  <2> QED BY <1>0, <1>3, <2>1, <2>2, <2>3, <2>4, <2>5 DEF TiledTo
<1>6. pieces'[Len(pieces')].cat # Plain
  BY <1>1, <1>3
<1>7. \A v \in Visited', x \in rest' : Before(v, x)
  BY <1>0 DEF IInv, Replace, Foremost
<1>8. Masked' = Masked \cup {n + 2}
  <2>1. \A i \in 1 .. n + 2 : i \in 1 .. n \/ i = n + 1 \/ i = n + 2
    BY <1>1
  <2> QED BY <1>1, <1>2, <1>3, <2>1 DEF Masked
<1>9. ASSUME NEW i \in Masked' PROVE PieceSound(i)'
  <2>1. CASE i \in Masked
    <3>1. i \in 1 .. n /\ pieces'[i] = pieces[i]
      BY <1>1, <1>3, <2>1 DEF Masked
    <3> QED BY <1>0, <2>1, <3>1 DEF IInv, PieceSound
  <2>2. CASE i = n + 2
    <3>1. ASSUME NEW x \in Kept(found), x.from = m.from PROVE x.to <= m.to
      <4>1. x \in Match
        BY DEF IInv, TypeOK, Kept
      <4>2. CASE x \in rest
        <5>1. Before(m, x)
          BY <4>2 DEF Replace, Foremost
        <5> QED BY <1>1, <3>1, <4>1, <5>1 DEF Before, Match
      <4>3. CASE x \in Visited
        <5>1. last <= m.from /\ m.from \in Nat /\ m.to \in Nat /\ last \in Nat
          BY <1>0, <1>1, SpliceAssumption DEF Replace, Overlaps
        <5>2. x.from = last /\ x.to = last
          BY <3>1, <4>3, <5>1 DEF IInv
        <5> QED BY <1>0, <5>1, <5>2
      <4> QED BY <4>2, <4>3 DEF Visited
    <3> QED BY <1>0, <1>3, <2>2, <3>1 DEF PieceSound
  <2> QED BY <1>8, <2>1, <2>2
<1>10. \A x \in Visited' : \E i \in Masked' : ReplacedBy(i, x)'
  <2>2. ASSUME NEW x \in Visited, NEW i \in Masked, ReplacedBy(i, x)
        PROVE  i \in Masked' /\ ReplacedBy(i, x)'
    <3>1. i \in 1 .. n /\ pieces'[i] = pieces[i]
      BY <1>1, <1>3, <2>2 DEF Masked
    <3> QED BY <1>8, <2>2, <3>1 DEF ReplacedBy
  <2>3. \E i \in Masked' : ReplacedBy(i, m)'
    <3>1. PICK k : k = n + 2
      OBVIOUS
    <3>2. k \in Masked' /\ pieces'[k].from = m.from /\ pieces'[k].to = m.to
      BY <1>3, <1>8, <3>1
    <3> QED BY <3>2 DEF ReplacedBy
  <2>4. \A x \in Visited : \E i \in Masked : ReplacedBy(i, x)
    BY DEF IInv
  <2>5. \A x \in Visited : \E i \in Masked' : ReplacedBy(i, x)'
    BY <2>2, <2>4
  <2> QED BY <1>0, <2>3, <2>5
<1>11. \A v \in Visited' : v.from <= last' /\ (v.from = last' => v.to = last')
  <2>1. last <= m.from /\ m.from \in Nat /\ m.to \in Nat /\ last \in Nat
    BY <1>0, <1>1, SpliceAssumption DEF Replace, Overlaps
  <2>3. ASSUME NEW v \in Visited
        PROVE  v.from <= last' /\ (v.from = last' => v.to = last')
    <3>1. v.from \in Nat /\ v.from <= last /\ (v.from = last => v.to = last)
      BY <2>3, SpliceAssumption DEF IInv, TypeOK, Visited, Kept, Match
    <3> QED BY <1>0, <2>1, <3>1
  <2> QED BY <1>0, <2>1, <2>3
<1>12. rest' \subseteq Kept(found)' /\ pieces' # <<>>
  BY <1>0, <1>1, <1>3 DEF IInv
<1> QED BY <1>0, <1>4, <1>5, <1>6, <1>7, <1>9, <1>10, <1>11, <1>12 DEF IInv
-----------------------------------------------------------------------------
(* The loop ends with the bytes behind the last token. *)
LEMMA FinishKeeps ==
    ASSUME IInv, Finish
    PROVE  IInv'
<1> DEFINE n == Len(pieces)
           tail == Bytes(last, Length)
<1>0. /\ Visited' = Visited /\ Kept(found)' = Kept(found) /\ last' = last
      /\ ~done /\ done' /\ done' = TRUE /\ rest = {} /\ rest' = {}
      /\ found' = found /\ test' = test /\ pieces' = Append(pieces, tail)
  BY DEF Finish, Kept, Visited
<1>1. /\ n \in Nat /\ DOMAIN pieces = 1 .. n /\ pieces \in Seq(Piece)
      /\ last \in 0 .. Length /\ Length \in Nat
  BY SpliceAssumption DEF IInv, TypeOK
<1>2. tail \in Piece /\ tail.from = last /\ tail.to = Length /\ tail.cat = Plain
  BY <1>1 DEF Bytes, Piece
<1> HIDE DEF tail
<1>3. /\ pieces' \in Seq(Piece) /\ Len(pieces') = n + 1 /\ DOMAIN pieces' = 1 .. n + 1
      /\ \A i \in 1 .. n : pieces'[i] = pieces[i]
      /\ pieces'[n + 1] = tail
  BY <1>0, <1>1, <1>2
<1>4. TypeOK'
  BY <1>0, <1>1, <1>3 DEF IInv, TypeOK
<1>5. TiledTo(IF done THEN Length ELSE last)'
  <2>1. pieces'[1].from = 0
    <3>1. CASE n = 0
      BY <1>0, <1>1, <1>2, <1>3, <3>1 DEF IInv, TiledTo
    <3>2. CASE n # 0
      BY <1>0, <1>1, <1>3, <3>2 DEF IInv, TiledTo
    <3> QED BY <3>1, <3>2
  <2>2. ASSUME NEW i \in 1 .. n
        PROVE  pieces'[i].to = pieces'[i + 1].from
    <3>1. CASE i < n
      BY <1>0, <1>1, <1>3, <3>1 DEF IInv, TiledTo
    <3>2. CASE i = n
      <4>1. pieces # <<>> /\ pieces[n].to = last
        BY <1>0, <1>1, <3>2 DEF IInv, TiledTo
      <4> QED BY <1>1, <1>2, <1>3, <3>2, <4>1
    <3>3. i < n \/ i = n
      <4>1. n \in Nat
        BY <1>1
      <4> HIDE DEF n
      <4> QED BY <4>1
    <3> QED BY <3>1, <3>2, <3>3
  <2>3. pieces' # <<>>
    BY <1>1, <1>3
  <2>4. \A i \in 1 .. n + 1 : i + 1 \in 1 .. n + 1 => i \in 1 .. n
    BY <1>1
  <2> QED BY <1>0, <1>2, <1>3, <2>1, <2>2, <2>3, <2>4 DEF TiledTo
<1>6. Masked' = Masked
  <2>1. \A i \in 1 .. n + 1 : i \in 1 .. n \/ i = n + 1
    BY <1>1
  <2> QED BY <1>1, <1>2, <1>3, <2>1 DEF Masked
<1>7. \A i \in Masked : i \in 1 .. n /\ pieces'[i] = pieces[i]
  BY <1>1, <1>3 DEF Masked
<1>8. \A i \in Masked' : PieceSound(i)'
  BY <1>0, <1>6, <1>7 DEF IInv, PieceSound
<1>9. \A m \in Visited' : \E i \in Masked' : ReplacedBy(i, m)'
  <2>1. \A m : \A i \in Masked : ReplacedBy(i, m)' <=> ReplacedBy(i, m)
    BY <1>7 DEF ReplacedBy
  <2> QED BY <1>0, <1>6, <2>1 DEF IInv
<1>10. rest' \subseteq Kept(found)' /\ pieces' # <<>>
  BY <1>0, <1>1, <1>3
<1>11. \A v \in Visited' : v.from <= last' /\ (v.from = last' => v.to = last')
  BY <1>0 DEF IInv
<1> QED BY <1>0, <1>4, <1>5, <1>8, <1>9, <1>10, <1>11 DEF IInv
-----------------------------------------------------------------------------
LEMMA StepKeeps == IInv /\ [Next]_vars => IInv'
<1> SUFFICES ASSUME IInv, [Next]_vars PROVE IInv'
  OBVIOUS
<1>1. ASSUME NEW m \in rest, Skip(m) PROVE IInv'
  BY <1>1, SkipKeeps
<1>2. ASSUME NEW m \in rest, Replace(m) PROVE IInv'
  BY <1>2, ReplaceKeeps
<1>3. CASE Finish
  BY <1>3, FinishKeeps
<1>4. CASE UNCHANGED vars
  BY <1>4 DEF vars, IInv, TypeOK, TiledTo, Visited, Kept, Masked, PieceSound, ReplacedBy
<1> QED BY <1>1, <1>2, <1>3, <1>4 DEF Next

LEMMA Invariant == Spec => []IInv
BY Initially, StepKeeps, PTL DEF Spec

(* The loop's variables keep their types; in particular the position behind
   the last match never leaves the string, so the slices s[last:m.Start] and
   s[last:] of redact.go:364 and 369 are always in bounds. *)
THEOREM SpliceTypes == Spec => []TypeOK
<1>1. IInv => TypeOK
  BY DEF IInv
<1> QED BY <1>1, Invariant, PTL

(* Restoring the tokens of the result of redactString gives its input back
   (redact.go:357-370). *)
THEOREM SpliceRestores == Spec => []ResultRestores
<1>1. IInv => ResultRestores
  BY DEF IInv, ResultRestores, TiledTo, TypeOK
<1> QED BY <1>1, Invariant, PTL

(* Only reported matches are replaced, and none where a longer one begins at
   the same byte (redact.go:350-355). *)
THEOREM LongestWins == Spec => []LongestIsReplaced
<1>1. IInv => LongestIsReplaced
  BY DEF IInv, LongestIsReplaced, PieceSound, Visited, Kept
<1> QED BY <1>1, Invariant, PTL

(* No match that is not exempt is left untouched (redact.go:361). *)
THEOREM AllTouched == Spec => []NoMatchUntouched
<1>1. IInv => NoMatchUntouched
  <2> SUFFICES ASSUME IInv, done, NEW m \in found, ~test \/ m.cat \in Always
               PROVE  \E i \in Masked : ReplacedBy(i, m)
    BY DEF NoMatchUntouched, ReplacedBy
  <2>1. m \in Visited
    BY DEF IInv, Visited, Kept
  <2> QED BY <2>1 DEF IInv
<1> QED BY <1>1, Invariant, PTL
=============================================================================
