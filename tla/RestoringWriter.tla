--------------------------- MODULE RestoringWriter ---------------------------
(***************************************************************************)
(* The writer for raw streams (internal/proxy/stream.go) and the cut point *)
(* it uses (internal/redact/streamsafe.go).  Bytes are abstracted to what  *)
(* the cut depends on: the opening bracket is "L" "o", the closing one     *)
(* "L" "c" (in UTF-8 the two share their first bytes), a hash is one digit *)
(* and the value restored for it one "V".                                  *)
(***************************************************************************)
EXTENDS Writer, SequencesExt

CONSTANT KnownHash     \* the hashes the store has a value for

Open == <<"L", "o">>
CloseMark == <<"L", "c">>
Digit == {"1", "2"}
TokenLen == Len(Open) + 1 + Len(CloseMark)
-----------------------------------------------------------------------------
(* placeholderRe matches at position i of b.  Two matches never overlap: no
   other "L" of a token is followed by an "o". *)
IsToken(b, i) ==
    /\ i + TokenLen - 1 <= Len(b)
    /\ SubSeq(b, i, i + Len(Open) - 1) = Open
    /\ b[i + Len(Open)] \in Digit
    /\ SubSeq(b, i + Len(Open) + 1, i + TokenLen - 1) = CloseMark

NoTokenIn(b) == \A i \in DOMAIN b : ~IsToken(b, i)

IsKnown(b, i) == IsToken(b, i) /\ b[i + Len(Open)] \in KnownHash

(* Restore: where a known token begins its value stands, the rest of it is
   gone; unknown ones stay. *)
RestoredAt(b, i) ==
    IF IsKnown(b, i) THEN <<"V">>
    ELSE IF \E j \in DOMAIN b : j < i /\ i < j + TokenLen /\ IsKnown(b, j) THEN <<>>
    ELSE <<b[i]>>
Restore(b) == FlattenSeq([i \in DOMAIN b |-> RestoredAt(b, i)])

(* The end of the last complete token of b. *)
TokenEnds(b) == {i + TokenLen - 1 : i \in {j \in DOMAIN b : IsToken(b, j)}}
SafeEnd(b) == Max(TokenEnds(b) \cup {0})

(* The bytes of b from i on agree with the opening bracket as far as both go:
   the test of safePrefixLen, which looks no further than that. *)
MayOpen(b, i) ==
    LET rest == SubSeq(b, i, Len(b))
    IN  IsPrefix(rest, Open) \/ IsPrefix(Open, rest)

(* SafeCutPoint and safePrefixLen: all up to the first byte after the last
   token that looks like the opening of another one.  The slip looks for an
   opening from the start of the buffer. *)
SafeCutPointFromStart(b) ==
    LET opens == {i \in DOMAIN b : MayOpen(b, i)}
    IN  IF opens = {} THEN Len(b) ELSE Min(opens) - 1
SafeCutPoint(b) ==
    LET opens == {i \in SafeEnd(b) + 1 .. Len(b) : MayOpen(b, i)}
    IN  IF opens = {} THEN Len(b) ELSE Min(opens) - 1
-----------------------------------------------------------------------------
RawWrite(p) ==
    LET whole == buf \o p
        cut == SafeCutPoint(whole)
    IN  Sends(Restore(SubSeq(whole, 1, cut)), SubSeq(whole, cut + 1, Len(whole)))

(* The write fails: buf keeps everything. *)
RawWriteFails(p) ==
    LET whole == buf \o p
        cut == SafeCutPoint(whole)
    IN  cut > 0 /\ Breaks(Restore(SubSeq(whole, 1, cut)), whole)

RawClose == Ends(Restore(buf))

RawCloseFails == buf # <<>> /\ Breaks(Restore(buf), buf)
=============================================================================
