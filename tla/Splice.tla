-------------------------------- MODULE Splice --------------------------------
(***************************************************************************)
(* What redactString does with the matches its detectors report            *)
(* (internal/redact/redact.go, testcontext.go): filter, sort, and replace  *)
(* from left to right, leaving out what begins inside a match that was     *)
(* just replaced.  "Overlapping matches across different patterns are all  *)
(* reported; the caller (Redactor) is responsible for resolving overlaps"  *)
(* (detectors/regex.go:150).                                               *)
(*                                                                         *)
(* The string is its byte positions 0 .. Length - 1; a match is an         *)
(* interval with a category.  A match may be empty: a custom pattern such  *)
(* as x* matches between any two bytes.                                    *)
(***************************************************************************)
EXTENDS Naturals, Sequences

CONSTANTS Length,     \* bytes of the string
          Category,   \* categories of the detectors
          Always,     \* alwaysRedactCategories
          Plain,      \* in place of a category: not a match
          Finds       \* the sets of matches the detectors may report

Match == [from : 0 .. Length, to : 0 .. Length, cat : Category]

ASSUME SpliceAssumption ==
    /\ Length \in Nat
    /\ Plain \notin Category
    /\ Finds \subseteq SUBSET {m \in Match : m.from <= m.to}

Piece == [from : 0 .. Length, to : 0 .. Length, cat : Category \cup {Plain}]

VARIABLES found,    \* all, as the detectors reported it
          test,     \* isTestDataContext holds of the string
          rest,     \* the matches the loop has still to visit
          last,     \* the end of the last match replaced
          pieces,   \* the result: bytes of the string, and tokens for matches
          done      \* the loop is over

vars == <<found, test, rest, last, pieces, done>>

(* filterTestExemptMatches. *)
Kept(matches) == {m \in matches : test => m.cat \in Always}
-----------------------------------------------------------------------------
TypeOK ==
    /\ found \subseteq {m \in Match : m.from <= m.to}
    /\ test \in BOOLEAN
    /\ rest \subseteq found
    /\ last \in 0 .. Length
    /\ pieces \in Seq(Piece)
    /\ done \in BOOLEAN

Init ==
    /\ found \in Finds
    /\ test \in BOOLEAN
    /\ rest = Kept(found)
    /\ last = 0
    /\ pieces = <<>>
    /\ done = FALSE

(* The order of sort.Slice: by start, the longer first.  Matches that agree
   in both come in any order.  Slip: the shorter first. *)
ShorterFirst(m, x) == m.from < x.from \/ (m.from = x.from /\ m.to <= x.to)
Before(m, x) == m.from < x.from \/ (m.from = x.from /\ m.to >= x.to)

Foremost(m) == m \in rest /\ \A x \in rest : Before(m, x)

Bytes(i, j) == [from |-> i, to |-> j, cat |-> Plain]

(* Slip: a match that begins where the last one ends is left out as well. *)
Touching(m) == m.from <= last
Overlaps(m) == m.from < last

Skip(m) ==
    /\ ~done
    /\ Foremost(m)
    /\ Overlaps(m)
    /\ rest' = rest \ {m}
    /\ UNCHANGED <<found, test, last, pieces, done>>

(* Where the string goes on behind a match.  Slip: its end taken for its last
   byte. *)
BehindLastByte(m) == m.to + 1
Behind(m) == m.to

(* The bytes since the last match, then the token of this one. *)
Replace(m) ==
    /\ ~done
    /\ Foremost(m)
    /\ ~Overlaps(m)
    /\ pieces' = pieces \o <<Bytes(last, m.from), m>>
    /\ last' = Behind(m)
    /\ rest' = rest \ {m}
    /\ UNCHANGED <<found, test, done>>

(* Slip: the result ends with the last match. *)
TailLost ==
    /\ ~done
    /\ rest = {}
    /\ done' = TRUE
    /\ UNCHANGED <<found, test, rest, last, pieces>>
Finish ==
    /\ ~done
    /\ rest = {}
    /\ pieces' = Append(pieces, Bytes(last, Length))
    /\ done' = TRUE
    /\ UNCHANGED <<found, test, rest, last>>

Next == (\E m \in rest : Skip(m) \/ Replace(m)) \/ Finish

Spec == Init /\ [][Next]_vars
-----------------------------------------------------------------------------
Masked == {i \in DOMAIN pieces : pieces[i].cat # Plain}

(* The pieces, each token read as the bytes it stands for, are the whole
   string in order: restoring every token of the result gives the string
   back, whatever the matches were (redact.go:357-370). *)
ResultRestores ==
    done =>
    /\ pieces # <<>>
    /\ pieces[1].from = 0
    /\ \A i \in DOMAIN pieces : i + 1 \in DOMAIN pieces => pieces[i].to = pieces[i + 1].from
    /\ pieces[Len(pieces)].to = Length

(* Only what a detector reported is replaced, and of two matches that begin
   at the same byte never the shorter: "sk-ant-..." goes as a whole although
   two patterns match it (redact.go:350-355). *)
LongestIsReplaced ==
    \A i \in Masked :
        /\ pieces[i] \in found
        /\ \A m \in Kept(found) : m.from = pieces[i].from => m.to <= pieces[i].to

(* Every match that is not exempt is replaced itself or begins inside one
   that is: no reported value leaves redactString untouched.  What such an
   overlap leaves legible is the part behind the match replaced, and no more
   (redact.go:361). *)
NoMatchUntouched ==
    done =>
    \A m \in found :
        ~test \/ m.cat \in Always
        => \E i \in Masked :
               \/ pieces[i].from = m.from /\ pieces[i].to = m.to
               \/ pieces[i].from <= m.from /\ m.from < pieces[i].to
=============================================================================
