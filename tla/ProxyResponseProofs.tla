------------------------- MODULE ProxyResponseProofs -------------------------
(***************************************************************************)
(* The response path for bodies of any length, cut into chunks anywhere:   *)
(* what waits in a writer is what may have to be restored together with    *)
(* what comes, and the agent sees a growing beginning of the body restored *)
(* in one go.  The invariant says how much of the stream has been passed   *)
(* on, and that nothing spans the place where it was cut.                  *)
(***************************************************************************)
EXTENDS ProxyResponse, RestoringProofs

Kinds == {"sse", "raw", "plain"}
Out == SSESymbol(Symbol)

TypeOK ==
    /\ kind \in Kinds
    /\ stream \in Seq(Symbol)
    /\ read \in 0 .. Len(stream)
    /\ buf \in Seq(Symbol)
    /\ delivered \in Seq(Out)
    /\ phase \in {"open", "closed", "broken"}

(* The stream s may be restored in two parts, up to c and from there on. *)
CutAt(k, s, c) ==
    /\ k = "raw" => ~Spans(s, c)
    /\ k = "sse" => c = 0 \/ s[c] = "n"
    /\ k = "plain" => c = 0

(* What a writer may hold back. *)
Held(k, rest) ==
    /\ k = "raw" => NoTokenIn(rest)
    /\ k = "sse" => EventEnds(rest) = {}

(* The stream has been passed on up to c, the rest of what was read waits. *)
PassedOn(c) ==
    /\ c \in 0 .. read
    /\ buf = SubSeq(stream, c + 1, read)
    /\ delivered = Whole(kind, SubSeq(stream, 1, c))
    /\ CutAt(kind, stream, c)

Inv ==
    /\ TypeOK
    /\ phase = "open" =>
          /\ \E c \in 0 .. read : PassedOn(c)
          /\ Held(kind, buf)
          /\ kind = "plain" => read = 0

(* A write that has read s up to m, with the stream passed on up to c before:
   out goes to the agent, rest stays. *)
Cuts(k, s, c, m, out, rest) ==
    \E e \in c .. m : /\ out = Whole(k, SubSeq(s, c + 1, e))
                      /\ rest = SubSeq(s, e + 1, m)
                      /\ CutAt(k, s, e)
                      /\ Held(k, rest)
-----------------------------------------------------------------------------
LEMMA WholeOf ==
    ASSUME NEW b \in Seq(Symbol)
    PROVE  /\ Whole("raw", b) = Restore(b)
           /\ Whole("sse", b) = RestoreSSEEvent(b)
           /\ Whole("plain", b) = RestoreJSONOrRaw(b)
<1>1. RestoreSSE(b) = RestoreSSEEvent(b)
  BY EventByEventIsAsOne
<1> QED BY <1>1 DEF Whole

LEMMA WholeType ==
    ASSUME NEW k \in Kinds, NEW b \in Seq(Symbol)
    PROVE  Whole(k, b) \in Seq(Out)
<1>1. CASE k = "raw"
  <2>1. Restore(b) \in Seq(Symbol \cup {"V"})
    BY RestoreType
  <2>2. Symbol \cup {"V"} \subseteq Out
    BY DEF Out, SSESymbol
  <2>3. Restore(b) \in Seq(Out)
    BY <2>1, <2>2, SeqMonotonic
  <2> QED BY <1>1, <2>3, WholeOf
<1>2. CASE k = "sse"
  BY <1>2, WholeOf, RestoreSSEEventType DEF Out
<1>3. CASE k = "plain"
  <2>1. DOMAIN b = 1 .. Len(b) /\ Len(b) \in Nat /\ \A i \in 1 .. Len(b) : b[i] \in Symbol
    OBVIOUS
  <2>2. \A i \in 1 .. Len(b) : RestoreIn(b, b[i]) \in Out
    BY <2>1 DEF RestoreIn, Out, SSESymbol
  <2>3. [i \in 1 .. Len(b) |-> RestoreIn(b, b[i])] \in Seq(Out)
    BY <2>1, <2>2, IsASeq
  <2> QED BY <1>3, <2>1, <2>3, WholeOf DEF RestoreJSONOrRaw
<1> QED BY <1>1, <1>2, <1>3 DEF Kinds

LEMMA WholeOfNothing ==
    ASSUME NEW k \in Kinds
    PROVE  Whole(k, <<>>) = <<>>
<1>1. <<>> \in Seq(Symbol) /\ DOMAIN <<>> = {}
  OBVIOUS
<1>2. Restore(<<>>) = <<>>
  <2>1. [i \in DOMAIN <<>> |-> RestoredAt(<<>>, i)] = <<>>
    OBVIOUS
  <2> QED BY <2>1, FlattenEmpty DEF Restore
<1>3. RestoreSSEEvent(<<>>) = <<>>
  <2>1. [i \in DOMAIN <<>> |-> RestoredInEvent(<<>>, i)] = <<>>
    OBVIOUS
  <2> QED BY <2>1, FlattenEmpty DEF RestoreSSEEvent
<1>4. RestoreJSONOrRaw(<<>>) = <<>>
  BY DEF RestoreJSONOrRaw
<1> QED BY <1>1, <1>2, <1>3, <1>4, WholeOf DEF Kinds

(* Parts of a part of a stream. *)
LEMMA Parts ==
    ASSUME NEW s \in Seq(Symbol), NEW m \in 0 .. Len(s), NEW c \in 0 .. m, NEW e \in c .. m
    PROVE  LET w == SubSeq(s, c + 1, m) IN
           /\ w \in Seq(Symbol) /\ Len(w) = m - c
           /\ \A i \in 1 .. m - c : w[i] = s[c + i]
           /\ SubSeq(w, 1, e - c) = SubSeq(s, c + 1, e)
           /\ SubSeq(w, (e - c) + 1, Len(w)) = SubSeq(s, e + 1, m)
<1> DEFINE w == SubSeq(s, c + 1, m)
<1>1. w \in Seq(Symbol) /\ Len(w) = m - c /\ \A i \in 1 .. m - c : w[i] = s[c + i]
  OBVIOUS
<1>2. SubSeq(w, 1, e - c) = SubSeq(s, c + 1, e)
  OBVIOUS
<1>3. SubSeq(w, (e - c) + 1, Len(w)) = SubSeq(s, e + 1, m)
  OBVIOUS
<1> QED BY <1>1, <1>2, <1>3

(* What has been read of a stream, restored, is what was passed on and what is
   made of the rest. *)
LEMMA WholeCut ==
    ASSUME NEW k \in {"raw", "sse"}, NEW s \in Seq(Symbol), NEW m \in 0 .. Len(s),
           NEW c \in 0 .. m, CutAt(k, s, c)
    PROVE  Whole(k, SubSeq(s, 1, m)) = Whole(k, SubSeq(s, 1, c)) \o Whole(k, SubSeq(s, c + 1, m))
<1> DEFINE b == SubSeq(s, 1, m)
<1>1. /\ b \in Seq(Symbol) /\ Len(b) = m /\ \A i \in 1 .. m : b[i] = s[i]
      /\ c \in 0 .. Len(b) /\ Len(s) \in Nat /\ m \in Nat /\ c \in Nat
  OBVIOUS
<1>2. SubSeq(b, 1, c) = SubSeq(s, 1, c) /\ SubSeq(b, c + 1, Len(b)) = SubSeq(s, c + 1, m)
  OBVIOUS
<1>3. SubSeq(s, 1, c) \in Seq(Symbol) /\ SubSeq(s, c + 1, m) \in Seq(Symbol)
  OBVIOUS
<1> HIDE DEF b
<1>4. CASE k = "raw"
  <2>1. ~Spans(b, c)
    <3> SUFFICES ASSUME NEW j \in 1 .. c, IsToken(b, j), c < j + 4 PROVE FALSE
      BY DEF Spans
    <3>1. j \in 1 .. Len(b) /\ j \in 1 .. Len(s)
      BY <1>1
    <3>2. /\ j + 4 <= m /\ b[j] = "L" /\ b[j + 1] = "o"
          /\ b[j + 2] \in Digit /\ b[j + 3] = "L" /\ b[j + 4] = "c"
      BY <1>1, <3>1, TokenAt
    <3>3. \A i \in 0 .. 4 : j + i \in 1 .. m
      BY <1>1, <3>2
    <3>4. b[j] = s[j] /\ b[j + 1] = s[j + 1] /\ b[j + 2] = s[j + 2] /\ b[j + 3] = s[j + 3]
          /\ b[j + 4] = s[j + 4]
      BY <1>1, <3>1, <3>3
    <3>5. j + 4 <= Len(s)
      BY <1>1, <3>2
    <3>6. IsToken(s, j)
      BY <3>1, <3>2, <3>4, <3>5, TokenAt
    <3>7. ~Spans(s, c)
      BY <1>4 DEF CutAt
    <3> QED BY <3>6, <3>7 DEF Spans
  <2>2. Restore(b) = Restore(SubSeq(b, 1, c)) \o Restore(SubSeq(b, c + 1, Len(b)))
    BY <1>1, <2>1, RestoreCut
  <2> QED BY <1>1, <1>2, <1>3, <1>4, <2>2, WholeOf DEF b
<1>5. CASE k = "sse"
  <2>1. c = 0 \/ b[c] = "n"
    BY <1>1, <1>5 DEF CutAt
  <2>2. RestoreSSEEvent(b) = RestoreSSEEvent(SubSeq(b, 1, c)) \o RestoreSSEEvent(SubSeq(b, c + 1, Len(b)))
    BY <1>1, <2>1, EventCut
  <2> QED BY <1>1, <1>2, <1>3, <1>5, <2>2, WholeOf DEF b
<1> QED BY <1>4, <1>5
-----------------------------------------------------------------------------
(* What the raw writer does with what it has. *)
LEMMA RawWriterCuts ==
    ASSUME NEW s \in Seq(Symbol), NEW m \in 0 .. Len(s), NEW c \in 0 .. m, CutAt("raw", s, c)
    PROVE  LET w == SubSeq(s, c + 1, m)
               cut == SafeCutPoint(w)
           IN  Cuts("raw", s, c, m, Restore(SubSeq(w, 1, cut)), SubSeq(w, cut + 1, Len(w)))
<1> DEFINE w == SubSeq(s, c + 1, m)
           cut == SafeCutPoint(w)
           e == c + cut
<1>1. ~Spans(s, c)
  BY DEF CutAt
<1>2. cut \in 0 .. m - c /\ ~Spans(s, e) /\ NoTokenIn(SubSeq(w, cut + 1, Len(w)))
  BY <1>1, NoTokenIsCut
<1> HIDE DEF cut
<1>3. e \in c .. m /\ e - c = cut
  BY <1>2
<1>4. /\ Len(w) = m - c /\ SubSeq(w, 1, cut) = SubSeq(s, c + 1, e)
      /\ SubSeq(w, cut + 1, Len(w)) = SubSeq(s, e + 1, m)
  <2>1. ASSUME NEW x \in c .. m
        PROVE  /\ Len(w) = m - c /\ SubSeq(w, 1, x - c) = SubSeq(s, c + 1, x)
               /\ SubSeq(w, (x - c) + 1, Len(w)) = SubSeq(s, x + 1, m)
    BY Parts
  <2> HIDE DEF w, e
  <2> QED BY <1>3, <2>1
<1>5. SubSeq(s, c + 1, e) \in Seq(Symbol)
  BY <1>3
<1>6. Whole("raw", SubSeq(s, c + 1, e)) = Restore(SubSeq(w, 1, cut))
  BY <1>4, <1>5, WholeOf
<1> HIDE DEF e, w
<1>7. CutAt("raw", s, e) /\ Held("raw", SubSeq(s, e + 1, m))
  BY <1>2, <1>4 DEF CutAt, Held
<1>8. Cuts("raw", s, c, m, Restore(SubSeq(w, 1, cut)), SubSeq(w, cut + 1, Len(w)))
  BY <1>3, <1>4, <1>6, <1>7 DEF Cuts
<1> QED BY <1>8 DEF w, cut

(* What the SSE writer does with what it has. *)
LEMMA SSEWriterCuts ==
    ASSUME NEW s \in Seq(Symbol), NEW m \in 0 .. Len(s), NEW c \in 0 .. m, CutAt("sse", s, c)
    PROVE  LET drained == Drained(SubSeq(s, c + 1, m))
           IN  Cuts("sse", s, c, m, drained.out, drained.rest)
<1> DEFINE w == SubSeq(s, c + 1, m)
           drained == Drained(w)
<1>1. w \in Seq(Symbol) /\ Len(w) = m - c /\ \A i \in 1 .. m - c : w[i] = s[c + i]
  OBVIOUS
<1> HIDE DEF w, drained
<1>2. PICK end : /\ Takes(w, drained.out, end)
                 /\ drained.rest = SubSeq(w, end + 1, Len(w))
                 /\ EventEnds(drained.rest) = {}
  BY <1>1, DrainedTakesEvents DEF drained
<1>3. /\ end \in 0 .. m - c /\ (end = 0 \/ w[end] = "n")
      /\ drained.out = RestoreSSEEvent(SubSeq(w, 1, end))
  BY <1>1, <1>2 DEF Takes
<1> DEFINE e == c + end
<1>4. e \in c .. m /\ e - c = end
  BY <1>3
<1>5. SubSeq(w, 1, end) = SubSeq(s, c + 1, e) /\ SubSeq(w, end + 1, Len(w)) = SubSeq(s, e + 1, m)
  <2>1. ASSUME NEW x \in c .. m
        PROVE  /\ SubSeq(w, 1, x - c) = SubSeq(s, c + 1, x)
               /\ SubSeq(w, (x - c) + 1, Len(w)) = SubSeq(s, x + 1, m)
    BY Parts DEF w
  <2> HIDE DEF e
  <2> QED BY <1>4, <2>1
<1>6. SubSeq(s, c + 1, e) \in Seq(Symbol)
  BY <1>4
<1>7. e = 0 \/ s[e] = "n"
  <2>1. CASE end = 0
    BY <2>1 DEF CutAt
  <2>2. CASE end # 0
    <3>1. end \in 1 .. m - c
      BY <1>3, <2>2
    <3> QED BY <1>1, <1>3, <2>2, <3>1
  <2> QED BY <2>1, <2>2
<1> HIDE DEF e
<1>8. CutAt("sse", s, e) /\ Held("sse", drained.rest)
  BY <1>2, <1>7 DEF CutAt, Held
<1>9. drained.out = Whole("sse", SubSeq(s, c + 1, e)) /\ drained.rest = SubSeq(s, e + 1, m)
  BY <1>2, <1>3, <1>5, <1>6, WholeOf
<1>10. Cuts("sse", s, c, m, drained.out, drained.rest)
  BY <1>4, <1>8, <1>9 DEF Cuts
<1> QED BY <1>10 DEF drained, w

(* The first event of what is left is taken off it, its last line feed stands
   where it ends. *)
LEMMA OneEventTakes ==
    ASSUME NEW S, NEW b \in Seq(S), EventEnds(b) # {}
    PROVE  \E i \in 1 .. Len(b) : /\ b[i] = "n"
                                   /\ OneEvent(b).out = RestoreSSEEvent(SubSeq(b, 1, i))
                                   /\ OneEvent(b).rest = SubSeq(b, i + 1, Len(b))
<1> DEFINE i == Min(EventEnds(b))
<1>1. EventEnds(b) \subseteq 1 .. Len(b) /\ Len(b) \in Nat
  BY DEF EventEnds
<1>2. i \in EventEnds(b)
  BY <1>1, MinOfNumbers
<1>3. i \in 1 .. Len(b) /\ b[i] = "n"
  BY <1>2 DEF EventEnds
<1>4. OneEvent(b) = [out |-> RestoreSSEEvent(SubSeq(b, 1, i)), rest |-> SubSeq(b, i + 1, Len(b))]
  BY DEF OneEvent
<1> HIDE DEF i
<1> QED BY <1>3, <1>4

(* A write of the SSE writer that fails stops behind some event of what it has. *)
LEMMA SSEWriterStops ==
    ASSUME NEW w \in Seq(Symbol), NEW p, buf \o p = w, SSEWriteFails(p)
    PROVE  \E end, out :
               /\ Takes(w, out, end)
               /\ Breaks(out, SubSeq(w, end + 1, Len(w)))
<1>1. PICK s \in 0 .. Len(w) :
          LET before == Drained(SubSeq(w, 1, s))
              tail == SubSeq(w, s + 1, Len(w))
              event == OneEvent(tail)
          IN  /\ before.rest = <<>>
              /\ EventEnds(tail) # {}
              /\ Breaks(before.out \o event.out, event.rest)
  BY DEF SSEWriteFails
<1> DEFINE head == SubSeq(w, 1, s)
           tail == SubSeq(w, s + 1, Len(w))
<1>2. /\ head \in Seq(Symbol) /\ Len(head) = s /\ \A j \in 1 .. s : head[j] = w[j]
      /\ \A j \in 0 .. s : SubSeq(head, 1, j) = SubSeq(w, 1, j)
      /\ \A j \in 0 .. s : Len(SubSeq(head, j + 1, Len(head))) = s - j
  OBVIOUS
<1>3. /\ tail \in Seq(Symbol) /\ Len(tail) = Len(w) - s
      /\ \A j \in 1 .. Len(w) - s : tail[j] = w[s + j]
      /\ \A j \in 0 .. Len(w) - s : SubSeq(tail, 1, j) = SubSeq(w, s + 1, s + j)
      /\ \A j \in 0 .. Len(w) - s : SubSeq(tail, j + 1, Len(tail)) = SubSeq(w, s + j + 1, Len(w))
  OBVIOUS
<1>4. Len(w) \in Nat /\ s \in Nat
  OBVIOUS
<1> HIDE DEF head, tail
<1> DEFINE before == Drained(head)
           event == OneEvent(tail)
<1>5. before.rest = <<>> /\ EventEnds(tail) # {} /\ Breaks(before.out \o event.out, event.rest)
  BY <1>1 DEF head, tail
<1> HIDE DEF before, event
<1>6. Takes(w, before.out, s)
  <2>1. PICK end : Takes(head, before.out, end) /\ before.rest = SubSeq(head, end + 1, Len(head))
    BY <1>2, DrainedTakesEvents DEF before
  <2>2. end \in 0 .. s
    BY <1>2, <2>1 DEF Takes
  <2>3. Len(before.rest) = s - end
    BY <1>2, <2>1, <2>2, Zenon
  <2>4. Len(before.rest) = 0
    BY <1>5
  <2>5. end = s
    <3>1. end \in Nat /\ s - end = 0
      BY <1>4, <2>2, <2>3, <2>4
    <3> QED BY <1>4, <3>1
  <2>6. /\ s \in 0 .. Len(w) /\ (s = 0 \/ w[s] = "n")
        /\ before.out = RestoreSSEEvent(SubSeq(w, 1, s))
    <3>1. (s = 0 \/ head[s] = "n") /\ before.out = RestoreSSEEvent(SubSeq(head, 1, s))
      BY <2>1, <2>5 DEF Takes
    <3>2. s \in 0 .. s
      BY <1>4
    <3>3. SubSeq(head, 1, s) = SubSeq(w, 1, s)
      BY <1>2, <3>2, Zenon
    <3>4. s # 0 => head[s] = w[s]
      BY <1>2, <1>4
    <3> QED BY <3>1, <3>3, <3>4
  <2> QED BY <2>6 DEF Takes
<1>7. PICK i \in 1 .. Len(tail) : /\ tail[i] = "n"
                                  /\ event.out = RestoreSSEEvent(SubSeq(tail, 1, i))
                                  /\ event.rest = SubSeq(tail, i + 1, Len(tail))
  BY <1>3, <1>5, OneEventTakes DEF event
<1> DEFINE end == s + i
<1>8. end \in s + 1 .. Len(w) /\ w[end] = "n"
  BY <1>3, <1>4, <1>7
<1>9. event.out = RestoreSSEEvent(SubSeq(w, s + 1, end)) /\ event.rest = SubSeq(w, end + 1, Len(w))
  <2>1. i \in 0 .. Len(w) - s
    BY <1>3, <1>7
  <2>2. SubSeq(tail, 1, i) = SubSeq(w, s + 1, s + i)
    BY <1>3, <2>1, Zenon
  <2>3. SubSeq(tail, i + 1, Len(tail)) = SubSeq(w, s + i + 1, Len(w))
    BY <1>3, <2>1, Zenon
  <2> QED BY <1>7, <2>2, <2>3
<1> HIDE DEF end
<1>10. Takes(w, before.out \o event.out, end)
  BY <1>6, <1>8, <1>9, TakesNext
<1>11. Breaks(before.out \o event.out, SubSeq(w, end + 1, Len(w)))
  BY <1>5, <1>9
<1> QED BY <1>10, <1>11
-----------------------------------------------------------------------------
(* One write of either writer, or its failure, on one more chunk. *)
Writes(c, n) ==
    \E out, rest : /\ Cuts(kind, stream, c, read + n, out, rest)
                   /\ Sends(out, rest)
Fails(c, n) ==
    \E e, out, kept :
        /\ e \in c .. read + n
        /\ CutAt(kind, stream, e) /\ out = Whole(kind, SubSeq(stream, c + 1, e))
        /\ Breaks(out, kept) /\ kept \in Seq(Symbol)

LEMMA CopyChunkCuts ==
    ASSUME TypeOK, NEW c, PassedOn(c), CopyChunk
    PROVE  /\ kind \in {"raw", "sse"} /\ phase = "open"
           /\ \E n \in 1 .. Unread : read' = read + n /\ (Writes(c, n) \/ Fails(c, n))
<1>1. PICK n \in 1 .. Unread :
          LET chunk == SubSeq(stream, read + 1, read + n) IN
          /\ read' = read + n
          /\ \/ kind = "sse" /\ SSEWrite(chunk)
             \/ kind = "sse" /\ SSEWriteFails(chunk)
             \/ kind = "raw" /\ RawWrite(chunk)
             \/ kind = "raw" /\ RawWriteFails(chunk)
  BY DEF CopyChunk
<1> DEFINE chunk == SubSeq(stream, read + 1, read + n)
           m == read + n
           w == SubSeq(stream, c + 1, m)
<1>2. stream \in Seq(Symbol) /\ Len(stream) \in Nat /\ read \in 0 .. Len(stream)
  BY DEF TypeOK
<1>3. n \in 1 .. Len(stream) - read
  BY DEF Unread
<1>4. m \in 0 .. Len(stream) /\ c \in 0 .. m /\ c \in 0 .. read
  BY <1>2, <1>3 DEF PassedOn
<1>5. buf \o chunk = w
  <2>1. buf = SubSeq(stream, c + 1, read)
    BY DEF PassedOn
  <2>2. /\ c + 1 \in 1 .. Len(stream) + 1 /\ read \in (c + 1) - 1 .. Len(stream)
        /\ m \in read .. Len(stream)
    BY <1>2, <1>3, <1>4
  <2> QED BY <1>2, <2>1, <2>2, ConcatAdjacentSubSeq
<1>6. w \in Seq(Symbol)
  BY <1>2, <1>4
<1>7. CutAt(kind, stream, c)
  BY DEF PassedOn
<1> HIDE DEF chunk
<1>8. CASE kind = "raw" /\ (RawWrite(chunk) \/ RawWriteFails(chunk))
  <2> DEFINE cut == SafeCutPoint(w)
             out == Restore(SubSeq(w, 1, cut))
             rest == SubSeq(w, cut + 1, Len(w))
  <2>1. Cuts(kind, stream, c, m, out, rest)
    BY <1>2, <1>4, <1>7, <1>8, RawWriterCuts
  <2>2. CASE RawWrite(chunk)
    <3>1. Sends(out, rest)
      BY <1>5, <2>2 DEF RawWrite
    <3>2. Writes(c, n)
      BY <2>1, <3>1 DEF Writes
    <3> QED BY <1>1, <1>8, <3>1, <3>2 DEF Sends
  <2>3. CASE RawWriteFails(chunk)
    <3>1. Breaks(out, w)
      BY <1>5, <2>3 DEF RawWriteFails
    <3>2. PICK e \in c .. m : CutAt(kind, stream, e) /\ out = Whole(kind, SubSeq(stream, c + 1, e))
      BY <2>1 DEF Cuts
    <3>3. Fails(c, n)
      BY <1>6, <3>1, <3>2 DEF Fails
    <3> QED BY <1>1, <1>8, <3>1, <3>3 DEF Breaks
  <2> QED BY <1>8, <2>2, <2>3
<1>9. CASE kind = "sse" /\ (SSEWrite(chunk) \/ SSEWriteFails(chunk))
  <2> DEFINE drained == Drained(w)
  <2>1. Cuts(kind, stream, c, m, drained.out, drained.rest)
    BY <1>2, <1>4, <1>7, <1>9, SSEWriterCuts
  <2>2. CASE SSEWrite(chunk)
    <3>1. Sends(drained.out, drained.rest)
      BY <1>5, <2>2 DEF SSEWrite
    <3>2. Writes(c, n)
      BY <2>1, <3>1 DEF Writes
    <3> QED BY <1>1, <1>9, <3>1, <3>2 DEF Sends
  <2>3. CASE SSEWriteFails(chunk)
    <3>1. PICK end, out : /\ Takes(w, out, end)
                         /\ Breaks(out, SubSeq(w, end + 1, Len(w)))
      BY <1>5, <1>6, <2>3, SSEWriterStops
    <3> DEFINE e == c + end
    <3>2. /\ Len(w) = m - c /\ \A i \in 1 .. m - c : w[i] = stream[c + i]
          /\ e \in c .. m /\ SubSeq(w, 1, end) = SubSeq(stream, c + 1, e)
          /\ SubSeq(w, end + 1, Len(w)) \in Seq(Symbol)
      <4>1. Len(w) = m - c /\ \A i \in 1 .. m - c : w[i] = stream[c + i]
        BY <1>2, <1>4
      <4>2. end \in 0 .. m - c /\ e \in c .. m /\ e - c = end
        BY <1>4, <3>1, <4>1 DEF Takes
      <4>3. \A x \in c .. m : SubSeq(w, 1, x - c) = SubSeq(stream, c + 1, x)
        BY <1>2, <1>4, Parts
      <4>4. SubSeq(w, end + 1, Len(w)) \in Seq(Symbol)
        BY <1>6, <4>1, <4>2
      <4> HIDE DEF e, w
      <4> QED BY <4>1, <4>2, <4>3, <4>4
    <3>3. CutAt(kind, stream, e)
      <4>1. end = 0 \/ w[end] = "n"
        BY <3>1 DEF Takes
      <4>2. CASE end = 0
        BY <1>4, <1>7, <4>2
      <4>3. CASE end # 0
        <5>1. end \in 1 .. m - c
          BY <1>4, <3>1, <3>2, <4>3 DEF Takes
        <5>2. stream[e] = "n"
          BY <3>2, <4>1, <4>3, <5>1
        <5> QED BY <1>9, <5>2 DEF CutAt
      <4> QED BY <4>2, <4>3
    <3>4. out = Whole(kind, SubSeq(stream, c + 1, e))
      <4>1. out = RestoreSSEEvent(SubSeq(stream, c + 1, e))
        BY <3>1, <3>2 DEF Takes
      <4>2. SubSeq(stream, c + 1, e) \in Seq(Symbol)
        BY <1>2, <1>4, <3>2
      <4> QED BY <1>9, <4>1, <4>2, WholeOf
    <3> HIDE DEF e, w
    <3>5. Fails(c, n)
      BY <3>1, <3>2, <3>3, <3>4 DEF Fails
    <3> QED BY <1>1, <1>9, <3>1, <3>5 DEF Breaks
  <2> QED BY <1>9, <2>2, <2>3
<1> QED BY <1>1, <1>8, <1>9 DEF chunk

(* What is delivered and what could be: a cut further on extends the one
   before, and both begin what the whole would be. *)
LEMMA CutFurther ==
    ASSUME NEW k \in {"raw", "sse"}, NEW s \in Seq(Symbol), NEW m \in 0 .. Len(s),
           NEW c \in 0 .. m, CutAt(k, s, c), NEW e \in c .. m, CutAt(k, s, e)
    PROVE  LET done == Whole(k, SubSeq(s, 1, c))
               out == Whole(k, SubSeq(s, c + 1, e))
               rest == Whole(k, SubSeq(s, e + 1, m))
           IN  /\ done \in Seq(Out) /\ out \in Seq(Out) /\ rest \in Seq(Out)
               /\ done \o out = Whole(k, SubSeq(s, 1, e))
               /\ Whole(k, SubSeq(s, 1, m)) = (done \o out) \o rest
<1>1. Len(s) \in Nat /\ e \in 0 .. Len(s) /\ c \in 0 .. e /\ e \in 0 .. m /\ k \in Kinds
  BY DEF Kinds
<1>2. /\ SubSeq(s, 1, c) \in Seq(Symbol) /\ SubSeq(s, c + 1, e) \in Seq(Symbol)
      /\ SubSeq(s, e + 1, m) \in Seq(Symbol)
  BY <1>1
<1>3. /\ Whole(k, SubSeq(s, 1, c)) \in Seq(Out) /\ Whole(k, SubSeq(s, c + 1, e)) \in Seq(Out)
      /\ Whole(k, SubSeq(s, e + 1, m)) \in Seq(Out)
  BY <1>1, <1>2, WholeType
<1>4. Whole(k, SubSeq(s, 1, e)) = Whole(k, SubSeq(s, 1, c)) \o Whole(k, SubSeq(s, c + 1, e))
  BY <1>1, WholeCut
<1>5. Whole(k, SubSeq(s, 1, m)) = Whole(k, SubSeq(s, 1, e)) \o Whole(k, SubSeq(s, e + 1, m))
  BY <1>1, WholeCut
<1> QED BY <1>3, <1>4, <1>5
-----------------------------------------------------------------------------
LEMMA PrefixOfRestored ==
    ASSUME NEW a, NEW b, IsPrefix(a, b)
    PROVE  Restored!IsPrefix(a, b)
BY DEF IsPrefix, Restored!IsPrefix

(* More is read, and what was delivered goes on as the whole would. *)
LEMMA ProgressIs ==
    ASSUME TypeOK, read' \in read .. Len(stream), stream' = stream, kind' = kind,
           NEW more \in Seq(Out), delivered' = delivered \o more,
           NEW rest \in Seq(Out), Whole(kind, SubSeq(stream, 1, read')) = (delivered \o more) \o rest
    PROVE  Restored!Progress
<1>1. IsPrefix(Received, Received')
  <2>1. stream \in Seq(Symbol) /\ read \in 0 .. Len(stream)
    BY DEF TypeOK
  <2>2. IsPrefix(SubSeq(stream, 1, read), SubSeq(stream, 1, read'))
    BY <2>1, PrefixOfLonger
  <2> QED BY <2>2 DEF Received
<1>2. delivered \in Seq(Out) /\ delivered \o more \in Seq(Out)
  BY ConcatProperties DEF TypeOK
<1>3. IsPrefix(delivered, delivered')
  BY <1>2, PrefixOfConcat
<1>4. IsPrefix(delivered', Whole(kind, Received'))
  <2>1. Received' = SubSeq(stream, 1, read')
    BY DEF Received
  <2>2. IsPrefix(delivered \o more, (delivered \o more) \o rest)
    BY <1>2, PrefixOfConcat
  <2> QED BY <2>1, <2>2
<1> QED BY <1>1, <1>3, <1>4, PrefixOfRestored DEF Restored!Progress

LEMMA WritesStep ==
    ASSUME TypeOK, NEW c, PassedOn(c), kind \in {"raw", "sse"}, phase = "open",
           NEW n \in 1 .. Unread, read' = read + n, Writes(c, n), stream' = stream, kind' = kind
    PROVE  Inv' /\ Restored!Pass
<1> DEFINE m == read + n
<1>1. PICK out, rest : Cuts(kind, stream, c, m, out, rest) /\ Sends(out, rest)
  BY DEF Writes
<1>2. PICK e \in c .. m : /\ out = Whole(kind, SubSeq(stream, c + 1, e))
                          /\ rest = SubSeq(stream, e + 1, m)
                          /\ CutAt(kind, stream, e)
                          /\ Held(kind, rest)
  BY <1>1 DEF Cuts
<1>3. delivered' = delivered \o out /\ buf' = rest /\ phase' = phase
  BY <1>1 DEF Sends
<1>4. /\ c \in 0 .. read /\ delivered = Whole(kind, SubSeq(stream, 1, c))
      /\ CutAt(kind, stream, c)
  BY DEF PassedOn
<1>5. stream \in Seq(Symbol) /\ Len(stream) \in Nat /\ read \in 0 .. Len(stream)
  BY DEF TypeOK
<1>6. m \in read .. Len(stream) /\ m \in 0 .. Len(stream) /\ c \in 0 .. m /\ e \in 0 .. m
  BY <1>4, <1>5 DEF Unread
<1> HIDE DEF m
<1>7. /\ out \in Seq(Out) /\ Whole(kind, SubSeq(stream, e + 1, m)) \in Seq(Out)
      /\ delivered \o out = Whole(kind, SubSeq(stream, 1, e))
      /\ Whole(kind, SubSeq(stream, 1, m))
           = (delivered \o out) \o Whole(kind, SubSeq(stream, e + 1, m))
  BY <1>2, <1>4, <1>5, <1>6, CutFurther
<1>8. read' = m
  BY DEF m
<1>9. TypeOK'
  <2>1. rest \in Seq(Symbol)
    BY <1>2, <1>5, <1>6
  <2>2. delivered \o out \in Seq(Out)
    BY <1>7, ConcatProperties DEF TypeOK
  <2> QED BY <1>3, <1>5, <1>6, <1>8, <2>1, <2>2 DEF TypeOK
<1>10. PassedOn(e)'
  BY <1>2, <1>3, <1>6, <1>7, <1>8 DEF PassedOn
<1>11. Inv'
  <2>1. e \in 0 .. read'
    BY <1>6, <1>8
  <2>2. Held(kind, buf)'
    BY <1>2, <1>3 DEF Held
  <2>3. (kind = "plain" => read = 0)'
    OBVIOUS
  <2> QED BY <1>9, <1>10, <2>1, <2>2, <2>3 DEF Inv
<1>12. Restored!Progress
  BY <1>3, <1>6, <1>7, <1>8, ProgressIs
<1> QED BY <1>3, <1>11, <1>12 DEF Restored!Pass

(* Part of a sequence, and what is missing of it. *)
LEMMA PartOf ==
    ASSUME NEW S, NEW s \in Seq(S), NEW k \in 0 .. Len(s)
    PROVE  /\ SubSeq(s, 1, k) \in Seq(S) /\ SubSeq(s, k + 1, Len(s)) \in Seq(S)
           /\ s = SubSeq(s, 1, k) \o SubSeq(s, k + 1, Len(s))
<1>1. SubSeq(s, 1, k) \in Seq(S) /\ SubSeq(s, k + 1, Len(s)) \in Seq(S)
  OBVIOUS
<1>2. /\ Len(s) \in Nat /\ 1 \in 1 .. Len(s) + 1 /\ k \in 1 - 1 .. Len(s)
      /\ Len(s) \in k .. Len(s)
  OBVIOUS
<1> QED BY <1>1, <1>2, ConcatAdjacentSubSeq, SubSeqFull

LEMMA ConcatOfThree ==
    \A x, y, z \in Seq(Out) : (x \o y) \o z = x \o (y \o z)
OBVIOUS

LEMMA BreaksStep ==
    ASSUME TypeOK, NEW c, PassedOn(c), kind \in {"raw", "sse"}, phase = "open",
           read' \in read .. Len(stream), stream' = stream, kind' = kind,
           NEW e \in c .. read', CutAt(kind, stream, e) \/ e = read',
           NEW out, out = Whole(kind, SubSeq(stream, c + 1, e)),
           NEW kept \in Seq(Symbol), Breaks(out, kept)
    PROVE  Inv' /\ Restored!Break
<1> DEFINE m == read'
<1>1. PICK k \in 0 .. Len(out) : delivered' = delivered \o SubSeq(out, 1, k)
  BY DEF Breaks
<1>2. buf' = kept /\ phase' = "broken"
  BY DEF Breaks
<1>3. /\ c \in 0 .. read /\ delivered = Whole(kind, SubSeq(stream, 1, c))
      /\ CutAt(kind, stream, c)
  BY DEF PassedOn
<1>4. stream \in Seq(Symbol) /\ Len(stream) \in Nat /\ read \in 0 .. Len(stream) /\ kind \in Kinds
  BY DEF TypeOK
<1>5. m \in 0 .. Len(stream) /\ c \in 0 .. m /\ e \in 0 .. m /\ m \in read .. Len(stream)
  BY <1>3, <1>4
<1> HIDE DEF m
<1>6. \E more \in Seq(Out) : /\ out \in Seq(Out)
                             /\ Whole(kind, SubSeq(stream, 1, m)) = (delivered \o out) \o more
  <2>1. CASE CutAt(kind, stream, e)
    <3> DEFINE more == Whole(kind, SubSeq(stream, e + 1, m))
    <3>1. /\ out \in Seq(Out) /\ more \in Seq(Out)
          /\ Whole(kind, SubSeq(stream, 1, m)) = (delivered \o out) \o more
      <4>1. e \in c .. m
        BY <1>5 DEF m
      <4> QED BY <1>3, <1>4, <1>5, <2>1, <4>1, CutFurther
    <3> QED BY <3>1
  <2>2. CASE e = m
    <3>1. Whole(kind, SubSeq(stream, 1, m)) = delivered \o out
      BY <1>3, <1>4, <1>5, <2>2, WholeCut
    <3>2. SubSeq(stream, c + 1, e) \in Seq(Symbol)
      BY <1>4, <1>5
    <3>3. out \in Seq(Out) /\ delivered \in Seq(Out)
      BY <1>4, <3>2, WholeType DEF TypeOK
    <3>4. (delivered \o out) \o <<>> = delivered \o out /\ <<>> \in Seq(Out)
      <4>1. delivered \o out \in Seq(Out)
        BY <3>3, ConcatProperties
      <4> QED BY <4>1, ConcatEmptySeq
    <3> QED BY <3>1, <3>3, <3>4
  <2> QED BY <2>1, <2>2 DEF m
<1>7. PICK more \in Seq(Out) : /\ out \in Seq(Out)
                               /\ Whole(kind, SubSeq(stream, 1, m)) = (delivered \o out) \o more
  BY <1>6
<1> DEFINE part == SubSeq(out, 1, k)
           missing == SubSeq(out, k + 1, Len(out))
<1>8. part \in Seq(Out) /\ missing \in Seq(Out) /\ out = part \o missing
  <2>1. ASSUME NEW s \in Seq(Out), NEW j \in 0 .. Len(s)
        PROVE  /\ SubSeq(s, 1, j) \in Seq(Out) /\ SubSeq(s, j + 1, Len(s)) \in Seq(Out)
               /\ s = SubSeq(s, 1, j) \o SubSeq(s, j + 1, Len(s))
    BY PartOf
  <2> QED BY <1>7, <2>1
<1>9. delivered' = delivered \o part
  BY <1>1
<1> HIDE DEF part, missing
<1>10. Whole(kind, SubSeq(stream, 1, m)) = (delivered \o part) \o (missing \o more)
       /\ missing \o more \in Seq(Out)
  <2>1. delivered \in Seq(Out)
    BY DEF TypeOK
  <2>2. \A x, y \in Seq(Out) : x \o y \in Seq(Out)
    BY ConcatProperties
  <2>3. \A x, y, z \in Seq(Out) : (x \o y) \o z = x \o (y \o z)
    BY ConcatOfThree
  <2>4. delivered \o (part \o missing) = (delivered \o part) \o missing
    BY <1>8, <2>1, <2>3, Zenon
  <2>5. ((delivered \o part) \o missing) \o more = (delivered \o part) \o (missing \o more)
    <3>1. delivered \o part \in Seq(Out) /\ missing \in Seq(Out) /\ more \in Seq(Out)
      BY <1>7, <1>8, <2>1, <2>2, Zenon
    <3> QED BY <2>3, <3>1, Zenon
  <2>6. missing \o more \in Seq(Out)
    BY <1>7, <1>8, <2>2, Zenon
  <2> QED BY <1>7, <1>8, <2>4, <2>5, <2>6, Zenon
<1>11. TypeOK'
  <2>1. delivered \o part \in Seq(Out)
    BY <1>8, ConcatProperties DEF TypeOK
  <2> QED BY <1>2, <1>4, <1>5, <1>9, <2>1 DEF TypeOK, m
<1>12. Restored!Progress
  BY <1>5, <1>8, <1>9, <1>10, ProgressIs DEF m
<1> QED BY <1>2, <1>11, <1>12 DEF Inv, Restored!Break

LEMMA CopyChunkStep ==
    ASSUME Inv, CopyChunk, stream' = stream, kind' = kind
    PROVE  Inv' /\ Restored!Next
<1>1. phase = "open"
  BY DEF CopyChunk, SSEWrite, SSEWriteFails, RawWrite, RawWriteFails, Sends, Breaks
<1>2. PICK c \in 0 .. read : PassedOn(c)
  BY <1>1 DEF Inv
<1>3. TypeOK
  BY DEF Inv
<1>4. /\ kind \in {"raw", "sse"}
      /\ \E n \in 1 .. Unread : read' = read + n /\ (Writes(c, n) \/ Fails(c, n))
  BY <1>2, <1>3, CopyChunkCuts
<1>5. PICK n \in 1 .. Unread : read' = read + n /\ (Writes(c, n) \/ Fails(c, n))
  BY <1>4
<1>6. CASE Writes(c, n)
  <2>1. Inv' /\ Restored!Pass
    BY <1>1, <1>2, <1>3, <1>4, <1>5, <1>6, WritesStep
  <2> QED BY <2>1 DEF Restored!Next
<1>7. CASE Fails(c, n)
  <2>1. PICK e, out, kept :
            /\ e \in c .. read + n
            /\ CutAt(kind, stream, e) /\ out = Whole(kind, SubSeq(stream, c + 1, e))
            /\ Breaks(out, kept) /\ kept \in Seq(Symbol)
    BY <1>7 DEF Fails
  <2>2. e \in c .. read' /\ read' \in read .. Len(stream)
    BY <1>3, <1>5, <2>1 DEF Unread, TypeOK
  <2>3. Inv' /\ Restored!Break
    BY <1>1, <1>2, <1>3, <1>4, <2>1, <2>2, BreaksStep
  <2> QED BY <2>3 DEF Restored!Next
<1> QED BY <1>5, <1>6, <1>7

LEMMA EndOfCopyStep ==
    ASSUME Inv, EndOfCopy, stream' = stream, kind' = kind
    PROVE  Inv' /\ Restored!Next
<1>1. phase = "open" /\ kind \in {"raw", "sse"} /\ read' = read
  BY DEF EndOfCopy, SSEClose, SSECloseFails, RawClose, RawCloseFails, Ends, Breaks
<1>2. PICK c \in 0 .. read : PassedOn(c)
  BY <1>1 DEF Inv
<1>3. TypeOK
  BY DEF Inv
<1>4. /\ stream \in Seq(Symbol) /\ Len(stream) \in Nat /\ read \in 0 .. Len(stream)
      /\ kind \in Kinds /\ buf \in Seq(Symbol) /\ delivered \in Seq(Out)
  BY <1>3 DEF TypeOK
<1>5. /\ buf = SubSeq(stream, c + 1, read) /\ CutAt(kind, stream, c)
      /\ delivered = Whole(kind, SubSeq(stream, 1, c))
  BY <1>2 DEF PassedOn
<1> DEFINE out == Whole(kind, buf)
<1>6. /\ kind = "raw" => out = Restore(buf)
      /\ kind = "sse" => out = RestoreSSEEvent(buf)
  BY <1>4, WholeOf
<1>7. Ends(out) \/ Breaks(out, buf)
  BY <1>6 DEF EndOfCopy, SSEClose, SSECloseFails, RawClose, RawCloseFails
<1>8. delivered \o out = Whole(kind, SubSeq(stream, 1, read)) /\ out \in Seq(Out)
  <2>1. Whole(kind, SubSeq(stream, 1, read))
          = Whole(kind, SubSeq(stream, 1, c)) \o Whole(kind, SubSeq(stream, c + 1, read))
    BY <1>1, <1>2, <1>4, <1>5, WholeCut
  <2> QED BY <1>4, <1>5, <2>1, WholeType
<1> HIDE DEF out
<1>9. CASE Ends(out)
  <2>1. delivered' = delivered \o out /\ buf' = <<>> /\ phase' = "closed"
    BY <1>9 DEF Ends
  <2>2. TypeOK'
    <3>1. delivered \o out \in Seq(Out)
      BY <1>4, <1>8, ConcatProperties
    <3>2. <<>> \in Seq(Symbol)
      OBVIOUS
    <3> QED BY <1>1, <1>4, <2>1, <3>1, <3>2 DEF TypeOK
  <2>3. Received' = Received /\ Received = SubSeq(stream, 1, read)
    BY <1>1 DEF Received
  <2>4. Restored!IsPrefix(Received, Received')
    <3>1. Received \in Seq(Symbol)
      BY <1>4, <2>3
    <3> QED BY <2>3, <3>1, PrefixOfSame, PrefixOfRestored
  <2>5. Restored!Finish
    BY <1>1, <1>8, <2>1, <2>3, <2>4 DEF Restored!Finish
  <2> QED BY <2>1, <2>2, <2>5 DEF Inv, Restored!Next
<1>10. CASE Breaks(out, buf)
  <2>1. read' \in read .. Len(stream) /\ read \in c .. read' /\ read = read'
    BY <1>1, <1>2, <1>4
  <2>2. out = Whole(kind, SubSeq(stream, c + 1, read))
    BY <1>5 DEF out
  <2>3. Inv' /\ Restored!Break
    BY <1>1, <1>2, <1>3, <1>4, <1>10, <2>1, <2>2, BreaksStep
  <2> QED BY <2>3 DEF Restored!Next
<1> QED BY <1>7, <1>9, <1>10

(* A body read as a whole: nothing has been read of it, nothing delivered. *)
LEMMA PlainIs ==
    ASSUME Inv, kind = "plain", phase = "open"
    PROVE  /\ read = 0 /\ buf = <<>> /\ delivered = <<>> /\ Received = <<>>
           /\ stream \in Seq(Symbol) /\ Len(stream) \in Nat
<1>1. read = 0 /\ stream \in Seq(Symbol) /\ Len(stream) \in Nat
  BY DEF Inv, TypeOK
<1>2. PICK c \in 0 .. read : PassedOn(c)
  BY DEF Inv
<1>3. c = 0
  BY <1>1, <1>2
<1>4. SubSeq(stream, 1, 0) = <<>> /\ SubSeq(stream, 0 + 1, 0) = <<>>
  BY <1>1
<1>5. buf = SubSeq(stream, 0 + 1, 0) /\ delivered = Whole("plain", SubSeq(stream, 1, 0))
  BY <1>1, <1>2, <1>3 DEF PassedOn
<1>6. Whole("plain", <<>>) = <<>>
  BY WholeOfNothing DEF Kinds
<1> QED BY <1>1, <1>4, <1>5, <1>6 DEF Received

LEMMA PlainStep ==
    ASSUME Inv, ReadWhole \/ ReadFails \/ WriteWholeFails, stream' = stream, kind' = kind
    PROVE  Inv' /\ Restored!Next
<1> DEFINE all == RestoreJSONOrRaw(stream)
<1>1. kind = "plain" /\ phase = "open" /\ buf' = buf
  BY DEF ReadWhole, ReadFails, WriteWholeFails
<1>2. /\ read = 0 /\ buf = <<>> /\ delivered = <<>> /\ Received = <<>>
      /\ stream \in Seq(Symbol) /\ Len(stream) \in Nat
  BY <1>1, PlainIs
<1>3. all = Whole(kind, stream) /\ all \in Seq(Out)
  BY <1>1, <1>2, WholeOf, WholeType DEF Kinds
<1>4. SubSeq(stream, 1, Len(stream)) = stream
  BY <1>2, SubSeqFull
<1> HIDE DEF all
<1>5. read' \in 0 .. Len(stream) /\ buf' = <<>> /\ read' \in read .. Len(stream)
  BY <1>1, <1>2 DEF ReadWhole, ReadFails, WriteWholeFails
<1>6. TypeOK' /\ phase' # "open" => Inv'
  BY DEF Inv
<1>7. ASSUME delivered' \in Seq(Out), phase' \in {"closed", "broken"} PROVE TypeOK'
  <2>1. <<>> \in Seq(Symbol)
    OBVIOUS
  <2> QED BY <1>1, <1>2, <1>5, <1>7, <2>1 DEF TypeOK, Kinds
<1>8. CASE ReadWhole
  <2>1. read' = Len(stream) /\ delivered' = all /\ phase' = "closed"
    BY <1>8 DEF ReadWhole, all
  <2>2. Received' = stream
    BY <1>4, <2>1 DEF Received
  <2>3. Restored!IsPrefix(Received, Received')
    <3>1. IsPrefix(<<>>, stream)
      BY <1>2 DEF IsPrefix
    <3> QED BY <1>2, <2>2, <3>1, PrefixOfRestored
  <2>4. Restored!Finish
    BY <1>1, <1>3, <2>1, <2>2, <2>3 DEF Restored!Finish
  <2> QED BY <1>3, <1>6, <1>7, <2>1, <2>4 DEF Restored!Next
<1>9. CASE ReadFails
  <2>1. delivered' = delivered /\ phase' = "broken"
    BY <1>9 DEF ReadFails
  <2> DEFINE w == Whole(kind, SubSeq(stream, 1, read'))
  <2>2. w \in Seq(Out)
    <3>1. SubSeq(stream, 1, read') \in Seq(Symbol)
      BY <1>2, <1>5
    <3> QED BY <1>1, <3>1, WholeType DEF Kinds
  <2> HIDE DEF w
  <2>3. /\ <<>> \in Seq(Out) /\ <<>> \o <<>> = <<>>
        /\ (<<>> \o <<>>) \o w = w
    <3>1. <<>> \in Seq(Out) /\ <<>> \o <<>> = <<>>
      OBVIOUS
    <3> QED BY <2>2, <3>1, ConcatEmptySeq
  <2>4. TypeOK
    BY DEF Inv
  <2>5. delivered' = delivered \o <<>> /\ w = (delivered \o <<>>) \o w
    BY <1>2, <2>1, <2>3
  <2>6. Restored!Progress
    BY <1>5, <2>2, <2>3, <2>4, <2>5, ProgressIs DEF w
  <2>7. Restored!Break
    BY <1>1, <2>1, <2>6 DEF Restored!Break
  <2> QED BY <1>2, <1>6, <1>7, <2>1, <2>3, <2>7 DEF Restored!Next
<1>10. CASE WriteWholeFails
  <2>1. PICK k \in 0 .. Len(all) : delivered' = SubSeq(all, 1, k)
    BY <1>10 DEF WriteWholeFails, all
  <2>2. read' = Len(stream) /\ phase' = "broken"
    BY <1>10 DEF WriteWholeFails
  <2> DEFINE part == SubSeq(all, 1, k)
             missing == SubSeq(all, k + 1, Len(all))
  <2>3. part \in Seq(Out) /\ missing \in Seq(Out) /\ all = part \o missing
    <3>1. ASSUME NEW s \in Seq(Out), NEW j \in 0 .. Len(s)
          PROVE  /\ SubSeq(s, 1, j) \in Seq(Out) /\ SubSeq(s, j + 1, Len(s)) \in Seq(Out)
                 /\ s = SubSeq(s, 1, j) \o SubSeq(s, j + 1, Len(s))
      BY PartOf
    <3> QED BY <1>3, <3>1
  <2>4. delivered' = part
    BY <2>1
  <2> HIDE DEF part, missing
  <2>5. <<>> \o part = part
    BY <2>3, ConcatEmptySeq
  <2>6. TypeOK
    BY DEF Inv
  <2>7. Whole(kind, SubSeq(stream, 1, read')) = (delivered \o part) \o missing
    BY <1>2, <1>3, <1>4, <2>2, <2>3, <2>5
  <2>8. delivered' = delivered \o part
    BY <1>2, <2>4, <2>5
  <2>9. Restored!Progress
    BY <1>5, <2>3, <2>6, <2>7, <2>8, ProgressIs
  <2>10. Restored!Break
    BY <1>1, <2>2, <2>9 DEF Restored!Break
  <2> QED BY <1>6, <1>7, <2>2, <2>3, <2>4, <2>10 DEF Restored!Next
<1> QED BY <1>8, <1>9, <1>10
-----------------------------------------------------------------------------
LEMMA InitInv ==
    ASSUME BodiesAssumption, Init
    PROVE  Inv /\ Restored!Init
<1>1. stream \in Seq(Symbol) /\ kind \in Kinds /\ read = 0
  BY DEF BodiesAssumption, Init, Kinds
<1>2. buf = <<>> /\ delivered = <<>> /\ phase = "open"
  BY DEF Init, WriterInit
<1>3. Len(stream) \in Nat /\ SubSeq(stream, 1, 0) = <<>> /\ SubSeq(stream, 0 + 1, 0) = <<>>
  BY <1>1
<1>4. TypeOK
  <2>1. <<>> \in Seq(Symbol) /\ <<>> \in Seq(Out)
    OBVIOUS
  <2> QED BY <1>1, <1>2, <1>3, <2>1 DEF TypeOK
<1>5. PassedOn(0) /\ 0 \in 0 .. read
  <2>1. Whole(kind, <<>>) = <<>>
    BY <1>1, WholeOfNothing
  <2>2. CutAt(kind, stream, 0)
    BY DEF CutAt, Spans
  <2>3. SubSeq(stream, 0 + 1, read) = <<>> /\ 0 \in 0 .. read
    BY <1>1, <1>3
  <2> QED BY <1>2, <1>3, <2>1, <2>2, <2>3 DEF PassedOn
<1>6. Held(kind, buf)
  BY <1>2 DEF Held, EventEnds, NoTokenIn
<1>7. Restored!Init
  BY <1>1, <1>2, <1>3 DEF Restored!Init, Received
<1> QED BY <1>1, <1>4, <1>5, <1>6, <1>7 DEF Inv

LEMMA NextStep ==
    ASSUME Inv, Next
    PROVE  Inv' /\ Restored!Next
<1>1. stream' = stream /\ kind' = kind
  BY DEF Next
<1>2. CASE CopyChunk
  BY <1>1, <1>2, CopyChunkStep
<1>3. CASE EndOfCopy
  BY <1>1, <1>3, EndOfCopyStep
<1>4. CASE ReadWhole \/ ReadFails \/ WriteWholeFails
  BY <1>1, <1>4, PlainStep
<1> QED BY <1>2, <1>3, <1>4 DEF Next

LEMMA StutterStep ==
    ASSUME Inv, UNCHANGED vars
    PROVE  Inv' /\ UNCHANGED Restored!vars
<1>1. TypeOK'
  BY DEF Inv, TypeOK, vars
<1>2. \A c : PassedOn(c)' <=> PassedOn(c)
  BY DEF PassedOn, vars
<1>3. UNCHANGED Restored!vars
  BY DEF Restored!vars, Received, vars
<1>4. Held(kind, buf)' <=> Held(kind, buf)
  BY DEF Held, vars
<1> QED BY <1>1, <1>2, <1>3, <1>4 DEF Inv, vars

(* The stream is passed on up to some place, what follows of it waits, and no
   token and no line spans that place (stream.go:29-44, stream_sse.go:27-45). *)
THEOREM Invariance == Spec => []Inv
<1>1. Init => Inv
  BY InitInv, BodiesAssumption
<1>2. Inv /\ [Next]_vars => Inv'
  BY NextStep, StutterStep
<1> QED BY <1>1, <1>2, PTL DEF Spec

(* A token whose last byte has come never waits in the raw writer's buffer,
   however it came and whatever opening follows it (streamsafe.go:9-36). *)
THEOREM TokensGoOut == Spec => []NoWholeTokenWaits
<1>1. Inv => NoWholeTokenWaits
  BY DEF Inv, Held, NoWholeTokenWaits
<1> QED BY <1>1, Invariance, PTL

(* After a chunk no complete event waits in the buffer, however many events
   it completed (stream_sse.go:27-45). *)
THEOREM EventsGoOut == Spec => []NoCompleteEventWaits
<1>1. Inv => NoCompleteEventWaits
  BY DEF Inv, Held, NoCompleteEventWaits
<1> QED BY <1>1, Invariance, PTL

(* However upstream cuts its chunks and wherever either side breaks off, the
   agent sees a growing beginning of the body restored in one go, and all of
   it once the response is closed (stream.go:29-60, stream_sse.go:27-60
   against restore.go:91-107 and redact.go:131-144). *)
THEOREM StreamedIsRestored == Spec => ImplementsRestoredStream
<1>1. Init => Restored!Init
  BY InitInv, BodiesAssumption
<1>2. Inv /\ [Next]_vars => [Restored!Next]_Restored!vars
  BY NextStep, StutterStep
<1> QED BY <1>1, <1>2, Invariance, PTL DEF Spec, ImplementsRestoredStream, Restored!Spec
=============================================================================
