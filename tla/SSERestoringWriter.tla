------------------------- MODULE SSERestoringWriter -------------------------
(***************************************************************************)
(* The writer for text/event-stream (internal/proxy/stream_sse.go) and the *)
(* restoring of bodies and events (internal/redact/restore.go).  A stream  *)
(* is a sequence of symbols: "n" is a line feed, "r" a carriage return,    *)
(* "d" the "data:" that begins a data line, "{" and "}" the bounds of a    *)
(* JSON payload.  "T" is a token the store knows, "T1" and "T2" its two    *)
(* halves; restored, it is "Vq" with JSON escaping and "V" without.        *)
(***************************************************************************)
EXTENDS Writer, SequencesExt
-----------------------------------------------------------------------------
(* restoreJSONOrRaw: JSON is decoded, restored and encoded again, all else is
   restored byte by byte. *)
IsJSON(p) == Len(p) >= 2 /\ Head(p) = "{" /\ Last(p) = "}"

RestoreIn(p, x) == IF x # "T" THEN x ELSE IF IsJSON(p) THEN "Vq" ELSE "V"

RestoreJSONOrRaw(p) == [i \in DOMAIN p |-> RestoreIn(p, p[i])]

(* Only a data line whose payload looks like JSON is touched; trimming the
   payload takes a carriage return off it. *)
Payload(line) == SelectSeq(Tail(line), LAMBDA x : x # "r")
IsTouched(line) ==
    /\ line # <<>> /\ Head(line) = "d"
    /\ Payload(line) # <<>> /\ Head(Payload(line)) = "{"

(* The line that position i of an event stands in. *)
LineFeeds(event) == {i \in DOMAIN event : event[i] = "n"}
LineStart(event, i) == Max({j \in LineFeeds(event) : j < i} \cup {0}) + 1
LineEnd(event, i) == Min({j \in LineFeeds(event) : j >= i} \cup {Len(event) + 1}) - 1
LineOf(event, i) == SubSeq(event, LineStart(event, i), LineEnd(event, i))

(* RestoreSSEEvent, symbol by symbol. *)
RestoredInEvent(event, i) ==
    LET line == LineOf(event, i) IN
    IF event[i] = "n" \/ ~IsTouched(line) THEN <<event[i]>>
    ELSE IF event[i] = "r" THEN <<>>
    ELSE <<RestoreIn(Payload(line), event[i])>>
RestoreSSEEvent(event) == FlattenSeq([i \in DOMAIN event |-> RestoredInEvent(event, i)])

(* Where the separator "\n\n" ends in b. *)
EventEnds(b) == {i \in 2 .. Len(b) : b[i - 1] = "n" /\ b[i] = "n"}

(* restoreSSE: the events of a body that is there as a whole, one after the
   other; from[i] is what becomes of the body from i on. *)
RestoreSSE(body) ==
    LET from[i \in 1 .. Len(body) + 1] ==
            LET ends == {k \in EventEnds(body) : k > i} IN
            IF ends = {} THEN RestoreSSEEvent(SubSeq(body, i, Len(body)))
            ELSE RestoreSSEEvent(SubSeq(body, i, Min(ends))) \o from[Min(ends) + 1]
    IN  from[1]
-----------------------------------------------------------------------------
(* One round of the loop of Write: the first complete event is taken off b and
   restored. *)
OneEvent(b) ==
    IF EventEnds(b) = {} THEN [out |-> <<>>, rest |-> b]
    ELSE LET i == Min(EventEnds(b))
         IN  [out |-> RestoreSSEEvent(SubSeq(b, 1, i)), rest |-> SubSeq(b, i + 1, Len(b))]

(* The loop as a whole: after k symbols of b those up to scan[k].end are in
   complete events and scan[k].out is what they become. *)
Drained(b) ==
    LET scan[k \in 0 .. Len(b)] ==
            IF k = 0 THEN [out |-> <<>>, end |-> 0]
            ELSE LET before == scan[k - 1] IN
                 IF k > before.end + 1 /\ k \in EventEnds(b)
                 THEN [out |-> before.out \o RestoreSSEEvent(SubSeq(b, before.end + 1, k)),
                       end |-> k]
                 ELSE before
        all == scan[Len(b)]
    IN  [out |-> all.out, rest |-> SubSeq(b, all.end + 1, Len(b))]

SSEWrite(p) ==
    LET drained == Drained(buf \o p) IN Sends(drained.out, drained.rest)

(* The write of some event of the chunk fails: the events before it are out,
   it is off the buffer, those behind it stay there.  Close will try them on
   the same connection. *)
SSEWriteFails(p) ==
    LET whole == buf \o p IN
    \E s \in 0 .. Len(whole) :
        LET before == Drained(SubSeq(whole, 1, s))
            tail == SubSeq(whole, s + 1, Len(whole))
            event == OneEvent(tail)
        IN  /\ before.rest = <<>>
            /\ EventEnds(tail) # {}
            /\ Breaks(before.out \o event.out, event.rest)
            /\ IsPrefix(delivered \o before.out, delivered')

(* Slip: the partial event at the end of the stream is dropped. *)
CloseWithoutFlush == Ends(<<>>)
SSEClose == Ends(RestoreSSEEvent(buf))

SSECloseFails == buf # <<>> /\ Breaks(RestoreSSEEvent(buf), buf)
=============================================================================
