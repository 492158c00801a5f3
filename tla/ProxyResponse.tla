---------------------------- MODULE ProxyResponse ----------------------------
(***************************************************************************)
(* The second half of Proxy.ServeHTTP (internal/proxy/proxy.go:112-167):   *)
(* the upstream response is copied to the agent through the writer its     *)
(* headers call for, or read to the end and restored as one body.  The     *)
(* upstream may end at any point, cleanly or not, and the agent's          *)
(* connection may break during any write.                                  *)
(***************************************************************************)
EXTENDS RestoringWriter, SSERestoringWriter

CONSTANTS Symbol,        \* what a body is made of
          SSEStreams,    \* bodies of text/event-stream responses
          RawStreams,    \* bodies of other chunked responses
          PlainBodies    \* bodies of the rest

ASSUME BodiesAssumption ==
    /\ SSEStreams \subseteq Seq(Symbol)
    /\ RawStreams \subseteq Seq(Symbol)
    /\ PlainBodies \subseteq Seq(Symbol)

VARIABLES kind,        \* which branch of ServeHTTP the response takes
          stream,      \* what upstream has to send
          read         \* how much of it the proxy has read

vars == <<kind, stream, read, buf, delivered, phase>>

Received == SubSeq(stream, 1, read)
Unread == Len(stream) - read

Init ==
    /\ \/ kind = "sse" /\ stream \in SSEStreams
       \/ kind = "raw" /\ stream \in RawStreams
       \/ kind = "plain" /\ stream \in PlainBodies
    /\ read = 0
    /\ WriterInit
-----------------------------------------------------------------------------
(* io.Copy passes on what one Read returned: any part of what is unread. *)
CopyChunk ==
    \E n \in 1 .. Unread :
        LET chunk == SubSeq(stream, read + 1, read + n) IN
        /\ read' = read + n
        /\ \/ kind = "sse" /\ SSEWrite(chunk)
           \/ kind = "sse" /\ SSEWriteFails(chunk)
           \/ kind = "raw" /\ RawWrite(chunk)
           \/ kind = "raw" /\ RawWriteFails(chunk)

(* io.Copy returns, at the end of the stream or with a read error that is
   only logged; either way the writer is closed. *)
EndOfCopy ==
    /\ \/ kind = "sse" /\ SSEClose
       \/ kind = "sse" /\ SSECloseFails
       \/ kind = "raw" /\ RawClose
       \/ kind = "raw" /\ RawCloseFails
    /\ UNCHANGED read

(* io.ReadAll: everything is read before anything is written. *)
ReadWhole ==
    /\ kind = "plain"
    /\ phase = "open"
    /\ read' = Len(stream)
    /\ delivered' = RestoreJSONOrRaw(stream)
    /\ phase' = "closed"
    /\ UNCHANGED buf

(* It fails: the status line is out, the body stays empty. *)
ReadFails ==
    /\ kind = "plain"
    /\ phase = "open"
    /\ read' \in 0 .. Len(stream)
    /\ phase' = "broken"
    /\ UNCHANGED <<buf, delivered>>

(* The agent is gone when the restored body is written. *)
WriteWholeFails ==
    /\ kind = "plain"
    /\ phase = "open"
    /\ read' = Len(stream)
    /\ LET restored == RestoreJSONOrRaw(stream) IN
       \E k \in 0 .. Len(restored) : delivered' = SubSeq(restored, 1, k)
    /\ phase' = "broken"
    /\ UNCHANGED buf

Next ==
    /\ CopyChunk \/ EndOfCopy \/ ReadWhole \/ ReadFails \/ WriteWholeFails
    /\ UNCHANGED <<kind, stream>>

Spec == Init /\ [][Next]_vars
-----------------------------------------------------------------------------
(* The whole body restored in one go, by the branch's own rules. *)
Whole(k, body) ==
    CASE k = "sse"   -> RestoreSSE(body)
      [] k = "raw"   -> Restore(body)
      [] k = "plain" -> RestoreJSONOrRaw(body)

(* However the upstream cuts its chunks, the agent sees a growing beginning of
   the body restored in one go, and all of it in the end (stream.go:29-60,
   stream_sse.go:27-60 against restore.go:91-107 and redact.go:131-144). *)
Restored == INSTANCE RestoredStream WITH received <- Received
ImplementsRestoredStream == Restored!Spec

(* Safe to emit at once is "everything through the end of the last complete
   placeholder token" (streamsafe.go:9-14): a token never waits in the buffer
   once its last byte has come, however many chunks it came in and whatever
   opening follows it. *)
NoWholeTokenWaits == kind = "raw" /\ phase = "open" => NoTokenIn(buf)

(* After a chunk no complete event waits in the buffer, however many events
   it completed (stream_sse.go:27-45). *)
NoCompleteEventWaits == kind = "sse" /\ phase = "open" => EventEnds(buf) = {}

(* "The response (including text/event-stream / chunked streaming responses)
   is scanned for placeholder tokens, which are swapped back" (README.md:35):
   when the response is complete, the text deltas the agent puts together
   hold no token the store knows. *)
Deltas(s) == SelectSeq(s, LAMBDA x : x \in {"T", "T1", "T2", "V", "Vq", "x"})
TokensSwappedBack ==
    phase = "closed" /\ read = Len(stream) =>
        LET text == Deltas(delivered) IN
        /\ "T" \notin ToSet(text)
        /\ \A i \in 1 .. Len(text) - 1 : ~(text[i] = "T1" /\ text[i + 1] = "T2")
=============================================================================
