--------------------------- MODULE RestoredStream ---------------------------
(***************************************************************************)
(* What the agent may see of a response while it streams through the       *)
(* proxy: never anything but a beginning of what restoring the whole       *)
(* response at once would give, never taken back, and all of it once the   *)
(* response is closed - however the upstream cuts its chunks.              *)
(***************************************************************************)
EXTENDS Sequences, SequencesExt

CONSTANT Whole(_, _)   \* restoring a complete body of a kind in one go

VARIABLES kind,        \* the kind of response, fixed by its headers
          received,    \* what has arrived from upstream
          delivered,   \* what has been written to the agent
          phase        \* "open", "closed" or "broken"

vars == <<kind, received, delivered, phase>>

Init == received = <<>> /\ delivered = <<>> /\ phase = "open"

(* More arrives, perhaps, and some of what has arrived is passed on. *)
Progress ==
    /\ IsPrefix(received, received')
    /\ IsPrefix(delivered, delivered')
    /\ IsPrefix(delivered', Whole(kind, received'))

Pass == phase = "open" /\ phase' = "open" /\ Progress

Finish ==
    /\ phase = "open" /\ phase' = "closed"
    /\ IsPrefix(received, received')
    /\ delivered' = Whole(kind, received')

(* The agent is gone, or the body cannot be read to its end. *)
Break == phase = "open" /\ phase' = "broken" /\ Progress

Next == (Pass \/ Finish \/ Break) /\ UNCHANGED kind

Spec == Init /\ [][Next]_vars
=============================================================================
