------------------------------- MODULE Writer -------------------------------
(***************************************************************************)
(* What the two streaming writers of internal/proxy share: the state they  *)
(* keep around the agent's connection and what a write to that connection  *)
(* may come to.                                                            *)
(***************************************************************************)
EXTENDS Naturals, Sequences

VARIABLES buf,         \* bytes held back
          delivered,   \* bytes written to the agent
          phase        \* "open", "closed" or "broken"

WriterInit == buf = <<>> /\ delivered = <<>> /\ phase = "open"

Sends(out, rest) ==
    /\ phase = "open"
    /\ delivered' = delivered \o out
    /\ buf' = rest
    /\ UNCHANGED phase

(* The agent's connection breaks: part of out may have gone out, and no later
   write succeeds. *)
Breaks(out, rest) ==
    /\ phase = "open"
    /\ \E k \in 0 .. Len(out) : delivered' = delivered \o SubSeq(out, 1, k)
    /\ buf' = rest
    /\ phase' = "broken"

Ends(out) ==
    /\ phase = "open"
    /\ delivered' = delivered \o out
    /\ buf' = <<>>
    /\ phase' = "closed"
=============================================================================
