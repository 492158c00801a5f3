------------------------------ MODULE SpliceMC ------------------------------
(***************************************************************************)
(* A string of four bytes and every set of up to three matches of it, each *)
(* of a category that is always redacted or of one that is not: all ways   *)
(* to nest, touch, overlap, coincide and be empty.                         *)
(***************************************************************************)
EXTENDS Splice

CONSTANTS email, secret, plain

MCCategory == {email, secret}
MCAlways == {email}
MCMatch == {m \in Match : m.from <= m.to}
MCFinds == {{}} \cup {{a, b, c} : a, b, c \in MCMatch}
=============================================================================
