-------------------------------- MODULE LRU --------------------------------
(***************************************************************************)
(* What a least-recently-used cache promises, with no word on how recency  *)
(* is recorded: every cached key has an age, the ages are 0 (just used),   *)
(* 1, 2, ... without gaps, a use makes a key the youngest and a full cache *)
(* gives up the oldest key, no other.                                      *)
(* DetectionCache implements this specification.                           *)
(***************************************************************************)
EXTENDS Naturals

CONSTANTS Key,         \* what results are cached under
          Entry,       \* the results
          MaxEntries   \* the capacity

VARIABLES content,     \* the cached results, a function on the cached keys
          age          \* how many cached keys were used after each of them

vars == <<content, age>>

Cached == DOMAIN content

Init == /\ content = [k \in {} |-> {}]
        /\ age = [k \in {} |-> 0]

(* The ages after key k is used, when the keys of rest stay beside it. *)
Used(k, rest) ==
    [x \in rest \cup {k} |->
        IF x = k THEN 0
        ELSE IF k \in Cached /\ age[x] > age[k] THEN age[x]
        ELSE age[x] + 1]

Fetch(k) ==
    /\ k \in Cached
    /\ age' = Used(k, Cached)
    /\ UNCHANGED content

(* The keys that stay when k is stored: all of them when it is cached already;
   else the one whose age would reach the capacity goes. *)
Kept(k) ==
    IF k \in Cached
    THEN Cached
    ELSE {x \in Cached : age[x] + 1 < MaxEntries}

Keep(k, e) ==
    /\ MaxEntries > 0
    /\ age' = Used(k, Kept(k))
    /\ content' = [x \in Kept(k) \cup {k} |-> IF x = k THEN e ELSE content[x]]

Next == \E k \in Key : Fetch(k) \/ (\E e \in Entry : Keep(k, e))

Spec == Init /\ [][Next]_vars
=============================================================================
