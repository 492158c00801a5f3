--------------------------- MODULE DetectionCache ---------------------------
(***************************************************************************)
(* The LRU cache of redaction results (internal/redact/cache.go).  Get and *)
(* Put hold the cache's mutex from the lookup to the return, so each is    *)
(* one step.  The cache of size 0 is the nil *DetectionCache of            *)
(* NewDetectionCache: every Get misses and every Put is dropped.           *)
(***************************************************************************)
EXTENDS Naturals, Sequences, FiniteSets

CONSTANTS Key,         \* cacheKey: content hash and skipLLM flag
          Entry,       \* cacheEntry: redacted text and its categories
          MaxEntries   \* maxEntries

ASSUME MaxEntriesAssumption == MaxEntries \in Nat

VARIABLES entries,     \* the map from cached keys to results
          order        \* the keys, least recently used first

cacheVars == <<entries, order>>

CacheTypeOK ==
    /\ DOMAIN entries \subseteq Key
    /\ \A k \in DOMAIN entries : entries[k] \in Entry
    /\ order \in Seq(Key)

CacheInit == /\ entries = [k \in {} |-> {}]
             /\ order = <<>>
-----------------------------------------------------------------------------
Position(k) == CHOOSE i \in DOMAIN order : order[i] = k

(* order without its element at index i, and with k at the end.  Slip: k
   stays where it was. *)
NotMoved(i, k) == order

MovedLast(i, k) ==
    [j \in DOMAIN order |->
        IF j < i THEN order[j]
        ELSE IF j < Len(order) THEN order[j + 1]
        ELSE k]

Touched(k) ==
    IF \E i \in DOMAIN order : order[i] = k
    THEN MovedLast(Position(k), k)
    ELSE order

Hit(k) == k \in DOMAIN entries

(* Get: a hit makes the key the most recently used; a miss changes nothing. *)
Get(k) ==
    /\ order' = IF Hit(k) THEN Touched(k) ELSE order
    /\ UNCHANGED entries
-----------------------------------------------------------------------------
(* The entries after e is stored under k and the keys of gone are deleted. *)
WithEntry(k, e, gone) ==
    [x \in (DOMAIN entries \ gone) \cup {k} |->
        IF x = k THEN e ELSE entries[x]]

PutAgain(k, e) ==
    /\ Hit(k)
    /\ order' = Touched(k)
    /\ entries' = WithEntry(k, e, {})

Room == Len(order) < MaxEntries

PutFresh(k, e) ==
    /\ ~Hit(k)
    /\ Room
    /\ order' = Append(order, k)
    /\ entries' = WithEntry(k, e, {})

(* Full: the oldest key makes room.  Slip: the victim's entry stays in the map. *)
PutLeak(k, e) ==
    /\ ~Hit(k)
    /\ ~Room
    /\ order' = Append(Tail(order), k)
    /\ entries' = WithEntry(k, e, {})
PutEvict(k, e) ==
    /\ ~Hit(k)
    /\ ~Room
    /\ order' = Append(Tail(order), k)
    /\ entries' = WithEntry(k, e, {Head(order)})

(* Size 0 is the nil cache: nothing is kept. *)
Put(k, e) ==
    IF MaxEntries = 0
    THEN UNCHANGED cacheVars
    ELSE PutAgain(k, e) \/ PutFresh(k, e) \/ PutEvict(k, e)
-----------------------------------------------------------------------------
CacheNext == \E k \in Key : Get(k) \/ (\E e \in Entry : Put(k, e))

CacheSpec == CacheInit /\ [][CacheNext]_cacheVars
-----------------------------------------------------------------------------
(* The recency list and the map hold the same keys, each once, and never
   more than maxEntries of them, after any sequence of Get and Put
   (cache.go:59-88): a key in only one of the two would be evicted twice or
   never. *)
OrderMatchesEntries ==
    /\ \A i, j \in DOMAIN order : order[i] = order[j] => i = j
    /\ {order[i] : i \in DOMAIN order} = DOMAIN entries
    /\ Len(order) <= MaxEntries

(* The detailed cache implements the abstract LRU: a key's age is the number
   of keys behind it in order.  A step that evicts any key but the least
   recently used one, or that forgets a use, is not a step of the LRU
   (the promise of cache.go:8-10). *)
Lru == INSTANCE LRU WITH
           content <- entries,
           age <- [k \in DOMAIN entries |-> Len(order) - Position(k)]
ImplementsLRU == Lru!Spec
=============================================================================
