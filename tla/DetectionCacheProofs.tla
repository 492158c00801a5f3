------------------------ MODULE DetectionCacheProofs ------------------------
(***************************************************************************)
(* For every set of keys and every capacity: the recency list and the map  *)
(* of the detection cache agree, and the cache implements LRU.             *)
(***************************************************************************)
EXTENDS DetectionCache, TLAPS

(* CacheTypeOK and OrderMatchesEntries are inductive together. *)
CacheInv == CacheTypeOK /\ OrderMatchesEntries

(* Two functions with the same values have the same set of values. *)
LEMMA SameImage ==
    ASSUME NEW S, NEW T, NEW f, NEW g,
           \A i \in S : \E j \in T : f[i] = g[j],
           \A j \in T : \E i \in S : f[i] = g[j]
    PROVE  {f[i] : i \in S} = {g[j] : j \in T}
<1>1. ASSUME NEW x \in {f[i] : i \in S} PROVE x \in {g[j] : j \in T}
  <2>1. PICK i \in S : x = f[i]
    OBVIOUS
  <2>2. PICK j \in T : f[i] = g[j]
    OBVIOUS
  <2> QED BY <2>1, <2>2
<1>2. ASSUME NEW x \in {g[j] : j \in T} PROVE x \in {f[i] : i \in S}
  <2>1. PICK j \in T : x = g[j]
    OBVIOUS
  <2>2. PICK i \in S : f[i] = g[j]
    OBVIOUS
  <2> QED BY <2>1, <2>2
<1> QED BY <1>1, <1>2

(* The list after a use of k (touchLocked) has the same length and the same
   keys, each once, with k last. *)
LEMMA TouchedPermutes ==
    ASSUME CacheInv, NEW k \in Key
    PROVE  /\ Touched(k) \in Seq(Key)
           /\ Len(Touched(k)) = Len(order)
           /\ \A i, j \in DOMAIN Touched(k) : Touched(k)[i] = Touched(k)[j] => i = j
           /\ {Touched(k)[i] : i \in DOMAIN Touched(k)} = DOMAIN entries
<1>0. order \in Seq(Key) /\ Len(order) \in Nat /\ DOMAIN order = 1 .. Len(order)
  BY DEF CacheInv, CacheTypeOK
<1>1. CASE ~ \E i \in DOMAIN order : order[i] = k
  BY <1>0, <1>1 DEF Touched, CacheInv, OrderMatchesEntries
<1>2. CASE \E i \in DOMAIN order : order[i] = k
  <2> DEFINE p == Position(k)
             n == Len(order)
             t == MovedLast(p, k)
  <2>1. p \in 1 .. n /\ order[p] = k
    BY <1>0, <1>2 DEF Position
  <2>2. Touched(k) = t
    BY <1>2 DEF Touched
  <2>3. DOMAIN t = 1 .. n
    BY <1>0 DEF MovedLast
  <2>4. \A j \in 1 .. n : t[j] = IF j < p THEN order[j]
                                ELSE IF j < n THEN order[j + 1] ELSE k
    BY <1>0 DEF MovedLast
  <2>5. \A j \in 1 .. n : t[j] \in Key
    BY <1>0, <2>1, <2>4
  <2>6. t \in Seq(Key) /\ Len(t) = n
    BY <1>0, <2>3, <2>5 DEF MovedLast
  <2>7. \A i, j \in 1 .. n : t[i] = t[j] => i = j
    <3>1. \A i, j \in 1 .. n : order[i] = order[j] => i = j
      BY <1>0 DEF CacheInv, OrderMatchesEntries
    <3> QED BY <1>0, <2>1, <2>4, <3>1
  <2>8. {t[i] : i \in DOMAIN t} = {order[i] : i \in DOMAIN order}
    <3>1. \A i \in 1 .. n : \E j \in 1 .. n : t[i] = order[j]
      BY <1>0, <2>1, <2>4
    <3>2. \A j \in 1 .. n : \E i \in 1 .. n : t[i] = order[j]
      <4> SUFFICES ASSUME NEW j \in 1 .. n PROVE \E i \in 1 .. n : t[i] = order[j]
        OBVIOUS
      <4>1. CASE j < p
        BY <1>0, <2>1, <2>4, <4>1
      <4>2. CASE j = p
        <5>1. t[n] = k
          BY <1>0, <2>1, <2>4
        <5> QED BY <1>0, <2>1, <4>2, <5>1
      <4>3. CASE j > p
        <5>1. j - 1 \in 1 .. n /\ t[j - 1] = order[j]
          BY <1>0, <2>1, <2>4, <4>3
        <5> QED BY <5>1
      <4> QED BY <1>0, <2>1, <4>1, <4>2, <4>3
    <3>3. \A i \in DOMAIN t : \E j \in DOMAIN order : t[i] = order[j]
      BY <1>0, <2>3, <3>1
    <3>4. \A j \in DOMAIN order : \E i \in DOMAIN t : t[i] = order[j]
      BY <1>0, <2>3, <3>2
    <3> HIDE DEF t
    <3> QED BY <3>3, <3>4, SameImage
  <2>9. {t[i] : i \in DOMAIN t} = DOMAIN entries
    BY <2>8 DEF CacheInv, OrderMatchesEntries
  <2>10. \A i, j \in DOMAIN t : t[i] = t[j] => i = j
    BY <2>3, <2>7
  <2> QED BY <2>2, <2>6, <2>9, <2>10
<1> QED BY <1>1, <1>2

THEOREM CacheInitial == CacheInit => CacheInv
BY MaxEntriesAssumption DEF CacheInit, CacheInv, CacheTypeOK, OrderMatchesEntries

(* Get keeps the invariant: only the order of the list can change. *)
LEMMA GetKeepsInv ==
    ASSUME CacheInv, NEW k \in Key, Get(k)
    PROVE  CacheInv'
<1>1. CASE Hit(k)
  <2>1. order' = Touched(k) /\ entries' = entries
    BY <1>1 DEF Get
  <2> QED BY <2>1, TouchedPermutes DEF CacheInv, CacheTypeOK, OrderMatchesEntries
<1>2. CASE ~Hit(k)
  BY <1>2 DEF Get, CacheInv, CacheTypeOK, OrderMatchesEntries
<1> QED BY <1>1, <1>2

(* Put keeps it: a key that is stored again moves to the end, a new one is
   appended, after the eviction of the first when the cache is full. *)
LEMMA PutKeepsInv ==
    ASSUME CacheInv, NEW k \in Key, NEW e \in Entry, Put(k, e)
    PROVE  CacheInv'
<1>0. /\ order \in Seq(Key) /\ Len(order) \in Nat /\ DOMAIN order = 1 .. Len(order)
      /\ MaxEntries \in Nat
      /\ \A i, j \in 1 .. Len(order) : order[i] = order[j] => i = j
      /\ \A x : x \in DOMAIN entries <=> \E i \in 1 .. Len(order) : order[i] = x
      /\ Len(order) <= MaxEntries
  BY MaxEntriesAssumption DEF CacheInv, CacheTypeOK, OrderMatchesEntries
<1>1. CASE UNCHANGED cacheVars
  BY <1>1 DEF cacheVars, CacheInv, CacheTypeOK, OrderMatchesEntries
<1>2. CASE PutAgain(k, e)
  <2>1. order' = Touched(k) /\ DOMAIN entries' = DOMAIN entries
    BY <1>2 DEF PutAgain, WithEntry, Hit
  <2>2. \A x \in DOMAIN entries' : entries'[x] \in Entry
    BY <1>2 DEF PutAgain, WithEntry, CacheInv, CacheTypeOK
  <2>3. CacheTypeOK'
    BY <2>1, <2>2, TouchedPermutes DEF CacheInv, CacheTypeOK
  <2>4. OrderMatchesEntries'
    <3>1. {order'[i] : i \in DOMAIN order'} = {Touched(k)[i] : i \in DOMAIN Touched(k)}
      BY <2>1, Zenon
    <3>2. {order'[i] : i \in DOMAIN order'} = DOMAIN entries'
      BY <2>1, <3>1, TouchedPermutes
    <3>3. Len(order') <= MaxEntries
      BY <2>1, TouchedPermutes DEF CacheInv, OrderMatchesEntries
    <3>4. \A i, j \in DOMAIN order' : order'[i] = order'[j] => i = j
      BY <2>1, TouchedPermutes, Zenon
    <3> QED BY <3>2, <3>3, <3>4 DEF OrderMatchesEntries
  <2> QED BY <2>3, <2>4 DEF CacheInv
<1>3. CASE PutFresh(k, e)
  <2>1. /\ order' = Append(order, k)
        /\ DOMAIN entries' = DOMAIN entries \cup {k}
        /\ k \notin DOMAIN entries
        /\ Len(order) < MaxEntries
    BY <1>3 DEF PutFresh, WithEntry, Hit, Room
  <2>2. /\ order' \in Seq(Key)
        /\ DOMAIN order' = 1 .. Len(order) + 1
        /\ Len(order') = Len(order) + 1
        /\ order'[Len(order) + 1] = k
        /\ \A i \in 1 .. Len(order) : order'[i] = order[i]
    BY <1>0, <2>1
  <2>3. DOMAIN entries' \subseteq Key /\ \A x \in DOMAIN entries' : entries'[x] \in Entry
    BY <1>3 DEF PutFresh, WithEntry, CacheInv, CacheTypeOK
  <2>4. \A i, j \in DOMAIN order' : order'[i] = order'[j] => i = j
    BY <1>0, <2>1, <2>2
  <2>5. \A x : x \in DOMAIN entries' <=> \E i \in DOMAIN order' : order'[i] = x
    BY <1>0, <2>1, <2>2
  <2>6. {order'[i] : i \in DOMAIN order'} = DOMAIN entries'
    BY <2>5, Zenon
  <2> QED
    BY <1>0, <2>1, <2>2, <2>3, <2>4, <2>6 DEF CacheInv, CacheTypeOK, OrderMatchesEntries
<1>4. CASE MaxEntries > 0 /\ PutEvict(k, e)
  <2>1. /\ order' = Append(Tail(order), k)
        /\ DOMAIN entries' = (DOMAIN entries \ {order[1]}) \cup {k}
        /\ k \notin DOMAIN entries
        /\ Len(order) = MaxEntries
        /\ Len(order) > 0
    <3>1. Head(order) = order[1]
      BY <1>0
    <3>2. Len(order) = MaxEntries /\ Len(order) > 0
      <4>1. MaxEntries > 0 /\ ~Room
        BY <1>4 DEF PutEvict
      <4>2. Len(order) \in Nat /\ MaxEntries \in Nat /\ Len(order) <= MaxEntries
        BY <1>0
      <4> QED BY <4>1, <4>2 DEF Room
    <3>3. DOMAIN entries' = (DOMAIN entries \ {Head(order)}) \cup {k}
      BY <1>4 DEF PutEvict, WithEntry
    <3>4. order' = Append(Tail(order), k) /\ k \notin DOMAIN entries
      BY <1>4 DEF PutEvict, Hit
    <3> QED BY <3>1, <3>2, <3>3, <3>4
  <2>2. /\ order' \in Seq(Key)
        /\ DOMAIN order' = 1 .. Len(order)
        /\ Len(order') = Len(order)
        /\ order'[Len(order)] = k
        /\ \A i \in 1 .. Len(order) - 1 : order'[i] = order[i + 1]
    BY <1>0, <2>1
  <2>3. DOMAIN entries' \subseteq Key /\ \A x \in DOMAIN entries' : entries'[x] \in Entry
    BY <1>4 DEF PutEvict, WithEntry, CacheInv, CacheTypeOK
  <2>4. \A i, j \in DOMAIN order' : order'[i] = order'[j] => i = j
    BY <1>0, <2>1, <2>2
  <2>5. \A x : x \in DOMAIN entries' <=> \E i \in DOMAIN order' : order'[i] = x
    <3>1. ASSUME NEW x, x \in DOMAIN entries' PROVE \E i \in DOMAIN order' : order'[i] = x
      <4>1. CASE x = k
        BY <2>1, <2>2, <4>1
      <4>2. CASE x # k
        <5>1. PICK i \in 1 .. Len(order) : order[i] = x
          BY <1>0, <2>1, <3>1, <4>2
        <5>2. i # 1
          BY <2>1, <3>1, <4>2, <5>1
        <5>3. i - 1 \in 1 .. Len(order) - 1 /\ order'[i - 1] = x
          BY <1>0, <2>2, <5>1, <5>2
        <5> QED BY <2>2, <5>3
      <4> QED BY <4>1, <4>2
    <3>2. ASSUME NEW i \in DOMAIN order' PROVE order'[i] \in DOMAIN entries'
      BY <1>0, <2>1, <2>2
    <3> QED BY <3>1, <3>2
  <2>6. {order'[i] : i \in DOMAIN order'} = DOMAIN entries'
    BY <2>5, Zenon
  <2> QED
    BY <1>0, <2>1, <2>2, <2>3, <2>4, <2>6 DEF CacheInv, CacheTypeOK, OrderMatchesEntries
<1> QED BY <1>1, <1>2, <1>3, <1>4, MaxEntriesAssumption DEF Put

THEOREM CacheStep == CacheInv /\ [CacheNext]_cacheVars => CacheInv'
<1> SUFFICES ASSUME CacheInv, [CacheNext]_cacheVars PROVE CacheInv'
  OBVIOUS
<1>1. CASE UNCHANGED cacheVars
  BY <1>1 DEF cacheVars, CacheInv, CacheTypeOK, OrderMatchesEntries
<1>2. ASSUME NEW k \in Key, Get(k) PROVE CacheInv'
  BY <1>2, GetKeepsInv
<1>3. ASSUME NEW k \in Key, NEW e \in Entry, Put(k, e) PROVE CacheInv'
  BY <1>3, PutKeepsInv
<1> QED BY <1>1, <1>2, <1>3 DEF CacheNext

(* After any sequence of Get and Put, of any keys and results and for any
   capacity, the list and the map hold the same keys, each once, and no more
   than the capacity (cache.go:43-88). *)
THEOREM CacheOrderTheorem == CacheSpec => [](CacheTypeOK /\ OrderMatchesEntries)
<1>1. CacheInit => CacheInv
  BY CacheInitial
<1>2. CacheInv /\ [CacheNext]_cacheVars => CacheInv'
  BY CacheStep
<1> QED BY <1>1, <1>2, PTL DEF CacheSpec, CacheInv

-----------------------------------------------------------------------------
(* The detailed cache implements LRU.  The mapping reads a key's age off its
   place in the list; since the list names every cached key once, the age of
   the key at place i is Len(order) - i. *)
Ages == [k \in DOMAIN entries |-> Len(order) - Position(k)]

AgeOfPlace ==
    \A i \in 1 .. Len(order) : /\ order[i] \in DOMAIN entries
                               /\ Ages[order[i]] = Len(order) - i

KeyHasPlace == \A k \in DOMAIN entries : \E i \in 1 .. Len(order) : order[i] = k

LEMMA Places == CacheInv => AgeOfPlace /\ KeyHasPlace
<1> SUFFICES ASSUME CacheInv PROVE AgeOfPlace /\ KeyHasPlace
  OBVIOUS
<1>1. /\ DOMAIN order = 1 .. Len(order)
      /\ \A i, j \in DOMAIN order : order[i] = order[j] => i = j
      /\ {order[i] : i \in DOMAIN order} = DOMAIN entries
  BY DEF CacheInv, CacheTypeOK, OrderMatchesEntries
<1>2. ASSUME NEW i \in 1 .. Len(order) PROVE Position(order[i]) = i
  BY <1>1, <1>2 DEF Position
<1>3. AgeOfPlace
  BY <1>1, <1>2 DEF AgeOfPlace, Ages
<1>4. KeyHasPlace
  BY <1>1 DEF KeyHasPlace
<1> QED BY <1>3, <1>4

(* A use of k: the keys behind it in the list move one place forward. *)
LEMMA UseAges ==
    ASSUME CacheInv, AgeOfPlace, KeyHasPlace, AgeOfPlace', NEW k \in Key, Hit(k),
           order' = Touched(k), DOMAIN entries' = DOMAIN entries
    PROVE  Ages' = Lru!Used(k, DOMAIN entries)
<1> DEFINE n == Len(order)
           p == Position(k)
<1>0. /\ n \in Nat /\ DOMAIN order = 1 .. n
      /\ \A i, j \in 1 .. n : order[i] = order[j] => i = j
  BY DEF CacheInv, CacheTypeOK, OrderMatchesEntries
<1>1. p \in 1 .. n /\ order[p] = k
  BY <1>0 DEF Position, KeyHasPlace, Hit
<1>2. Len(order') = n
  BY TouchedPermutes
<1>3. \A j \in 1 .. n : order'[j] = IF j < p THEN order[j]
                                   ELSE IF j < n THEN order[j + 1] ELSE k
  BY <1>0, <1>1 DEF Touched, MovedLast
<1>4. \A i \in 1 .. n : Ages[order[i]] = n - i
  BY DEF AgeOfPlace
<1>5. \A j \in 1 .. n : Ages'[order'[j]] = n - j
  BY <1>2 DEF AgeOfPlace
<1> HIDE DEF n, p
<1>6. Ages'[k] = 0
  <2>1. n \in 1 .. n /\ order'[n] = k
    BY <1>0, <1>1, <1>3
  <2> QED BY <1>0, <1>5, <2>1
<1>7. ASSUME NEW x \in DOMAIN entries, x # k
      PROVE  Ages'[x] = IF Ages[x] > Ages[k] THEN Ages[x] ELSE Ages[x] + 1
  <2>1. PICK i \in 1 .. n : order[i] = x
    BY DEF KeyHasPlace, n
  <2>2. Ages[x] = n - i /\ Ages[k] = n - p /\ i # p
    BY <1>1, <1>4, <1>7, <2>1
  <2>3. CASE i < p
    <3>1. order'[i] = x
      BY <1>3, <2>1, <2>3
    <3> QED BY <1>0, <1>1, <1>5, <2>2, <2>3, <3>1
  <2>4. CASE i > p
    <3>1. i - 1 \in 1 .. n /\ order'[i - 1] = x
      BY <1>0, <1>1, <1>3, <2>1, <2>4
    <3>2. Ages'[x] = n - (i - 1)
      BY <1>5, <3>1
    <3> QED BY <1>0, <1>1, <2>2, <2>4, <3>2
  <2> QED BY <1>0, <1>1, <2>2, <2>3, <2>4
<1>8. Ages' = [x \in DOMAIN entries |-> Ages'[x]]
  BY DEF Ages
<1>9. Lru!Used(k, DOMAIN entries) =
          [x \in DOMAIN entries |-> IF x = k THEN 0
                                   ELSE IF Ages[x] > Ages[k] THEN Ages[x] ELSE Ages[x] + 1]
  <2>1. DOMAIN entries \cup {k} = DOMAIN entries
    BY DEF Hit
  <2> QED BY <2>1, Zenon DEF Lru!Used, Lru!Cached, Ages, Hit
<1>10. \A x \in DOMAIN entries :
           Ages'[x] = IF x = k THEN 0
                      ELSE IF Ages[x] > Ages[k] THEN Ages[x] ELSE Ages[x] + 1
  BY <1>6, <1>7
<1> QED BY <1>8, <1>9, <1>10

(* A key that is not in the list is appended: every key kept is one use
   older.  gone is what was cut off the front, nothing or the oldest key. *)
LEMMA NewAges ==
    ASSUME CacheInv, AgeOfPlace, KeyHasPlace, AgeOfPlace', NEW k \in Key, ~Hit(k),
           NEW cut \in {0, 1}, cut <= Len(order), NEW kept \in SUBSET DOMAIN entries,
           Len(order') = Len(order) - cut + 1,
           order'[Len(order) - cut + 1] = k,
           \A i \in cut + 1 .. Len(order) : order'[i - cut] = order[i],
           \A x \in DOMAIN entries : x \in kept <=> Ages[x] < Len(order) - cut,
           DOMAIN entries' = kept \cup {k}
    PROVE  Ages' = Lru!Used(k, kept)
<1> DEFINE n == Len(order)
<1>0. n \in Nat /\ cut \in Nat
  BY DEF CacheInv, CacheTypeOK
<1>1. \A j \in 1 .. n - cut + 1 : Ages'[order'[j]] = n - cut + 1 - j
  BY DEF AgeOfPlace
<1>2. Ages'[k] = 0
  <2>1. n - cut + 1 \in 1 .. n - cut + 1
    BY <1>0
  <2> QED BY <1>0, <1>1, <2>1
<1>3. ASSUME NEW x \in kept PROVE Ages'[x] = Ages[x] + 1
  <2>1. PICK i \in 1 .. n : order[i] = x
    BY DEF KeyHasPlace
  <2>2. Ages[x] = n - i
    BY <2>1 DEF AgeOfPlace
  <2>3. i \in cut + 1 .. n
    BY <1>0, <2>1, <2>2
  <2>4. i - cut \in 1 .. n - cut + 1 /\ order'[i - cut] = x
    BY <1>0, <2>1, <2>3
  <2>5. Ages'[x] = n - cut + 1 - (i - cut)
    BY <1>1, <2>4
  <2> QED BY <1>0, <2>2, <2>3, <2>5
<1>4. Ages' = [x \in kept \cup {k} |-> Ages'[x]]
  BY DEF Ages
<1>5. Lru!Used(k, kept) = [x \in kept \cup {k} |-> IF x = k THEN 0 ELSE Ages[x] + 1]
  BY Zenon DEF Lru!Used, Lru!Cached, Ages, Hit
<1>6. k \notin kept
  BY DEF Hit
<1> QED BY <1>2, <1>3, <1>4, <1>5, <1>6

(* A Get that hits is a use of the abstract cache, a Get that misses changes
   nothing. *)
LEMMA GetIsFetch ==
    ASSUME CacheInv, AgeOfPlace, KeyHasPlace, AgeOfPlace', NEW k \in Key, Get(k)
    PROVE  [Lru!Next]_(Lru!vars)
<1>1. CASE Hit(k)
  <2>1. order' = Touched(k) /\ entries' = entries
    BY <1>1 DEF Get
  <2>2. Ages' = Lru!Used(k, DOMAIN entries)
    BY <1>1, <2>1, UseAges
  <2>3. Lru!Fetch(k)
    BY <1>1, <2>1, <2>2 DEF Lru!Fetch, Lru!Cached, Ages, Hit
  <2> QED BY <2>3 DEF Lru!Next
<1>2. CASE ~Hit(k)
  <2>1. order' = order /\ entries' = entries
    BY <1>2 DEF Get
  <2>2. Ages' = Ages
    BY <2>1 DEF Ages, Position
  <2> QED BY <2>1, <2>2 DEF Lru!vars, Ages
<1> QED BY <1>1, <1>2

(* A Put keeps the result under its key, and what it gives up when the cache
   is full is the key of the greatest age. *)
LEMMA PutIsKeep ==
    ASSUME CacheInv, AgeOfPlace, KeyHasPlace, AgeOfPlace', NEW k \in Key,
           NEW e \in Entry, Put(k, e)
    PROVE  [Lru!Next]_(Lru!vars)
<1>0. /\ order \in Seq(Key) /\ Len(order) \in Nat /\ DOMAIN order = 1 .. Len(order)
      /\ MaxEntries \in Nat /\ Len(order) <= MaxEntries
  BY MaxEntriesAssumption DEF CacheInv, CacheTypeOK, OrderMatchesEntries
<1>a. \A x \in DOMAIN entries : Ages[x] \in 0 .. Len(order) - 1
  <2> SUFFICES ASSUME NEW x \in DOMAIN entries PROVE Ages[x] \in 0 .. Len(order) - 1
    OBVIOUS
  <2>1. PICK i \in 1 .. Len(order) : order[i] = x
    BY DEF KeyHasPlace
  <2>2. Ages[x] = Len(order) - i
    BY <2>1 DEF AgeOfPlace
  <2> QED BY <1>0, <2>2
<1>1. CASE MaxEntries = 0
  <2>1. order' = order /\ entries' = entries
    BY <1>1 DEF Put, cacheVars
  <2>2. Ages' = Ages
    BY <2>1 DEF Ages, Position
  <2> QED BY <2>1, <2>2 DEF Lru!vars, Ages
<1>2. CASE MaxEntries > 0 /\ PutAgain(k, e)
  <2>1. Hit(k) /\ order' = Touched(k) /\ entries' = WithEntry(k, e, {})
    BY <1>2 DEF PutAgain
  <2>2. DOMAIN entries' = DOMAIN entries
    BY <2>1 DEF WithEntry, Hit
  <2>3. Ages' = Lru!Used(k, DOMAIN entries)
    BY <2>1, <2>2, UseAges
  <2>4. Lru!Kept(k) = DOMAIN entries
    BY <2>1 DEF Lru!Kept, Lru!Cached, Hit
  <2>5. entries' = [x \in DOMAIN entries \cup {k} |-> IF x = k THEN e ELSE entries[x]]
    BY <2>1 DEF WithEntry
  <2>6. Lru!Keep(k, e)
    BY <1>2, <2>3, <2>4, <2>5 DEF Lru!Keep, Ages
  <2> QED BY <2>6 DEF Lru!Next
<1>3. CASE MaxEntries > 0 /\ PutFresh(k, e)
  <2>1. /\ ~Hit(k) /\ Len(order) < MaxEntries
        /\ order' = Append(order, k) /\ entries' = WithEntry(k, e, {})
    BY <1>3 DEF PutFresh, Room
  <2>2. entries' = [x \in DOMAIN entries \cup {k} |-> IF x = k THEN e ELSE entries[x]]
    BY <2>1 DEF WithEntry
  <2>3. /\ Len(order') = Len(order) - 0 + 1
        /\ order'[Len(order) - 0 + 1] = k
        /\ \A i \in 0 + 1 .. Len(order) : order'[i - 0] = order[i]
    BY <1>0, <2>1
  <2>4. \A x \in DOMAIN entries : x \in DOMAIN entries <=> Ages[x] < Len(order) - 0
    BY <1>0, <1>a
  <2>5. DOMAIN entries' = DOMAIN entries \cup {k}
    BY <2>2
  <2>6. Ages' = Lru!Used(k, DOMAIN entries)
    <3>1. DOMAIN entries \in SUBSET DOMAIN entries /\ 0 <= Len(order) /\ 0 \in {0, 1}
      BY <1>0
    <3> QED BY <2>1, <2>3, <2>4, <2>5, <3>1, NewAges
  <2>7. Lru!Kept(k) = DOMAIN entries
    <3>1. \A x \in DOMAIN entries : Ages[x] + 1 < MaxEntries
      BY <1>0, <1>a, <2>1
    <3>2. Lru!Kept(k) = {x \in DOMAIN entries : Ages[x] + 1 < MaxEntries}
      BY <2>1, Zenon DEF Lru!Kept, Lru!Cached, Ages, Hit
    <3> QED BY <3>1, <3>2
  <2>8. Lru!Keep(k, e)
    BY <1>3, <2>2, <2>6, <2>7 DEF Lru!Keep, Ages
  <2> QED BY <2>8 DEF Lru!Next
<1>4. CASE MaxEntries > 0 /\ PutEvict(k, e)
  <2> DEFINE kept == DOMAIN entries \ {order[1]}
  <2>1. /\ ~Hit(k) /\ Len(order) = MaxEntries /\ Len(order) > 0
        /\ order' = Append(Tail(order), k) /\ entries' = WithEntry(k, e, {Head(order)})
    <3>1. ~(Len(order) < MaxEntries) /\ MaxEntries > 0
      BY <1>4 DEF PutEvict, Room
    <3>2. Len(order) \in Nat /\ MaxEntries \in Nat /\ Len(order) <= MaxEntries
      BY <1>0
    <3>3. Len(order) = MaxEntries /\ Len(order) > 0
      BY <3>1, <3>2
    <3> QED BY <1>4, <3>3 DEF PutEvict
  <2>2. entries' = [x \in kept \cup {k} |-> IF x = k THEN e ELSE entries[x]]
    BY <1>0, <2>1 DEF WithEntry
  <2>3. /\ Len(order') = Len(order) - 1 + 1
        /\ order'[Len(order) - 1 + 1] = k
        /\ \A i \in 1 + 1 .. Len(order) : order'[i - 1] = order[i]
    BY <1>0, <2>1
  <2>4. \A x \in DOMAIN entries : Ages[x] = Len(order) - 1 <=> x = order[1]
    <3> SUFFICES ASSUME NEW x \in DOMAIN entries
                 PROVE  Ages[x] = Len(order) - 1 <=> x = order[1]
      OBVIOUS
    <3>1. PICK i \in 1 .. Len(order) : order[i] = x
      BY DEF KeyHasPlace
    <3>2. Ages[x] = Len(order) - i
      BY <3>1 DEF AgeOfPlace
    <3>3. 1 \in 1 .. Len(order) /\ Ages[order[1]] = Len(order) - 1
      BY <1>0, <2>1 DEF AgeOfPlace
    <3> QED BY <1>0, <3>1, <3>2, <3>3
  <2>5. \A x \in DOMAIN entries : x \in kept <=> Ages[x] < Len(order) - 1
    BY <1>0, <1>a, <2>4
  <2>6. DOMAIN entries' = kept \cup {k}
    BY <2>2
  <2>7. Ages' = Lru!Used(k, kept)
    <3>1. kept \in SUBSET DOMAIN entries /\ 1 <= Len(order) /\ 1 \in {0, 1}
      BY <1>0, <2>1
    <3> HIDE DEF kept
    <3> QED BY <2>1, <2>3, <2>5, <2>6, <3>1, NewAges
  <2>8. Lru!Kept(k) = kept
    <3>1. Lru!Kept(k) = {x \in DOMAIN entries : Ages[x] + 1 < MaxEntries}
      BY <2>1, Zenon DEF Lru!Kept, Lru!Cached, Ages, Hit
    <3>2. \A x \in DOMAIN entries : Ages[x] + 1 < MaxEntries <=> x # order[1]
      BY <1>0, <1>a, <2>1, <2>4
    <3> QED BY <3>1, <3>2
  <2>9. Lru!Keep(k, e)
    BY <1>4, <2>2, <2>7, <2>8 DEF Lru!Keep, Ages
  <2> QED BY <2>9 DEF Lru!Next
<1> QED BY <1>0, <1>1, <1>2, <1>3, <1>4 DEF Put

(* For any keys, results and capacity, the cache behaves as an LRU cache: a
   full cache evicts the least recently used key and no other, and no use is
   forgotten (cache.go:8-10, 43-88). *)
THEOREM CacheRefinement == CacheSpec => ImplementsLRU
<1>1. CacheInit => Lru!Init
  <2> SUFFICES ASSUME CacheInit PROVE Lru!Init
    OBVIOUS
  <2>1. DOMAIN entries = {}
    BY DEF CacheInit
  <2> QED BY <2>1 DEF CacheInit, Lru!Init
<1>2. CacheInv /\ CacheInv' /\ [CacheNext]_cacheVars => [Lru!Next]_(Lru!vars)
  <2> SUFFICES ASSUME CacheInv, CacheInv', [CacheNext]_cacheVars
               PROVE  [Lru!Next]_(Lru!vars)
    OBVIOUS
  <2>1. AgeOfPlace /\ KeyHasPlace
    BY Places
  <2>2. AgeOfPlace'
    BY Places, PTL
  <2>3. CASE UNCHANGED cacheVars
    BY <2>3 DEF cacheVars, Lru!vars, Position
  <2>4. ASSUME NEW k \in Key, Get(k) PROVE [Lru!Next]_(Lru!vars)
    BY <2>1, <2>2, <2>4, GetIsFetch
  <2>5. ASSUME NEW k \in Key, NEW e \in Entry, Put(k, e) PROVE [Lru!Next]_(Lru!vars)
    BY <2>1, <2>2, <2>5, PutIsKeep
  <2> QED BY <2>3, <2>4, <2>5 DEF CacheNext
<1> QED BY <1>1, <1>2, CacheInitial, CacheStep, PTL DEF CacheSpec, ImplementsLRU, Lru!Spec
=============================================================================
