--------------------------- MODULE RedactorProofs ---------------------------
(***************************************************************************)
(* Proofs about Redactor for any requests, texts and values, any matches,  *)
(* answers and hashes, and every batch and cache size.                     *)
(***************************************************************************)
EXTENDS Redactor, TLAPS

(* s is what redactString may return for the field f, when LLM calls have
   failed for the texts of failed. *)
IsRedactionOf(f, s, failed) ==
    \/ s = Full(f)
    \/ f.text \in failed /\ s = RegexOnly(f)

CacheSound ==
    \A k \in DOMAIN entries :
        IsRedactionOf(k, entries[k], unanswered) /\ Tokens(entries[k]) \subseteq DOMAIN values

OutSound ==
    \A r \in Req : \A f \in DOMAIN out[r] :
        IsRedactionOf(f, out[r][f], unanswered) /\ Tokens(out[r][f]) \subseteq DOMAIN values

(* An answer kept from the prefetch is the whole answer, or it is empty and
   the call had failed. *)
AnswersSound ==
    \A r \in Req : \A t \in DOMAIN llm[r] :
        \/ llm[r][t] = Verified(t)
        \/ t \in unanswered /\ llm[r][t] = {}

(* Between detection and the cache, the found set is the full or the reduced
   one, and every match that is not left has its token in the store. *)
JobSoundAt(r) ==
    pc[r] \in {"mint", "record"} =>
        LET f == job[r].field IN
        /\ \/ job[r].found = FullFound(f)
           \/ f.text \in unanswered /\ job[r].found = RegexFound(f)
        /\ \A i \in Matches(f.text, job[r].found) :
              i \in left[r] \/ HashOf[Content[f.text][i]] \in DOMAIN values
        /\ left[r] \subseteq Matches(f.text, job[r].found)

JobSound == \A r \in Req : JobSoundAt(r)

(* A hash stands for a value that has this hash. *)
StoreSound == \A h \in DOMAIN values : HashOf[values[h]] = h

IInv ==
    /\ TypeOK
    /\ CacheSound
    /\ OutSound
    /\ AnswersSound
    /\ JobSound
    /\ StoreSound
-----------------------------------------------------------------------------
(* What the detectors find are values. *)
LEMMA FoundAreValues ==
    ASSUME NEW f \in Field, NEW answer \in SUBSET Value
    PROVE  FoundWith(f, answer) \in SUBSET Value
BY FindsAssumption DEF FoundWith, TestExempt, Field

LEMMA FullAndRegexFound ==
    ASSUME NEW f \in Field
    PROVE  FullFound(f) \in SUBSET Value /\ RegexFound(f) \in SUBSET Value
BY FoundAreValues, FindsAssumption DEF FullFound, RegexFound, Field, Verified

(* Masking a text gives a redacted text of the same length. *)
LEMMA MaskType ==
    ASSUME NEW t \in Text, NEW found \in SUBSET Value
    PROVE  Mask(t, found) \in Redacted
<1>1. Content[t] \in Seq(Segment)
  BY ContentAssumption
<1>2. PICK n \in Nat : DOMAIN Content[t] = 1 .. n
  BY <1>1
<1>3. \A i \in 1 .. n : Mask(t, found)[i] \in Segment \cup Hash
  BY <1>1, <1>2, HashAssumption DEF Mask
<1>4. Mask(t, found) = [i \in 1 .. n |-> Mask(t, found)[i]]
  BY <1>2 DEF Mask
<1> QED BY <1>3, <1>4 DEF Redacted

(* The tokens of a masked text are the hashes of its matches. *)
LEMMA MaskTokens ==
    ASSUME NEW t \in Text, NEW found \in SUBSET Value, NEW known,
           \A i \in Matches(t, found) : HashOf[Content[t][i]] \in known
    PROVE  Tokens(Mask(t, found)) \subseteq known
<1>1. Content[t] \in Seq(Segment)
  BY ContentAssumption
<1> SUFFICES ASSUME NEW h \in Tokens(Mask(t, found)) PROVE h \in known
  OBVIOUS
<1>2. PICK i \in DOMAIN Mask(t, found) : h = Mask(t, found)[i]
  BY DEF Tokens
<1>3. i \in DOMAIN Content[t] /\ h \in Hash
  BY <1>2 DEF Mask, Tokens
<1>4. Content[t][i] \in Segment
  BY <1>1, <1>3
<1>5. Content[t][i] \in found
  BY <1>2, <1>3, <1>4, HashAssumption DEF Mask
<1> QED BY <1>2, <1>3, <1>5 DEF Mask, Matches
-----------------------------------------------------------------------------
(* What the cache's operations do to its contents. *)
LEMMA TouchedType ==
    ASSUME Cache!CacheTypeOK, NEW k \in Field
    PROVE  Cache!Touched(k) \in Seq(Field)
<1>1. order \in Seq(Field) /\ Len(order) \in Nat /\ DOMAIN order = 1 .. Len(order)
  BY DEF Cache!CacheTypeOK
<1>2. CASE ~ \E i \in DOMAIN order : order[i] = k
  BY <1>1, <1>2 DEF Cache!Touched
<1>3. CASE \E i \in DOMAIN order : order[i] = k
  <2> DEFINE p == Cache!Position(k)
             m == Cache!MovedLast(p, k)
  <2>1. p \in 1 .. Len(order)
    BY <1>1, <1>3 DEF Cache!Position
  <2>2. m = [j \in 1 .. Len(order) |->
               IF j < p THEN order[j] ELSE IF j < Len(order) THEN order[j + 1] ELSE k]
    BY <1>1 DEF Cache!MovedLast
  <2>3. \A j \in 1 .. Len(order) : m[j] \in Field
    BY <1>1, <2>1, <2>2
  <2>4. m \in Seq(Field)
    BY <1>1, <2>2, <2>3
  <2> QED BY <1>3, <2>4 DEF Cache!Touched
<1> QED BY <1>2, <1>3

LEMMA GetEffect ==
    ASSUME Cache!CacheTypeOK, NEW k \in Field, Cache!Get(k)
    PROVE  entries' = entries /\ Cache!CacheTypeOK'
BY TouchedType DEF Cache!Get, Cache!CacheTypeOK

LEMMA PutEffect ==
    ASSUME Cache!CacheTypeOK, NEW k \in Field, NEW e \in Redacted, Cache!Put(k, e)
    PROVE  /\ Cache!CacheTypeOK'
           /\ \A x \in DOMAIN entries' :
                 \/ x = k /\ entries'[x] = e
                 \/ x \in DOMAIN entries /\ entries'[x] = entries[x]
<1> DEFINE Effect == \A x \in DOMAIN entries' :
                 \/ x = k /\ entries'[x] = e
                 \/ x \in DOMAIN entries /\ entries'[x] = entries[x]
<1>0. Effect => /\ DOMAIN entries' \subseteq Field
                /\ \A x \in DOMAIN entries' : entries'[x] \in Redacted
  BY DEF Cache!CacheTypeOK
<1>1. CASE UNCHANGED Cache!cacheVars
  BY <1>1 DEF Cache!cacheVars, Cache!CacheTypeOK
<1>2. CASE Cache!PutAgain(k, e)
  <2>1. Effect
    BY <1>2 DEF Cache!PutAgain, Cache!WithEntry
  <2>2. order' \in Seq(Field)
    BY <1>2, TouchedType DEF Cache!PutAgain
  <2> QED BY <1>0, <2>1, <2>2 DEF Cache!CacheTypeOK
<1>3. CASE Cache!PutFresh(k, e)
  <2>1. Effect
    BY <1>3 DEF Cache!PutFresh, Cache!WithEntry
  <2>2. order' \in Seq(Field)
    BY <1>3 DEF Cache!PutFresh, Cache!CacheTypeOK
  <2> QED BY <1>0, <2>1, <2>2 DEF Cache!CacheTypeOK
<1>4. CASE MaxEntries > 0 /\ Cache!PutEvict(k, e)
  <2>1. Effect
    BY <1>4 DEF Cache!PutEvict, Cache!WithEntry
  <2>2. order # <<>>
    BY <1>4, CacheSizeAssumption DEF Cache!PutEvict, Cache!Room, Cache!CacheTypeOK
  <2>3. order' \in Seq(Field)
    BY <1>4, <2>2 DEF Cache!PutEvict, Cache!CacheTypeOK
  <2> QED BY <1>0, <2>1, <2>3 DEF Cache!CacheTypeOK
<1> QED BY <1>1, <1>2, <1>3, <1>4, CacheSizeAssumption DEF Cache!Put
-----------------------------------------------------------------------------
(* The parts of the invariant a step leaves alone: the store only grows in
   them, and so does the history of failed calls. *)
Grows ==
    /\ DOMAIN values \subseteq DOMAIN values'
    /\ unanswered \subseteq unanswered'

LEMMA CacheKept == ASSUME CacheSound, Grows, entries' = entries PROVE CacheSound'
BY DEF CacheSound, Grows, IsRedactionOf

LEMMA OutKept == ASSUME OutSound, Grows, out' = out PROVE OutSound'
BY DEF OutSound, Grows, IsRedactionOf

LEMMA AnswersKept == ASSUME AnswersSound, Grows, llm' = llm PROVE AnswersSound'
BY DEF AnswersSound, Grows

LEMMA JobsKept ==
    ASSUME JobSound, Grows, NEW r \in Req, JobSoundAt(r)',
           \A q \in Req \ {r} : pc'[q] = pc[q] /\ job'[q] = job[q] /\ left'[q] = left[q]
    PROVE  JobSound'
<1> SUFFICES ASSUME NEW q \in Req PROVE JobSoundAt(q)'
  BY DEF JobSound
<1>1. CASE q = r
  BY <1>1
<1>2. CASE q # r
  BY <1>2 DEF JobSound, JobSoundAt, Grows
<1> QED BY <1>1, <1>2

LEMMA StoreKept == ASSUME StoreSound, values' = values PROVE StoreSound'
BY DEF StoreSound

(* A field's result is added to the fields of r that are done. *)
LEMMA FinishSound ==
    ASSUME TypeOK, OutSound, Grows, NEW r \in Req, NEW f \in Field, NEW s,
           Finish(r, f, s), IsRedactionOf(f, s, unanswered'), Tokens(s) \subseteq DOMAIN values'
    PROVE  OutSound'
<1> SUFFICES ASSUME NEW q \in Req, NEW g \in DOMAIN out'[q]
             PROVE  /\ IsRedactionOf(g, out'[q][g], unanswered')
                    /\ Tokens(out'[q][g]) \subseteq DOMAIN values'
  BY DEF OutSound
<1>1. CASE q = r /\ g = f
  <2>1. out'[q][g] = s
    BY <1>1 DEF Finish, TypeOK
  <2> QED BY <1>1, <2>1
<1>2. CASE ~(q = r /\ g = f)
  <2>1. g \in DOMAIN out[q] /\ out'[q][g] = out[q][g]
    BY <1>2 DEF Finish, TypeOK
  <2> QED BY <2>1 DEF OutSound, IsRedactionOf, Grows
<1> QED BY <1>1, <1>2
-----------------------------------------------------------------------------
THEOREM Initially == Init => IInv
<1> SUFFICES ASSUME Init PROVE IInv
  OBVIOUS
<1>1. TypeOK
  BY DEF Init, TypeOK, Empty, NoJob, Cache!CacheInit, Cache!CacheTypeOK
<1>2. CacheSound
  BY DEF Init, CacheSound, Cache!CacheInit
<1>3. OutSound /\ AnswersSound /\ StoreSound
  BY DEF Init, OutSound, AnswersSound, StoreSound, Empty
<1>4. JobSound
  BY DEF Init, JobSound, JobSoundAt
<1> QED BY <1>1, <1>2, <1>3, <1>4 DEF IInv

LEMMA ReceiveKeepsInv ==
    ASSUME IInv, NEW r \in Req, Receive(r) \/ ReceiveRaw(r)
    PROVE  IInv'
<1>1. Grows /\ JobSoundAt(r)'
  BY DEF Receive, ReceiveRaw, Grows, JobSoundAt, IInv, TypeOK
<1>2. TypeOK'
  <2>1. CASE Receive(r)
    <3>1. PICK body \in Bodies :
             /\ todo' = [todo EXCEPT ![r] = body]
             /\ work' = [work EXCEPT ![r] = LLMWork(body)]
             /\ pc' = [pc EXCEPT ![r] = IF LLMWork(body) = {} THEN "walk" ELSE "prefetch"]
      BY <2>1 DEF Receive
    <3>2. body \in SUBSET Field /\ LLMWork(body) \in SUBSET Text
      BY RequestAssumption DEF LLMWork, Field
    <3> QED BY <2>1, <3>1, <3>2 DEF Receive, IInv, TypeOK, Cache!CacheTypeOK
  <2>2. CASE ReceiveRaw(r)
    BY <2>2, RequestAssumption DEF ReceiveRaw, IInv, TypeOK, Cache!CacheTypeOK, Field
  <2> QED BY <2>1, <2>2
<1>3. CacheSound' /\ OutSound' /\ AnswersSound' /\ StoreSound'
  BY <1>1, CacheKept, OutKept, AnswersKept, StoreKept DEF Receive, ReceiveRaw, IInv
<1>4. JobSound'
  BY <1>1, JobsKept DEF Receive, ReceiveRaw, IInv, TypeOK
<1> QED BY <1>2, <1>3, <1>4 DEF IInv

LEMMA BudgetKeepsInv ==
    ASSUME IInv, NEW r \in Req, BudgetExpires(r)
    PROVE  IInv'
<1>1. Grows /\ JobSoundAt(r)'
  BY DEF BudgetExpires, Grows, JobSoundAt, JobSound, IInv, TypeOK
<1>2. TypeOK'
  BY DEF BudgetExpires, IInv, TypeOK, Cache!CacheTypeOK
<1>3. CacheSound' /\ OutSound' /\ AnswersSound' /\ StoreSound'
  BY <1>1, CacheKept, OutKept, AnswersKept, StoreKept DEF BudgetExpires, IInv
<1>4. JobSound'
  BY <1>1, JobsKept DEF BudgetExpires, IInv, TypeOK
<1> QED BY <1>2, <1>3, <1>4 DEF IInv

(* What the two outcomes of a prefetch call have in common; only the answers
   differ. *)
LEMMA PrefetchKeepsInv ==
    ASSUME IInv, NEW r \in Req, PrefetchAnswered(r) \/ PrefetchFailed(r)
    PROVE  IInv'
<1>1. PICK batch \in SUBSET work[r], answered \in SUBSET work[r] :
         /\ CallReturns(r, batch)
         /\ \/ llm' = [llm EXCEPT ![r] = Recorded(r, batch, Answers(batch, answered))]
            \/ llm' = llm
         /\ NoAnswer(r, batch \ answered)
  <2>1. CASE PrefetchAnswered(r)
    BY <2>1 DEF PrefetchAnswered
  <2>2. CASE PrefetchFailed(r)
    <3>1. PICK batch \in SUBSET work[r] :
             /\ CallReturns(r, batch)
             /\ \/ llm' = [llm EXCEPT ![r] = Recorded(r, batch, Answers(batch, {}))]
                \/ llm' = llm
             /\ NoAnswer(r, batch)
      BY <2>2 DEF PrefetchFailed
    <3>2. batch \ {} = batch /\ {} \in SUBSET work[r]
      OBVIOUS
    <3> QED BY <3>1, <3>2
  <2> QED BY <2>1, <2>2
<1>2. batch \subseteq Text
  BY <1>1 DEF IInv, TypeOK
<1>3. Grows
  BY <1>1 DEF CallReturns, NoAnswer, Grows
<1>4. JobSoundAt(r)'
  BY <1>1 DEF CallReturns, JobSoundAt, IInv, TypeOK
<1>5. JobSound'
  BY <1>1, <1>3, <1>4, JobsKept DEF CallReturns, IInv, TypeOK
<1>6. AnswersSound'
  <2> SUFFICES ASSUME NEW q \in Req, NEW t \in DOMAIN llm'[q]
               PROVE  \/ llm'[q][t] = Verified(t)
                      \/ t \in unanswered' /\ llm'[q][t] = {}
    BY DEF AnswersSound
  <2>1. CASE t \in DOMAIN llm[q] /\ llm'[q][t] = llm[q][t]
    BY <1>3, <2>1 DEF AnswersSound, Grows, IInv
  <2>2. CASE ~(t \in DOMAIN llm[q] /\ llm'[q][t] = llm[q][t])
    <3>1. q = r /\ t \in batch
      BY <1>1, <2>2 DEF Recorded, IInv, TypeOK
    <3>2. \/ llm'[q][t] = Verified(t)
          \/ t \notin answered /\ llm'[q][t] = {}
      BY <1>1, <2>2, <3>1 DEF Recorded, Answers, IInv, TypeOK
    <3> QED BY <1>1, <3>1, <3>2 DEF NoAnswer
  <2> QED BY <2>1, <2>2
<1>7. TypeOK'
  <2>1. DOMAIN llm' = Req /\ \A q \in Req : DOMAIN llm'[q] \subseteq Text
    BY <1>1, <1>2 DEF Recorded, IInv, TypeOK
  <2>2. missed' \in [Req -> SUBSET Text] /\ unanswered' \subseteq Text
    BY <1>1, <1>2 DEF NoAnswer, IInv, TypeOK
  <2> QED BY <1>1, <2>1, <2>2 DEF CallReturns, IInv, TypeOK, Cache!CacheTypeOK
<1>8. CacheSound' /\ OutSound' /\ StoreSound'
  BY <1>1, <1>3, CacheKept, OutKept, StoreKept DEF CallReturns, IInv
<1> QED BY <1>5, <1>6, <1>7, <1>8 DEF IInv

LEMMA CacheHitKeepsInv ==
    ASSUME IInv, NEW r \in Req, CacheHit(r)
    PROVE  IInv'
<1>1. PICK f \in todo[r] : /\ Cache!Hit(CacheKey(f))
                           /\ Cache!Get(CacheKey(f))
                           /\ Finish(r, f, entries[CacheKey(f)])
  BY DEF CacheHit
<1>2. f \in Field /\ CacheKey(f) = f
  BY DEF IInv, TypeOK, Field, CacheKey
<1>3. f \in DOMAIN entries /\ entries' = entries /\ Cache!CacheTypeOK'
  BY <1>1, <1>2, GetEffect DEF Cache!Hit, IInv, TypeOK
<1>4. Grows /\ JobSoundAt(r)'
  BY DEF CacheHit, Grows, JobSoundAt, IInv, TypeOK
<1>5. IsRedactionOf(f, entries[f], unanswered') /\ Tokens(entries[f]) \subseteq DOMAIN values'
  BY <1>3 DEF CacheHit, IInv, CacheSound
<1>6. OutSound'
  BY <1>1, <1>2, <1>4, <1>5, FinishSound DEF IInv
<1>7. TypeOK'
  <2>1. DOMAIN out' = Req /\ \A q \in Req : DOMAIN out'[q] \subseteq Field
    BY <1>1, <1>2 DEF Finish, IInv, TypeOK
  <2>2. todo' \in [Req -> SUBSET Field]
    BY <1>1 DEF Finish, IInv, TypeOK
  <2> QED BY <1>3, <2>1, <2>2 DEF CacheHit, IInv, TypeOK
<1>8. CacheSound' /\ AnswersSound' /\ StoreSound'
  BY <1>3, <1>4, CacheKept, AnswersKept, StoreKept DEF CacheHit, IInv
<1>9. JobSound'
  BY <1>4, JobsKept DEF CacheHit, IInv, TypeOK
<1> QED BY <1>6, <1>7, <1>8, <1>9 DEF IInv

LEMMA CacheMissKeepsInv ==
    ASSUME IInv, NEW r \in Req, CacheMiss(r)
    PROVE  IInv'
<1>1. PICK f \in todo[r] : job' = [job EXCEPT ![r] = [field |-> f, found |-> {}]]
  BY DEF CacheMiss
<1>2. f \in Field
  BY DEF IInv, TypeOK
<1>3. Grows /\ JobSoundAt(r)'
  BY DEF CacheMiss, Grows, JobSoundAt, IInv, TypeOK
<1>4. TypeOK'
  BY <1>1, <1>2 DEF CacheMiss, IInv, TypeOK, Cache!CacheTypeOK
<1>5. CacheSound' /\ OutSound' /\ AnswersSound' /\ StoreSound'
  BY <1>3, CacheKept, OutKept, AnswersKept, StoreKept DEF CacheMiss, IInv
<1>6. JobSound'
  BY <1>1, <1>3, JobsKept DEF CacheMiss, IInv, TypeOK
<1> QED BY <1>4, <1>5, <1>6 DEF IInv

(* Detection with the LLM's full answer, or with none when none was due or
   the call has failed. *)
LEMMA DetectKeepsInv ==
    ASSUME IInv, NEW r \in Req,
           \/ DetectWithoutLLM(r) \/ DetectPrefetched(r)
           \/ DetectAnswered(r) \/ DetectFailed(r)
    PROVE  IInv'
<1> DEFINE f == job[r].field
<1>0. f \in Field /\ f.text \in Text /\ Verified(f.text) \in SUBSET Value
  BY FindsAssumption DEF DetectWithoutLLM, DetectPrefetched, DetectAnswered, DetectFailed,
     IInv, TypeOK, Field, Verified
<1>1. PICK answer \in SUBSET Value :
         /\ Detected(r, answer)
         /\ \/ FoundWith(f, answer) = FullFound(f)
            \/ f.text \in unanswered' /\ answer = {}
         /\ \/ UNCHANGED <<missed, unanswered>>
            \/ NoAnswer(r, {f.text})
  <2>1. CASE DetectWithoutLLM(r)
    BY <2>1 DEF DetectWithoutLLM, FullFound
  <2>2. CASE DetectPrefetched(r)
    <3>1. \/ llm[r][f.text] = Verified(f.text)
          \/ f.text \in unanswered /\ llm[r][f.text] = {}
      BY <2>2 DEF DetectPrefetched, IInv, AnswersSound
    <3> QED BY <1>0, <2>2, <3>1 DEF DetectPrefetched, FullFound
  <2>3. CASE DetectAnswered(r)
    BY <1>0, <2>3 DEF DetectAnswered, FullFound
  <2>4. CASE DetectFailed(r)
    BY <2>4 DEF DetectFailed, NoAnswer
  <2> QED BY <2>1, <2>2, <2>3, <2>4
<1> DEFINE found == FoundWith(f, answer)
<1>2. found \in SUBSET Value
  BY <1>0, FoundAreValues
<1>3. /\ job' = [job EXCEPT ![r].found = found]
      /\ left' = [left EXCEPT ![r] = Matches(f.text, found)]
      /\ pc' = [pc EXCEPT ![r] = "mint"]
      /\ UNCHANGED <<values, entries, order, todo, out, work, llm, spent>>
  BY <1>1 DEF Detected
<1>4. Grows
  BY <1>1, <1>3 DEF Grows, NoAnswer
<1>5. job'[r].field = f /\ job'[r].found = found /\ left'[r] = Matches(f.text, found)
  BY <1>3 DEF IInv, TypeOK
<1>6. found = FullFound(f) \/ (f.text \in unanswered' /\ found = RegexFound(f))
  BY <1>1 DEF RegexFound
<1>7. JobSoundAt(r)'
  <2> HIDE DEF f, found
  <2> QED BY <1>5, <1>6 DEF JobSoundAt
<1>8. JobSound'
  BY <1>3, <1>4, <1>7, JobsKept DEF IInv, TypeOK
<1>9. TypeOK'
  <2>1. Matches(f.text, found) \in SUBSET Nat
    <3>1. Content[f.text] \in Seq(Segment)
      BY <1>0, ContentAssumption
    <3> QED BY <3>1 DEF Matches
  <2>2. missed' \in [Req -> SUBSET Text] /\ unanswered' \subseteq Text
    BY <1>0, <1>1 DEF NoAnswer, IInv, TypeOK
  <2>3. left' \in [Req -> SUBSET Nat]
    BY <1>3, <2>1 DEF IInv, TypeOK
  <2>4. job' \in [Req -> [field : Field \cup {NoJob.field}, found : SUBSET Value]]
    BY <1>2, <1>3 DEF IInv, TypeOK
  <2>5. \A q \in Req : pc'[q] \in {"detect", "mint", "record"} => job'[q].field \in Field
    BY <1>0, <1>3, <1>5 DEF IInv, TypeOK
  <2>6. pc' \in [Req -> {"idle", "prefetch", "walk", "detect", "mint", "record", "sent"}]
    BY <1>3 DEF IInv, TypeOK
  <2> HIDE DEF f, found
  <2> QED BY <1>3, <2>2, <2>3, <2>4, <2>5, <2>6 DEF IInv, TypeOK, Cache!CacheTypeOK
<1>10. CacheSound' /\ OutSound' /\ AnswersSound' /\ StoreSound'
  BY <1>3, <1>4, CacheKept, OutKept, AnswersKept, StoreKept DEF IInv
<1> QED BY <1>8, <1>9, <1>10 DEF IInv

LEMMA TokenKeepsInv ==
    ASSUME IInv, NEW r \in Req, TokenKnown(r) \/ TokenUnknown(r)
    PROVE  IInv'
<1>1. Grows
  BY DEF TokenKnown, TokenUnknown, Grows
<1>2. JobSoundAt(r)'
  BY DEF TokenKnown, TokenUnknown, TokenAt, ValueAt, JobSoundAt, JobSound, IInv, TypeOK
<1>3. TypeOK'
  BY DEF TokenKnown, TokenUnknown, IInv, TypeOK, Cache!CacheTypeOK
<1>4. CacheSound' /\ OutSound' /\ AnswersSound' /\ StoreSound'
  BY <1>1, CacheKept, OutKept, AnswersKept, StoreKept DEF TokenKnown, TokenUnknown, IInv
<1>5. JobSound'
  BY <1>1, <1>2, JobsKept DEF TokenKnown, TokenUnknown, IInv, TypeOK
<1> QED BY <1>3, <1>4, <1>5 DEF IInv

(* The value a request records is one of its matches, under its own hash. *)
LEMMA RecordEffect ==
    ASSUME IInv, NEW r \in Req, RecordValue(r)
    PROVE  \E i \in left[r] :
             /\ ValueAt(r, i) \in Value
             /\ TokenAt(r, i) = HashOf[ValueAt(r, i)]
             /\ TokenAt(r, i) \in Hash
             /\ values' = Recording(TokenAt(r, i), ValueAt(r, i))
             /\ left' = [left EXCEPT ![r] = @ \ {i}]
<1>1. PICK i \in left[r] : /\ values' = Recording(TokenAt(r, i), ValueAt(r, i))
                           /\ left' = [left EXCEPT ![r] = @ \ {i}]
  BY DEF RecordValue
<1>2. ValueAt(r, i) \in job[r].found
  BY DEF RecordValue, ValueAt, IInv, JobSound, JobSoundAt, Matches
<1>3. job[r].found \in SUBSET Value
  BY DEF IInv, TypeOK
<1> QED BY <1>1, <1>2, <1>3, HashAssumption DEF TokenAt

LEMMA RecordKeepsInv ==
    ASSUME IInv, NEW r \in Req, RecordValue(r)
    PROVE  IInv'
<1>1. PICK i \in left[r] :
         /\ ValueAt(r, i) \in Value
         /\ TokenAt(r, i) = HashOf[ValueAt(r, i)]
         /\ TokenAt(r, i) \in Hash
         /\ values' = Recording(TokenAt(r, i), ValueAt(r, i))
         /\ left' = [left EXCEPT ![r] = @ \ {i}]
  BY RecordEffect
<1>2. Grows /\ TokenAt(r, i) \in DOMAIN values'
  BY <1>1 DEF RecordValue, Recording, Grows
<1>3. JobSoundAt(r)'
  <2>1. /\ job'[r] = job[r] /\ left'[r] = left[r] \ {i}
        /\ unanswered' = unanswered
        /\ TokenAt(r, i) = HashOf[Content[job[r].field.text][i]]
    BY <1>1 DEF RecordValue, TokenAt, ValueAt, IInv, TypeOK
  <2> QED BY <1>2, <2>1 DEF RecordValue, JobSoundAt, JobSound, IInv, Grows
<1>4. StoreSound'
  BY <1>1 DEF Recording, IInv, StoreSound
<1>5. TypeOK'
  BY <1>1 DEF RecordValue, Recording, IInv, TypeOK, Cache!CacheTypeOK
<1>6. CacheSound' /\ OutSound' /\ AnswersSound'
  BY <1>2, CacheKept, OutKept, AnswersKept DEF RecordValue, IInv
<1>7. JobSound'
  BY <1>1, <1>2, <1>3, JobsKept DEF RecordValue, IInv, TypeOK
<1> QED BY <1>3, <1>4, <1>5, <1>6, <1>7 DEF IInv

LEMMA CacheResultKeepsInv ==
    ASSUME IInv, NEW r \in Req, CacheResult(r)
    PROVE  IInv'
<1> DEFINE f == job[r].field
           found == job[r].found
           text == Mask(f.text, found)
<1>1. /\ pc[r] = "mint"
      /\ left[r] = {}
      /\ Cache!Put(CacheKey(f), text)
      /\ Finish(r, f, text)
      /\ pc' = [pc EXCEPT ![r] = "walk"]
      /\ job' = [job EXCEPT ![r] = NoJob]
      /\ UNCHANGED <<values, work, llm, left, spent, missed, unanswered>>
  BY DEF CacheResult
<1>2. f \in Field /\ f.text \in Text /\ CacheKey(f) = f /\ found \in SUBSET Value
  BY <1>1 DEF IInv, TypeOK, Field, CacheKey
<1>3. text \in Redacted
  BY <1>2, MaskType
<1>4. \A i \in Matches(f.text, found) : HashOf[Content[f.text][i]] \in DOMAIN values
  BY <1>1 DEF IInv, JobSound, JobSoundAt
<1>5. Tokens(text) \subseteq DOMAIN values
  BY <1>2, <1>4, MaskTokens
<1>6. IsRedactionOf(f, text, unanswered)
  BY <1>1 DEF IInv, JobSound, JobSoundAt, IsRedactionOf, Full, RegexOnly
<1>7. /\ Cache!CacheTypeOK'
      /\ \A x \in DOMAIN entries' :
            \/ x = f /\ entries'[x] = text
            \/ x \in DOMAIN entries /\ entries'[x] = entries[x]
  <2> HIDE DEF text, f
  <2> QED BY <1>1, <1>2, <1>3, PutEffect DEF IInv, TypeOK
<1> HIDE DEF text, f, found
<1>8. CacheSound'
  BY <1>1, <1>5, <1>6, <1>7 DEF CacheSound, IInv
<1>9. Grows
  BY <1>1 DEF Grows
<1>10. OutSound'
  BY <1>1, <1>2, <1>5, <1>6, <1>9, FinishSound DEF IInv
<1>11. JobSoundAt(r)'
  BY <1>1 DEF JobSoundAt, IInv, TypeOK
<1>12. JobSound'
  BY <1>1, <1>9, <1>11, JobsKept DEF IInv, TypeOK
<1>13. TypeOK'
  <2>1. DOMAIN out' = Req /\ \A q \in Req : DOMAIN out'[q] \subseteq Field
    BY <1>1, <1>2 DEF Finish, IInv, TypeOK
  <2>2. todo' \in [Req -> SUBSET Field]
    BY <1>1 DEF Finish, IInv, TypeOK
  <2>3. job' \in [Req -> [field : Field \cup {NoJob.field}, found : SUBSET Value]]
    BY <1>1 DEF NoJob, IInv, TypeOK
  <2> QED BY <1>1, <1>7, <2>1, <2>2, <2>3 DEF IInv, TypeOK
<1>14. AnswersSound' /\ StoreSound'
  BY <1>1, <1>9, AnswersKept, StoreKept DEF IInv
<1> QED BY <1>8, <1>10, <1>12, <1>13, <1>14 DEF IInv

LEMMA ReplyKeepsInv ==
    ASSUME IInv, NEW r \in Req, Forward(r) \/ Respond(r)
    PROVE  IInv'
<1>1. Grows /\ JobSoundAt(r)'
  BY DEF Forward, Respond, Grows, JobSoundAt, IInv, TypeOK
<1>2. TypeOK'
  <2>1. CASE Forward(r)
    BY <2>1 DEF Forward, IInv, TypeOK, Cache!CacheTypeOK
  <2>2. CASE Respond(r)
    <3>1. DOMAIN out' = Req /\ \A q \in Req : DOMAIN out'[q] \subseteq Field
      BY <2>2 DEF Respond, Empty, IInv, TypeOK
    <3>2. DOMAIN llm' = Req /\ \A q \in Req : DOMAIN llm'[q] \subseteq Text
      BY <2>2 DEF Respond, Empty, IInv, TypeOK
    <3> QED BY <2>2, <3>1, <3>2 DEF Respond, IInv, TypeOK, Cache!CacheTypeOK
  <2> QED BY <2>1, <2>2
<1>3. OutSound'
  BY DEF Forward, Respond, Empty, IInv, TypeOK, OutSound
<1>4. AnswersSound'
  BY DEF Forward, Respond, Empty, IInv, TypeOK, AnswersSound
<1>5. CacheSound' /\ StoreSound'
  BY <1>1, CacheKept, StoreKept DEF Forward, Respond, IInv
<1>6. JobSound'
  BY <1>1, JobsKept DEF Forward, Respond, IInv, TypeOK
<1> QED BY <1>2, <1>3, <1>4, <1>5, <1>6 DEF IInv
-----------------------------------------------------------------------------
THEOREM EveryStep == IInv /\ [Next]_vars => IInv'
<1> SUFFICES ASSUME IInv, [Next]_vars PROVE IInv'
  OBVIOUS
<1>1. CASE UNCHANGED vars
  <2>1. TypeOK'
    BY <1>1 DEF vars, reqVars, IInv, TypeOK, Cache!CacheTypeOK
  <2> QED
    BY <1>1, <2>1 DEF vars, reqVars, IInv, CacheSound, OutSound, AnswersSound,
       JobSound, JobSoundAt, StoreSound
<1>2. ASSUME NEW r \in Req, Receive(r) \/ ReceiveRaw(r) \/ BudgetExpires(r)
                             \/ Step(r) \/ Respond(r)
      PROVE  IInv'
  BY <1>2, ReceiveKeepsInv, BudgetKeepsInv, PrefetchKeepsInv, CacheHitKeepsInv,
     CacheMissKeepsInv, DetectKeepsInv, TokenKeepsInv, RecordKeepsInv,
     CacheResultKeepsInv, ReplyKeepsInv DEF Step
<1> QED BY <1>1, <1>2 DEF Next

THEOREM Inductive == Spec => []IInv
BY Initially, EveryStep, PTL DEF Spec

(* Every variable has its type in every reachable state. *)
THEOREM TypeTheorem == Spec => []TypeOK
<1>1. IInv => TypeOK
  BY DEF IInv
<1> QED BY <1>1, Inductive, PTL

(* Nothing that has left redactString holds a token the store cannot restore,
   whatever the hashes are (redact.go:365-373, mapping.go:36-49). *)
THEOREM TokensTheorem == Spec => []TokensAreRecorded
<1>1. IInv => TokensAreRecorded
  BY DEF IInv, CacheSound, OutSound, TokensAreRecorded
<1> QED BY <1>1, Inductive, PTL

(* The cache is transparent: a field is forwarded as its own redaction, full
   unless an LLM call has failed for its text (redact.go:310-376). *)
THEOREM RedactionTheorem == Spec => []OutputIsItsRedaction
<1>1. IInv => OutputIsItsRedaction
  BY DEF IInv, OutSound, IsRedactionOf, OutputIsItsRedaction
<1> QED BY <1>1, Inductive, PTL
-----------------------------------------------------------------------------
(* Restoring a masked text with a store that knows the hash of every match
   gives the text back, when no two values share a hash. *)
LEMMA RestoreInvertsMask ==
    ASSUME HashInjective, NEW s, NEW t \in Text, NEW found \in SUBSET Value,
           DOMAIN s \subseteq Hash,
           \A h \in DOMAIN s : s[h] \in Value /\ HashOf[s[h]] = h,
           Tokens(Mask(t, found)) \subseteq DOMAIN s
    PROVE  Restore(s, Mask(t, found)) = Content[t]
<1> DEFINE m == Mask(t, found)
<1>1. PICK n \in Nat : Content[t] \in [1 .. n -> Segment]
  BY ContentAssumption
<1>2. DOMAIN m = 1 .. n
  BY <1>1 DEF Mask
<1>3. ASSUME NEW i \in 1 .. n PROVE Restore(s, m)[i] = Content[t][i]
  <2>1. Content[t][i] \in Segment
    BY <1>1
  <2>2. CASE Content[t][i] \in found
    <3>1. Content[t][i] \in Value /\ m[i] = HashOf[Content[t][i]] /\ m[i] \in Hash
      BY <1>1, <2>2, HashAssumption DEF Mask
    <3>2. m[i] \in DOMAIN s
      BY <1>2, <3>1 DEF Tokens
    <3>3. s[m[i]] = Content[t][i]
      BY <3>1, <3>2 DEF HashInjective
    <3> QED BY <1>2, <3>2, <3>3 DEF Restore
  <2>3. CASE Content[t][i] \notin found
    <3>1. m[i] = Content[t][i]
      BY <1>1, <2>3 DEF Mask
    <3>2. m[i] \notin DOMAIN s
      BY <2>1, <3>1, HashAssumption
    <3> HIDE DEF m
    <3> QED BY <1>2, <3>1, <3>2 DEF Restore
  <2> QED BY <2>2, <2>3
<1>4. Restore(s, m) = [i \in 1 .. n |-> Restore(s, m)[i]]
  BY <1>2 DEF Restore
<1>5. Content[t] = [i \in 1 .. n |-> Content[t][i]]
  BY <1>1
<1> HIDE DEF m
<1>6. [i \in 1 .. n |-> Restore(s, m)[i]] = [i \in 1 .. n |-> Content[t][i]]
  BY <1>3
<1>7. Restore(s, m) = Content[t]
  BY <1>4, <1>5, <1>6
<1> QED BY <1>7 DEF m

(* When no two values share a hash, what has been redacted is restored to
   exactly the original, at every later moment (mapping.go:33-57). *)
THEOREM RestoreTheorem ==
    ASSUME HashInjective
    PROVE  Spec => []Restorable
<1>1. IInv => Restorable
  <2> SUFFICES ASSUME IInv, NEW r \in Req, NEW f \in DOMAIN out[r]
               PROVE  Restore(values, out[r][f]) = Content[f.text]
    BY DEF Restorable
  <2>1. f \in Field /\ f.text \in Text
    BY DEF IInv, TypeOK, Field
  <2>2. PICK found \in SUBSET Value : out[r][f] = Mask(f.text, found)
    BY <2>1, FullAndRegexFound DEF IInv, OutSound, IsRedactionOf, Full, RegexOnly
  <2>3. /\ DOMAIN values \subseteq Hash
        /\ \A h \in DOMAIN values : values[h] \in Value /\ HashOf[values[h]] = h
        /\ Tokens(Mask(f.text, found)) \subseteq DOMAIN values
    BY <2>2 DEF IInv, TypeOK, StoreSound, OutSound
  <2> QED BY <2>1, <2>2, <2>3, RestoreInvertsMask
<1> QED BY <1>1, Inductive, PTL

(* When no two values share a hash, a mapping once recorded stays as it is,
   although two requests may both find it missing and both record it
   (mapping.go:39-47). *)
THEOREM StableTheorem ==
    ASSUME HashInjective
    PROVE  Spec => MappingStable
<1>1. IInv /\ IInv' /\ [Next]_vars =>
        [\A h \in DOMAIN values : h \in DOMAIN values' /\ values'[h] = values[h]]_vars
  <2> SUFFICES ASSUME IInv, IInv', [Next]_vars, NEW h \in DOMAIN values
               PROVE  h \in DOMAIN values' /\ values'[h] = values[h]
    OBVIOUS
  <2>1. CASE values' = values
    BY <2>1
  <2>2. ASSUME NEW r \in Req, RecordValue(r)
        PROVE  h \in DOMAIN values' /\ values'[h] = values[h]
    <3>1. PICK i \in left[r] : /\ ValueAt(r, i) \in Value
                               /\ TokenAt(r, i) = HashOf[ValueAt(r, i)]
                               /\ values' = Recording(TokenAt(r, i), ValueAt(r, i))
      BY <2>2, RecordEffect
    <3>2. CASE h # TokenAt(r, i)
      BY <3>1, <3>2 DEF Recording
    <3>3. CASE h = TokenAt(r, i)
      <4>1. values[h] \in Value /\ HashOf[values[h]] = HashOf[ValueAt(r, i)]
        BY <3>1, <3>3 DEF IInv, TypeOK, StoreSound
      <4>2. values[h] = ValueAt(r, i)
        BY <3>1, <4>1 DEF HashInjective
      <4> QED BY <3>1, <3>3, <4>2 DEF Recording
    <3> QED BY <3>2, <3>3
  <2>3. ASSUME NEW r \in Req,
               \/ Receive(r) \/ ReceiveRaw(r) \/ BudgetExpires(r) \/ Respond(r)
               \/ PrefetchAnswered(r) \/ PrefetchFailed(r)
               \/ CacheHit(r) \/ CacheMiss(r) \/ CacheResult(r) \/ Forward(r)
        PROVE  values' = values
    BY <2>3 DEF Receive, ReceiveRaw, BudgetExpires, Respond, PrefetchAnswered,
       PrefetchFailed, CallReturns, CacheHit, CacheMiss, CacheResult, Forward
  <2>4. ASSUME NEW r \in Req,
               \/ DetectWithoutLLM(r) \/ DetectPrefetched(r)
               \/ DetectAnswered(r) \/ DetectFailed(r)
               \/ TokenKnown(r) \/ TokenUnknown(r)
        PROVE  values' = values
    BY <2>4 DEF DetectWithoutLLM, DetectPrefetched, DetectAnswered, DetectFailed,
       Detected, TokenKnown, TokenUnknown
  <2>5. CASE UNCHANGED vars
    BY <2>5 DEF vars
  <2> QED BY <2>1, <2>2, <2>3, <2>4, <2>5 DEF Next, Step
<1> QED BY <1>1, Inductive, PTL DEF Spec, MappingStable
-----------------------------------------------------------------------------
(* What a request knows of the LLM's answers.  Under way, every text it may
   ask about is still in the prefetch, or has an answer, or its call has
   failed; only a raw body, of one field, is not prefetched.  The field at
   work is one of those to do. *)
Expected(r) == work[r] \cup DOMAIN llm[r] \cup missed[r]
AllExpected(r) == \A f \in todo[r] : AsksLLM(f) => f.text \in Expected(r)
RawBody(r) ==
    /\ pc[r] # "prefetch"
    /\ DOMAIN llm[r] = {} /\ missed[r] = {}
    /\ \A f, g \in todo[r] : f = g

AskedAt(r) ==
    /\ pc[r] = "idle" => DOMAIN llm[r] = {} /\ missed[r] = {}
    /\ pc[r] # "prefetch" => work[r] = {}
    /\ pc[r] \in {"detect", "mint", "record"} => job[r].field \in todo[r]
    /\ pc[r] \notin {"idle", "sent"} => AllExpected(r) \/ RawBody(r)

AskedInv == \A r \in Req : AskedAt(r)

LEMMA AskedInitially == Init => AskedInv
BY DEF Init, Empty, AskedInv, AskedAt

(* Only the request's own steps change what AskedAt is about. *)
Same(r) == /\ pc'[r] = pc[r] /\ todo'[r] = todo[r] /\ work'[r] = work[r]
           /\ llm'[r] = llm[r] /\ job'[r] = job[r] /\ missed'[r] = missed[r]

LEMMA AskedKept ==
    ASSUME AskedInv, NEW r \in Req, \A s \in Req \ {r} : Same(s), AskedAt(r)'
    PROVE  AskedInv'
<1> SUFFICES ASSUME NEW s \in Req, s # r PROVE AskedAt(s)'
  BY DEF AskedInv
<1> QED BY DEF AskedInv, AskedAt, AllExpected, Expected, RawBody, Same

LEMMA ReceiveAsked ==
    ASSUME TypeOK, AskedInv, NEW r \in Req, Receive(r) \/ ReceiveRaw(r)
    PROVE  AskedInv'
<1>0. /\ \A s \in Req \ {r} : Same(s)
      /\ work[r] = {} /\ DOMAIN llm[r] = {} /\ missed[r] = {}
      /\ llm' = llm /\ missed' = missed
  BY DEF Receive, ReceiveRaw, TypeOK, AskedInv, AskedAt, Same
<1>1. CASE Receive(r)
  <2>1. PICK body \in Bodies : /\ todo'[r] = body /\ work'[r] = LLMWork(body)
                               /\ pc'[r] = IF LLMWork(body) = {} THEN "walk" ELSE "prefetch"
    BY <1>1 DEF Receive, TypeOK
  <2>2. \A f \in body : AsksLLM(f) => f.text \in LLMWork(body)
    BY DEF AsksLLM, LLMWork, Prefetches
  <2>3. AllExpected(r)'
    BY <2>1, <2>2 DEF AllExpected, Expected, AsksLLM
  <2>4. pc'[r] # "prefetch" => work'[r] = {}
    BY <2>1
  <2>5. pc'[r] \in {"walk", "prefetch"}
    BY <2>1
  <2>6. AskedAt(r)'
    BY <2>3, <2>4, <2>5 DEF AskedAt
  <2> QED BY <1>0, <2>6, AskedKept
<1>2. CASE ReceiveRaw(r)
  <2>1. PICK t \in RawTexts : todo'[r] = {[text |-> t, skip |-> FALSE]}
    BY <1>2 DEF ReceiveRaw, TypeOK
  <2>2. pc'[r] = "walk" /\ work'[r] = {} /\ DOMAIN llm'[r] = {} /\ missed'[r] = {}
    BY <1>0, <1>2 DEF ReceiveRaw, TypeOK
  <2>3. AskedAt(r)'
    BY <2>1, <2>2 DEF AskedAt, RawBody
  <2> QED BY <1>0, <2>3, AskedKept
<1> QED BY <1>1, <1>2

LEMMA PrefetchAsked ==
    ASSUME TypeOK, AskedInv, NEW r \in Req, PrefetchAnswered(r) \/ PrefetchFailed(r)
    PROVE  AskedInv'
<1>1. PICK batch \in SUBSET work[r] :
          /\ work' = [work EXCEPT ![r] = @ \ batch]
          /\ pc' = [pc EXCEPT ![r] = IF work[r] = batch THEN "walk" ELSE "prefetch"]
          /\ batch \subseteq DOMAIN llm'[r] \cup missed'[r]
          /\ DOMAIN llm[r] \subseteq DOMAIN llm'[r]
          /\ missed[r] \subseteq missed'[r]
          /\ \A s \in Req \ {r} : llm'[s] = llm[s] /\ missed'[s] = missed[s]
  <2>1. CASE PrefetchAnswered(r)
    <3>1. PICK batch \in SUBSET work[r], answered \in SUBSET work[r] :
              /\ llm' = [llm EXCEPT ![r] = Recorded(r, batch, Answers(batch, answered))]
              /\ NoAnswer(r, batch \ answered)
              /\ CallReturns(r, batch)
      BY <2>1 DEF PrefetchAnswered
    <3>2. DOMAIN llm'[r] = DOMAIN llm[r] \cup batch
      BY <3>1 DEF Recorded, TypeOK
    <3>3. missed'[r] = missed[r] \cup (batch \ answered)
      BY <3>1 DEF NoAnswer, TypeOK
    <3>4. \A s \in Req \ {r} : llm'[s] = llm[s] /\ missed'[s] = missed[s]
      BY <3>1 DEF NoAnswer, TypeOK
    <3> QED BY <3>1, <3>2, <3>3, <3>4 DEF CallReturns
  <2>2. CASE PrefetchFailed(r)
    <3>1. PICK batch \in SUBSET work[r] :
              /\ llm' = IF Cardinality(batch) = 1
                        THEN [llm EXCEPT ![r] = Recorded(r, batch, Answers(batch, {}))]
                        ELSE llm
              /\ NoAnswer(r, batch)
              /\ CallReturns(r, batch)
      BY <2>2 DEF PrefetchFailed
    <3>2. DOMAIN llm[r] \subseteq DOMAIN llm'[r]
      BY <3>1 DEF Recorded, TypeOK
    <3>3. missed'[r] = missed[r] \cup batch
      BY <3>1 DEF NoAnswer, TypeOK
    <3>4. \A s \in Req \ {r} : llm'[s] = llm[s] /\ missed'[s] = missed[s]
      BY <3>1 DEF NoAnswer, TypeOK
    <3> QED BY <3>1, <3>2, <3>3, <3>4 DEF CallReturns
  <2> QED BY <2>1, <2>2
<1>2. todo' = todo /\ job' = job /\ pc[r] = "prefetch"
  BY DEF PrefetchAnswered, PrefetchFailed, CallReturns
<1>3. \A s \in Req \ {r} : Same(s)
  BY <1>1, <1>2 DEF TypeOK, Same
<1>4. AllExpected(r)
  BY <1>2 DEF AskedInv, AskedAt, RawBody
<1>5. AllExpected(r)'
  <2> SUFFICES ASSUME NEW f \in todo[r], AsksLLM(f) PROVE f.text \in Expected(r)'
    BY <1>2 DEF AllExpected, AsksLLM
  <2>1. f.text \in Expected(r)
    BY <1>4 DEF AllExpected
  <2>2. work'[r] = work[r] \ batch
    BY <1>1 DEF TypeOK
  <2> QED BY <1>1, <2>1, <2>2 DEF Expected
<1>6. pc'[r] # "prefetch" => work'[r] = {}
  BY <1>1 DEF TypeOK
<1>7. pc'[r] \in {"walk", "prefetch"}
  BY <1>1 DEF TypeOK
<1>8. AskedAt(r)'
  BY <1>5, <1>6, <1>7 DEF AskedAt
<1> QED BY <1>3, <1>8, AskedKept

(* The walk: fields are taken off todo, and an answer may fail for the field
   at work. *)
LEMMA WalkAsked ==
    ASSUME TypeOK, AskedInv, NEW r \in Req, CacheHit(r) \/ CacheMiss(r) \/ CacheResult(r)
    PROVE  AskedInv'
<1>1. /\ \A s \in Req \ {r} : Same(s)
      /\ work' = work /\ llm' = llm /\ missed' = missed
      /\ todo'[r] \subseteq todo[r]
      /\ pc[r] \in {"walk", "mint"}
      /\ pc'[r] = "detect" => job'[r].field \in todo'[r]
      /\ pc'[r] \in {"walk", "detect"}
  <2>1. CASE CacheHit(r)
    <3>1. PICK f \in todo[r] : todo' = [todo EXCEPT ![r] = @ \ {f}]
      BY <2>1 DEF CacheHit, Finish
    <3>2. /\ pc[r] = "walk" /\ pc' = pc /\ work' = work
          /\ llm' = llm /\ job' = job /\ missed' = missed
      BY <2>1 DEF CacheHit
    <3> QED BY <3>1, <3>2 DEF TypeOK, Same
  <2>2. CASE CacheMiss(r)
    <3>1. PICK f \in todo[r] : job' = [job EXCEPT ![r] = [field |-> f, found |-> {}]]
      BY <2>2 DEF CacheMiss
    <3>2. /\ pc[r] = "walk" /\ pc' = [pc EXCEPT ![r] = "detect"] /\ work' = work
          /\ llm' = llm /\ todo' = todo /\ missed' = missed
      BY <2>2 DEF CacheMiss
    <3>3. pc'[r] = "detect" /\ job'[r].field \in todo'[r]
      BY <3>1, <3>2 DEF TypeOK
    <3>4. \A s \in Req \ {r} : Same(s)
      BY <3>1, <3>2 DEF TypeOK, Same
    <3> QED BY <3>2, <3>3, <3>4
  <2>3. CASE CacheResult(r)
    <3>1. /\ todo' = [todo EXCEPT ![r] = @ \ {job[r].field}]
          /\ pc[r] = "mint" /\ pc' = [pc EXCEPT ![r] = "walk"] /\ work' = work
          /\ llm' = llm /\ job' = [job EXCEPT ![r] = NoJob] /\ missed' = missed
      BY <2>3 DEF CacheResult, Finish
    <3> QED BY <3>1 DEF TypeOK, Same
  <2> QED BY <2>1, <2>2, <2>3
<1>2. AllExpected(r) => AllExpected(r)'
  BY <1>1 DEF AllExpected, Expected, AsksLLM
<1>3. RawBody(r) => RawBody(r)'
  BY <1>1 DEF RawBody
<1>4. AskedAt(r)'
  BY <1>1, <1>2, <1>3 DEF AskedInv, AskedAt
<1> QED BY <1>1, <1>4, AskedKept

LEMMA DetectAsked ==
    ASSUME TypeOK, AskedInv, NEW r \in Req,
           DetectWithoutLLM(r) \/ DetectPrefetched(r) \/ DetectAnswered(r) \/ DetectFailed(r)
    PROVE  AskedInv'
<1>1. /\ \A s \in Req \ {r} : Same(s)
      /\ work' = work /\ llm' = llm /\ todo' = todo
      /\ job'[r].field = job[r].field
      /\ pc[r] = "detect" /\ pc'[r] = "mint"
      /\ missed'[r] = missed[r] \/ missed'[r] = missed[r] \cup {job[r].field.text}
  BY DEF DetectWithoutLLM, DetectPrefetched, DetectAnswered, DetectFailed, Detected,
     NoAnswer, TypeOK, Same
<1>2. job[r].field \in todo[r] /\ work[r] = {} /\ (AllExpected(r) \/ RawBody(r))
  BY <1>1 DEF AskedInv, AskedAt
<1>3. AllExpected(r)' \/ RawBody(r)'
  <2>1. CASE AllExpected(r)
    BY <1>1, <2>1 DEF AllExpected, Expected, AsksLLM
  <2>2. CASE RawBody(r) /\ missed'[r] = missed[r]
    BY <1>1, <2>2 DEF RawBody
  <2>3. CASE RawBody(r) /\ missed'[r] = missed[r] \cup {job[r].field.text}
    BY <1>1, <1>2, <2>3 DEF RawBody, AllExpected, Expected
  <2> QED BY <1>1, <1>2, <2>1, <2>2, <2>3
<1>4. AskedAt(r)'
  BY <1>1, <1>2, <1>3 DEF AskedAt
<1> QED BY <1>1, <1>4, AskedKept

LEMMA OthersAsked ==
    ASSUME TypeOK, AskedInv, NEW r \in Req,
           \/ BudgetExpires(r) \/ TokenKnown(r) \/ TokenUnknown(r) \/ RecordValue(r)
           \/ Forward(r) \/ Respond(r)
    PROVE  AskedInv'
<1>1. CASE BudgetExpires(r) \/ TokenKnown(r) \/ TokenUnknown(r) \/ RecordValue(r)
  <2>1. /\ \A s \in Req \ {r} : Same(s)
        /\ work' = work /\ llm' = llm /\ todo' = todo /\ job' = job /\ missed' = missed
        /\ pc'[r] = pc[r] \/ (pc[r] \in {"mint", "record"} /\ pc'[r] \in {"mint", "record"})
    BY <1>1 DEF BudgetExpires, TokenKnown, TokenUnknown, RecordValue, TypeOK, Same
  <2>2. AllExpected(r)' <=> AllExpected(r)
    BY <2>1 DEF AllExpected, Expected, AsksLLM
  <2>3. RawBody(r) => RawBody(r)'
    BY <2>1 DEF RawBody
  <2>4. AskedAt(r)'
    BY <2>1, <2>2, <2>3 DEF AskedInv, AskedAt
  <2> QED BY <2>1, <2>4, AskedKept
<1>2. CASE Forward(r) \/ Respond(r)
  <2>1. /\ \A s \in Req \ {r} : Same(s)
        /\ work' = work
        /\ pc[r] \in {"walk", "sent"} /\ pc'[r] \in {"sent", "idle"}
        /\ pc'[r] = "idle" => DOMAIN llm'[r] = {} /\ missed'[r] = {}
    BY <1>2 DEF Forward, Respond, Empty, TypeOK, Same
  <2>2. AskedAt(r)'
    BY <2>1 DEF AskedInv, AskedAt
  <2> QED BY <2>1, <2>2, AskedKept
<1> QED BY <1>1, <1>2

LEMMA AskedStep == TypeOK /\ AskedInv /\ [Next]_vars => AskedInv'
<1> SUFFICES ASSUME TypeOK, AskedInv, [Next]_vars PROVE AskedInv'
  OBVIOUS
<1>1. CASE UNCHANGED vars
  BY <1>1 DEF vars, reqVars, AskedInv, AskedAt, AllExpected, Expected, RawBody, AsksLLM
<1>2. ASSUME NEW r \in Req, Receive(r) \/ ReceiveRaw(r) \/ BudgetExpires(r)
                             \/ Step(r) \/ Respond(r)
      PROVE  AskedInv'
  BY <1>2, ReceiveAsked, PrefetchAsked, WalkAsked, DetectAsked, OthersAsked DEF Step
<1> QED BY <1>1, <1>2 DEF Next

(* redactString never asks the LLM by itself for a text of a body that was
   prefetched, unless the call for that text has failed: the two places that
   decide what is asked agree (redact.go:183-198, 320-333). *)
THEOREM AskedOnceTheorem == Spec => []EachTextAskedOnce
<1>1. AskedInv => EachTextAskedOnce
  BY DEF AskedInv, AskedAt, AllExpected, Expected, RawBody, EachTextAskedOnce
<1> QED BY <1>1, AskedInitially, AskedStep, TypeTheorem, PTL DEF Spec
=============================================================================
