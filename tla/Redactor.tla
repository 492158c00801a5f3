------------------------------ MODULE Redactor ------------------------------
(***************************************************************************)
(* Concurrent requests through one Redactor (internal/redact/redact.go,    *)
(* mapping.go, cache.go), driven by Proxy.ServeHTTP.  Each HTTP request is *)
(* a goroutine; the mapping Store and the DetectionCache are shared.       *)
(*                                                                         *)
(* A step ends where another goroutine can come between: a lock is         *)
(* released, an LLM call returns, the request is sent.  In particular      *)
(* PlaceholderFor looks under the read lock and writes later under the     *)
(* write lock, and a result is computed long after the cache missed.       *)
(***************************************************************************)
EXTENDS Redaction, FiniteSets

CONSTANTS Req,           \* the goroutines that serve requests
          Bodies,        \* JSON bodies, one value each: sets of fields
          RawTexts,      \* bodies that do not decode as JSON
          LLMEnabled,    \* an LLM detector is configured
          SkipIfRegex,   \* skipLLMIfRegexMatched
          BatchSize,     \* llmBatchSize
          MaxEntries     \* cache size, 0 for no cache

ASSUME RequestAssumption ==
    /\ Bodies \subseteq SUBSET Field
    /\ RawTexts \subseteq Text
    /\ LLMEnabled \in BOOLEAN
    /\ SkipIfRegex \in BOOLEAN
ASSUME BatchSizeAssumption == BatchSize \in Nat \ {0}
ASSUME CacheSizeAssumption == MaxEntries \in Nat

VARIABLES
    values,    \* Store.values: hash -> original value
    entries,   \* DetectionCache.entries
    order,     \* DetectionCache.order
    pc,        \* where each request is
    todo,      \* fields the walk has still to redact
    out,       \* redacted fields, a function on the fields done
    work,      \* texts prefetchLLMResults has still to ask about
    llm,       \* llmResults: prefetched answers by text
    job,       \* the field redactString is at, and the values it found
    left,      \* matches of that field whose token is still to be made
    spent,     \* the LLM budget of the request has run out
    missed,    \* texts an LLM call of the request failed for
    unanswered \* texts an LLM call of any request ever failed for (history)

reqVars == <<pc, todo, out, work, llm, job, left, spent, missed>>
vars == <<values, entries, order, reqVars, unanswered>>

Cache == INSTANCE DetectionCache WITH Key <- Field, Entry <- Redacted

Empty == [x \in {} |-> {}]
NoJob == [field |-> [text |-> "none", skip |-> FALSE], found |-> {}]
-----------------------------------------------------------------------------
(* What a field's redaction is. *)

(* redactString wants an LLM answer for a field unless it is below "system",
   its text is labelled as test data, or the regex detectors matched and that
   suffices. *)
AsksLLM(f) ==
    /\ LLMEnabled
    /\ ~f.skip
    /\ f.text \notin TestText
    /\ ~(SkipIfRegex /\ RegexFinds[f.text] # {})

FoundWith(f, answer) ==
    TestExempt(f.text, RegexFinds[f.text] \cup answer)

FullFound(f) == FoundWith(f, IF AsksLLM(f) THEN Verified(f.text) ELSE {})
RegexFound(f) == FoundWith(f, {})

Full(f) == Mask(f.text, FullFound(f))            \* every detector answered
RegexOnly(f) == Mask(f.text, RegexFound(f))      \* the LLM did not
-----------------------------------------------------------------------------
TypeOK ==
    /\ DOMAIN values \subseteq Hash
    /\ \A h \in DOMAIN values : values[h] \in Value
    /\ Cache!CacheTypeOK
    /\ pc \in [Req -> {"idle", "prefetch", "walk", "detect", "mint", "record", "sent"}]
    /\ todo \in [Req -> SUBSET Field]
    /\ DOMAIN out = Req
    /\ \A r \in Req : DOMAIN out[r] \subseteq Field
    /\ work \in [Req -> SUBSET Text]
    /\ DOMAIN llm = Req
    /\ \A r \in Req : DOMAIN llm[r] \subseteq Text
    /\ job \in [Req -> [field : Field \cup {NoJob.field}, found : SUBSET Value]]
    /\ \A r \in Req : pc[r] \in {"detect", "mint", "record"} => job[r].field \in Field
    /\ left \in [Req -> SUBSET Nat]
    /\ spent \in [Req -> BOOLEAN]
    /\ missed \in [Req -> SUBSET Text]
    /\ unanswered \subseteq Text

Init ==
    /\ values = Empty
    /\ Cache!CacheInit
    /\ pc = [r \in Req |-> "idle"]
    /\ todo = [r \in Req |-> {}]
    /\ out = [r \in Req |-> Empty]
    /\ work = [r \in Req |-> {}]
    /\ llm = [r \in Req |-> Empty]
    /\ job = [r \in Req |-> NoJob]
    /\ left = [r \in Req |-> {}]
    /\ spent = [r \in Req |-> FALSE]
    /\ missed = [r \in Req |-> {}]
    /\ unanswered = {}
-----------------------------------------------------------------------------
(* redactBody: the body decodes, one value with nothing behind it; before the
   walk, collectLLMStrings and the skips of prefetchLLMResults choose the texts
   to ask the LLM about.  The slip skips regex matches whatever the option
   says. *)
PrefetchesIgnoringOption(f) ==
    LLMEnabled /\ ~f.skip /\ f.text \notin TestText /\ RegexFinds[f.text] = {}
Prefetches(f) ==
    /\ LLMEnabled
    /\ ~f.skip
    /\ f.text \notin TestText
    /\ SkipIfRegex => RegexFinds[f.text] = {}

LLMWork(body) == {f.text : f \in {g \in body : Prefetches(g)}}

Receive(r) ==
    /\ pc[r] = "idle"
    /\ \E body \in Bodies :
          /\ todo' = [todo EXCEPT ![r] = body]
          /\ work' = [work EXCEPT ![r] = LLMWork(body)]
          /\ pc' = [pc EXCEPT ![r] = IF LLMWork(body) = {} THEN "walk" ELSE "prefetch"]
    /\ UNCHANGED <<values, entries, order, out, llm, job, left, spent, missed, unanswered>>

(* A body that is not JSON is redacted as one string, without prefetch. *)
ReceiveRaw(r) ==
    /\ pc[r] = "idle"
    /\ \E t \in RawTexts :
          todo' = [todo EXCEPT ![r] = {[text |-> t, skip |-> FALSE]}]
    /\ pc' = [pc EXCEPT ![r] = "walk"]
    /\ UNCHANGED <<values, entries, order, out, work, llm, job, left, spent, missed, unanswered>>

(* The context of the whole redactBody call expires: every later LLM call of
   the request fails.  Left out where no call is left that could notice. *)
MayStillAsk(r) ==
    \/ work[r] # {}
    \/ \E f \in todo[r] : AsksLLM(f) /\ f.text \notin DOMAIN llm[r]

BudgetExpires(r) ==
    /\ MayStillAsk(r)
    /\ ~spent[r]
    /\ spent' = [spent EXCEPT ![r] = TRUE]
    /\ UNCHANGED <<values, entries, order, pc, todo, out, work, llm, job, left, missed, unanswered>>

(* One call of prefetchLLMResults returns.  With a batch size of 1 each text
   has a goroutine and a call of its own, ending in any order; otherwise
   the batches are asked one after the other, and the model may answer for a
   part of one only.  A failed call for one text is recorded as "no matches";
   a batch of several that fails records nothing. *)
NextBatch(r, batch) ==
    /\ batch \subseteq work[r]
    /\ batch # {}
    /\ Cardinality(batch) = BatchSize \/ (Cardinality(batch) < BatchSize /\ batch = work[r])

Recorded(r, batch, answer) ==
    [t \in DOMAIN llm[r] \cup batch |-> IF t \in batch THEN answer[t] ELSE llm[r][t]]

NoAnswer(r, texts) ==
    /\ missed' = [missed EXCEPT ![r] = @ \cup texts]
    /\ unanswered' = unanswered \cup texts

CallReturns(r, batch) ==
    /\ work' = [work EXCEPT ![r] = @ \ batch]
    /\ pc' = [pc EXCEPT ![r] = IF work[r] = batch THEN "walk" ELSE "prefetch"]
    /\ UNCHANGED <<values, entries, order, todo, out, job, left, spent>>

PrefetchAnswered(r) ==
    /\ pc[r] = "prefetch"
    /\ ~spent[r]
    /\ \E batch \in SUBSET work[r], answered \in SUBSET work[r] :
          /\ NextBatch(r, batch)
          /\ answered \subseteq batch
          /\ Cardinality(batch) = 1 => answered = batch
          /\ llm' = [llm EXCEPT ![r] = Recorded(r, batch, Answers(batch, answered))]
          /\ NoAnswer(r, batch \ answered)
          /\ CallReturns(r, batch)

PrefetchFailed(r) ==
    /\ pc[r] = "prefetch"
    /\ \E batch \in SUBSET work[r] :
          /\ NextBatch(r, batch)
          /\ llm' = IF Cardinality(batch) = 1
                    THEN [llm EXCEPT ![r] = Recorded(r, batch, Answers(batch, {}))]
                    ELSE llm
          /\ NoAnswer(r, batch)
          /\ CallReturns(r, batch)
-----------------------------------------------------------------------------
(* redactString: the cache first.  The walk goes through a JSON object's keys
   in no fixed order. *)
(* The key of a field's result: cacheKey{hash, skipLLM}.  The slip leaves the
   flag out of the key. *)
TextOnly(f) == [text |-> f.text, skip |-> FALSE]
CacheKey(f) == [text |-> f.text, skip |-> f.skip]

Finish(r, f, text) ==
    /\ out' = [out EXCEPT ![r] = [g \in DOMAIN out[r] \cup {f} |->
                                    IF g = f THEN text ELSE out[r][g]]]
    /\ todo' = [todo EXCEPT ![r] = @ \ {f}]

CacheHit(r) ==
    /\ pc[r] = "walk"
    /\ \E f \in todo[r] :
          /\ Cache!Hit(CacheKey(f))
          /\ Cache!Get(CacheKey(f))
          /\ Finish(r, f, entries[CacheKey(f)])
    /\ UNCHANGED <<values, pc, work, llm, job, left, spent, missed, unanswered>>

CacheMiss(r) ==
    /\ pc[r] = "walk"
    /\ \E f \in todo[r] :
          /\ ~Cache!Hit(CacheKey(f))
          /\ job' = [job EXCEPT ![r] = [field |-> f, found |-> {}]]
    /\ pc' = [pc EXCEPT ![r] = "detect"]
    /\ UNCHANGED <<values, entries, order, todo, out, work, llm, left, spent, missed, unanswered>>

(* The detectors ran with the given LLM answer; the matches are filtered and
   lined up for replacement. *)
Detected(r, answer) ==
    LET f == job[r].field
        found == FoundWith(f, answer)
    IN  /\ job' = [job EXCEPT ![r].found = found]
        /\ left' = [left EXCEPT ![r] = Matches(f.text, found)]
        /\ pc' = [pc EXCEPT ![r] = "mint"]
        /\ UNCHANGED <<values, entries, order, todo, out, work, llm, spent>>

DetectWithoutLLM(r) ==
    /\ pc[r] = "detect"
    /\ ~AsksLLM(job[r].field)
    /\ Detected(r, {})
    /\ UNCHANGED <<missed, unanswered>>

DetectPrefetched(r) ==
    /\ pc[r] = "detect"
    /\ AsksLLM(job[r].field)
    /\ job[r].field.text \in DOMAIN llm[r]
    /\ Detected(r, llm[r][job[r].field.text])
    /\ UNCHANGED <<missed, unanswered>>

(* Not prefetched: redactString asks by itself. *)
DetectAnswered(r) ==
    /\ pc[r] = "detect"
    /\ AsksLLM(job[r].field)
    /\ job[r].field.text \notin DOMAIN llm[r]
    /\ ~spent[r]
    /\ Detected(r, Verified(job[r].field.text))
    /\ UNCHANGED <<missed, unanswered>>

DetectFailed(r) ==
    /\ pc[r] = "detect"
    /\ AsksLLM(job[r].field)
    /\ job[r].field.text \notin DOMAIN llm[r]
    /\ Detected(r, {})
    /\ NoAnswer(r, {job[r].field.text})
-----------------------------------------------------------------------------
(* PlaceholderFor, for the leftmost match still to be replaced. *)
Leftmost(r, i) == i \in left[r] /\ \A j \in left[r] : i <= j

ValueAt(r, i) == Content[job[r].field.text][i]
TokenAt(r, i) == HashOf[ValueAt(r, i)]

(* Slip: the loop does not go on to the next match. *)
StaysPut(r) ==
    /\ pc[r] = "mint"
    /\ \E i \in left[r] : Leftmost(r, i) /\ TokenAt(r, i) \in DOMAIN values
    /\ UNCHANGED vars

(* Under the read lock: the hash is known and its token is used as it is. *)
TokenKnown(r) ==
    /\ pc[r] = "mint"
    /\ \E i \in left[r] :
          /\ Leftmost(r, i)
          /\ TokenAt(r, i) \in DOMAIN values
          /\ left' = [left EXCEPT ![r] = @ \ {i}]
    /\ UNCHANGED <<values, entries, order, pc, todo, out, work, llm, job, spent, missed, unanswered>>

TokenUnknown(r) ==
    /\ pc[r] = "mint"
    /\ \E i \in left[r] : Leftmost(r, i) /\ TokenAt(r, i) \notin DOMAIN values
    /\ pc' = [pc EXCEPT ![r] = "record"]
    /\ UNCHANGED <<values, entries, order, todo, out, work, llm, job, left, spent, missed, unanswered>>

(* Under the write lock, later: the value is stored whatever is there now.
   Slips: the two arguments swapped; a store that forgets what it held. *)
Swapped(h, v) ==
    [x \in DOMAIN values \cup {v} |-> IF x = v THEN h ELSE values[x]]
Forgetful(h, v) == [x \in {h} |-> v]
Recording(h, v) ==
    [x \in DOMAIN values \cup {h} |-> IF x = h THEN v ELSE values[x]]

RecordValue(r) ==
    /\ pc[r] = "record"
    /\ \E i \in left[r] :
          /\ Leftmost(r, i)
          /\ values' = Recording(TokenAt(r, i), ValueAt(r, i))
          /\ left' = [left EXCEPT ![r] = @ \ {i}]
    /\ pc' = [pc EXCEPT ![r] = "mint"]
    /\ UNCHANGED <<entries, order, todo, out, work, llm, job, spent, missed, unanswered>>

(* Slip: the result is cached before the tokens are recorded. *)
CachedEarly(r) ==
    LET f == job[r].field
        text == Mask(f.text, job[r].found)
    IN  /\ pc[r] = "mint"
        /\ Cache!Put(CacheKey(f), text)
        /\ Finish(r, f, text)
        /\ pc' = [pc EXCEPT ![r] = "walk"]
        /\ job' = [job EXCEPT ![r] = NoJob]
        /\ left' = [left EXCEPT ![r] = {}]
        /\ UNCHANGED <<values, work, llm, spent, missed, unanswered>>

(* All matches are replaced: the result is cached and the walk goes on. *)
CacheResult(r) ==
    LET f == job[r].field
        text == Mask(f.text, job[r].found)
    IN  /\ pc[r] = "mint"
        /\ left[r] = {}
        /\ Cache!Put(CacheKey(f), text)
        /\ Finish(r, f, text)
        /\ pc' = [pc EXCEPT ![r] = "walk"]
        /\ job' = [job EXCEPT ![r] = NoJob]
        /\ UNCHANGED <<values, work, llm, left, spent, missed, unanswered>>
-----------------------------------------------------------------------------
(* ServeHTTP sends the redacted body upstream. *)
Forward(r) ==
    /\ pc[r] = "walk"
    /\ todo[r] = {}
    /\ pc' = [pc EXCEPT ![r] = "sent"]
    /\ UNCHANGED <<values, entries, order, todo, out, work, llm, job, left, spent, missed, unanswered>>

(* The handler returns, with a restored response or with an error; the
   goroutine's locals are gone, the store and the cache stay. *)
Respond(r) ==
    /\ pc[r] = "sent"
    /\ pc' = [pc EXCEPT ![r] = "idle"]
    /\ out' = [out EXCEPT ![r] = Empty]
    /\ llm' = [llm EXCEPT ![r] = Empty]
    /\ spent' = [spent EXCEPT ![r] = FALSE]
    /\ missed' = [missed EXCEPT ![r] = {}]
    /\ UNCHANGED <<values, entries, order, todo, work, job, left, unanswered>>

(* What a request does by itself once it has arrived. *)
Step(r) ==
    \/ PrefetchAnswered(r) \/ PrefetchFailed(r)
    \/ CacheHit(r) \/ CacheMiss(r)
    \/ DetectWithoutLLM(r) \/ DetectPrefetched(r)
    \/ DetectAnswered(r) \/ DetectFailed(r)
    \/ TokenKnown(r) \/ TokenUnknown(r) \/ RecordValue(r)
    \/ CacheResult(r)
    \/ Forward(r)

Next == \E r \in Req :
    Receive(r) \/ ReceiveRaw(r) \/ BudgetExpires(r) \/ Step(r) \/ Respond(r)

Spec == Init /\ [][Next]_vars

(* The Go scheduler runs every runnable goroutine, and every LLM call ends:
   it has a deadline of its own (detector.go:72, 146). *)
FairSpec == Spec /\ \A r \in Req : WF_vars(Step(r))
-----------------------------------------------------------------------------
Tokens(segments) == {segments[i] : i \in DOMAIN segments} \cap Hash

(* A placeholder never leaves redactString, towards the cache or towards the
   upstream body, before its mapping is in the store (redact.go:365-373), so
   whatever another goroutine takes from the cache can be restored. *)
TokensAreRecorded ==
    /\ \A k \in DOMAIN entries : Tokens(entries[k]) \subseteq DOMAIN values
    /\ \A r \in Req : \A f \in DOMAIN out[r] : Tokens(out[r][f]) \subseteq DOMAIN values

(* What is sent upstream restores to exactly what the agent sent, at any
   moment from its redaction on, whatever other requests record meanwhile
   ("recording the mapping so it can later be restored", mapping.go:33). *)
Restorable ==
    \A r \in Req : \A f \in DOMAIN out[r] :
        Restore(values, out[r][f]) = Content[f.text]

(* No step forgets a mapping or lets a hash stand for another value
   (mapping.go:36-49): a conversation keeps using tokens of earlier turns. *)
MappingStable ==
    [][\A h \in DOMAIN values : h \in DOMAIN values' /\ values'[h] = values[h]]_vars

(* A field leaves redactBody as its own full redaction.  Only when an LLM
   call for its text has failed, then or earlier, may it be the redaction by
   the regex detectors.  So the cache never serves the result of another text
   or of the other skipLLM flag (cache.go:43-56, redact.go:310-376). *)
OutputIsItsRedaction ==
    \A r \in Req : \A f \in DOMAIN out[r] :
        \/ out[r][f] = Full(f)
        \/ f.text \in unanswered /\ out[r][f] = RegexOnly(f)

(* "if the budget runs out or the local server is slow/unreachable, llm-guard
   just skips the LLM pass for the rest of that request" (README.md:220-222):
   a request none of whose own LLM calls failed is fully redacted. *)
DegradedForItsRequestOnly ==
    \A r \in Req : \A f \in DOMAIN out[r] :
        f.text \notin missed[r] => out[r][f] = Full(f)

(* After a prefetch, redactString asks the LLM itself only for a text whose
   batch has failed: the two places that decide what is asked, before the walk
   (redact.go:183-198, 258-280) and during it (redact.go:320-333), agree. *)
EachTextAskedOnce ==
    \A r \in Req :
        /\ pc[r] = "detect"
        /\ AsksLLM(job[r].field)
        /\ DOMAIN llm[r] \cup missed[r] # {}
        => job[r].field.text \in DOMAIN llm[r] \cup missed[r]

(* A request that has arrived is forwarded, however the LLM calls, the other
   requests and the cache behave (README.md:202-203: the proxy never hangs
   because of the LLM). *)
EveryRequestForwarded ==
    \A r \in Req : pc[r] \in {"prefetch", "walk"} ~> pc[r] = "sent"
=============================================================================
