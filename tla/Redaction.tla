------------------------------ MODULE Redaction ------------------------------
(***************************************************************************)
(* Texts, what the detectors find in them, and the two rewritings: masking *)
(* a text and restoring it (internal/redact).                              *)
(*                                                                         *)
(* A text is a sequence of segments: sensitive values and, between them,   *)
(* plain segments no detector matches.  A placeholder token is written as  *)
(* its hash, so a redacted text is a sequence of plain segments, values    *)
(* and hashes.  Matches are whole segments: two matches never overlap.     *)
(***************************************************************************)
EXTENDS Naturals, Sequences

CONSTANTS Text,         \* the string fields (a text stands for its SHA-256)
          Value,        \* sensitive values, such as a key or an email
          Plain,        \* segments that are not sensitive
          Hash,         \* the placeholder hashes
          Content,      \* the segments of each text
          HashOf,       \* hashValue: the hash of a value
          RegexFinds,   \* the values the regex detectors match in a text
          LLMFinds,     \* the values the LLM answers for a text, true or not
          TestText,     \* texts isTestDataContext holds of
          AlwaysValue   \* values matched under alwaysRedactCategories

Segment == Value \cup Plain

ASSUME ContentAssumption == Content \in [Text -> Seq(Segment)]
ASSUME HashAssumption ==
    /\ HashOf \in [Value -> Hash]
    /\ Hash \cap Segment = {}
ASSUME FindsAssumption ==
    /\ RegexFinds \in [Text -> SUBSET Value]
    /\ LLMFinds \in [Text -> SUBSET Value]
    /\ TestText \subseteq Text

(* Distinct values have distinct hashes.  hashValue keeps 32 bits of the
   SHA-256, so this is likely, not certain: it is a hypothesis of the
   properties that need it and never assumed silently. *)
HashInjective == \A v, w \in Value : HashOf[v] = HashOf[w] => v = w

(* A string of the JSON body, and whether it is below a "system" key, where
   the LLM is skipped.  It is also the key its result is cached under. *)
Field == [text : Text, skip : BOOLEAN]

Redacted == Seq(Segment \cup Hash)
-----------------------------------------------------------------------------
(* DetectWithContext: of the model's candidates only those that occur in the
   text count. *)
Verified(t) == LLMFinds[t] \cap {Content[t][i] : i \in DOMAIN Content[t]}

(* DetectBatchWithContext: the same for each text the model's answer has an
   array for; a text beyond its end has no matches. *)
Answers(batch, answered) ==
    [t \in batch |-> IF t \in answered THEN Verified(t) ELSE {}]

(* filterTestExemptMatches: in a text labelled as test data only the
   structured categories stay. *)
TestExempt(t, found) == IF t \in TestText THEN found \cap AlwaysValue ELSE found

(* The text t with the matched values of found replaced by their tokens. *)
Mask(t, found) ==
    [i \in DOMAIN Content[t] |->
        IF Content[t][i] \in found THEN HashOf[Content[t][i]] ELSE Content[t][i]]

(* The segments of t that are matches, in the order the loop visits them. *)
Matches(t, found) == {i \in DOMAIN Content[t] : Content[t][i] \in found}

(* restoreString with the store s: known tokens become their values, all
   else stays. *)
Restore(s, segments) ==
    [i \in DOMAIN segments |->
        IF segments[i] \in DOMAIN s THEN s[segments[i]] ELSE segments[i]]
=============================================================================
