---------------------------- MODULE RegexDetector ----------------------------
(***************************************************************************)
(* RegexDetector.Detect (internal/redact/detectors/regex.go): which of the *)
(* values in a text that its patterns match it reports.  A pattern only    *)
(* runs on a text that contains one of its triggers, whether that is part  *)
(* of the value or stands somewhere else.                                  *)
(*                                                                         *)
(* What a regular expression matches is not modelled.  A value is a match  *)
(* of a pattern, of which it is known what triggers it contains.           *)
(***************************************************************************)
EXTENDS Naturals, Sequences, FiniteSets

CONSTANTS Patterns,      \* the categories and custom patterns configured, in order
          MaxValues      \* values in the text (bound of the model)

(* A custom pattern: the runs of letters, digits, - and _ in it, how long
   each is, whether it is text to match or part of a class or a count, and the
   triggers of other patterns in it. *)
Run(s, len, text) == [run |-> s, len |-> len, text |-> text]
TriggersIn == [run \in {"PROJ-"} |-> {"-"}]
CustomPattern ==
    [PROJ |-> {Run("PROJ-", 5, TRUE), Run("0-9", 3, FALSE), Run("4", 1, FALSE), Run("6", 1, FALSE)},
     CUST |-> {Run("A-Z", 3, FALSE), Run("3", 1, FALSE), Run("0-9", 3, FALSE), Run("4", 1, FALSE)}]

(* For every pattern the ways a value of it is written: by the triggers, of
   any pattern, that the value contains for sure. *)
builtinPatterns ==
    [aws_access_key |-> {{"AKIA"}},
     aws_secret_key |-> {{"aws_secret", "secret", "key"}},
     gcp_api_key |-> {{"AIza"}},
     github_token |-> {{"ghp_"}, {"gho_"}, {"ghu_"}, {"ghs_"}, {"ghr_"}},
     gitlab_token |-> {{"glpat-", "-"}},
     slack_token |-> {{"xox", "-"}},
     stripe_key |-> {{"sk_live_"}},
     openai_key |-> {{"sk-", "-"}},
     anthropic_key |-> {{"sk-ant-", "sk-", "-"}},
     private_key_block |-> {{"-----BEGIN", "-", "key"}},
     jwt |-> {{"eyJ"}},
     generic_api_key_assignment |-> {{"api", "key"}, {"secret"}, {"token"},
                                     {"password"}, {"passwd"}, {"pwd"}},
     email |-> {{"@"}},
     ssn |-> {{"-"}, {}},                       \* dashes, or spaces
     credit_card |-> {{"-"}, {}},
     phone_us |-> {{}, {"("}, {"+1", "+"}, {"+1", "+", "("}},
     phone_intl |-> {{"+"}, {"+1", "+"}},
     iban |-> {{}}]

builtinTriggers ==
    [aws_access_key |-> {"AKIA"},
     aws_secret_key |-> {"aws_secret"},
     gcp_api_key |-> {"AIza"},
     github_token |-> {"ghp_", "gho_", "ghu_", "ghs_", "ghr_"},
     gitlab_token |-> {"glpat-"},
     slack_token |-> {"xox"},
     stripe_key |-> {"sk_live_"},
     openai_key |-> {"sk-"},
     anthropic_key |-> {"sk-ant-"},
     private_key_block |-> {"-----BEGIN"},
     jwt |-> {"eyJ"},
     generic_api_key_assignment |-> {"api", "key", "secret", "token",
                                     "password", "passwd", "pwd"},
     email |-> {"@"},
     ssn |-> {"-"},
     credit_card |-> {},
     phone_us |-> {"(", "+1"},
     phone_intl |-> {"+"},
     iban |-> {}]

(* extractTriggers does not see which runs are text. *)
extractTriggers(pattern) == {r.run : r \in {s \in pattern : s.len >= 3}}

Custom == DOMAIN CustomPattern
Category == DOMAIN builtinPatterns \cup Custom

TextRuns(pattern) == {r.run : r \in {s \in pattern : s.text}}
Written(c) ==
    IF c \in Custom
    THEN LET runs == TextRuns(CustomPattern[c])
         IN  {runs \cup UNION {TriggersIn[s] : s \in runs}}
    ELSE builtinPatterns[c]
Triggers(c) == IF c \in Custom THEN extractTriggers(CustomPattern[c]) ELSE builtinTriggers[c]

(* luhnValid and ssnValid reject some of the matches of their patterns. *)
postValidators == {"credit_card", "ssn"}

Value == UNION {[cat : {c}, has : Written(c),
                 valid : IF c \in postValidators THEN BOOLEAN ELSE {TRUE}] : c \in Category}

VARIABLES text,       \* the values in the text
          next,       \* the pattern to run next
          matches     \* what has been reported

vars == <<text, next, matches>>

Init ==
    /\ \E v, w \in Value : text = {v, w}
    /\ Cardinality(text) <= MaxValues
    /\ next = 1
    /\ matches = {}

triggersMatch(triggers) == triggers = {} \/ \E v \in text : v.has \cap triggers # {}

(* One round of Detect's loop. *)
Detect ==
    /\ next <= Len(Patterns)
    /\ next' = next + 1
    /\ matches' = matches \cup (IF triggersMatch(Triggers(Patterns[next]))
                                THEN {v \in text : v.cat = Patterns[next] /\ v.valid}
                                ELSE {})
    /\ UNCHANGED text

Spec == Init /\ [][Detect]_vars
-----------------------------------------------------------------------------
(* Triggers are "cheap literal substrings that must appear for a pattern to
   possibly match" (regex.go:75-76), and "custom patterns without literals run
   unconditionally" (regex.go:190): what a configured pattern matches is
   reported, whatever else the text holds. *)
EveryMatchReported ==
    next > Len(Patterns) =>
    \A v \in text : (\E i \in DOMAIN Patterns : Patterns[i] = v.cat) /\ v.valid
                    => v \in matches
=============================================================================
