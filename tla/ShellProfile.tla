---------------------------- MODULE ShellProfile ----------------------------
(***************************************************************************)
(* How install edits the shell profile and the settings of Claude Code     *)
(* (internal/install/install.go, agentsettings.go), as functions of what   *)
(* the files hold.                                                         *)
(*                                                                         *)
(* A profile is a sequence: the newlines, the two markers, the two export  *)
(* statements and the user's own text between them, each one element.      *)
(***************************************************************************)
EXTENDS Naturals, Sequences, SequencesExt

CONSTANT Words    \* the user's own text, in pieces

Agent == {"openai", "claude", "cursor"}

newline == "newline"
profileBegin == "begin"
profileEnd == "end"
Export == {"OPENAI_BASE_URL", "ANTHROPIC_BASE_URL"}
Text == Seq({newline, profileBegin, profileEnd} \cup Export \cup Words)

(* What `llmguard env` prints. *)
EnvExports(agents) ==
    (IF agents \cap {"openai", "cursor"} # {} THEN <<"OPENAI_BASE_URL">> ELSE <<>>)
    \o (IF "claude" \in agents THEN <<"ANTHROPIC_BASE_URL">> ELSE <<>>)

(* writeShellProfile works out the same statements by itself.  Slip: it does
   not think of Cursor. *)
WithoutCursor(agents) == agents \cap {"openai"} # {}
WithOpenAI(agents) == agents \cap {"openai", "cursor"} # {}

Block(agents) ==
    <<profileBegin, newline>>
    \o (IF WithOpenAI(agents) THEN <<"OPENAI_BASE_URL", newline>> ELSE <<>>)
    \o (IF "claude" \in agents THEN <<"ANTHROPIC_BASE_URL", newline>> ELSE <<>>)
    \o <<profileEnd, newline>>

(* strings.Index: the first occurrence at or behind i, 0 if there is none. *)
Index(text, i, s) == SelectInSubSeq(text, i, Len(text), LAMBDA x : x = s)

TrimRight(text) == SubSeq(text, 1, SelectLastInSeq(text, LAMBDA x : x # newline))

(* What is kept behind the end marker at i: the newlines after it go, for the
   new block ends in one.  Slips: they stay; the rest of the file goes. *)
WithNewlines(text, i) == SubSeq(text, i + 1, Len(text))
NothingBehind(text, i) == <<>>
Behind(text, i) ==
    LET next == SelectInSubSeq(text, i + 1, Len(text), LAMBDA x : x # newline)
    IN  IF next = 0 THEN <<>> ELSE SubSeq(text, next, Len(text))

HasBegin(text) == Index(text, 1, profileBegin) # 0
Begin(text) == Index(text, 1, profileBegin)
End(text) == Index(text, Begin(text), profileEnd)

(* writeShellProfile: the first block is replaced, up to the first end marker
   behind its begin; where that is missing, or there is no block, a block is
   added at the end. *)
Added(text, agents) ==
    text \o (IF text # <<>> /\ Last(text) # newline THEN <<newline>> ELSE <<>>)
         \o <<newline>> \o Block(agents)

WriteShellProfile(text, agents) ==
    IF ~HasBegin(text) THEN Added(text, agents)
    ELSE IF End(text) = 0 THEN TrimRight(text) \o <<newline, newline>> \o Block(agents)
    ELSE SubSeq(text, 1, Begin(text) - 1) \o Block(agents) \o Behind(text, End(text))
-----------------------------------------------------------------------------
(* Said of profiles in the properties. *)

(* The user's own text. *)
Own(x) == IF x \in {newline, profileBegin, profileEnd} \cup Export THEN <<>> ELSE <<x>>
Mine(text) == FlattenSeq([i \in DOMAIN text |-> Own(text[i])])

(* What a shell that reads the profile exports. *)
Sourced(text) == ToSet(text) \cap Export

(* All but the first block. *)
Outside(text) ==
    IF HasBegin(text) THEN SubSeq(text, 1, Begin(text) - 1)
                           \o SubSeq(text, End(text) + 1, Len(text))
    ELSE text

(* The first block has its end, and nothing of the user's inside. *)
Whole(text) ==
    HasBegin(text) => End(text) # 0 /\ Mine(Outside(text)) = Mine(text)

(* Besides, it is the only one, and nothing is exported outside of it. *)
Tidy(text) ==
    Whole(text) /\ ~HasBegin(Outside(text)) /\ Sourced(Outside(text)) = {}
-----------------------------------------------------------------------------
(* ~/.claude/settings.json: whether it is there and reads as an object, what
   its "env" is, and in that the base URL and one variable of the user's. *)
Settings == {s \in [file : {"absent", "broken", "null", "object"},
                    env : {"none", "null", "scalar", "map"},
                    url : BOOLEAN,
                    other : {"none", "string", "number", "blank"}] :
               /\ s.file # "object" => s.env = "none"
               /\ s.env # "map" => ~s.url /\ s.other = "none"}

BrokenSettings == [file |-> "broken", env |-> "none", url |-> FALSE, other |-> "none"]

(* Unmarshal of null makes the map nil, and writing to it panics. *)
Panics(s) == s.file = "null" \/ (s.file = "object" /\ s.env = "null")

(* mergeJSONEnv: an "env" that is no object is replaced, a value in it that is
   no string becomes "". *)
MergeJSONEnv(s) ==
    [file |-> "object", env |-> "map", url |-> TRUE,
     other |-> IF s.env # "map" THEN "none"
               ELSE IF s.other = "number" THEN "blank" ELSE s.other]
=============================================================================
