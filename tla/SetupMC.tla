------------------------------- MODULE SetupMC -------------------------------
(***************************************************************************)
(* Two kinds of home.  In MCTogether an install, an init and pulls run     *)
(* together.  In MCInstalls installs run over every short profile, over    *)
(* some longer ones with a block, and over all kinds of settings.  The     *)
(* --upstream flag is left out or names one upstream.                      *)
(***************************************************************************)
EXTENDS Setup, TLC

CONSTANTS t1, t2, nobody

MCTerm == {t1, t2}
MCTag == {"b1", "b2"}
MCSelections == {{"openai"}, {"claude"}, {"claude", "cursor"}}
MCWords == {"alias", "path"}
MCFlag == {"", "openai"}

NoSettings == [file |-> "absent", env |-> "none", url |-> FALSE, other |-> "none"]

Runs(i, n, p) == [op \in Op |-> CASE op = "install" -> i [] op = "init" -> n [] OTHER -> p]

Piece == {newline, profileBegin, profileEnd, "alias"}
Short == UNION {[1 .. n -> Piece] : n \in 0 .. 3}
Block1 == Block({"claude"})
Long == {<<"alias">> \o nl \o Block1 \o after :
            nl \in {<<>>, <<newline>>}, after \in {<<>>, <<newline, newline, "path">>, <<"path">>, Block1}}
        \cup {SubSeq(Block1, 1, 4) \o <<"alias", newline>>, Tail(Block1) \o <<"alias">>,
              <<"alias", newline>> \o SubSeq(Block1, 1, 3) \o <<newline, "path">> \o Block1}

Profiles == {[profile |-> p, settings |-> NoSettings, left |-> Runs(2, 0, 0)] : p \in Short \cup Long}
            \cup {[profile |-> p, settings |-> NoSettings, left |-> Runs(1, 0, 0)] : p \in [1 .. 4 -> Piece]}
AllSettings == {[profile |-> <<>>, settings |-> s, left |-> Runs(1, 0, 0)] : s \in Settings}
MCTogether == {[profile |-> <<>>, settings |-> NoSettings, left |-> Runs(1, 1, 1)],
               [profile |-> <<>>, settings |-> NoSettings, left |-> Runs(0, 0, 3)]}

MCInstalls == Profiles \cup AllSettings
MCHomes == MCTogether \cup MCInstalls

Symmetric == Permutations(MCTerm)
=============================================================================
