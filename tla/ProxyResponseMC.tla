--------------------------- MODULE ProxyResponseMC ---------------------------
(***************************************************************************)
(* Raw streams: up to three pieces out of whole tokens (one known to the   *)
(* store, one not) and every beginning and remainder of one.  SSE streams: *)
(* two events of one or two lines, in LF or CRLF form, and possibly the    *)
(* beginning of a third; payloads hold a token, half a token or none.      *)
(***************************************************************************)
EXTENDS ProxyResponse

MCKnownHash == {"1"}
MCSymbol == {"L", "o", "c", "1", "2", "x", "n", "r", "d", "e", "{", "}", "T", "T1", "T2"}

Pieces == {<<"L", "o", "1", "L", "c">>, <<"L", "o", "2", "L", "c">>,
           <<"x">>, <<"L">>, <<"L", "o">>, <<"L", "o", "1", "L">>, <<"L", "c">>}
MCRawStreams == {a \o b \o c : a, b, c \in Pieces}

Data(x) == <<"d", "{", x, "}">>
Lines == {Data("T"), Data("T1"), Data("T2"), Data("x"), <<"d", "T">>}
LFEvents == {l \o <<"n", "n">> : l \in Lines}
               \cup {<<"e", "x", "n">> \o Data("T") \o <<"n", "n">>}
CRLFEvents == {Data("T") \o <<"r", "n", "r", "n">>}
Tails == {<<>>, <<"d", "{", "T">>, Data("T"), <<"n">>}
MCSSEStreams == {a \o b \o c : a, b \in LFEvents \cup CRLFEvents, c \in Tails}

(* Events in the form of the specification's examples: LF, JSON payloads. *)
MCJSONStreams == {Data(x) \o <<"n", "n">> \o Data(y) \o <<"n", "n">> :
                     x, y \in {"T", "T1", "T2", "x"}}

MCPlainBodies == {<<"{", "T", "x", "}">>, <<"{", "T">>, <<"x", "T">>, <<>>}

None == {}
=============================================================================
