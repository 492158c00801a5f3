----------------------------- MODULE RedactorMC -----------------------------
(***************************************************************************)
(* Two requests over four texts.  key is found by the regex detectors and  *)
(* mail under a category that is always redacted; name and city are what   *)
(* only the LLM finds, beside a candidate that is not in the text.  mixed  *)
(* holds both kinds; test is labelled as test data, so key stays in it.    *)
(***************************************************************************)
EXTENDS Redactor

CONSTANTS r1, r2, prose, mixed, login, test, key, name, city, mail, p, h1, h2, h3, h4

MCReq == {r1, r2}
MCText == {prose, mixed, login, test}
MCValue == {key, name, city, mail}
MCPlain == {p}
MCHash == {h1, h2, h3, h4}

MCContent == [t \in MCText |->
    CASE t = prose -> <<p, city>>
      [] t = mixed -> <<key, p, name>>
      [] t = login -> <<key>>
      [] t = test  -> <<key, mail>>]

MCRegexFinds == [t \in MCText |->
    CASE t = prose -> {}
      [] t = mixed -> {key}
      [] t = login -> {key}
      [] t = test  -> {key, mail}]

MCLLMFinds == [t \in MCText |->
    CASE t = prose -> {city, mail}
      [] t = mixed -> {name}
      [] OTHER     -> {}]

MCHashOf == [v \in MCValue |->
    CASE v = key -> h1 [] v = name -> h2 [] v = city -> h3 [] v = mail -> h4]

MCTestText == {test}
MCAlwaysValue == {mail}

User(t) == [text |-> t, skip |-> FALSE]
System(t) == [text |-> t, skip |-> TRUE]

(* Two texts for one LLM call; the same text in a system prompt; a text
   labelled as test data. *)
MCBodies == {{User(mixed), User(prose)}, {System(mixed), User(test)}}
MCRawTexts == {prose}

(* Bodies for the runs with skipLLMIfRegexMatched. *)
MCSkipBodies == {{User(mixed), User(prose)}, {System(test)}}
MCSkipRawTexts == {login}
=============================================================================
