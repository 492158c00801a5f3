------------------------------ MODULE DaemonMC ------------------------------
(***************************************************************************)
(* Two daemon processes, one to go and one to come, under two terminals    *)
(* with every command, or under one.                                       *)
(***************************************************************************)
EXTENDS Daemon

CONSTANTS c1, c2

TwoTerminals == {c1, c2}
EachItsOps == [c \in TwoTerminals |->
    IF c = c1 THEN {"stop", "restart"} ELSE {"start", "stop", "status"}]

OneTerminal == {c1}
EveryOp == [c \in OneTerminal |-> {"start", "stop", "restart", "status"}]
=============================================================================
