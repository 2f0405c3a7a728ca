------------------------------- MODULE MCRouting -------------------------------
(* Small instances of Routing for TLC. *)
EXTENDS Routing, TLC

CONSTANTS n1, n2, s1, o1, g1, p1

OneName == {n1}
TwoNames == {n1, n2}
OneSource == {s1}
OneOp == {o1}
OneCaller == {g1}
OnePrompt == {p1}

NoReasoner == {}

Retiring == {"disable", "delete"}
================================================================================
