---------------------------- MODULE MCDecisionCache ----------------------------
(* A small instance of DecisionCache for TLC. *)
EXTENDS DecisionCache

CONSTANTS k1, k2, k3, m1, m2, g1, g2

MCKeys == {k1, k2, k3}
MCModels == {m1, m2}
MCCallers == {g1, g2}
MCSymmetry == Permutations(MCCallers)
================================================================================
