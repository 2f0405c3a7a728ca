---------------------------- MODULE MCModelRegistry ----------------------------
(* Small instances of UndisturbedRegistry for TLC. *)
EXTENDS UndisturbedRegistry, TLC

CONSTANTS n1, n2, s1, s2, o1, o2

OneName == {n1}
TwoNames == {n1, n2}
OneSource == {s1}
TwoSources == {s1, s2}
TwoOps == {o1, o2}

NoReasoner == {}

Toggling == {"disable", "discover"}

(* The models anything is known of. *)
Known ==
  {k \in Keys : table[k] # NoRow} \cup scores \cup gone
    \cup UNION {op[o].todo : o \in Ops}
    \cup {<<n, memory[n].source>> : n \in {m \in Names : memory[m] # Missing}}

(* The providers models are known of, or still to be listed of. *)
Involved == {k[2] : k \in Known} \cup UNION {op[o].left : o \in Ops}

(* Bound: the name that reasons at both providers, with results or         *)
(* deletions of one; or both names at one provider, reasoning as their     *)
(* names say, without results and deletions; once disturbed, the other     *)
(* name at one provider, without reasoning, results and deletions, on      *)
(* which what is checked of those states does not depend.                  *)
Bounded ==
  LET OneAsked == Cardinality(Involved) <= 1
      Reasoning == {k \in Keys : table[k].reasoning}
      Here == {k \in Keys : table[k] # NoRow}
  IN  \/ /\ ~disturbed /\ Known \subseteq Reasoners \X Sources
         /\ Cardinality(scores \cup gone) <= 1
      \/ /\ ~disturbed /\ OneAsked /\ scores \cup gone = {}
         /\ Reasoning = Here \cap (Reasoners \X Sources)
      \/ /\ disturbed /\ OneAsked /\ Reasoning \cup scores \cup gone = {}
         /\ (Known \cup (chosen \X Sources)) \cap (Reasoners \X Sources) = {}

Interchangeable == Permutations(Ops) \cup Permutations(Sources)
================================================================================
