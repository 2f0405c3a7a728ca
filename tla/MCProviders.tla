----------------------------- MODULE MCProviders -----------------------------
(* Small instances of Providers for TLC. *)
EXTENDS Providers, Integers, TLC

CONSTANTS openai, local, v1, k1, t1, q1

TheNames == {openai, local}
OneVar == {v1}
Optional == {v1, NoVar}
OneKey == {k1}
OneTest == {t1}
OneRequest == {q1}

(* Bounds: failed saves leave the client and the file behind with one      *)
(* provider at most, and one provider at most is or was tested.            *)
Behind(n) == client[n] # memory[n] \/ (file # Unreadable /\ file[n] # MarshalAll(memory)[n])

Bounded ==
  /\ Cardinality({n \in Names : Behind(n)}) <= 1
  /\ Cardinality((results \cup overtaken \cup {testing[t] : t \in Tests}) \ {NoTest}) <= 1
================================================================================
