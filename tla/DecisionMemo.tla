----------------------------- MODULE DecisionMemo -----------------------------
(***************************************************************************)
(* What the router may assume of the routing decision cache: a memory that *)
(* may forget, but that never answers with anything other than the last    *)
(* decision recorded for the key it was asked about.  DecisionCache        *)
(* implements this module; Routing is built on it.                         *)
(***************************************************************************)
CONSTANTS Keys,     (* cache keys: hash of prompt and capability snapshot  *)
          Models,   (* model names a decision can name                     *)
          NoModel,  (* no decision                                         *)
          Callers   (* goroutines that ask for a routing decision          *)

VARIABLES memo,     (* memo[k]: the decision remembered for k, or NoModel  *)
          request   (* request[g]: where caller g is, and with what        *)

memoVars == <<memo, request>>

MemoInit ==
  /\ memo = [k \in Keys |-> NoModel]
  /\ \E k \in Keys :
       request = [g \in Callers |-> [pc |-> "idle", key |-> k, model |-> NoModel]]

Go(g, from, to, key, model) ==
  /\ request[g].pc = from
  /\ request' = [request EXCEPT ![g] = [pc |-> to, key |-> key, model |-> model]]

Ask(g, k) == Go(g, "idle", "looking", k, NoModel) /\ UNCHANGED memo

(* A hit: the caller returns with what is remembered. *)
Recall(g) ==
  LET k == request[g].key IN
  /\ memo[k] # NoModel
  /\ Go(g, "looking", "idle", k, memo[k])
  /\ UNCHANGED memo

(* A miss: nothing is remembered for the key from here on. *)
Forgotten(g) ==
  LET k == request[g].key IN
  /\ Go(g, "looking", "deciding", k, NoModel)
  /\ memo' = [memo EXCEPT ![k] = NoModel]

(* The meta-model gave no usable decision. *)
GiveUp(g) == Go(g, "deciding", "idle", request[g].key, NoModel) /\ UNCHANGED memo

(* The meta-model decided on m; it is about to be remembered, or (memory   *)
(* switched off) it is not going to be.                                    *)
Decided(g, m) ==
  /\ Go(g, "deciding", "storing", request[g].key, m) \/ Go(g, "deciding", "idle", request[g].key, m)
  /\ UNCHANGED memo

(* The decision is remembered; at most one other key is forgotten for it. *)
Record(g) ==
  LET k == request[g].key
      m == request[g].model
  IN  /\ Go(g, "storing", "idle", k, m)
      /\ \E lost \in {{}} \cup {{x} : x \in Keys \ {k}} :
           memo' = [x \in Keys |-> IF x = k THEN m
                                   ELSE IF x \in lost THEN NoModel ELSE memo[x]]

MemoNext ==
  \E g \in Callers :
    \/ \E k \in Keys : Ask(g, k)
    \/ Recall(g)
    \/ Forgotten(g)
    \/ GiveUp(g)
    \/ \E m \in Models : Decided(g, m)
    \/ Record(g)

MemoSpec == MemoInit /\ [][MemoNext]_memoVars
===============================================================================
