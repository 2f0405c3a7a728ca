------------------------------ MODULE MCOperations ------------------------------
(* Small instances of Operations for TLC. *)
EXTENDS Operations, TLC

CONSTANTS m1, m2, r1, r2

TwoModels == {m1, m2}
OneList == {<<m1, m2>>}

TwoRuns == {r1, r2}
================================================================================
