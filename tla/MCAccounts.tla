------------------------------ MODULE MCAccounts ------------------------------
(* Small instances of Accounts for TLC. *)
EXTENDS Accounts, TLC

CONSTANTS alice, bob, u1, u2, tok, l1, l2, r1

TwoEmails == {alice, bob}
OneEmail == {alice}
TwoIds == {u1, u2}
OneId == {u1}
OneToken == {tok}
TwoLogins == {l1, l2}
OneLogin == {l1}
OneRequest == {r1}

Interchangeable ==
  Permutations(Emails) \cup Permutations(Ids) \cup Permutations(Logins)

(* Bound: discovery that succeeds at the second attempt is not followed    *)
(* further; once a token has been created, one login at a time, and none   *)
(* once it is revoked.                                                     *)
UnderWay == Cardinality({l \in Logins : login[l] # Idle})

Bounded ==
  /\ oauth # "none" => attempts = 0
  /\ \A t \in Tokens : tokens[t] # NoToken => UnderWay <= IF tokens[t].revoked THEN 0 ELSE 1
================================================================================
