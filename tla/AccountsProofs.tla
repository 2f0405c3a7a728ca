---------------------------- MODULE AccountsProofs ----------------------------
(***************************************************************************)
(* Proofs about Accounts, for any numbers of emails, ids, tokens, logins   *)
(* and requests.  The inductive invariant Inv adds to the properties what  *)
(* a login under way has read: LoginsInv says which role and id follow     *)
(* from it.  It also has the primary key, by which what is done to an id   *)
(* is done to one account.                                                 *)
(***************************************************************************)
EXTENDS Accounts, TLAPS

(* What a login that is under way knows.                                   *)
Consistent(state) ==
  /\ state.pc = "count" => state.found = NoUser
  /\ state.found = NoUser => autoProvision
  /\ state.found = NoUser /\ state.pc = "upsert"
       => state.role = IF state.alone THEN "admin" ELSE "user"
  /\ state.found # NoUser => state.found = [id |-> state.id, role |-> state.role]

LoginsInv == \A l \in Logins : login[l] # Idle => Consistent(login[l])

Inv == TypeOK /\ LoginsInv /\ OneAccountPerId /\ RolesAsGranted /\ SomebodyAdministers

-------------------------------------------------------------------------------
(* Whom the middleware lets in, under which identity.                      *)
LEMMA CallerType ==
  ASSUME TypeOK, NEW credential \in sessions \cup Tokens \cup {ApiKey},
         identifyCaller(credential).level # "public"
  PROVE  identifyCaller(credential).by \in Ids \cup {ApiKey}
<1> DEFINE row == IF credential \in Tokens THEN GetUserByAPIToken(credential)
                  ELSE users[credential]
<1>1. CASE credential = ApiKey
  BY <1>1 DEF identifyCaller
<1>2. CASE credential # ApiKey /\ row = NoUser
  BY <1>2 DEF identifyCaller
<1>3. CASE credential # ApiKey /\ row # NoUser
  <2>1. identifyCaller(credential).by = row.id
    BY <1>3 DEF identifyCaller
  <2>2. row \in Accounts
    <3>1. CASE credential \in Tokens
      <4>1. row = GetUserByAPIToken(credential)
        BY <3>1
      <4> DEFINE id == tokens[credential].owner
      <4>2. row = GetUserByID(id)
        BY <1>3, <4>1 DEF GetUserByAPIToken
      <4>3. /\ \E e \in Registered : users[e].id = id
            /\ row = users[CHOOSE e \in Registered : users[e].id = id]
        BY <1>3, <4>2 DEF GetUserByID
      <4> DEFINE f == CHOOSE e \in Registered : users[e].id = id
      <4>4. f \in Registered
        BY <4>3
      <4> QED BY <4>3, <4>4 DEF TypeOK, Registered
    <3>2. CASE credential \notin Tokens
      <4>1. credential \in Emails /\ row = users[credential]
        BY <1>3, <3>2 DEF TypeOK
      <4> QED BY <1>3, <4>1 DEF TypeOK
    <3> QED BY <3>1, <3>2
  <2> QED BY <2>1, <2>2 DEF Accounts
<1> QED BY <1>1, <1>2, <1>3

(* Steps that leave the accounts and the logins alone.                     *)
LEMMA QuietInv ==
  ASSUME Inv, TypeOK', UNCHANGED <<autoProvision, users, login, history>>
  PROVE  Inv'
<1>1. LoginsInv'
  BY DEF Inv, LoginsInv, Consistent
<1>2. OneAccountPerId'
  BY DEF Inv, OneAccountPerId, Registered
<1>3. RolesAsGranted' /\ SomebodyAdministers'
  BY DEF Inv, RolesAsGranted, SomebodyAdministers, AdminIn, Registered, history
<1> QED BY <1>1, <1>2, <1>3 DEF Inv

(* Discovery succeeds or fails; no account is read or written. *)
LEMMA DiscoveryInv ==
  ASSUME Inv, Discovery
  PROVE  Inv'
<1>1. TypeOK'
  BY AccountsAssumption DEF Discovery, DiscoveryFails, DiscoverySucceeds, finalizeOAuth,
     history, Inv, TypeOK
<1>2. UNCHANGED <<autoProvision, users, login, history>>
  BY DEF Discovery, DiscoveryFails, DiscoverySucceeds, finalizeOAuth
<1> QED BY <1>1, <1>2, QuietInv

(* Logging out only closes the session. *)
LEMMA LogoutInv ==
  ASSUME Inv, NEW e \in Emails, handleAuthLogout(e)
  PROVE  Inv'
<1>1. TypeOK'
  BY DEF handleAuthLogout, history, Inv, TypeOK
<1> QED BY <1>1, QuietInv DEF handleAuthLogout

(* Requests that do not touch the accounts.                                *)
LEMMA OtherRequestsInv ==
  ASSUME Inv, NEW r \in Requests,
         \/ \E credential \in sessions \cup Tokens \cup {ApiKey} : authMiddleware(r, credential)
         \/ \E t \in Tokens : handleCreateToken(r, t) \/ handleRevokeToken(r, t)
         \/ EndRequest(r)
  PROVE  Inv'
<1>1. ASSUME NEW credential \in sessions \cup Tokens \cup {ApiKey}, authMiddleware(r, credential)
      PROVE  Inv'
  <2> DEFINE caller == identifyCaller(credential)
  <2>1. /\ request' = [request EXCEPT ![r] = [by |-> caller.by, admin |-> caller.level = "admin"]]
        /\ caller.level # "public"
        /\ UNCHANGED <<oauth, attempts, autoProvision, users, tokens, sessions, login, history>>
    BY <1>1 DEF authMiddleware
  <2>2. caller.by \in Ids \cup {ApiKey}
    BY <2>1, CallerType DEF Inv
  <2> HIDE DEF caller
  <2>3. [by |-> caller.by, admin |-> caller.level = "admin"] \in RequestStates
    BY <2>2 DEF RequestStates
  <2>4. TypeOK'
    BY <2>1, <2>3 DEF Inv, TypeOK, history
  <2> QED BY <2>1, <2>4, QuietInv
<1>2. ASSUME NEW t \in Tokens, handleCreateToken(r, t) PROVE Inv'
  <2>1. [owner |-> request[r].by, revoked |-> FALSE] \in TokenRows
    BY <1>2 DEF handleCreateToken, Inv, TypeOK, RequestStates, TokenRows
  <2>2. TypeOK'
    BY <1>2, <2>1 DEF handleCreateToken, Inv, TypeOK, history
  <2> QED BY <1>2, <2>2, QuietInv DEF handleCreateToken
<1>3. ASSUME NEW t \in Tokens, handleRevokeToken(r, t) PROVE Inv'
  <2>1. [owner |-> tokens[t].owner, revoked |-> TRUE] \in TokenRows
    BY <1>3 DEF handleRevokeToken, Inv, TypeOK, TokenRows
  <2>2. TypeOK'
    BY <1>3, <2>1 DEF handleRevokeToken, Inv, TypeOK, history
  <2> QED BY <1>3, <2>2, QuietInv DEF handleRevokeToken
<1>4. CASE EndRequest(r)
  <2>1. TypeOK'
    BY <1>4 DEF EndRequest, Inv, TypeOK, history
  <2> QED BY <1>4, <2>1, QuietInv DEF EndRequest
<1> QED BY <1>1, <1>2, <1>3, <1>4
-------------------------------------------------------------------------------
(* A login that goes on, begins or ends, and leaves the accounts alone.    *)
LEMMA LoginGoesOn ==
  ASSUME Inv, NEW l \in Logins, NEW state \in LoginStates \cup {Idle},
         login' = [login EXCEPT ![l] = state],
         state # Idle => Consistent(state),
         UNCHANGED <<oauth, attempts, autoProvision, users, tokens, sessions, request, history>>
  PROVE  Inv'
<1>1. TypeOK'
  BY DEF Inv, TypeOK, history
<1>2. \A m \in Logins : login'[m] = IF m = l THEN state ELSE login[m]
  BY DEF Inv, TypeOK
<1>3. LoginsInv'
  BY <1>2 DEF Inv, LoginsInv, Consistent
<1>4. OneAccountPerId'
  BY DEF Inv, OneAccountPerId, Registered
<1>5. RolesAsGranted' /\ SomebodyAdministers'
  BY DEF Inv, RolesAsGranted, SomebodyAdministers, AdminIn, Registered, history
<1> QED BY <1>1, <1>3, <1>4, <1>5 DEF Inv

(* A login that begins has the account it found, or has drawn an id. *)
LEMMA CallbackInv ==
  ASSUME Inv, NEW l \in Logins, NEW e \in Emails, NEW id \in Ids, Callback(l, e, id)
  PROVE  Inv'
<1>1. ASSUME users[e] # NoUser,
             login' = [login EXCEPT ![l] = [pc |-> "upsert", email |-> e, found |-> users[e],
                         alone |-> FALSE, id |-> users[e].id, role |-> users[e].role]]
      PROVE  Inv'
  <2> DEFINE state == [pc |-> "upsert", email |-> e, found |-> users[e],
                       alone |-> FALSE, id |-> users[e].id, role |-> users[e].role]
  <2>1. users[e] \in Accounts /\ e \in Registered
    BY <1>1 DEF Inv, TypeOK, Registered
  <2>2. state \in LoginStates
    BY <2>1 DEF LoginStates, Accounts
  <2>3. users[e] = [id |-> users[e].id, role |-> users[e].role]
    BY <2>1 DEF Accounts
  <2>4. Consistent(state)
    BY <1>1, <2>3 DEF Consistent
  <2> HIDE DEF state
  <2>5. login' = [login EXCEPT ![l] = state]
    BY <1>1 DEF state
  <2> QED BY <2>2, <2>4, <2>5, LoginGoesOn DEF Callback
<1>2. ASSUME autoProvision,
             login' = [login EXCEPT ![l] = [pc |-> "count", email |-> e, found |-> NoUser,
                         alone |-> FALSE, id |-> id, role |-> "user"]]
      PROVE  Inv'
  <2> DEFINE state == [pc |-> "count", email |-> e, found |-> NoUser,
                       alone |-> FALSE, id |-> id, role |-> "user"]
  <2>1. state \in LoginStates
    BY DEF LoginStates, Roles
  <2>2. Consistent(state)
    BY <1>2 DEF Consistent
  <2> HIDE DEF state
  <2>3. login' = [login EXCEPT ![l] = state]
    BY <1>2 DEF state
  <2> QED BY <2>1, <2>2, <2>3, LoginGoesOn DEF Callback
<1>3. PICK found \in {users[e]} \cup IF Faults THEN {NoUser} ELSE {} :
        IF found # NoUser
        THEN login' = [login EXCEPT ![l] = [pc |-> "upsert", email |-> e, found |-> found,
                                            alone |-> FALSE, id |-> found.id, role |-> found.role]]
        ELSE /\ autoProvision
             /\ login' = [login EXCEPT ![l] = [pc |-> "count", email |-> e, found |-> NoUser,
                                               alone |-> FALSE, id |-> id, role |-> "user"]]
  BY DEF Callback
<1>4. CASE found # NoUser
  <2>1. found = users[e]
    BY <1>3, <1>4
  <2> QED BY <1>1, <1>3, <1>4, <2>1
<1>5. CASE found = NoUser
  BY <1>2, <1>3, <1>5
<1> QED BY <1>4, <1>5

(* What a login counts decides the role it will write. *)
LEMMA CountInv ==
  ASSUME Inv, NEW l \in Logins, Count(l)
  PROVE  Inv'
<1>1. PICK alone \in {Registered = {}} \cup IF Faults THEN {TRUE} ELSE {} :
        login' = [login EXCEPT ![l] = [pc |-> "upsert", email |-> login[l].email,
                                       found |-> NoUser, alone |-> alone, id |-> login[l].id,
                                       role |-> IF alone THEN "admin" ELSE "user"]]
  BY DEF Count
<1> DEFINE role == IF alone THEN "admin" ELSE "user"
           state == [pc |-> "upsert", email |-> login[l].email, found |-> NoUser,
                     alone |-> alone, id |-> login[l].id, role |-> role]
<1>2. login[l] \in LoginStates /\ login[l].found = NoUser /\ autoProvision
  BY DEF Count, Inv, TypeOK, LoginsInv, Consistent
<1>3. alone \in BOOLEAN
  OBVIOUS
<1>4. role \in Roles
  BY DEF Roles
<1>5. state \in LoginStates
  BY <1>2, <1>3, <1>4 DEF LoginStates
<1>6. login' = [login EXCEPT ![l] = state]
  BY <1>1
<1>7. Consistent(state)
  BY <1>2 DEF Consistent
<1> HIDE DEF state
<1> QED BY <1>5, <1>6, <1>7, LoginGoesOn DEF Count

(* A failed upsert leaves the account as it was, and the login ends. *)
LEMMA UpsertFailsInv ==
  ASSUME Inv, NEW l \in Logins, UpsertFails(l)
  PROVE  Inv'
BY LoginGoesOn DEF UpsertFails
-------------------------------------------------------------------------------
(* One row has been written: with the id it had, or with one no row has.   *)
LEMMA KeyWritten ==
  ASSUME Inv, NEW e \in Emails, NEW a \in Accounts \cup {NoUser},
         users' = [users EXCEPT ![e] = a],
         a # NoUser => IF users[e] = NoUser THEN ~KeyTaken(e, a.id) ELSE a.id = users[e].id
  PROVE  OneAccountPerId'
<1>1. \A f \in Emails : users'[f] = IF f = e THEN a ELSE users[f]
  BY DEF Inv, TypeOK
<1>2. ASSUME a # NoUser, NEW f \in Registered, users[f].id = a.id PROVE f = e
  <2>1. users[e] # NoUser
    BY <1>2 DEF KeyTaken
  <2> QED BY <1>2, <2>1 DEF Inv, OneAccountPerId, Registered
<1> QED BY <1>1, <1>2 DEF Inv, OneAccountPerId, Registered

(* The upsert gives an account the id and role the login read. *)
LEMMA UpsertInv ==
  ASSUME Inv, NEW l \in Logins, Upsert(l)
  PROVE  Inv'
<1> DEFINE state == login[l]
           e == state.email
           a == [id |-> IF users[e] = NoUser THEN state.id ELSE users[e].id, role |-> state.role]
<1>1. /\ state # Idle /\ state.pc = "upsert"
      /\ ~KeyTaken(e, state.id) /\ users' = [users EXCEPT ![e] = a]
      /\ sessions' = sessions \cup {e}
      /\ login' = [login EXCEPT ![l] = Idle]
      /\ granted' = [granted EXCEPT ![e] = GrantedAtLogin(e)]
      /\ stale' = IF UpToDate(state) THEN stale ELSE stale \cup {e}
      /\ yielded' = (yielded \/ ~UpToDate(state))
      /\ UNCHANGED <<oauth, attempts, autoProvision, tokens, request>>
  BY DEF Upsert, UpsertUser
<1>2. state \in LoginStates
  BY <1>1 DEF Inv, TypeOK
<1>3. e \in Emails /\ state.id \in Ids /\ state.role \in Roles
  BY <1>2 DEF LoginStates
<1>4. a \in Accounts
  <2>1. users[e] # NoUser => users[e].id \in Ids
    BY <1>3 DEF Inv, TypeOK, Accounts
  <2> QED BY <1>3, <2>1 DEF Accounts
<1>5. Consistent(state)
  BY <1>1 DEF Inv, LoginsInv
<1>6. a.role = state.role /\ a # NoUser
  BY <1>4, AccountsAssumption
<1>7. a.id = IF users[e] = NoUser THEN state.id ELSE users[e].id
  OBVIOUS
<1> HIDE DEF a
<1>8. GrantedAtLogin(e) \in Roles \cup {"none"}
  BY <1>3 DEF GrantedAtLogin, Roles, Inv, TypeOK
<1>9. TypeOK'
  <2>1. users' \in [Emails -> Accounts \cup {NoUser}]
    BY <1>1, <1>3, <1>4 DEF Inv, TypeOK
  <2>2. login' \in [Logins -> LoginStates \cup {Idle}]
    BY <1>1 DEF Inv, TypeOK
  <2>3. granted' \in [Emails -> Roles \cup {"none"}]
    BY <1>1, <1>3, <1>8 DEF Inv, TypeOK
  <2>4. stale' \subseteq Emails /\ sessions' \subseteq Emails
    BY <1>1, <1>3 DEF Inv, TypeOK
  <2>5. yielded' \in BOOLEAN
    BY <1>1 DEF Inv, TypeOK
  <2> QED BY <1>1, <2>1, <2>2, <2>3, <2>4, <2>5 DEF Inv, TypeOK
<1>10. \A m \in Logins : login'[m] \in {login[m], Idle}
  BY <1>1 DEF Inv, TypeOK
<1>11. LoginsInv'
  BY <1>1, <1>10 DEF Inv, LoginsInv, Consistent
<1>12. OneAccountPerId'
  BY <1>1, <1>3, <1>4, <1>7, KeyWritten
<1>13. \A f \in Emails : users'[f] = IF f = e THEN a ELSE users[f]
  BY <1>1 DEF Inv, TypeOK
<1>14. \A f \in Emails : granted'[f] = IF f = e THEN GrantedAtLogin(e) ELSE granted[f]
  BY <1>1 DEF Inv, TypeOK
<1>15. CASE UpToDate(state)
  <2>1. users[e] = state.found /\ (state.found = NoUser => state.alone = (Registered = {}))
    BY <1>15 DEF UpToDate
  <2>2. CASE state.found = NoUser
    <3>1. autoProvision /\ state.role = IF Registered = {} THEN "admin" ELSE "user"
      BY <1>1, <1>5, <2>1, <2>2 DEF Consistent
    <3>2. e \notin stale => granted[e] = "none"
      BY <1>3, <2>1, <2>2 DEF Inv, RolesAsGranted
    <3>3. e \notin stale => GrantedAtLogin(e) = state.role
      BY <3>1, <3>2 DEF GrantedAtLogin
    <3>4. RolesAsGranted'
      BY <1>1, <1>6, <1>13, <1>14, <1>15, <3>3 DEF Inv, RolesAsGranted
    <3>5. ASSUME Registered = {} PROVE SomebodyAdministers'
      <4>1. a # NoUser /\ a.role = "admin" /\ a.id \in Ids
        BY <1>4, <1>6, <3>1, <3>5 DEF Accounts
      <4> QED BY <1>3, <1>13, <4>1 DEF SomebodyAdministers, AdminIn
    <3>6. ASSUME Registered # {} PROVE SomebodyAdministers'
      <4>1. yielded \/ \E id \in Ids : AdminIn(users, id)
        BY <3>6 DEF Inv, SomebodyAdministers
      <4>2. ASSUME NEW id \in Ids, AdminIn(users, id) PROVE AdminIn(users', id)
        <5>1. PICK f \in Emails : users[f] # NoUser /\ users[f].id = id /\ users[f].role = "admin"
          BY <4>2 DEF AdminIn
        <5>2. f # e
          BY <2>1, <2>2, <5>1
        <5> QED BY <1>13, <5>1, <5>2 DEF AdminIn
      <4> QED BY <1>1, <4>1, <4>2 DEF SomebodyAdministers
    <3> QED BY <1>9, <1>11, <1>12, <3>4, <3>5, <3>6 DEF Inv
  <2>3. CASE state.found # NoUser
    <3>1. users[e] = [id |-> state.id, role |-> state.role] /\ users[e] # NoUser
      BY <1>5, <2>1, <2>3 DEF Consistent
    <3>2. a = users[e]
      BY <1>4, <1>6, <1>7, <3>1 DEF Accounts
    <3>3. \A f \in Emails : users'[f] = users[f]
      BY <1>13, <3>2
    <3>4. e \notin stale => granted[e] = state.role
      BY <1>3, <3>1 DEF Inv, RolesAsGranted
    <3>5. state.role # "none"
      BY <1>3 DEF Roles
    <3>6. e \notin stale => GrantedAtLogin(e) = granted[e]
      BY <3>4, <3>5 DEF GrantedAtLogin
    <3>7. RolesAsGranted'
      BY <1>1, <1>14, <1>15, <3>3, <3>6 DEF Inv, RolesAsGranted
    <3>8. SomebodyAdministers'
      BY <1>1, <3>3 DEF Inv, SomebodyAdministers, AdminIn, Registered
    <3> QED BY <1>9, <1>11, <1>12, <3>7, <3>8 DEF Inv
  <2> QED BY <2>2, <2>3
<1>16. CASE ~UpToDate(state)
  <2>1. RolesAsGranted'
    BY <1>1, <1>13, <1>14, <1>16 DEF Inv, RolesAsGranted
  <2>2. SomebodyAdministers'
    BY <1>1, <1>16 DEF SomebodyAdministers
  <2> QED BY <1>9, <1>11, <1>12, <2>1, <2>2 DEF Inv
<1> QED BY <1>15, <1>16
-------------------------------------------------------------------------------
(* What an administrator's request leaves behind, for one account e that   *)
(* it has given a, or for none.                                            *)
LEMMA AdminWroteInv ==
  ASSUME Inv, NEW r \in Requests, NEW e \in Emails, NEW a \in Accounts \cup {NoUser},
         NEW set \in SUBSET {e}, NEW role \in Roles \cup {"none"},
         request[r] # Idle, AdminWrote(r, set, role),
         users' = IF set = {} THEN users ELSE [users EXCEPT ![e] = a],
         a # NoUser => IF users[e] = NoUser THEN ~KeyTaken(e, a.id) ELSE a.id = users[e].id,
         role = IF a = NoUser THEN "none" ELSE a.role
  PROVE  Inv'
<1>1. /\ request' = [request EXCEPT ![r] = Idle]
      /\ granted' = [f \in Emails |-> IF f \in set THEN role ELSE granted[f]]
      /\ stale' = stale \ set
      /\ yielded' = (yielded \/ ~AdminIn(users', request[r].by))
      /\ UNCHANGED <<oauth, attempts, autoProvision, tokens, sessions, login>>
  BY DEF AdminWrote
<1>2. TypeOK'
  <2>1. users' \in [Emails -> Accounts \cup {NoUser}]
    BY DEF Inv, TypeOK
  <2>2. granted' \in [Emails -> Roles \cup {"none"}]
    BY <1>1 DEF Inv, TypeOK
  <2>3. request' \in [Requests -> RequestStates \cup {Idle}]
    BY <1>1 DEF Inv, TypeOK
  <2>4. stale' \subseteq Emails /\ yielded' \in BOOLEAN
    BY <1>1 DEF Inv, TypeOK
  <2> QED BY <1>1, <2>1, <2>2, <2>3, <2>4 DEF Inv, TypeOK
<1>3. LoginsInv'
  BY <1>1 DEF Inv, LoginsInv, Consistent
<1>4. OneAccountPerId'
  <2>1. CASE set = {}
    BY <2>1 DEF Inv, OneAccountPerId, Registered
  <2>2. CASE set # {}
    BY <2>2, KeyWritten
  <2> QED BY <2>1, <2>2
<1>5. RolesAsGranted'
  <2>1. \A f \in Emails : users'[f] = IF f \in set THEN a ELSE users[f]
    BY DEF Inv, TypeOK
  <2>2. \A f \in Emails : granted'[f] = IF f \in set THEN role ELSE granted[f]
    BY <1>1
  <2> QED BY <1>1, <2>1, <2>2 DEF Inv, RolesAsGranted
<1>6. SomebodyAdministers'
  <2>1. CASE AdminIn(users', request[r].by)
    <3>1. PICK f \in Emails : users'[f] # NoUser /\ users'[f].id = request[r].by
                              /\ users'[f].role = "admin"
      BY <2>1 DEF AdminIn
    <3>2. users'[f].id \in Ids
      BY <1>2, <3>1 DEF TypeOK, Accounts
    <3> QED BY <2>1, <3>1, <3>2 DEF SomebodyAdministers
  <2>2. CASE ~AdminIn(users', request[r].by)
    BY <1>1, <2>2 DEF SomebodyAdministers
  <2> QED BY <2>1, <2>2
<1> QED BY <1>2, <1>3, <1>4, <1>5, <1>6 DEF Inv

(* An account an admin adds has an id that no row has, or the one it had.  *)
LEMMA AddInv ==
  ASSUME Inv, NEW r \in Requests, NEW e \in Emails, NEW id \in Ids, NEW role \in Roles,
         handleAddLocalUser(r, e, id, role)
  PROVE  Inv'
<1> DEFINE a == [id |-> IF users[e] = NoUser THEN id ELSE users[e].id, role |-> role]
<1>1. /\ request[r] # Idle /\ users' = [users EXCEPT ![e] = a] /\ AdminWrote(r, {e}, role)
      /\ ~KeyTaken(e, id)
  BY DEF handleAddLocalUser, UpsertUser
<1>2. a \in Accounts
  BY DEF Inv, TypeOK, Accounts
<1>3. a # NoUser /\ a.role = role
  BY <1>2, AccountsAssumption
<1>4. a.id = IF users[e] = NoUser THEN id ELSE users[e].id
  OBVIOUS
<1> HIDE DEF a
<1>5. {e} \in SUBSET {e} /\ {e} # {}
  OBVIOUS
<1> QED BY <1>1, <1>2, <1>3, <1>4, <1>5, AdminWroteInv

(* At most one account has an id.                                          *)
LEMMA OneWithId ==
  ASSUME Inv, NEW id, WithId(id) # {}
  PROVE  \E e \in Emails : WithId(id) = {e} /\ users[e] # NoUser /\ users[e].id = id
<1>1. PICK e \in Registered : users[e].id = id
  BY DEF WithId
<1>2. WithId(id) = {e}
  BY <1>1 DEF WithId, Inv, OneAccountPerId
<1> QED BY <1>1, <1>2 DEF Registered

(* A request changes the account of an id, or deletes it.                  *)
LEMMA ChangeInv ==
  ASSUME Inv, NEW r \in Requests, NEW id \in Ids, NEW a \in Accounts \cup {NoUser},
         a # NoUser => a.id = id,
         NEW role \in Roles \cup {"none"}, role = IF a = NoUser THEN "none" ELSE a.role,
         request[r] # Idle, AdminWrote(r, WithId(id), role),
         users' = [e \in Emails |-> IF e \in WithId(id) THEN a ELSE users[e]]
  PROVE  Inv'
<1>1. CASE WithId(id) = {}
  <2>1. users' = users
    BY <1>1 DEF Inv, TypeOK
  <2>2. CASE \E e \in Emails : TRUE
    <3>1. PICK e \in Emails : TRUE
      BY <2>2
    <3>2. WithId(id) \in SUBSET {e}
      BY <1>1
    <3>3. NoUser \in Accounts \cup {NoUser}
      OBVIOUS
    <3>4. CASE a = NoUser
      BY <1>1, <2>1, <3>2, <3>4, AdminWroteInv
    <3>5. CASE a # NoUser
      <4>1. AdminWrote(r, WithId(id), "none")
        BY <1>1 DEF AdminWrote
      <4> QED BY <1>1, <2>1, <3>2, <3>3, <4>1, AdminWroteInv
    <3> QED BY <3>4, <3>5
  <2>3. CASE ~ \E e \in Emails : TRUE
    <3>1. Emails = {}
      BY <2>3
    <3>2. Registered' = {}
      BY <3>1 DEF Registered
    <3>3. SomebodyAdministers' /\ RolesAsGranted'
      BY <3>1, <3>2 DEF SomebodyAdministers, RolesAsGranted
    <3>4. UNCHANGED <<oauth, attempts, autoProvision, users, tokens, sessions, login>>
      BY <2>1 DEF AdminWrote
    <3>5. LoginsInv' /\ OneAccountPerId'
      BY <3>4 DEF Inv, LoginsInv, Consistent, OneAccountPerId, Registered
    <3>6. TypeOK'
      <4>1. request' \in [Requests -> RequestStates \cup {Idle}]
        BY DEF AdminWrote, Inv, TypeOK
      <4>2. granted' \in [Emails -> Roles \cup {"none"}] /\ stale' \subseteq Emails
            /\ yielded' \in BOOLEAN
        BY DEF AdminWrote, Inv, TypeOK
      <4> QED BY <3>4, <4>1, <4>2 DEF Inv, TypeOK
    <3> QED BY <3>3, <3>5, <3>6 DEF Inv
  <2> QED BY <2>2, <2>3
<1>2. CASE WithId(id) # {}
  <2>1. PICK e \in Emails : WithId(id) = {e} /\ users[e] # NoUser /\ users[e].id = id
    BY <1>2, OneWithId
  <2>2. users' = [users EXCEPT ![e] = a]
    BY <2>1 DEF Inv, TypeOK
  <2>3. WithId(id) \in SUBSET {e}
    BY <2>1
  <2> QED BY <1>2, <2>1, <2>2, <2>3, AdminWroteInv
<1> QED BY <1>1, <1>2

(* Whoever changes a role is an administrator still, or has yielded. *)
LEMMA ChangeUserRoleInv ==
  ASSUME Inv, NEW r \in Requests, NEW id \in Ids, NEW role \in Roles,
         handleChangeUserRole(r, id, role)
  PROVE  Inv'
<1> DEFINE a == [id |-> id, role |-> role]
<1>1. a \in Accounts
  BY DEF Accounts
<1>2. a # NoUser /\ a.id = id /\ a.role = role
  BY <1>1, AccountsAssumption
<1>3. /\ request[r] # Idle /\ AdminWrote(r, WithId(id), role)
      /\ users' = [e \in Emails |-> IF e \in WithId(id) THEN a ELSE users[e]]
  BY DEF handleChangeUserRole
<1> HIDE DEF a
<1> QED BY <1>1, <1>2, <1>3, ChangeInv

(* Whoever deletes an account is one still, or has yielded. *)
LEMMA DeleteUserInv ==
  ASSUME Inv, NEW r \in Requests, NEW id \in Ids, handleDeleteUser(r, id)
  PROVE  Inv'
<1>1. /\ request[r] # Idle /\ AdminWrote(r, WithId(id), "none")
      /\ users' = [e \in Emails |-> IF e \in WithId(id) THEN NoUser ELSE users[e]]
  BY DEF handleDeleteUser
<1> QED BY <1>1, ChangeInv

-------------------------------------------------------------------------------
(* A restart loses logins and requests, not accounts. *)
LEMMA RestartInv ==
  ASSUME Inv, Restart
  PROVE  Inv'
<1>1. /\ \A l \in Logins : login'[l] = Idle
      /\ UNCHANGED <<users, tokens, history>>
  BY DEF Restart
<1>2. TypeOK'
  <2>1. login' \in [Logins -> LoginStates \cup {Idle}]
        /\ request' \in [Requests -> RequestStates \cup {Idle}]
    BY DEF Restart
  <2>2. sessions' \subseteq Emails /\ autoProvision' \in BOOLEAN
    BY DEF Restart, Inv, TypeOK
  <2>3. oauth' = "none" /\ attempts' \in 0 .. MaxRetries
    BY AccountsAssumption DEF Restart
  <2> QED BY <1>1, <2>1, <2>2, <2>3 DEF Inv, TypeOK, history
<1>3. LoginsInv' /\ OneAccountPerId'
  BY <1>1 DEF Inv, LoginsInv, OneAccountPerId, Registered
<1>4. RolesAsGranted' /\ SomebodyAdministers'
  BY <1>1 DEF Inv, RolesAsGranted, SomebodyAdministers, AdminIn, Registered, history
<1> QED BY <1>2, <1>3, <1>4 DEF Inv

(* The server starts without accounts. *)
LEMMA InitInv == Init => Inv
<1> SUFFICES ASSUME Init PROVE Inv
  OBVIOUS
<1>1. TypeOK
  <2>1. granted \in [Emails -> Roles \cup {"none"}]
    BY DEF Init, Accounts
  <2>2. attempts \in 0 .. MaxRetries
    BY AccountsAssumption DEF Init
  <2> QED BY <2>1, <2>2 DEF Init, TypeOK
<1>2. LoginsInv /\ OneAccountPerId
  BY DEF Init, LoginsInv, OneAccountPerId
<1>3. RolesAsGranted /\ SomebodyAdministers
  BY DEF Init, RolesAsGranted, SomebodyAdministers
<1> QED BY <1>1, <1>2, <1>3 DEF Inv

(* Every step keeps the invariant. *)
LEMMA StepInv == Inv /\ [Next]_vars => Inv'
<1> SUFFICES ASSUME Inv, [Next]_vars PROVE Inv'
  OBVIOUS
<1>1. CASE Discovery
  BY <1>1, DiscoveryInv
<1>2. ASSUME NEW l \in Logins, Login(l) PROVE Inv'
  BY <1>2, CallbackInv, CountInv, UpsertInv, UpsertFailsInv DEF Login
<1>3. ASSUME NEW e \in Emails, handleAuthLogout(e) PROVE Inv'
  BY <1>3, LogoutInv
<1>4. ASSUME NEW r \in Requests, Serve(r) PROVE Inv'
  <2>1. ASSUME NEW e \in Emails, NEW id \in Ids, NEW role \in Roles,
               handleAddLocalUser(r, e, id, role)
        PROVE  Inv'
    BY <2>1, AddInv
  <2>2. ASSUME NEW id \in Ids, NEW role \in Roles, handleChangeUserRole(r, id, role) PROVE Inv'
    BY <2>2, ChangeUserRoleInv
  <2>3. ASSUME NEW id \in Ids, handleDeleteUser(r, id) PROVE Inv'
    BY <2>3, DeleteUserInv
  <2>4. CASE \/ \E credential \in sessions \cup Tokens \cup {ApiKey} : authMiddleware(r, credential)
             \/ \E t \in Tokens : handleCreateToken(r, t) \/ handleRevokeToken(r, t)
             \/ EndRequest(r)
    BY <2>4, OtherRequestsInv
  <2> QED BY <1>4, <2>1, <2>2, <2>3, <2>4 DEF Serve
<1>5. CASE Restart
  BY <1>5, RestartInv
<1>6. CASE UNCHANGED vars
  <2>1. TypeOK'
    BY <1>6 DEF vars, history, Inv, TypeOK
  <2> QED BY <1>6, <2>1, QuietInv DEF vars, history
<1> QED BY <1>1, <1>2, <1>3, <1>4, <1>5, <1>6 DEF Next

(* The inductive invariant holds in every behaviour. *)
LEMMA Invariance == Spec => []Inv
BY InitInv, StepInv, PTL DEF Spec

-------------------------------------------------------------------------------
(* The state stays within its types; no more than MaxRetries attempts at   *)
(* discovery fail (discoverOIDCWithRetry).                                 *)
THEOREM TypeCorrect == Spec => []TypeOK
<1>1. Inv => TypeOK
  BY DEF Inv
<1> QED BY <1>1, Invariance, PTL

(* Accounts and roles are those that were given, except where a login was  *)
(* overtaken or could not read (handleAuthCallback).                       *)
THEOREM RolesKept == Spec => []RolesAsGranted
<1>1. Inv => RolesAsGranted
  BY DEF Inv
<1> QED BY <1>1, Invariance, PTL

(* While there are accounts, one is an administrator's, unless logins were *)
(* overtaken or administrators gave the role up.                           *)
THEOREM AdministratorStays == Spec => []SomebodyAdministers
<1>1. Inv => SomebodyAdministers
  BY DEF Inv
<1> QED BY <1>1, Invariance, PTL
===============================================================================
