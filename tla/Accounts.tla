------------------------------- MODULE Accounts -------------------------------
(***************************************************************************)
(* Accounts (oauth_handlers.go, auth_middleware.go, auth_admin_handlers.go,*)
(* token_handlers.go and their statements in database.go): the table users,*)
(* which logins through the identity provider and administrators write,    *)
(* the cookies and the API tokens by which the middleware knows a caller,  *)
(* and the discovery of the identity provider.  Every statement is a step; *)
(* nothing holds a lock or a transaction over two of them.                 *)
(*                                                                         *)
(* Of an account the model keeps its id and its role, by its email.  The   *)
(* groups that a login stores and the audit log are tables that only the   *)
(* console shows.                                                          *)
(***************************************************************************)
EXTENDS Integers, FiniteSets

CONSTANTS Emails,
          Ids,         (* ids of accounts, of eight hexadecimal digits      *)
          Tokens,
          Logins,      (* goroutines of handleAuthCallback                  *)
          Requests,    (* goroutines that serve other requests              *)
          ApiKey,      (* X-API-Key, as a credential and as an identity     *)
          NoUser,      (* no row has that email                             *)
          NoToken,     (* the token has not been created                    *)
          Idle,        (* a goroutine that serves no request                *)
          MaxRetries,  (* attempts at discovery                             *)
          Faults       (* whether reading and writing users may fail        *)

(* handleAddLocalUser takes any text for a role.                           *)
Roles == {"admin", "user", "other"}

Accounts == [id : Ids, role : Roles]

(* found and alone: what the login has read of the account and of the      *)
(* table.                                                                  *)
LoginStates == [pc : {"count", "upsert"}, email : Emails, found : Accounts \cup {NoUser},
                alone : BOOLEAN, id : Ids, role : Roles]

RequestStates == [by : Ids \cup {ApiKey}, admin : BOOLEAN]

TokenRows == [owner : Ids, revoked : BOOLEAN]

ASSUME AccountsAssumption ==
  /\ ApiKey \notin Ids \cup Emails \cup Tokens
  /\ Emails \cap Tokens = {}
  /\ NoUser \notin Accounts /\ NoToken \notin TokenRows
  /\ Idle \notin LoginStates /\ Idle \notin RequestStates
  /\ MaxRetries \in Nat \ {0}
  /\ Faults \in BOOLEAN

VARIABLES oauth,       (* "none", "config" once s.oauthConfig is set,       *)
                       (* "ready" once s.oidcVerifier is                    *)
          attempts,    (* attempts at discovery that have failed            *)
          autoProvision, (* OAUTH_AUTO_PROVISION                            *)
          users,       (* table users, by email                             *)
          tokens,      (* table user_api_tokens                             *)
          sessions,    (* emails of the session cookies that are valid      *)
          login,       (* login[l]: what goroutine l has read               *)
          request,     (* request[r]: whom the middleware took r for        *)
          granted,     (* history: the role the account should have,        *)
                       (* "none" when there should be no account            *)
          stale,       (* history: accounts that a login has written from   *)
                       (* what was no longer, or never, so                  *)
          yielded      (* history: a login was stale, or an account was     *)
                       (* changed by one who is no administrator after it   *)

vars == <<oauth, attempts, autoProvision, users, tokens, sessions, login, request,
          granted, stale, yielded>>

history == <<granted, stale, yielded>>

TypeOK ==
  /\ oauth \in {"none", "config", "ready"}
  /\ attempts \in 0 .. MaxRetries
  /\ autoProvision \in BOOLEAN
  /\ users \in [Emails -> Accounts \cup {NoUser}]
  /\ tokens \in [Tokens -> TokenRows \cup {NoToken}]
  /\ sessions \subseteq Emails
  /\ login \in [Logins -> LoginStates \cup {Idle}]
  /\ request \in [Requests -> RequestStates \cup {Idle}]
  /\ granted \in [Emails -> Roles \cup {"none"}]
  /\ stale \subseteq Emails
  /\ yielded \in BOOLEAN

-------------------------------------------------------------------------------
Registered == {e \in Emails : users[e] # NoUser}

AdminIn(table, id) ==
  \E e \in Emails : table[e] # NoUser /\ table[e].id = id /\ table[e].role = "admin"

(* Columns of the table users, and those that GetUserByID selects.         *)
Columns == {"id", "email", "role", "groups_list"}
ColumnsByID == {"id", "email", "role", "groups"}

(* GetUserByID: a statement that names a column the table lacks fails, and *)
(* the callers take that for no user.                                      *)
GetUserByID(id) ==
  IF ColumnsByID \subseteq Columns /\ \E e \in Registered : users[e].id = id
  THEN users[CHOOSE e \in Registered : users[e].id = id]
  ELSE NoUser

GetUserByAPIToken(t) ==
  IF tokens[t] = NoToken \/ tokens[t].revoked THEN NoUser ELSE GetUserByID(tokens[t].owner)

(* identifyCaller: by the key, a token, or the email in a cookie.  The role*)
(* is read from the table at every request.                                *)
identifyCaller(credential) ==
  LET row == IF credential \in Tokens THEN GetUserByAPIToken(credential) ELSE users[credential]
  IN  IF credential = ApiKey THEN [level |-> "admin", by |-> ApiKey]
      ELSE IF row = NoUser THEN [level |-> "public", by |-> "anonymous"]
      ELSE [level |-> IF row.role = "admin" THEN "admin" ELSE "user", by |-> row.id]

-------------------------------------------------------------------------------
(* Wrong variant: one attempt more.                                        *)
DiscoveryRetried ==
  /\ oauth = "none" /\ attempts <= MaxRetries
  /\ attempts' = attempts + 1
  /\ UNCHANGED <<oauth, autoProvision, users, tokens, sessions, login, request, history>>

(* discoverOIDCWithRetry: after MaxRetries failures nothing tries again.   *)
DiscoveryFails ==
  /\ oauth = "none" /\ attempts < MaxRetries
  /\ attempts' = attempts + 1
  /\ UNCHANGED <<oauth, autoProvision, users, tokens, sessions, login, request, history>>

(* finalizeOAuth sets the two fields one after the other.                  *)
DiscoverySucceeds ==
  /\ oauth = "none" /\ attempts < MaxRetries
  /\ oauth' = "config"
  /\ UNCHANGED <<attempts, autoProvision, users, tokens, sessions, login, request, history>>

finalizeOAuth ==
  /\ oauth = "config"
  /\ oauth' = "ready"
  /\ UNCHANGED <<attempts, autoProvision, users, tokens, sessions, login, request, history>>

-------------------------------------------------------------------------------
(* Wrong variant: whether new users are wanted is not asked.               *)
CallbackUninvited(l, e, id) ==
  /\ oauth = "ready"
  /\ login[l] = Idle
  /\ \E found \in {users[e]} \cup IF Faults THEN {NoUser} ELSE {} :
       login' = [login EXCEPT ![l] =
                  IF found # NoUser
                  THEN [pc |-> "upsert", email |-> e, found |-> found,
                        alone |-> FALSE, id |-> found.id, role |-> found.role]
                  ELSE [pc |-> "count", email |-> e, found |-> NoUser,
                        alone |-> FALSE, id |-> id, role |-> "user"]]
  /\ UNCHANGED <<oauth, attempts, autoProvision, users, tokens, sessions, request, history>>

(* handleAuthCallback, once the state is checked and the identity provider *)
(* vouches for the email: GetUserByEmail, an error of which is taken for   *)
(* no user.                                                                *)
Callback(l, e, id) ==
  /\ oauth = "ready"
  /\ login[l] = Idle
  /\ \E found \in {users[e]} \cup IF Faults THEN {NoUser} ELSE {} :
       IF found # NoUser
       THEN login' = [login EXCEPT ![l] = [pc |-> "upsert", email |-> e, found |-> found,
                                           alone |-> FALSE, id |-> found.id, role |-> found.role]]
       ELSE /\ autoProvision
            /\ login' = [login EXCEPT ![l] = [pc |-> "count", email |-> e, found |-> NoUser,
                                              alone |-> FALSE, id |-> id, role |-> "user"]]
  /\ UNCHANGED <<oauth, attempts, autoProvision, users, tokens, sessions, request, history>>

(* Wrong variant: nobody is the first.                                     *)
CountNobody(l) ==
  /\ login[l] # Idle /\ login[l].pc = "count"
  /\ \E alone \in {Registered = {}} \cup IF Faults THEN {TRUE} ELSE {} :
       login' = [login EXCEPT ![l].pc = "upsert", ![l].alone = alone]
  /\ UNCHANGED <<oauth, attempts, autoProvision, users, tokens, sessions, request, history>>

(* GetUsers: the first user becomes the administrator.  An error is taken  *)
(* for an empty table.                                                     *)
Count(l) ==
  /\ login[l] # Idle /\ login[l].pc = "count"
  /\ \E alone \in {Registered = {}} \cup IF Faults THEN {TRUE} ELSE {} :
       login' = [login EXCEPT ![l] = [pc |-> "upsert", email |-> login[l].email,
                                      found |-> NoUser, alone |-> alone, id |-> login[l].id,
                                      role |-> IF alone THEN "admin" ELSE "user"]]
  /\ UNCHANGED <<oauth, attempts, autoProvision, users, tokens, sessions, request, history>>

(* Nobody has checked an id that was drawn: the id is the primary key, and *)
(* a row for an email that has none is refused if another row has its id.  *)
KeyTaken(e, id) == users[e] = NoUser /\ \E f \in Registered : users[f].id = id

(* UpsertUser: where the email has a row already, the row keeps its id and *)
(* takes the role.                                                         *)
UpsertUser(e, id, role) ==
  /\ ~KeyTaken(e, id)
  /\ users' = [users EXCEPT ![e] = [id |-> IF users[e] = NoUser THEN id ELSE users[e].id,
                                    role |-> role]]

(* What the login has read is what is so now.                              *)
UpToDate(state) ==
  /\ users[state.email] = state.found
  /\ state.found = NoUser => state.alone = (Registered = {})

(* The role of an account that a login finds, or provisions.               *)
GrantedAtLogin(e) ==
  IF granted[e] # "none" \/ ~autoProvision THEN granted[e]
  ELSE IF Registered = {} THEN "admin" ELSE "user"

(* The rest of handleAuthCallback: the row is written whole, and then the  *)
(* session begins.                                                         *)
Upsert(l) ==
  LET state == login[l]
      e == state.email
  IN  /\ state # Idle /\ state.pc = "upsert"
      /\ UpsertUser(e, state.id, state.role)
      /\ sessions' = sessions \cup {e}
      /\ login' = [login EXCEPT ![l] = Idle]
      /\ granted' = [granted EXCEPT ![e] = GrantedAtLogin(e)]
      /\ stale' = IF UpToDate(state) THEN stale ELSE stale \cup {e}
      /\ yielded' = (yielded \/ ~UpToDate(state))
      /\ UNCHANGED <<oauth, attempts, autoProvision, tokens, request>>

UpsertFails(l) ==
  /\ login[l] # Idle /\ login[l].pc = "upsert"
  /\ Faults \/ KeyTaken(login[l].email, login[l].id)
  /\ login' = [login EXCEPT ![l] = Idle]
  /\ UNCHANGED <<oauth, attempts, autoProvision, users, tokens, sessions, request, history>>

(* handleAuthLogout, or a cookie expires.                                  *)
handleAuthLogout(e) ==
  /\ e \in sessions
  /\ sessions' = sessions \ {e}
  /\ UNCHANGED <<oauth, attempts, autoProvision, users, tokens, login, request, history>>

-------------------------------------------------------------------------------
(* authMiddleware lets a caller in; what the level allows, requiredLevel,  *)
(* is a guard of the handlers below.                                       *)
authMiddleware(r, credential) ==
  LET caller == identifyCaller(credential)
  IN  /\ request[r] = Idle
      /\ caller.level # "public"
      /\ request' = [request EXCEPT ![r] = [by |-> caller.by, admin |-> caller.level = "admin"]]
      /\ UNCHANGED <<oauth, attempts, autoProvision, users, tokens, sessions, login, history>>

(* A request of an administrator that has written users: accounts in set   *)
(* should have that role now.                                              *)
AdminWrote(r, set, role) ==
  /\ request' = [request EXCEPT ![r] = Idle]
  /\ granted' = [e \in Emails |-> IF e \in set THEN role ELSE granted[e]]
  /\ stale' = stale \ set
  /\ yielded' = (yielded \/ ~AdminIn(users', request[r].by))
  /\ UNCHANGED <<oauth, attempts, autoProvision, tokens, sessions, login>>

handleAddLocalUser(r, e, id, role) ==
  /\ request[r] # Idle /\ request[r].admin
  /\ UpsertUser(e, id, role)
  /\ AdminWrote(r, {e}, role)

WithId(id) == {e \in Registered : users[e].id = id}

handleChangeUserRole(r, id, role) ==
  /\ request[r] # Idle /\ request[r].admin
  /\ role \in {"admin", "user"}
  /\ users' = [e \in Emails |-> IF e \in WithId(id) THEN [id |-> id, role |-> role] ELSE users[e]]
  /\ AdminWrote(r, WithId(id), role)

(* Tokens and cookies of the account stay.                                 *)
handleDeleteUser(r, id) ==
  /\ request[r] # Idle /\ request[r].admin
  /\ users' = [e \in Emails |-> IF e \in WithId(id) THEN NoUser ELSE users[e]]
  /\ AdminWrote(r, WithId(id), "none")

handleCreateToken(r, t) ==
  /\ request[r] # Idle /\ request[r].by # ApiKey
  /\ tokens[t] = NoToken
  /\ tokens' = [tokens EXCEPT ![t] = [owner |-> request[r].by, revoked |-> FALSE]]
  /\ request' = [request EXCEPT ![r] = Idle]
  /\ UNCHANGED <<oauth, attempts, autoProvision, users, sessions, login, history>>

(* RevokeUserAPIToken: a user's own, an administrator's any.               *)
handleRevokeToken(r, t) ==
  /\ request[r] # Idle
  /\ tokens[t] # NoToken
  /\ request[r].admin \/ request[r].by = tokens[t].owner
  /\ tokens' = [tokens EXCEPT ![t] = [owner |-> tokens[t].owner, revoked |-> TRUE]]
  /\ request' = [request EXCEPT ![r] = Idle]
  /\ UNCHANGED <<oauth, attempts, autoProvision, users, sessions, login, history>>

(* The request is refused, fails, or changes nothing.                      *)
EndRequest(r) ==
  /\ request[r] # Idle
  /\ request' = [request EXCEPT ![r] = Idle]
  /\ UNCHANGED <<oauth, attempts, autoProvision, users, tokens, sessions, login, history>>

(* Cookies are good for the next process if SESSION_SECRET is set; the     *)
(* configuration may have been edited.                                     *)
Restart ==
  /\ oauth' = "none" /\ attempts' = 0
  /\ autoProvision' \in BOOLEAN
  /\ sessions' \in {sessions, {}}
  /\ login' = [l \in Logins |-> Idle]
  /\ request' = [r \in Requests |-> Idle]
  /\ UNCHANGED <<users, tokens, history>>

-------------------------------------------------------------------------------
(* The primary key: what an administrator does to an id, and a token of    *)
(* its owner, concern one account.                                         *)
OneAccountPerId == \A e, f \in Registered : users[e].id = users[f].id => e = f

(* The table may hold accounts already, of which one is an administrator.  *)
Init ==
  /\ oauth = "none" /\ attempts = 0
  /\ autoProvision \in BOOLEAN
  /\ users \in [Emails -> Accounts \cup {NoUser}]
  /\ OneAccountPerId
  /\ Registered # {} => \E id \in Ids : AdminIn(users, id)
  /\ tokens = [t \in Tokens |-> NoToken]
  /\ sessions = {}
  /\ login = [l \in Logins |-> Idle]
  /\ request = [r \in Requests |-> Idle]
  /\ granted = [e \in Emails |-> IF users[e] = NoUser THEN "none" ELSE users[e].role]
  /\ stale = {}
  /\ yielded = FALSE

Discovery == DiscoveryFails \/ DiscoverySucceeds \/ finalizeOAuth

Login(l) ==
  \/ \E e \in Emails, id \in Ids : Callback(l, e, id)
  \/ Count(l)
  \/ Upsert(l)
  \/ UpsertFails(l)

Serve(r) ==
  \/ \E credential \in sessions \cup Tokens \cup {ApiKey} : authMiddleware(r, credential)
  \/ \E e \in Emails, id \in Ids, role \in Roles : handleAddLocalUser(r, e, id, role)
  \/ \E id \in Ids, role \in Roles : handleChangeUserRole(r, id, role)
  \/ \E id \in Ids : handleDeleteUser(r, id)
  \/ \E t \in Tokens : handleCreateToken(r, t) \/ handleRevokeToken(r, t)
  \/ EndRequest(r)

Next ==
  \/ Discovery
  \/ \E l \in Logins : Login(l)
  \/ \E e \in Emails : handleAuthLogout(e)
  \/ \E r \in Requests : Serve(r)
  \/ Restart

Spec == Init /\ [][Next]_vars

-------------------------------------------------------------------------------
(* There is an account exactly where an administrator or a login has made  *)
(* one that no administrator has deleted since, and its role is the one    *)
(* that was given last: "admin" to the first user, "user" to the ones who  *)
(* follow, whatever an administrator chose, and a login changes nothing    *)
(* (CHANGELOG.md:71, handleAuthCallback).  Except where a login has written*)
(* the row from what was not, or no longer, so.                            *)
RolesAsGranted ==
  \A e \in Emails \ stale :
     granted[e] = IF users[e] = NoUser THEN "none" ELSE users[e].role

(* Somebody can administer: while there are accounts, one of them is an    *)
(* administrator's, unless a login has overwritten one with what was not   *)
(* so, or accounts were changed with the key or by one who then was no     *)
(* administrator any more.                                                 *)
SomebodyAdministers ==
  Registered = {} \/ yielded \/ \E id \in Ids : AdminIn(users, id)

(* A token that was issued to an account that is there, and not revoked,   *)
(* identifies its owner (README.md:142).                                   *)
LiveTokenAuthenticates ==
  \A t \in Tokens :
    /\ tokens[t] # NoToken
    /\ ~tokens[t].revoked
    /\ \E e \in Registered : users[e].id = tokens[t].owner
    => identifyCaller(t).by = tokens[t].owner
===============================================================================
