CONSTANTS
  alice = alice
  bob = bob
  u1 = u1
  u2 = u2
  tok = tok
  l1 = l1
  l2 = l2
  r1 = r1
  ApiKey = ApiKey
  NoUser = NoUser
  NoToken = NoToken
  Idle = Idle
  Emails <- OneEmail
  Ids <- OneId
  Tokens <- OneToken
  Logins <- OneLogin
  Requests <- OneRequest
  MaxRetries = 2
  Faults = FALSE
SPECIFICATION Spec
INVARIANT LiveTokenAuthenticates
