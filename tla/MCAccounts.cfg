CONSTANTS
  alice = alice
  bob = bob
  u1 = u1
  u2 = u2
  tok = tok
  l1 = l1
  l2 = l2
  r1 = r1
  ApiKey = ApiKey
  NoUser = NoUser
  NoToken = NoToken
  Idle = Idle
  Emails <- TwoEmails
  Ids <- TwoIds
  Tokens <- OneToken
  Logins <- TwoLogins
  Requests <- OneRequest
  MaxRetries = 2
  Faults = TRUE
CONSTRAINT Bounded
SYMMETRY Interchangeable
SPECIFICATION Spec
INVARIANTS
  TypeOK
  SomebodyAdministers
  RolesAsGranted
