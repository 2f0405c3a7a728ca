CONSTANTS
  openai = openai
  local = local
  v1 = v1
  k1 = k1
  t1 = t1
  q1 = q1
  NoVar = NoVar
  NoKey = NoKey
  Absent = Absent
  Unreadable = Unreadable
  NoTest = NoTest
  Names <- TheNames
  DefaultName = openai
  Vars <- OneVar
  DefaultVar = v1
  ProviderVars <- OneVar
  OverrideVars <- Optional
  Keys <- OneKey
  KeyRequests <- OneRequest
  Tests <- OneTest
  Mounted = TRUE
  Faults = TRUE
CONSTRAINT Bounded
SPECIFICATION Spec
INVARIANTS
  TypeOK
  RestartKeepsProviders
  ClientFollows
  CallsSendCurrentKeys
  ResultsHaveProvider
