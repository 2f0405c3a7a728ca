CONSTANTS
  n1 = n1
  n2 = n2
  s1 = s1
  o1 = o1
  g1 = g1
  p1 = p1
  NoSource = NoSource
  NoModel = NoModel
  Names <- TwoNames
  Sources <- OneSource
  Reasoners <- NoReasoner
  Ops <- OneOp
  Kinds <- Retiring
  Faults = FALSE
  Callers <- OneCaller
  Prompts <- OnePrompt
  DefaultModel = n1
  MetaModel = MetaModel
  MetaFails = TRUE
  MaxRows = 1
SPECIFICATION RoutingSpec
INVARIANTS
  RoutingTypeOK
  RemembersUsable
  RowsNameAnswerer
PROPERTIES
  CallsOnlyEnabled
