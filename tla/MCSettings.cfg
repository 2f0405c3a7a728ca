CONSTANTS
  r1 = r1
  r2 = r2
  limit = limit
  switch = switch
  key = key
  NoFile = NoFile
  Requests <- TwoRequests
  Registry <- Limit
  KeyVars <- Key
  KindOf <- LimitKind
  Default <- LimitDefault
  Values <- FewValues
  Inherited <- NothingInherited
  Handmade <- EmptyOrKey
  Mounted = FALSE
  Faults = TRUE
CONSTRAINT Bounded
SYMMETRY Interchangeable
SPECIFICATION Spec
INVARIANTS
  TypeOK
  FileKeepsPromises
  RestartChangesNothing
PROPERTY UnaskedLinesStay
