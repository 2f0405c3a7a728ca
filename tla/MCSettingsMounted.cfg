CONSTANTS
  r1 = r1
  limit = limit
  switch = switch
  key = key
  r2 = r2
  NoFile = NoFile
  Requests <- OneRequest
  Registry <- LimitAndSwitch
  KeyVars <- Key
  KindOf <- FieldKinds
  Default <- FieldDefaults
  Values <- SomeValues
  Inherited <- NothingInherited
  Handmade <- NoLines
  Mounted = TRUE
  Faults = FALSE
SPECIFICATION Spec
INVARIANTS
  ChangesPersist
