CONSTANTS
  n1 = n1
  n2 = n2
  s1 = s1
  s2 = s2
  o1 = o1
  o2 = o2
  NoSource = NoSource
  Names <- TwoNames
  Sources <- TwoSources
  Reasoners <- OneName
  Ops <- TwoOps
  Kinds <- AllKinds
  Faults = TRUE
CONSTRAINT Bounded
SYMMETRY Interchangeable
SPECIFICATION HistorySpec
INVARIANTS
  TypeOK
  TaggedOrChosen
  MirrorsUndisturbed
  DeletedUndisturbed
PROPERTIES
  CleansUndisturbed
