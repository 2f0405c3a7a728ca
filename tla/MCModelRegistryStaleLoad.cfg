CONSTANTS
  n1 = n1
  n2 = n2
  s1 = s1
  s2 = s2
  o1 = o1
  o2 = o2
  NoSource = NoSource
  Names <- OneName
  Sources <- OneSource
  Reasoners <- NoReasoner
  Ops <- TwoOps
  Kinds <- Toggling
  Faults = FALSE
SPECIFICATION HistorySpec
INVARIANTS
  MemoryMirrorsTable
