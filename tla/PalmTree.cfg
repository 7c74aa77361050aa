SPECIFICATION Spec
CONSTANTS
  N = 4
  Fanout = 2
  InOrder = FALSE
  Faulty = TRUE
  SendSuspends = FALSE
INVARIANTS
  TypeOK
  SingleParent
  ForwardsToChildren
  Acyclic
PROPERTIES
  GrowsForest
