SPECIFICATION FairSpec
CONSTANTS
  N = 5
  Fanout = 5
  InOrder = TRUE
  Faulty = FALSE
  SendSuspends = TRUE
PROPERTIES
  Spanning
