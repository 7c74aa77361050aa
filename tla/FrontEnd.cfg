SPECIFICATION FairSpec
CONSTANTS
  Msgs = {m1, m2, m3, m4}
  MaxBuffer = 2
  MaxTransports = 2
INVARIANTS NothingLost OneOwner
PROPERTIES OldestDropped TasksEnd
