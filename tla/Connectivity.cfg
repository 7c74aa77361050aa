SPECIFICATION FairSpec
CONSTANTS
  Peers = {p1}
  Copies = {x, y}
  MaxRemovals = 2
  Answering = {p1}
  PING_TIMEOUT = 2
  PING_TIME_CHECK_WINDOW = 1
  MaxAsk = 3
INVARIANTS SharesItsCheck OfflineShown NoLostWakeup
PROPERTIES FreshVerdict RemovalsEnd ExitEnds
