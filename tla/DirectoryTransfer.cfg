SPECIFICATION Spec
CONSTANTS
  Transfer <- Senders
  DirName <- Names
  Tree <- Trees
  Builds <- Platforms
  SavedFiles <- Saved
  SockBuf = 2
  AckBuf = 1
  MaxBreaks = 1
  MaxGone = 1
INVARIANTS Intact SentMeansStored
PROPERTIES NothingOverwritten Ends
CHECK_DEADLOCK FALSE
