SPECIFICATION FairSpec
CONSTANTS
  NFiles = 3
  InitialCount = 2
  Size <- SizesChunked
  ChunkLen = 2
  SockBuf = 3
  Asserts = FALSE
  Faulty = TRUE
  Interactive = TRUE
INVARIANTS ContentIntegrity SeekWithinOneChunk EndFlagMeansComplete CompletedMeansSent
PROPERTIES NothingAfterEnd TransferEnds AllDelivered
