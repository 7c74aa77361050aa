SPECIFICATION Spec
CONSTANTS
  NFiles = 3
  InitialCount = 2
  Size <- SizesLong
  ChunkLen = 2
  SockBuf = 3
  Asserts = FALSE
  Faulty = FALSE
  Interactive = TRUE
INVARIANTS DataMappedToFile
