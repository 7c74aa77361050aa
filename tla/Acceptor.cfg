SPECIFICATION FairSpec
CONSTANTS
  Conns = {c1, c2}
  Kinds = {"basic", "stream", "otm", "unknown"}
  CloseWakes = TRUE
INVARIANTS HandlersOutlived
PROPERTIES NoDeafListener HandshakeResolved ExitEnds
