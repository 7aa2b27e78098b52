SPECIFICATION Spec
CONSTANTS
  SeqSpace = 1000000
  NameLen = 1
  Lossy = FALSE
  Duplicating = FALSE
  Ordered = FALSE
  Delayed = TRUE
  NumChunks = 2
  LastLen = 300
  ReadErrors = TRUE
  StaleErrnos = {0, 22}
  GarbageCodecs = {0}
  MaxPeerSeq = 7
INVARIANTS
  NothingSkipped
  FinAfterLast
PROPERTIES
  StreamsAdvance
CHECK_DEADLOCK FALSE
