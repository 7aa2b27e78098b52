SPECIFICATION FairSpec
CONSTANTS
  SeqSpace = 1000000
  NameLen = 8
  Lossy = FALSE
  Duplicating = FALSE
  Ordered = TRUE
  Delayed = FALSE
  NumChunks = 2
  LastLen = 300
  ReadErrors = FALSE
  StaleErrnos = {0, 22}
  GarbageCodecs = {0}
  SizeSpace = 1073741824
  SocketErrors = {}
INVARIANTS
  RefusalIsTold
CHECK_DEADLOCK FALSE
