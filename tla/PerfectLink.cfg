SPECIFICATION FairSpec
CONSTANTS
  SeqSpace = 1000000
  NameLen = 8
  Lossy = FALSE
  Duplicating = FALSE
  Ordered = TRUE
  Delayed = FALSE
  NumChunks = 12
  LastLen = 300
  ReadErrors = FALSE
  StaleErrnos = {0, 22}
  GarbageCodecs = {0}
  SizeSpace = 1073741824
  SocketErrors = {}
PROPERTIES
  ImplementsStream
  StreamCompletes
CHECK_DEADLOCK FALSE
