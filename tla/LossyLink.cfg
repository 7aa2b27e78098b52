SPECIFICATION LossySpec
CONSTANTS
  SeqSpace = 1000000
  NameLen = 8
  Lossy = TRUE
  Duplicating = FALSE
  Ordered = FALSE
  Delayed = FALSE
  NumChunks = 3
  LastLen = 300
  ReadErrors = TRUE
  StaleErrnos = {0, 22}
  GarbageCodecs = {0, 255}
  SizeSpace = 1073741824
  SocketErrors = {111}
  SampleRate = 44100
  Garbage = {255}
INVARIANTS
  LossyInv
  ClientAcksSession
  StreamNeverStalls
  FieldsArrive
  PaddingFollowsFields
PROPERTIES
  PlayingEnds
CHECK_DEADLOCK FALSE
