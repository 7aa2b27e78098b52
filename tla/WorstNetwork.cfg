SPECIFICATION Spec
CONSTANTS
  SeqSpace = 1000000
  NameLen = 8
  Lossy = TRUE
  Duplicating = TRUE
  Ordered = FALSE
  Delayed = TRUE
  NumChunks = 2
  LastLen = 300
  ReadErrors = FALSE
  StaleErrnos = {0, 22}
  GarbageCodecs = {0}
  SizeSpace = 1073741824
  SocketErrors = {111}
  MaxToServer = 4
  MaxToClient = 2
CONSTRAINT FewInFlight
INVARIANTS
  IInv
  PlayedInOrder
  ConfigurationFirst
  StreamIndex
  AcksAreOfSent
  ChunksAreAsked
PROPERTIES
  OnlyResetsAfterReset
  ImplementsAnyStream
CHECK_DEADLOCK FALSE
