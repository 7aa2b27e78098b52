SPECIFICATION Spec
CONSTANTS
  NumAddresses = 3
  NumChunks = 5
  Short = {5}
  Descriptors = {3, 4, 5}
INVARIANTS
  DescriptorsAreHeld
  ReceivesFromSocket
  PlayedUnbroken
  CrashesAfterFailedWrite
  OnePullAhead
CHECK_DEADLOCK FALSE
