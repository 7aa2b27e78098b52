SPECIFICATION SharedSpec
CONSTANTS
  Sessions = {s1, s2, s3}
  Files = {f, g}
  Descriptors = {4, 5}
  Addrs <- Ports
  Timer = Timer
INVARIANTS
  DescriptorsAreOwned
PROPERTIES
  ImplementsSessions
SYMMETRY Interchangeable
