SPECIFICATION Spec
CONSTANTS
  Sessions = {s1, s2, s3}
  Files = {a, b, c}
  Descriptors = {4, 5, 6}
INVARIANTS
  StreamsItsFile
