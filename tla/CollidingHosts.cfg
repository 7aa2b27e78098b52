SPECIFICATION Spec
CONSTANTS
  Sessions = {s1, s2, s3}
  Addrs <- Collision
  InitialCapacity = 1
  MaxEntries = 4
  SessionTimeout = 2
  MaxTime = 4
INVARIANTS
  SessionsAreOfTheirAddress
CHECK_DEADLOCK FALSE
