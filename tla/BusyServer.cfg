SPECIFICATION FairSpec
CONSTANTS
  Sessions = {s1, s2, s3}
  Addrs <- Collision
  InitialCapacity = 1
  MaxEntries = 4
  SessionTimeout = 1
  MaxTime = 3
INVARIANTS
  SessionsAreWatched
  ChainsHoldSessions
PROPERTIES
  NeverTimedOutEarly
  SessionsAreForgotten
CHECK_DEADLOCK FALSE
