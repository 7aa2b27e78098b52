SPECIFICATION FairSpec
CONSTANTS
  NumElements = 6
  SourceFails = TRUE
  LongMax = 3
  Pulls = {1, 2, 3}
  MaxPulled = 7
  Mappings = {"f", "g"}
  MaxFlows = 3
INVARIANTS
  NotReentrant
  DemandIsMet
  NothingIsLost
  MappedInOrder
PROPERTIES
  SilentWhenClosed
  ImplementsOnDemand
  CallbacksReturn
CHECK_DEADLOCK FALSE
