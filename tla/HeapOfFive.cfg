SPECIFICATION HeapSpec
CONSTANTS
  Sessions = {s1, s2, s3, s4}
  InitialCapacity = 1
  MaxEntries = 5
INVARIANTS
  WithinCapacity
PROPERTIES
  AddingKeepsOrder
  OthersStay
