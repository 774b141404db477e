CONSTANTS
  Instrument = {i1, i2}
  Price = {1}
  Quantity = {1}
  SnapshotDepth = 1
  BatchSize = 1
  MaxEvents = 1
  RecentLimit = 1
  CountModulus = 2
SPECIFICATION FairSpec
PROPERTIES
  SignalStops
  LateJoinersServed
CHECK_DEADLOCK FALSE
