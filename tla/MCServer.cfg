CONSTANTS
  Instrument = {i1}
  Price = {1, 2, 3}
  Quantity = {1, 2}
  SnapshotDepth = 1
  BatchSize = 2
  MaxEvents = 3
  RecentLimit = 1
  CountModulus = 2
SPECIFICATION Spec
INVARIANTS
  TypeOK
  MirrorRight
PROPERTIES OnlyInitialMissed OnlyWhileRunning
CHECK_DEADLOCK FALSE
