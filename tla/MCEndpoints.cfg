SPECIFICATION Spec
CONSTANTS
  Descriptor = {0, 1, 2}
  Group = {g1}
  Transport = {t1, t2}
  Length = {2}
  Room = 1
  MaxCalls = 5
CHECK_DEADLOCK FALSE
INVARIANTS
  Accounted
  PlainLosesOnlyZero
  RunnerNeverBlocks
  StreamWhole
PROPERTIES
  StopHeeded
