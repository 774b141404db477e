CONSTANTS
  FirstNumbers <- MCFirstNumbers
  Times <- MCTimes
  Depths <- MCDepths
  MaxPackets = 2
SPECIFICATION Spec
INVARIANT KeepAliveSurvived
CHECK_DEADLOCK FALSE
