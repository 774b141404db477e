CONSTANTS
  FirstNumbers <- MCFirstNumbers
  Times <- MCTimes
  Depths <- MCDepths
  MaxPackets = 2
SPECIFICATION Spec
INVARIANT ServerMessagesParsed
CHECK_DEADLOCK FALSE
