CONSTANTS
  FirstNumbers <- MCFirstNumbers
  Times <- MCTimes
  Depths <- MCDepths
  MaxPackets = 2
SPECIFICATION FairSpec
INVARIANTS
  TypeOK
  HeaderFound
  OverrunExplained
  ParsersGetMisreads
  SocketReleased
PROPERTY SignalStops
CHECK_DEADLOCK FALSE
