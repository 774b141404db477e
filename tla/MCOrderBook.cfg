CONSTANTS
  Price = {1, 2, 3}
  Quantity = {0, 1}
  TradeQuantity = {1, 2}
  RecentLimit = 2
  CountModulus = 3
  MaxTrades = 3
SPECIFICATION Spec
INVARIANTS
  TypeOK
  LevelsSound
  RecentIsNewest
  StatsBracket
  StatsMatchTape
  SnapshotRebuilds
PROPERTY ImplementsLedger
