CONSTANTS
  Price = {1, 2, 3}
  Quantity = {0, 1}
  TradeQuantity = {1}
  RecentLimit = 1
  CountModulus = 4
  MaxTrades = 1
SPECIFICATION ApiSpec
INVARIANTS
  CrossedIsSomePair
