CONSTANTS
  Coins = {"x", "y"}
  Listings <- Published
  TradeAmount = 2
  Reserve = 2
  MaxPrice = 2
  MaxAttempts = 2
  MaxExecutions = 2
SPECIFICATION FairSpec
INVARIANTS MoneyKept SentOnce
PROPERTIES WaitsForFills SweepReaches
CHECK_DEADLOCK FALSE
