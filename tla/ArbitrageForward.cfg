CONSTANTS
  Coins = {"x", "y"}
  Listings <- Published
  TradeAmount = 2
  Reserve = 2
  MaxPrice = 2
  MaxAttempts = 2
  MaxExecutions = 2
SPECIFICATION Spec
INVARIANT ThirdOrderSent
CHECK_DEADLOCK FALSE
