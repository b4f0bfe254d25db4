CONSTANTS
  o1 = o1
  o2 = o2
  o3 = o3
  Orders = {o1, o2, o3}
  Terms <- MixedTerms
  FeePercent = 10
  Minimums = {0, 500}
  Streamed = {0, 500, 1000}
  Fills <- MixedFills
  MaxIds = 7
SPECIFICATION Spec
INVARIANTS AvailableExplained FuturesLedger PartialsRecorded TradesIdentified
PROPERTIES ReportsHonoured
SYMMETRY Symmetry
CHECK_DEADLOCK FALSE
