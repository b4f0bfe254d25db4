CONSTANTS
  Pieces = {"BT", "BTC", "T", "S", "FD", "USD", "EUR", "-"}
  MaxPieces = 3
  Considered <- MCConsidered
  Cells = {1, 2, 3, 4}
  MaxLevels = 3
  Matrices <- MCMatrices
  Shifts <- MCShifts
  Maps <- MCMaps
  MaxCandles = 4
  Asks <- MCAsks
  Bids <- MCBids
  Limits = {1, 5}
  Offers <- MCOffers
  Years <- MCYears
  Amounts = {1, 2, 4, 5, 49, 999, 1499, 5500}
  Codes = {39, 40, 41, 79, 80, 118, 119, 120}
SPECIFICATION Spec
INVARIANTS
  BookStaysSorted DataInPlace NotationsAgree OrdersAgree CandlesAgree
  TrimmedIsABook TurnOverReachable
