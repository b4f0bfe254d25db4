CONSTANTS
    Orders = {o1, o2, o3, o4}
    Terms <- MixedTerms
    Assets = {"USDT", "BTC"}
    Symbols <- Pairs
    Base <- BTC
    Settlement = "USDT"
    StartingBalance = 300
    StartingBase = 200
    FeePercent = 10
    Modes = {TRUE, FALSE}
    Streamed = {0, 50, 400}
SPECIFICATION Spec
SYMMETRY Symmetry
INVARIANTS TypeOK Solvent Reservations Ledgers
CHECK_DEADLOCK FALSE
