CONSTANTS
    OrderIds = {o1, o2}
    Exchanges = {"BINANCE_SPOT"}
    Symbols = {"BTC-USDT"}
    DriverName = "SANDBOX"
    UnitTesting = FALSE
SPECIFICATION OrdersSpec
SYMMETRY Symmetry
INVARIANTS CancelAllHonoured
CHECK_DEADLOCK FALSE
