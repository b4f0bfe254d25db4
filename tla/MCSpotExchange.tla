---------------------------- MODULE MCSpotExchange ----------------------------
\* SpotExchange on small instances: amounts are multiples of 100 and the fee is
\* ten percent, so that no product is rounded; orders are interchangeable.
EXTENDS SpotExchange, TLC

Pairs == {"BTC-USDT", "BTC-USDC"}
BTC == [s \in Pairs |-> "BTC"]

Ask(s, side, type, n, p) == [symbol |-> s, side |-> side, type |-> type, qty |-> n, price |-> p]

\* Every branch of the handlers, and sells that compete for the same asset.
MixedTerms == {
    Ask("BTC-USDT", "BUY", "MARKET", 100, 2),
    Ask("BTC-USDT", "BUY", "FOK", 100, 0),
    Ask("BTC-USDT", "SELL", "LIMIT", 100, 3),
    Ask("BTC-USDT", "SELL", "STOP", 200, 1),
    Ask("BTC-USDT", "SELL", "MARKET", 200, 2),
    Ask("BTC-USDC", "SELL", "LIMIT", 200, 2),
    Ask("BTC-USDT", "SELL", "FOK", 100, 2)}

Symmetry == Permutations(Orders)
===============================================================================
