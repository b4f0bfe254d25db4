---------------------------- MODULE MCAlgorithms ----------------------------
EXTENDS Algorithms

MCConsidered == {<<>>, <<<<"BTC", "-", "EUR">>, <<"BT", "-", "T", "USD">>>>}
MCYears == {1999, 2000, 2096, 2100}

\* Matrices of up to 3 rows and 2 columns, shifted by up to one row too many.
MCMatrices == UNION {[1..r -> [1..c -> {1, 2, NaN}]] : r \in 1..3, c \in 1..2}
MCShifts == -4..4
MCMaps == {<<>>} \cup {k :> v : k \in {"p", "q"}, v \in {"x" :> 1, "y" :> 2, "x" :> 3}}

\* Prices in hundred-thousandths around a change of the unit.
MCAsks ==
  {[i \in DOMAIN prices |-> <<prices[i], qtys[i]>>] :
     prices \in {<<9998, 10001, 10003, 10010>>, <<10001, 10002>>, <<10011, 10020, 10021, 10034>>,
                 <<10000, 10010, 10015>>, <<3, 5>>},
     qtys \in [1..4 -> {1, 2}]}
MCBids == {Reverse(side) : side \in MCAsks}

\* Books of up to 3 levels, at prices that Share divides.
MCTraded == UNION {{[i \in DOMAIN prices |-> <<prices[i], qtys[i]>>] : qtys \in [DOMAIN prices -> 1..2]} :
                   prices \in {<<1>>, <<2>>, <<3>>, <<1, 2>>, <<1, 3>>, <<2, 3>>, <<1, 2, 3>>}}
MCOffers == [bids : {Reverse(side) : side \in MCTraded}, asks : MCTraded]
=============================================================================
