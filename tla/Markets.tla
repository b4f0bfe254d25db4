------------------------------ MODULE Markets ------------------------------
(***************************************************************************)
(* Order books: what their levels are trimmed to (src/src/Orderbook.cpp)   *)
(* and what an amount turns over (src/arbitrage/main.cpp).  A level is     *)
(* a pair <<price, quantity>>; the best level of a book comes first.       *)
(***************************************************************************)
EXTENDS Integers, Sequences, SequencesExt

\* Mutant: asks are trimmed down like bids.
TrimPriceDown(price, ascending, unit) ==
  IF unit <= 0 THEN <<>> ELSE <<(price \div unit) * unit>>
\* trim of a price: up to a multiple of the unit for asks, down for bids.
TrimPrice(price, ascending, unit) ==
  LET up == - ((- price) \div unit) * unit
  IN  IF unit <= 0 THEN <<>>
      ELSE IF ascending THEN <<up>>
      ELSE IF up - unit = price - unit THEN <<price>> ELSE <<up - unit>>

\* What a book is trimmed to, for prices in hundred-thousandths: 5 digits.
PriceUnit(price) ==
  IF price < 10000 THEN 1 ELSE IF price < 100000 THEN 10 ELSE IF price < 1000000 THEN 100
  ELSE IF price < 10000000 THEN 1000 ELSE IF price < 100000000 THEN 10000
  ELSE IF price < 1000000000 THEN 100000 ELSE 1000000

\* trim of the levels of a side: they are put into buckets.  The level that
\* opens a bucket is counted in it twice, and the last bucket is left out.
TrimLevels(levels, ascending, limit, unit) ==
  LET trim(p) == TrimPrice(p, ascending, unit)[1]
      step(acc, a) ==
        IF Len(acc.out) = limit THEN acc
        ELSE LET closes == IF ascending THEN a[1] > acc.price ELSE a[1] < acc.price
             IN  [out |-> IF closes THEN Append(acc.out, <<acc.price, acc.qty>>) ELSE acc.out,
                  price |-> IF closes THEN trim(a[1]) ELSE acc.price,
                  qty |-> (IF closes THEN a[2] ELSE acc.qty) + a[2]]
  IN  IF levels = <<>> THEN <<>>
      ELSE FoldLeft(step, [out |-> <<>>, price |-> trim(levels[1][1]), qty |-> 0], levels).out

\* Missing levels are filled up with empty ones.
FixLen(levels, n) == [i \in 1..n |-> IF i <= Len(levels) THEN levels[i] ELSE <<>>]

-----------------------------------------------------------------------------
(* getBestTurnOver.  Amounts are multiples of Share, which every price of  *)
(* the instance divides.  After the level that has enough of it, the price *)
(* of one more is taken for the order's limit, if there is one.            *)

Share == 12
WalkStart(amount) == [left |-> amount, got |-> 0, next |-> -1, done |-> FALSE, over |-> FALSE]
\* Mutant: the level that has enough is sold whole.
SellStepWhole(w, level) ==
  IF w.over THEN w
  ELSE IF w.done THEN [w EXCEPT !.next = level[1], !.over = TRUE]
  ELSE IF w.left <= level[2] * Share
  THEN [w EXCEPT !.next = level[1], !.got = @ + level[2] * Share * level[1],
                 !.left = 0, !.done = TRUE]
  ELSE [w EXCEPT !.next = level[1], !.got = @ + level[2] * Share * level[1],
                 !.left = @ - level[2] * Share]
\* Selling the amount to the bids.
SellStep(w, level) ==
  IF w.over THEN w
  ELSE IF w.done THEN [w EXCEPT !.next = level[1], !.over = TRUE]
  ELSE IF w.left <= level[2] * Share
  THEN [w EXCEPT !.next = level[1], !.got = @ + w.left * level[1], !.left = 0, !.done = TRUE]
  ELSE [w EXCEPT !.next = level[1], !.got = @ + level[2] * Share * level[1],
                 !.left = @ - level[2] * Share]
\* Buying for the amount from the asks.
BuyStep(w, level) ==
  IF w.over THEN w
  ELSE IF w.done THEN [w EXCEPT !.next = level[1], !.over = TRUE]
  ELSE IF w.left <= level[1] * level[2] * Share
  THEN [w EXCEPT !.next = level[1], !.got = @ + w.left \div level[1], !.left = 0, !.done = TRUE]
  ELSE [w EXCEPT !.next = level[1], !.got = @ + level[2] * Share,
                 !.left = @ - level[1] * level[2] * Share]
GetBestTurnOver(bids, asks, amount) ==
  LET sold == FoldLeft(SellStep, WalkStart(amount), bids)
      bought == FoldLeft(BuyStep, WalkStart(amount), asks)
  IN  [quote |-> sold.got, nxt_bid_lvl |-> sold.next, base |-> bought.got, nxt_ask_lvl |-> bought.next]
=============================================================================
