------------------------------ MODULE Numbers ------------------------------
(***************************************************************************)
(* Rounding, profits, sides and genes (src/src/Helper.cpp).  A number is   *)
(* given in thousandths, so a precision above three digits changes nothing *)
(* and is left out; the code computes in floating point.                   *)
(***************************************************************************)
EXTENDS Integers, Sequences

NoSide == "throws"      \* of a position that is closed
Distance(a, b) == IF a > b THEN a - b ELSE b - a

\* One in the last digit that a precision keeps, in thousandths.
Unit(precision) == 10 ^ (3 - precision)

FloorWithPrecision(x, precision) == (x \div Unit(precision)) * Unit(precision)
\* Halves are rounded away from zero.
Round(x, precision) ==
  LET u == Unit(precision) IN
  IF x >= 0 THEN ((2 * x + u) \div (2 * u)) * u ELSE - (((u - 2 * x) \div (2 * u)) * u)
\* Mutant: rounded to the nearest.
RoundDecimalsNearest(x, decimals) == Round(x, decimals)
\* Decimals may be negative: tens, hundreds.
RoundDecimalsDown(x, decimals) == (x \div Unit(decimals)) * Unit(decimals)
\* Down, so that the margin is enough, but never to nothing.
RoundQtyForLiveMode(x, precision) ==
  LET down == RoundDecimalsDown(x, precision)
  IN  IF down = 0 THEN Unit(precision) ELSE down

-----------------------------------------------------------------------------
\* In hundredths, for a fee in percent.
EstimatePNL(qty, entry, exit, type, fee) ==
  LET size == Distance(qty, 0)
      profit == size * (exit - entry) * (IF type = "SHORT" THEN -1 ELSE 1)
  IN  IF size = 0 \/ type \notin {"LONG", "SHORT"} THEN <<>>
      ELSE <<100 * profit - (IF fee > 0 THEN fee * size * (entry + exit) ELSE 0)>>
\* Percents, as a fraction.
EstimatePNLPercentage(qty, entry, exit, type) ==
  LET size == Distance(qty, 0)
      profit == size * (exit - entry) * (IF type = "SHORT" THEN -1 ELSE 1)
  IN  IF size * entry = 0 \/ type \notin {"LONG", "SHORT"} THEN <<>>
      ELSE <<[num |-> 100 * profit, den |-> size * entry]>>
\* The threshold is in percent.
IsPriceNear(price, reference, threshold) ==
  IF reference = 0 THEN price = 0
  ELSE 100 * Distance(price, reference) <= threshold * Distance(reference, 0)

OppositeSide(side) == [BUY |-> "SELL", SELL |-> "BUY"][side]
OppositePositionType(type) ==
  IF type = "CLOSE" THEN NoSide ELSE [LONG |-> "SHORT", SHORT |-> "LONG"][type]
OrderSideToPositionType(side) == [BUY |-> "LONG", SELL |-> "SHORT"][side]
PositionTypeToOrderSide(type) ==
  IF type = "CLOSE" THEN NoSide ELSE [LONG |-> "BUY", SHORT |-> "SELL"][type]
ClosingSide(type) ==
  IF type = "CLOSE" THEN NoSide ELSE [LONG |-> "SELL", SHORT |-> "BUY"][type]
\* The sign of a quantity, from a side or the type of a position.
PrepareQty(qty, action) ==
  CASE action \in {"SELL", "SHORT"} -> - Distance(qty, 0)
    [] action \in {"BUY", "LONG"} -> Distance(qty, 0)
    [] action = "CLOSE" -> 0

-----------------------------------------------------------------------------
\* As a fraction; out of the old range it throws.
ScaleToRange(oldMax, oldMin, newMax, newMin, x) ==
  IF x > oldMax \/ x < oldMin \/ oldMax = oldMin THEN <<>>
  ELSE <<[num |-> (x - oldMin) * (newMax - newMin) + newMin * (oldMax - oldMin),
          den |-> oldMax - oldMin]>>
\* Of integers, whose division is cut.
Normalize(x, low, high) ==
  IF high = low THEN 0
  ELSE LET n == Distance(x, low)  d == Distance(high, low)
       IN  IF (x >= low) = (high > low) THEN n \div d ELSE - (n \div d)

RoundedFraction(f) ==
  IF f.num >= 0 THEN (2 * f.num + f.den) \div (2 * f.den)
  ELSE - ((f.den - 2 * f.num) \div (2 * f.den))
\* The hyperparameters a strategy gets from its genes: letters of code 40 to
\* 119, of which the first is the minimum and the last the maximum.  (Of
\* type int; one of type float is the fraction itself.)
DnaToHp(strategy, dna) ==
  IF Len(dna) # Len(strategy) \/ \E i \in DOMAIN dna : dna[i] \notin 40..119 THEN <<>>
  ELSE <<[i \in DOMAIN dna |->
            RoundedFraction(ScaleToRange(119, 40, strategy[i].max, strategy[i].min, dna[i])[1])]>>
=============================================================================
