------------------------------ MODULE Position ------------------------------
(***************************************************************************)
(* A position (src/Position.cpp) and the account its futures calls go to.  *)
(* The constructor leaves exchange_ empty (a TODO); here it is the account *)
(* of the position's market, as the TODO says.                             *)
(*                                                                         *)
(* In a backtest an executed order changes the quantity.  In a live        *)
(* session the stream does, and the report of the order, which comes       *)
(* before or after it, looks at the quantity and the one before.           *)
(* Quantities are in thousandths; prices are integers, an entry price is a *)
(* fraction.  Clock readings are left out.                                 *)
(***************************************************************************)
EXTENDS FuturesExchange, Sequences, SequencesExt

CONSTANTS
  FeePercent,    \* fee of the exchange
  Minimums,      \* smallest quantities a spot exchange may state; 0 for none
  Streamed       \* quantities the stream may report

ASSUME PositionAssumption == FeePercent \in 0 .. 99 /\ Streamed \subseteq Int

VARIABLES
  market,        \* "SPOT" or "FUTURES"
  minimum,       \* the smallest quantity, of those
  pos,           \* the position
  executed,      \* orders reported as executed so far, in order
  error          \* exception the last report ended with

positionVars == <<market, minimum, pos, executed, error>>
posVars == <<live, terms, mutex, available, submitted, credits, charges,
             market, minimum, pos, executed, error>>

NoPrice == [cost |-> 0, size |-> 0]
Price(p) == [cost |-> p, size |-> 1]
Abs(x) == IF x < 0 THEN -x ELSE x
Sign(x) == IF x > 0 THEN 1 ELSE IF x < 0 THEN -1 ELSE 0

CanMutateQty == ~ (market = "SPOT" /\ live)
MinQty == IF live /\ market = "SPOT" THEN minimum ELSE 0
IsLong(p) == p.qty > MinQty
IsShort(p) == p.qty < - MinQty
IsOpen(p) == IsLong(p) \/ IsShort(p)

(***************************************************************************)
(* Changing the position: each gives the position and the account's        *)
(* credits after the call, and the exception that ended it.                *)
(***************************************************************************)
Done(p) == [pos |-> p, credited |-> 0, error |-> "none"]
Throws(p, credited, e) == [pos |-> p, credited |-> credited, error |-> e]

\* What the fee leaves of a quantity: never nothing, so it is rounded away from 0.
Net(q) ==
  LET share == 100 - FeePercent IN
  IF q < 0 THEN (q * share) \div 100 ELSE - ((- q * share) \div 100)
UpdateQty(p, q) == [p EXCEPT !.qty = q, !.previous = p.qty]
Set(p, q) == UpdateQty(p, IF market = "SPOT" THEN Net(q) ELSE q)
Add(p, q) == UpdateQty(p, p.qty + IF market = "SPOT" THEN Net(q) ELSE q)
Subtract(p, q) == UpdateQty(p, p.qty - q)

\* Mutant: the average is that of the two prices.
AverageUnweighted(q, price, current, entry) ==
  [cost |-> price * entry.size + entry.cost, size |-> 2 * entry.size]

\* estimateAveragePrice, as a fraction in lowest terms.
Average(q, price, current, entry) ==
  LET e == IF entry = NoPrice THEN Price(0) ELSE entry
      cost == Abs(q) * price * e.size + Abs(current) * e.cost
      size == (Abs(q) + Abs(current)) * e.size
      common == Max({k \in 1 .. size : cost % k = 0 /\ size % k = 0})
  IN [cost |-> cost \div common, size |-> size \div common]

\* A futures account is credited with the profit before the call that is not
\* implemented throws.
FuturesRefuses(p) == Throws(p, 1, "NotImplemented")

Close(p, price) ==
  IF ~ IsOpen(p) /\ CanMutateQty THEN Throws(p, 0, "EmptyPosition")
  ELSE LET left == [p EXCEPT !.exit = Price(price)] IN
       IF market = "FUTURES" THEN FuturesRefuses(left)
       ELSE LET empty == [left EXCEPT !.entry = NoPrice] IN
            Done(IF CanMutateQty THEN Set(empty, 0) ELSE empty)

Reduce(p, q, price) ==
  IF ~ CanMutateQty THEN Done(p)
  ELSE IF ~ IsOpen(p) THEN Throws(p, 0, "EmptyPosition")
  ELSE IF market = "FUTURES" THEN FuturesRefuses(p)
  ELSE Done(IF IsLong(p) THEN Subtract(p, Abs(q)) ELSE Add(p, Abs(q)))

Increase(p, q, price) ==
  IF ~ IsOpen(p) THEN Throws(p, 0, "OpenPositionError")
  ELSE LET larger == [p EXCEPT !.entry = Average(q, price, p.qty, p.entry)] IN
       Done(IF ~ CanMutateQty THEN larger
            ELSE IF IsLong(p) THEN Add(larger, Abs(q)) ELSE Subtract(larger, Abs(q)))

Open(p, q, price) ==
  IF IsOpen(p) /\ CanMutateQty THEN Throws(p, 0, "OpenPositionError")
  ELSE LET opened == [p EXCEPT !.entry = Price(price), !.exit = NoPrice] IN
       Done(IF CanMutateQty THEN Set(opened, q) ELSE opened)

\* Mutant: what is left of the order is not the new position, the order is.
FlipWhole(p, q, price) ==
  LET closed == Close(p, price) IN
  IF closed.error # "none" THEN closed ELSE Open(closed.pos, q, price)

\* close, then open with what the order has left.
Flip(p, q, price) ==
  LET closed == Close(p, price) IN
  IF closed.error # "none" THEN closed ELSE Open(closed.pos, p.qty + q, price)

\* onExecutedOrder of a backtest, after the fee.
Backtest(p, q, price, reduceOnly) ==
  IF p.qty = 0 THEN Open(p, q, price)
  ELSE IF p.qty + q = 0 THEN Close(p, price)
  ELSE IF Sign(p.qty) = Sign(q) THEN
         IF reduceOnly THEN Done(p) ELSE Increase(p, q, price)
  ELSE IF Abs(q) > Abs(p.qty) THEN
         IF reduceOnly THEN Close(p, price) ELSE Flip(p, q, price)
  ELSE Reduce(p, q, price)

\* onExecutedOrder of a live spot session: compares the quantity with the one
\* before it.
LiveSpot(p, q, price) ==
  IF p.previous > MinQty /\ p.qty <= MinQty THEN Close(p, price)
  ELSE IF p.previous < MinQty /\ p.qty > MinQty THEN Open(p, q, price)
  ELSE IF p.qty > p.previous /\ p.previous > MinQty THEN Increase(p, q, price)
  ELSE IF p.qty < p.previous /\ p.qty > MinQty THEN Reduce(p, q, price)
  ELSE Done(p)

Waits == ~ live /\ market = "FUTURES" /\ mutex # "free"
Effect(p, o) ==
  LET q == Qty(o)
      price == terms[o].price IN
  IF ~ live THEN Backtest(p, q, price, ReduceOnly(o))
  ELSE IF market = "SPOT" THEN LiveSpot(p, q, price)
  ELSE Done(p)   \* closing a live futures position calls nothing yet

-----------------------------------------------------------------------------
PositionInit ==
  /\ AccountInit
  /\ market \in {"SPOT", "FUTURES"}
  /\ minimum \in Minimums
  /\ pos = [qty |-> 0, previous |-> 0, entry |-> NoPrice, exit |-> NoPrice,
            current |-> Price(1)]
  /\ executed = <<>> /\ error = "none"

OnExecutedOrder(o) ==
  /\ o \notin ToSet(executed) /\ ~ Waits
  /\ LET e == Effect(pos, o) IN
       /\ pos' = e.pos /\ error' = e.error
       /\ credits' = credits + e.credited
  /\ charges' = charges + IF market = "FUTURES" /\ ~ live THEN 1 ELSE 0
  /\ executed' = Append(executed, o)
  /\ UNCHANGED <<live, terms, mutex, available, submitted, market, minimum>>

\* onUpdateFromStream.  A quantity below the minimum closes the position and
\* leaves its entry price.
OnUpdateFromStream(q, entry) ==
  /\ live
  /\ LET p == IF q = pos.qty THEN pos ELSE [pos EXCEPT !.qty = q, !.previous = pos.qty] IN
       pos' = IF market = "FUTURES" THEN [p EXCEPT !.entry = Price(entry)]
              ELSE IF Abs(q) > MinQty /\ pos.entry = NoPrice
                   THEN [p EXCEPT !.entry = pos.current]
              ELSE p
  /\ error' = "none"
  /\ UNCHANGED <<live, terms, mutex, available, submitted, credits, charges,
                 market, minimum, executed>>

PositionNext ==
  \/ \E o \in Orders :
       \/ OnExecutedOrder(o)
       \/ market = "FUTURES" /\ (OnOrderSubmission(o) \/ OnOrderCancellation(o))
            /\ UNCHANGED positionVars
  \/ \E q \in Streamed, entry \in {1, 2} : OnUpdateFromStream(q, entry)

-----------------------------------------------------------------------------
Reports == executed' # executed
Reported == Last(executed')

\* Whatever an executed order does to a position of a backtest, the position
\* has an entry price exactly while it is open, after flips, reductions and
\* calls that threw in the middle alike (Position.cpp 305-417).
EntryWhileOpen ==
  ~ live => (pos.entry # NoPrice <=> pos.qty # 0)

\* Futures in a backtest.  The first order opens, later orders on its side add
\* to it unless they are reduce-only, all others throw; the quantity and the
\* entry price are those of these orders (Position.cpp 370-417).
Adding ==
  {o \in ToSet(executed) :
     \/ o = Head(executed)
     \/ ~ ReduceOnly(o) /\ Sign(Qty(o)) = Sign(Qty(Head(executed)))}
Costs == [o \in Orders |-> Qty(o) * terms[o].price]
FuturesLedger ==
  ~ live /\ market = "FUTURES" /\ executed # <<>> =>
    /\ pos.qty = SumFunctionOnSet(Qtys, Adding)
    /\ pos.entry.cost * pos.qty = SumFunctionOnSet(Costs, Adding) * pos.entry.size

\* What a report of an executed order may do to a position that is open.  In a
\* backtest the side changes only for an order larger than the position, the
\* new position is smaller than the order by what was closed, and a
\* reduce-only order neither turns the position nor makes it larger
\* (Position.cpp 475-523).
HonoursOrder ==
  ~ live /\ pos.qty # 0 =>
    LET q == Qty(Reported) IN
    /\ Sign(pos'.qty) = - Sign(pos.qty) =>
         /\ Abs(q) > Abs(pos.qty) /\ ~ ReduceOnly(Reported)
         /\ Abs(pos'.qty) <= Abs(pos.qty + q)
    /\ ReduceOnly(Reported) => Abs(pos'.qty) <= Abs(pos.qty)
\* In a live session the quantity is the stream's: a report, early, late or
\* about an order the stream already counted, leaves it alone (419-466).
LeavesStreamedQty == live => pos'.qty = pos.qty
\* A report that throws leaves quantity and entry price as they were; the
\* account may have been credited already (325-326).
FailureChangesNothing == error' # "none" => pos'.qty = pos.qty /\ pos'.entry = pos.entry
\* Whatever was executed and streamed before, a report does no more than that.
ReportsHonoured ==
  [][Reports => HonoursOrder /\ LeavesStreamedQty /\ FailureChangesNothing]_posVars
=============================================================================
