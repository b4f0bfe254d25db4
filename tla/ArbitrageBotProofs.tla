------------------------- MODULE ArbitrageBotProofs -------------------------
(***************************************************************************)
(* No leg of an execution is ordered twice, and what was in the wallets    *)
(* before the bot began is not traded, for any markets, prices, amounts    *)
(* and number of executions.                                               *)
(***************************************************************************)
EXTENDS ArbitrageBot, FunctionProofs, TLAPS

USE BotAssumption

OrderFields == {"n", "leg", "give", "get", "buy", "qty"}
IsOrder(o) == o = [f \in OrderFields |-> o[f]] /\ o.n \in Nat /\ o.leg \in 1 .. 3

RunFields == {"path", "leg", "initial", "gained"}
IsRun(r) == r = [f \in RunFields |-> r[f]] /\ r.leg \in 0 .. 3

\* Two orders of one leg of one execution are one.
Single(os) == \A o, q \in os : o.n = q.n /\ o.leg = q.leg => o = q

\* How far the current execution has got with its orders.
Ordered ==
  /\ pc \in {"confirm", "balance"} => \A o \in orders : o.n # executions
  /\ pc = "balance" => run.leg \in 0 .. 2
  /\ pc \in {"quote", "place"} => \A o \in orders : o.n = executions => o.leg < run.leg
  /\ pc = "poll" => \A o \in orders : o.n = executions => o.leg <= run.leg
  /\ pc \in {"quote", "place", "poll"} => run.leg \in 1 .. 3

\* Every order belongs to an execution that has begun, and the current one has
\* ordered the legs before the one it has come to, at most.
SentInv ==
  /\ executions \in Nat /\ IsRun(run)
  /\ \A o \in orders : IsOrder(o) /\ o.n <= executions
  /\ Single(orders)
  /\ Ordered

\* The exchange's filling of an order keeps what the order is of.
LEMMA FillKeeps ==
  ASSUME NEW o, IsOrder(o)
  PROVE  LET q == [o EXCEPT !.qty = @ - 1]
         IN  IsOrder(q) /\ q.n = o.n /\ q.leg = o.leg
BY DEF IsOrder, OrderFields

\* A run that has come to another leg.
Moved(r, leg, gained) == [r EXCEPT !.leg = leg, !.gained = gained]

LEMMA MovedRun ==
  ASSUME NEW r, IsRun(r), NEW leg \in 0 .. 3, NEW gained
  PROVE  IsRun(Moved(r, leg, gained)) /\ Moved(r, leg, gained).leg = leg
BY DEF Moved, IsRun, RunFields

LEMMA EmptyRun == IsRun(NoRun) /\ NoRun.leg = 0
BY DEF NoRun, IsRun, RunFields

\* Outside of an execution the invariant asks nothing of the thread.
LEMMA Outside ==
  ASSUME SentInv, UNCHANGED <<orders, executions>>, IsRun(run'),
         pc' \notin {"confirm", "balance", "quote", "place", "poll"}
  PROVE  SentInv'
BY DEF SentInv, Single, Ordered, IsOrder, IsRun

\* Giving an execution up leads outside.
LEMMA Abandoned ==
  ASSUME Abandon
  PROVE  IsRun(run') /\ pc' \in {"assess", "top"}
BY EmptyRun DEF Abandon, MoveOn, IsRun

LEMMA Inert ==
  ASSUME SentInv, UNCHANGED <<orders, executions, pc, run>>
  PROVE  SentInv'
BY DEF SentInv, Single, Ordered, IsOrder, IsRun

LEMMA SweepStep ==
  ASSUME SentInv, Start \/ Top \/ Skip \/ QuoteFails \/ AssessThrows \/ Signal
  PROVE  SentInv'
<1>1. CASE Start
  BY <1>1, Outside DEF Start, SentInv, IsRun
<1>2. CASE Top
  BY <1>2, Outside DEF Top, SentInv, IsRun
<1>3. CASE Skip
  BY <1>3, Outside DEF Skip, MoveOn, SentInv, IsRun
<1>4. CASE QuoteFails
  BY <1>4, Inert DEF QuoteFails
<1>5. CASE AssessThrows
  BY <1>5, Outside DEF AssessThrows, SentInv, IsRun
<1>6. CASE Signal
  BY <1>6, Outside, EmptyRun DEF Signal, IsRun
<1> QED
  BY <1>1, <1>2, <1>3, <1>4, <1>5, <1>6

LEMMA AssessStep ==
  ASSUME SentInv, Assess
  PROVE  SentInv'
<1>1. UNCHANGED <<orders, run>>
  BY DEF Assess
<1>2. CASE executions' = executions + 1 /\ pc' = "confirm"
  <2>1. \A o \in orders : o.n <= executions /\ IsOrder(o)
    BY DEF SentInv
  <2>2. \A o \in orders : o.n # executions' /\ o.n <= executions'
    BY <1>2, <2>1 DEF SentInv, IsOrder
  <2> QED
    BY <1>1, <1>2, <2>1, <2>2 DEF SentInv, Single, Ordered, IsOrder, IsRun
<1>3. CASE MoveOn /\ UNCHANGED executions
  BY <1>1, <1>3, Outside DEF Assess, MoveOn, SentInv, IsRun
<1> QED
  BY <1>2, <1>3 DEF Assess

LEMMA ConfirmStep ==
  ASSUME SentInv, Confirm
  PROVE  SentInv'
<1>1. UNCHANGED <<orders, executions>> /\ pc = "confirm"
  BY DEF Confirm
<1>2. CASE Abandon
  BY <1>1, <1>2, Abandoned, Outside
<1>3. CASE \E p \in {"forward", "reverse"} : run' = [NoRun EXCEPT !.path = p] /\ pc' = "balance"
  <2>1. IsRun(run') /\ run'.leg = 0
    BY <1>3 DEF NoRun, IsRun, RunFields
  <2> QED
    BY <1>1, <1>3, <2>1 DEF SentInv, Single, Ordered, IsOrder
<1> QED
  BY <1>2, <1>3 DEF Confirm

LEMMA ReadBalanceStep ==
  ASSUME SentInv, ReadBalance
  PROVE  SentInv'
<1> DEFINE seen == [run EXCEPT !.initial[NextBalance] = wallet[NextBalance]]
<1>1. UNCHANGED <<orders, executions>> /\ pc = "balance" /\ run.leg \in 0 .. 2
  BY DEF ReadBalance, SentInv, Ordered
<1>2. IsRun(seen) /\ seen.leg = run.leg
  BY DEF SentInv, IsRun, RunFields
<1>3. \/ run.leg < 2 /\ run' = [seen EXCEPT !.leg = @ + 1] /\ UNCHANGED pc
      \/ run' = [seen EXCEPT !.leg = 1, !.gained = TradeAmount] /\ pc' = "quote"
  BY DEF ReadBalance
<1> HIDE DEF seen
<1>4. CASE run.leg < 2 /\ run' = [seen EXCEPT !.leg = @ + 1] /\ UNCHANGED pc
  <2>1. IsRun(run') /\ run'.leg \in 0 .. 2
    BY <1>1, <1>2, <1>4 DEF IsRun, RunFields
  <2> QED
    BY <1>1, <1>4, <2>1 DEF SentInv, Single, Ordered, IsOrder
<1>5. CASE run' = [seen EXCEPT !.leg = 1, !.gained = TradeAmount] /\ pc' = "quote"
  <2>1. run' = Moved(seen, 1, TradeAmount)
    BY <1>5 DEF Moved
  <2>2. IsRun(run') /\ run'.leg = 1
    BY <1>2, <2>1, MovedRun
  <2> QED
    BY <1>1, <1>5, <2>2 DEF SentInv, Single, Ordered, IsOrder
<1> QED
  BY <1>3, <1>4, <1>5

LEMMA QuoteStep ==
  ASSUME SentInv, Quote
  PROVE  SentInv'
BY DEF Quote, SentInv, Single, Ordered, IsOrder, IsRun

LEMMA PlaceStep ==
  ASSUME SentInv, Place
  PROVE  SentInv'
<1>1. UNCHANGED executions /\ pc = "place" /\ run.leg \in 1 .. 3 /\ executions \in Nat
  BY DEF Place, SentInv, Ordered
<1>2. Order.n = executions /\ Order.leg = run.leg /\ IsOrder(Order)
  BY <1>1 DEF Order, IsOrder, OrderFields
<1>3. \/ orders' = orders \cup {Order} /\ pc' = "poll" /\ UNCHANGED run
      \/ orders' = orders \cup {Order} /\ Abandon
      \/ orders' = orders /\ Abandon
  BY DEF Place
<1> DEFINE new == Order
<1> HIDE DEF new
<1>4. \A o \in orders : IsOrder(o) /\ o.n <= executions /\ (o.n = executions => o.leg < run.leg)
  BY <1>1 DEF SentInv, Ordered
<1>5. \A o \in orders : ~ (o.n = new.n /\ o.leg = new.leg)
  BY <1>1, <1>2, <1>4 DEF IsOrder, new
<1>6. Single(orders \cup {new})
  BY <1>5 DEF SentInv, Single
<1>7. \A o \in orders \cup {new} :
        IsOrder(o) /\ o.n <= executions /\ (o.n = executions => o.leg <= run.leg)
  BY <1>1, <1>2, <1>4 DEF IsOrder, new
<1>8. CASE orders' = orders /\ Abandon
  BY <1>1, <1>8, Abandoned, Outside
<1>9. CASE orders' = orders \cup {new} /\ pc' = "poll" /\ UNCHANGED run
  BY <1>1, <1>6, <1>7, <1>9 DEF SentInv, Single, Ordered, IsOrder, IsRun
<1>10. CASE orders' = orders \cup {new} /\ Abandon
  <2>1. IsRun(run') /\ pc' \in {"assess", "top"}
    BY <1>10, Abandoned
  <2> QED
    BY <1>1, <1>6, <1>7, <1>10, <2>1 DEF SentInv, Single, Ordered, IsOrder
<1> QED
  BY <1>3, <1>8, <1>9, <1>10 DEF new

LEMMA PollStep ==
  ASSUME SentInv, Poll
  PROVE  SentInv'
<1>1. UNCHANGED <<orders, executions>> /\ pc = "poll" /\ run.leg \in 1 .. 3
  BY DEF Poll, SentInv, Ordered
<1>2. CASE Abandon
  BY <1>1, <1>2, Abandoned, Outside
<1>3. CASE run.leg < 3 /\ run' = [run EXCEPT !.leg = @ + 1, !.gained = Carried] /\ pc' = "quote"
  <2>1. IsRun(run') /\ run'.leg = run.leg + 1
    <3>1. run' = Moved(run, run.leg + 1, Carried)
      BY <1>3 DEF Moved
    <3>2. IsRun(run) /\ run.leg + 1 \in 0 .. 3
      BY <1>1, <1>3 DEF SentInv
    <3> QED
      BY <3>1, <3>2, MovedRun
  <2>2. \A o \in orders : IsOrder(o) /\ (o.n = executions => o.leg <= run.leg)
    BY <1>1 DEF SentInv, Ordered
  <2>3. \A o \in orders : o.n = executions => o.leg < run'.leg
    BY <1>1, <2>1, <2>2 DEF IsOrder
  <2> QED
    BY <1>1, <1>3, <2>1, <2>3 DEF SentInv, Single, Ordered, IsOrder
<1> QED
  BY <1>2, <1>3 DEF Poll

LEMMA ThrowStep ==
  ASSUME SentInv, PlaceThrows \/ ExecutionThrows
  PROVE  SentInv'
BY Abandoned, Outside DEF PlaceThrows, ExecutionThrows

LEMMA FillStep ==
  ASSUME SentInv, NEW o \in orders, Fill(o)
  PROVE  SentInv'
<1> DEFINE left == [o EXCEPT !.qty = @ - 1]
<1>1. /\ UNCHANGED <<executions, pc, run>>
      /\ orders' = (orders \ {o}) \cup (IF o.qty > 1 THEN {left} ELSE {})
  BY DEF Fill, botVars
<1>2. IsOrder(left) /\ left.n = o.n /\ left.leg = o.leg
  BY FillKeeps DEF SentInv
<1> HIDE DEF left
<1>3. \A q \in orders' : IsOrder(q) /\ \E r \in orders : q.n = r.n /\ q.leg = r.leg
  BY <1>1, <1>2 DEF SentInv
<1>4. Single(orders')
  BY <1>1, <1>2 DEF SentInv, Single
<1> QED
  BY <1>1, <1>3, <1>4 DEF SentInv, Single, Ordered, IsRun

LEMMA SentStep == SentInv /\ [Next]_vars => SentInv'
<1> SUFFICES ASSUME SentInv, [Next]_vars PROVE SentInv'
  OBVIOUS
<1>1. CASE Step
  BY <1>1, SweepStep, ConfirmStep, ReadBalanceStep, QuoteStep, ThrowStep, PollStep DEF Step
<1>2. CASE Signal \/ QuoteFails \/ AssessThrows
  BY <1>2, SweepStep
<1>3. CASE Assess \/ Place \/ ExecutionThrows
  BY <1>3, AssessStep, PlaceStep, ThrowStep
<1>4. CASE FillAny
  BY <1>4, FillStep DEF FillAny
<1>5. CASE UNCHANGED vars
  BY <1>5, Inert DEF vars, botVars
<1> QED
  BY <1>1, <1>2, <1>3, <1>4, <1>5 DEF Next

\* Whatever answers are lost, whatever is given up and in whatever order the
\* exchange fills, no leg of an execution is ordered twice: the retries of the
\* bot repeat only requests for quotes (main.cpp, makeRequest, placeOrder).
THEOREM NoLegTwice == Spec => []SentOnce
<1>1. Init => SentInv
  BY EmptyRun DEF Init, SentInv, Single, Ordered
<1>2. SentInv => SentOnce
  <2> SUFFICES ASSUME SentInv PROVE SentOnce
    OBVIOUS
  <2>1. pc = "place" => \A o \in orders : ~ (o.n = executions /\ o.leg = run.leg)
    BY DEF SentInv, Ordered, IsOrder
  <2> QED
    BY <2>1 DEF SentInv, Single, SentOnce
<1> QED
  BY <1>1, <1>2, SentStep, PTL DEF Spec

-----------------------------------------------------------------------------
(* What was in the wallets of B and C before the bot began. *)

GoodOrder(o) ==
  /\ o.qty \in Nat \ {0} /\ o.buy \in BOOLEAN
  /\ o.give \in Currency /\ o.get \in Currency /\ o.give # o.get

GoodOrders(os) == IsFiniteSet(os) /\ \A o \in os : GoodOrder(o)

\* What is claimed is a number.
LEMMA ClaimedIsNat ==
  ASSUME NEW os, GoodOrders(os), NEW price \in Nat, NEW c
  PROVE  Claimed(os, price, c) \in Nat
<1> DEFINE S == {o \in os : o.give = c}
           f == [o \in os |-> o.qty * Unit(o, price)]
<1>1. IsFiniteSet(S)
  BY FS_Subset DEF GoodOrders
<1>2. \A o \in S : f[o] \in Nat
  BY DEF GoodOrders, GoodOrder, Unit
<1> HIDE DEF S, f
<1>3. SumFunctionOnSet(f, S) \in Nat
  BY <1>1, <1>2, SumIsNat
<1> QED
  BY <1>3 DEF Claimed, S, f

\* The part of one order.
Share(o, price, c) == IF o.give = c THEN o.qty * Unit(o, price) ELSE 0

\* An order that is sent claims what it gives.
LEMMA ClaimedMore ==
  ASSUME NEW os, GoodOrders(os), NEW o, GoodOrder(o), o \notin os,
         NEW more, more = os \cup {o}, NEW price \in Nat, NEW c
  PROVE  /\ GoodOrders(more)
         /\ Claimed(more, price, c) = Claimed(os, price, c) + Share(o, price, c)
         /\ Share(o, price, c) \in Int
<1> DEFINE S == {q \in os : q.give = c}
           T == {q \in more : q.give = c}
           f == [q \in os |-> q.qty * Unit(q, price)]
           g == [q \in more |-> q.qty * Unit(q, price)]
<1>1. GoodOrders(more)
  BY FS_AddElement DEF GoodOrders
<1>2. IsFiniteSet(S)
  BY FS_Subset DEF GoodOrders
<1>3. /\ \A q \in S : f[q] \in Int /\ g[q] = f[q]
      /\ g[o] \in Int /\ g[o] = o.qty * Unit(o, price) /\ o \notin S
  BY DEF GoodOrders, GoodOrder, Unit
<1>4. /\ o.give = c => T = S \cup {o}
      /\ o.give # c => T = S
  OBVIOUS
<1>5. /\ Claimed(os, price, c) = SumFunctionOnSet(f, S)
      /\ Claimed(more, price, c) = SumFunctionOnSet(g, T)
  BY DEF Claimed
<1>6. Claimed(os, price, c) \in Int
  BY ClaimedIsNat
<1> HIDE DEF S, T, f, g
<1>7. CASE o.give = c
  <2>1. SumFunctionOnSet(g, S \cup {o}) = SumFunctionOnSet(f, S) + g[o]
    BY <1>2, <1>3, SumJoined, ZenonT(60)
  <2> QED
    BY <1>1, <1>3, <1>4, <1>5, <1>7, <2>1 DEF Share
<1>8. CASE o.give # c
  <2>1. SumFunctionOnSet(g, S) = SumFunctionOnSet(f, S)
    BY <1>2, <1>3, SumSame
  <2> QED
    BY <1>1, <1>4, <1>5, <1>6, <1>8, <2>1 DEF Share
<1> QED
  BY <1>7, <1>8

\* What is left of an order when a unit of it is filled.
Left(o) == [o EXCEPT !.qty = @ - 1]
Filled(os, o) == (os \ {o}) \cup (IF o.qty > 1 THEN {Left(o)} ELSE {})

LEMMA LeftOfOrder ==
  ASSUME NEW o, IsOrder(o), GoodOrder(o)
  PROVE  /\ Left(o).give = o.give /\ Left(o).get = o.get /\ Left(o).buy = o.buy
         /\ Left(o).n = o.n /\ Left(o).leg = o.leg /\ Left(o).qty = o.qty - 1
         /\ Left(o) # o
         /\ o.qty > 1 => GoodOrder(Left(o))
BY DEF Left, IsOrder, OrderFields, GoodOrder

\* A filled unit is claimed no longer.
LEMMA ClaimedFilled ==
  ASSUME NEW os, GoodOrders(os), Single(os), \A q \in os : IsOrder(q),
         NEW o \in os, NEW now, now = Filled(os, o), NEW price \in Nat, NEW c
  PROVE  /\ GoodOrders(now)
         /\ Claimed(now, price, c) =
              Claimed(os, price, c) - (IF o.give = c THEN Unit(o, price) ELSE 0)
<1> DEFINE u == Unit(o, price)
           was == Claimed(os, price, c)
<1>1. GoodOrder(o) /\ IsOrder(o)
  BY DEF GoodOrders
<1>2. PICK r : r = os \ {o}
  OBVIOUS
<1>3. r \cup {o} = os /\ o \notin r /\ GoodOrders(r)
  BY <1>2, FS_RemoveElement DEF GoodOrders
<1>4. was = Claimed(r, price, c) + Share(o, price, c) /\ Share(o, price, c) \in Int
  BY <1>1, <1>3, ClaimedMore
<1>5. was \in Int /\ Claimed(r, price, c) \in Int /\ u \in Nat /\ o.qty \in Nat \ {0}
  BY <1>1, <1>3, ClaimedIsNat DEF GoodOrder, Unit
<1>6. CASE o.qty = 1
  <2>1. now = r
    BY <1>2, <1>6 DEF Filled
  <2>2. Share(o, price, c) = IF o.give = c THEN u ELSE 0
    BY <1>5, <1>6 DEF Share
  <2> HIDE DEF u, was
  <2> QED
    BY <1>3, <1>4, <1>5, <2>1, <2>2 DEF u, was
<1>7. CASE o.qty > 1
  <2>1. PICK l : l = Left(o)
    OBVIOUS
  <2>2. /\ GoodOrder(l) /\ l.give = o.give /\ l.qty = o.qty - 1 /\ l # o
        /\ l.n = o.n /\ l.leg = o.leg /\ l.buy = o.buy
    BY <1>1, <1>7, <2>1, LeftOfOrder
  <2>3. l \notin r /\ now = r \cup {l}
    BY <1>2, <1>7, <2>1, <2>2 DEF Filled, Single
  <2>4. GoodOrders(now) /\ Claimed(now, price, c) = Claimed(r, price, c) + Share(l, price, c)
    BY <1>3, <2>2, <2>3, ClaimedMore
  <2>5. Share(l, price, c) = Share(o, price, c) - (IF o.give = c THEN u ELSE 0)
    <3>1. (o.qty - 1) * u = o.qty * u - u /\ o.qty * u \in Int
      BY <1>5
    <3>2. /\ Share(l, price, c) = IF o.give = c THEN (o.qty - 1) * u ELSE 0
          /\ Share(o, price, c) = IF o.give = c THEN o.qty * u ELSE 0
      BY <2>2 DEF Share, Unit
    <3> HIDE DEF u
    <3> QED
      BY <1>5, <3>1, <3>2
  <2> HIDE DEF u, was
  <2> QED
    BY <1>4, <1>5, <2>4, <2>5 DEF u, was
<1> QED
  BY <1>5, <1>6, <1>7

-----------------------------------------------------------------------------
(* The invariant: the wallets are watched against what the open orders     *)
(* still take beyond what the purchases have been overpaid.                *)

\* What the open orders will still take, less what purchases took too much.
Debt(c) == Promised(c) - overpaid[c]

\* The exchange's side: what is blocked is there, and the reserve is kept.
BooksInv ==
  /\ GoodOrders(orders)
  /\ wallet \in [Currency -> Nat] /\ overpaid \in [Currency -> Nat]
  /\ \A c \in Currency : Blocked(c) <= wallet[c]
  /\ ReserveKept

Executing == {"confirm", "balance", "quote", "place", "poll"}
Trading == {"quote", "place", "poll"}

\* Where the thread is.
PlaceInv ==
  /\ pc \in {"start", "stuck", "top", "assess", "exited"} \cup Executing
  /\ listed \in Seq(Currency) /\ at \in 1 .. Len(listed) \cup {1}
  /\ attempt \in 1 .. MaxAttempts /\ executions \in 0 .. MaxExecutions
  /\ pc \in {"assess"} \cup Executing => at \in 1 .. Len(listed)
  /\ pc \in Executing => Coin \in Coins

\* A leg that is still to come, or the current one, brings c.
Awaited(c) == \E l \in run.leg .. 3 : Legs(run.path)[l].get = c

\* A balance read before the first order is compared with later: since then,
\* the debt of a currency that is awaited has not grown.
InitialInv ==
  /\ run.initial \in [Currency -> Int] /\ run.gained \in Int
  /\ pc \in {"balance"} \cup Trading => run.path \in {"forward", "reverse"}
  /\ pc = "balance" /\ run.leg = 2 => run.initial[B] >= Reserve + Debt(B)
  /\ pc \in Trading =>
       \A c \in {B, C} : Awaited(c) => run.initial[c] >= Reserve + Debt(c)

\* What a leg is about to give is there beyond the reserve.
GainedInv ==
  pc \in {"quote", "place"} /\ run.gained > 0 /\ Leg.give \in {B, C} =>
    wallet[Leg.give] >= Reserve + Debt(Leg.give) + run.gained

MoneyInv == BooksInv /\ PlaceInv /\ InitialInv /\ GainedInv

\* Three legs that go round three currencies.
LEMMA RoundTrip ==
  ASSUME NEW legs, NEW x \in {B, C}, NEW y \in {B, C}, x # y, Coin \in Coins,
         legs[1].give = Coin, legs[1].get = x, legs[2].give = x, legs[2].get = y,
         legs[3].give = y, legs[3].get = Coin, NEW l \in 1 .. 3
  PROVE  /\ legs[l].give \in Currency /\ legs[l].get \in Currency
         /\ legs[l].give # legs[l].get
         /\ legs[1].give \notin {B, C}
         /\ l < 3 => legs[l + 1].give = legs[l].get
         /\ \A k \in l .. 3 : legs[l].give \in {B, C} => legs[k].get # legs[l].give
<1>1. Coin \notin {B, C} /\ {Coin, x, y} \subseteq Currency /\ Coin # x /\ Coin # y
  BY MarketAssumption DEF Currency
<1>2. CASE l = 1
  BY <1>1, <1>2
<1>3. CASE l = 2
  <2>1. \A k \in l .. 3 : k = 2 \/ k = 3
    BY <1>3
  <2> QED
    BY <1>1, <1>3, <2>1
<1>4. CASE l = 3
  <2>1. \A k \in l .. 3 : k = 3
    BY <1>4
  <2> QED
    BY <1>1, <1>4, <2>1
<1> QED
  BY <1>2, <1>3, <1>4

\* What a leg gives it does not get, and no leg from it on brings.
LEMMA LegKnown ==
  ASSUME NEW path \in {"forward", "reverse"}, Coin \in Coins, NEW l \in 1 .. 3
  PROVE  /\ Legs(path)[l].give \in Currency /\ Legs(path)[l].get \in Currency
         /\ Legs(path)[l].give # Legs(path)[l].get
         /\ Legs(path)[1].give \notin {B, C}
         /\ l < 3 => Legs(path)[l + 1].give = Legs(path)[l].get
         /\ \A k \in l .. 3 :
              Legs(path)[l].give \in {B, C} => Legs(path)[k].get # Legs(path)[l].give
<1>1. PICK legs : legs = Legs(path)
  OBVIOUS
<1>2. B # C
  BY DEF B, C
<1>3. CASE path = "forward"
  <2>1. /\ legs[1].give = Coin /\ legs[1].get = B /\ legs[2].give = B /\ legs[2].get = C
        /\ legs[3].give = C /\ legs[3].get = Coin
    BY <1>1, <1>3 DEF Legs
  <2> QED
    BY <1>1, <1>2, <2>1, RoundTrip
<1>4. CASE path = "reverse"
  <2>1. /\ legs[1].give = Coin /\ legs[1].get = C /\ legs[2].give = C /\ legs[2].get = B
        /\ legs[3].give = B /\ legs[3].get = Coin
    BY <1>1, <1>4 DEF Legs
  <2> QED
    BY <1>1, <1>2, <2>1, RoundTrip
<1> QED
  BY <1>3, <1>4

\* Whether a leg buys is known, too.
LEMMA LegBuys ==
  ASSUME NEW path \in {"forward", "reverse"}, NEW l \in 1 .. 3
  PROVE  Legs(path)[l].buy \in BOOLEAN
<1>1. l = 1 \/ l = 2 \/ l = 3
  OBVIOUS
<1>2. /\ Legs(path)[1].buy \in BOOLEAN /\ Legs(path)[2].buy \in BOOLEAN
      /\ Legs(path)[3].buy \in BOOLEAN
  BY DEF Legs
<1> QED
  BY <1>1, <1>2

\* B and C are currencies, and the numbers are numbers.
LEMMA DebtIsInt ==
  ASSUME BooksInv, NEW c \in Currency
  PROVE  /\ Debt(c) \in Int /\ wallet[c] \in Nat /\ overpaid[c] \in Nat
         /\ Promised(c) \in Nat /\ Blocked(c) \in Nat
<1>1. Claimed(orders, 1, c) \in Nat /\ Claimed(orders, MaxPrice, c) \in Nat
  BY ClaimedIsNat DEF BooksInv
<1> QED
  BY <1>1 DEF BooksInv, Debt, Promised, Blocked

\* As long as nothing is sent or filled the books are right.
LEMMA BooksStay ==
  ASSUME BooksInv, UNCHANGED <<orders, wallet, overpaid>>
  PROVE  BooksInv' /\ \A c \in Currency : Debt(c)' = Debt(c)
BY DEF BooksInv, Debt, Promised, Blocked, ReserveKept, GoodOrders

\* A step of the thread alone: the books stay, so all that it has read is as
\* good as before.
LEMMA ReadingsStay ==
  ASSUME MoneyInv, UNCHANGED <<orders, wallet, overpaid, run, listed, at>>,
         pc' \in {"quote", "place"} => pc \in {"quote", "place"},
         pc' \in {"balance"} \cup Trading => pc' = pc \/ (pc \in Trading /\ pc' \in Trading)
  PROVE  InitialInv' /\ GainedInv'
<1>1. \A c \in Currency : Debt(c)' = Debt(c)
  BY BooksStay DEF MoneyInv
<1>2. Leg' = Leg
  BY DEF Leg, Legs, Coin
<1>3. \A c : Awaited(c)' = Awaited(c)
  BY DEF Awaited, Legs, Coin
<1>4. B \in Currency /\ C \in Currency
  BY DEF Currency
<1>5. InitialInv'
  BY <1>1, <1>3, <1>4 DEF MoneyInv, InitialInv, Trading
<1>6. GainedInv'
  BY <1>1, <1>2, <1>4 DEF MoneyInv, GainedInv
<1> QED
  BY <1>5, <1>6

\* Outside of an execution nothing is asked of what it has read.
LEMMA NothingRead ==
  ASSUME pc' \notin {"balance"} \cup Trading, run' = NoRun \/ (run' = run /\ MoneyInv)
  PROVE  InitialInv' /\ GainedInv'
<1>1. run'.initial \in [Currency -> Int] /\ run'.gained \in Int
  BY DEF MoneyInv, InitialInv, NoRun
<1>2. InitialInv'
  BY <1>1 DEF InitialInv, Trading
<1>3. GainedInv'
  BY DEF GainedInv, Trading
<1> QED
  BY <1>2, <1>3

\* The sweep goes on from where it is.
LEMMA MovedOn ==
  ASSUME PlaceInv, MoveOn, UNCHANGED <<listed, executions>>,
         pc \in {"assess"} \cup Executing
  PROVE  PlaceInv' /\ pc' \in {"assess", "top"}
<1>1. /\ Len(listed) \in Nat /\ at \in 1 .. Len(listed) /\ MaxAttempts \in Nat \ {0}
      /\ attempt' = 1
  BY DEF PlaceInv, MoveOn
<1>2. CASE at < Len(listed)
  BY <1>1, <1>2 DEF MoveOn, PlaceInv, Executing
<1>3. CASE ~ (at < Len(listed))
  BY <1>1, <1>3 DEF MoveOn, PlaceInv, Executing
<1> QED
  BY <1>2, <1>3

\* Giving an execution up leaves the books alone or as the last order has left
\* them.
LEMMA GivenUp ==
  ASSUME PlaceInv, Abandon, UNCHANGED <<listed, executions>>, pc \in Executing
  PROVE  PlaceInv' /\ InitialInv' /\ GainedInv'
<1>1. PlaceInv' /\ pc' \in {"assess", "top"} /\ run' = NoRun
  BY MovedOn DEF Abandon
<1>2. pc' \notin {"balance"} \cup Trading
  BY <1>1 DEF Trading
<1> QED
  BY <1>1, <1>2, NothingRead

LEMMA MoneySweep ==
  ASSUME MoneyInv, Start \/ Top \/ Skip \/ AssessThrows \/ Signal \/ Assess
  PROVE  MoneyInv'
<1>1. UNCHANGED <<orders, wallet, overpaid, listed>>
  BY DEF Start, Top, Skip, AssessThrows, Signal, Assess
<1>2. BooksInv' /\ PlaceInv
  BY <1>1, BooksStay DEF MoneyInv
<1>3. PlaceInv' /\ pc' \notin {"balance"} \cup Trading /\ (run' = NoRun \/ run' = run)
  <2>1. /\ Len(listed) \in Nat /\ MaxAttempts \in Nat \ {0} /\ MaxExecutions \in Nat
        /\ executions \in 0 .. MaxExecutions
    BY BoundsAssumption, <1>2 DEF PlaceInv
  <2>2. CASE Start
    BY <1>1, <1>2, <2>1, <2>2 DEF Start, PlaceInv, Executing, Trading
  <2>3. CASE Top
    <3>1. Len(listed) > 0
      BY <1>2, <2>3 DEF Top, PlaceInv
    <3> QED
      BY <1>1, <1>2, <2>1, <2>3, <3>1 DEF Top, PlaceInv, Executing, Trading
  <2>4. CASE Skip
    BY <1>1, <1>2, <2>4, MovedOn DEF Skip, Trading
  <2>5. CASE AssessThrows
    BY <1>1, <1>2, <2>1, <2>5 DEF AssessThrows, PlaceInv, Executing, Trading
  <2>6. CASE Signal
    BY <1>1, <1>2, <2>1, <2>6 DEF Signal, PlaceInv, Executing, Trading
  <2>7. CASE Assess
    <3>1. pc = "assess" /\ Coin \in Coins /\ UNCHANGED run
      BY <2>7 DEF Assess, Quoted
    <3>2. CASE MoveOn /\ UNCHANGED executions
      BY <1>1, <1>2, <3>1, <3>2, MovedOn DEF Trading
    <3>3. CASE /\ executions < MaxExecutions /\ executions' = executions + 1
               /\ pc' = "confirm" /\ attempt' = 1 /\ UNCHANGED at
      <4>1. executions' \in 0 .. MaxExecutions /\ Coin' = Coin
        BY <1>1, <2>1, <3>3 DEF Coin
      <4> QED
        BY <1>1, <1>2, <2>1, <3>1, <3>3, <4>1 DEF PlaceInv, Executing, Trading
    <3> QED
      BY <2>7, <3>2, <3>3 DEF Assess
  <2> QED
    BY <2>2, <2>3, <2>4, <2>5, <2>6, <2>7
<1> QED
  BY <1>2, <1>3, NothingRead DEF MoneyInv

LEMMA MoneyQuoteFails ==
  ASSUME MoneyInv, QuoteFails
  PROVE  MoneyInv'
<1>1. /\ UNCHANGED <<orders, wallet, overpaid, run, listed, at, pc, executions>>
      /\ attempt < MaxAttempts /\ attempt' = attempt + 1
  BY DEF QuoteFails
<1>2. BooksInv'
  BY <1>1, BooksStay DEF MoneyInv
<1>3. InitialInv' /\ GainedInv'
  <2>1. /\ pc' \in {"quote", "place"} => pc \in {"quote", "place"}
        /\ pc' \in {"balance"} \cup Trading => pc' = pc \/ (pc \in Trading /\ pc' \in Trading)
        /\ UNCHANGED <<orders, wallet, overpaid, run, listed, at>>
    BY <1>1
  <2> QED
    BY <2>1, ReadingsStay
<1>4. PlaceInv'
  BY <1>1 DEF MoneyInv, PlaceInv, Executing, Coin
<1> QED
  BY <1>2, <1>3, <1>4 DEF MoneyInv

LEMMA MoneyConfirm ==
  ASSUME MoneyInv, Confirm
  PROVE  MoneyInv'
<1>1. UNCHANGED <<orders, wallet, overpaid, listed, executions>> /\ pc = "confirm"
  BY DEF Confirm
<1>2. BooksInv' /\ PlaceInv /\ pc \in Executing
  BY <1>1, BooksStay DEF MoneyInv, Executing
<1>3. CASE Abandon
  BY <1>1, <1>2, <1>3, GivenUp DEF MoneyInv
<1>4. CASE /\ \E p \in {"forward", "reverse"} : run' = [NoRun EXCEPT !.path = p]
           /\ pc' = "balance" /\ attempt' = 1 /\ UNCHANGED at
  <2>1. /\ run'.path \in {"forward", "reverse"} /\ run'.leg = 0
        /\ run'.initial \in [Currency -> Int] /\ run'.gained \in Int
    BY <1>4 DEF NoRun
  <2>2. InitialInv' /\ GainedInv'
    BY <1>4, <2>1 DEF InitialInv, GainedInv, Trading
  <2>3. PlaceInv'
    BY <1>1, <1>2, <1>4 DEF PlaceInv, Executing, Coin
  <2> QED
    BY <1>2, <2>2, <2>3 DEF MoneyInv
<1> QED
  BY <1>3, <1>4 DEF Confirm

LEMMA MoneyThrow ==
  ASSUME MoneyInv, PlaceThrows \/ ExecutionThrows
  PROVE  MoneyInv'
<1>1. /\ UNCHANGED <<orders, wallet, overpaid, listed, executions>>
      /\ Abandon /\ pc \in Executing
  BY DEF PlaceThrows, ExecutionThrows, Executing
<1> QED
  BY <1>1, BooksStay, GivenUp DEF MoneyInv

LEMMA MoneyQuote ==
  ASSUME MoneyInv, Quote
  PROVE  MoneyInv'
<1>1. /\ UNCHANGED <<orders, wallet, overpaid, run, listed, at, executions>>
      /\ pc = "quote" /\ pc' = "place" /\ attempt' = 1
  BY DEF Quote
<1>2. BooksInv' /\ InitialInv' /\ GainedInv'
  BY <1>1, BooksStay, ReadingsStay DEF MoneyInv, Trading
<1>3. PlaceInv'
  BY <1>1 DEF MoneyInv, PlaceInv, Executing, Coin
<1> QED
  BY <1>2, <1>3 DEF MoneyInv

\* The reserve, as the debt leaves it.
LEMMA ReserveCovers ==
  ASSUME BooksInv, NEW c \in {B, C}
  PROVE  wallet[c] >= Reserve + Debt(c)
<1>1. c \in Currency
  BY DEF Currency
<1>2. wallet[c] - Promised(c) + overpaid[c] >= Reserve
  BY DEF BooksInv, ReserveKept
<1>3. wallet[c] \in Nat /\ Promised(c) \in Nat /\ overpaid[c] \in Nat
  BY <1>1, DebtIsInt
<1> QED
  BY <1>2, <1>3, BoundsAssumption DEF Debt

LEMMA MoneyReadBalance ==
  ASSUME MoneyInv, SentInv, ReadBalance
  PROVE  MoneyInv'
<1> DEFINE n == NextBalance
           seen == [run EXCEPT !.initial[n] = wallet[n]]
<1>1. /\ UNCHANGED <<orders, wallet, overpaid, listed, at, attempt, executions>>
      /\ pc = "balance" /\ run.leg \in 0 .. 2
  BY DEF ReadBalance, SentInv, Ordered
<1>2. BooksInv' /\ \A c \in Currency : Debt(c)' = Debt(c)
  BY <1>1, BooksStay DEF MoneyInv
<1>3. /\ Coin \in Coins /\ run.path \in {"forward", "reverse"} /\ IsRun(run)
      /\ run.initial \in [Currency -> Int] /\ run.gained \in Int
      /\ wallet \in [Currency -> Nat]
  BY <1>1 DEF MoneyInv, PlaceInv, InitialInv, BooksInv, SentInv, Executing
<1>4. /\ run.leg = 0 => n = Coin
      /\ run.leg = 1 => n = B
      /\ run.leg = 2 => n = C
  BY DEF NextBalance
<1>5. B # C /\ B \in Currency /\ C \in Currency /\ Coin \in Currency
  BY <1>3 DEF B, C, Currency
<1>6. n \in Currency
  BY <1>1, <1>4, <1>5
<1>7. \/ run.leg < 2 /\ run' = [seen EXCEPT !.leg = @ + 1] /\ UNCHANGED pc
      \/ run.leg = 2 /\ run' = [seen EXCEPT !.leg = 1, !.gained = TradeAmount] /\ pc' = "quote"
  BY <1>1 DEF ReadBalance
<1> HIDE DEF n
<1>8. /\ IsRun(seen) /\ seen.leg = run.leg /\ seen.path = run.path /\ seen.gained = run.gained
      /\ seen.initial = [run.initial EXCEPT ![n] = wallet[n]]
  BY <1>3 DEF IsRun, RunFields
<1> HIDE DEF seen
<1>9. /\ run'.path = run.path /\ run'.initial = seen.initial /\ run'.gained \in Int
      /\ run.leg < 2 => run'.leg = run.leg + 1
      /\ run.leg = 2 => run'.leg = 1
  <2>1. CASE run.leg < 2 /\ run' = [seen EXCEPT !.leg = @ + 1]
    BY <1>3, <1>8, <2>1 DEF IsRun, RunFields
  <2>2. CASE run.leg = 2 /\ run' = [seen EXCEPT !.leg = 1, !.gained = TradeAmount]
    BY <1>3, <1>8, <2>2 DEF IsRun, RunFields
  <2> QED
    BY <1>7, <2>1, <2>2
<1>10. /\ run'.initial \in [Currency -> Int] /\ run'.initial[n] = wallet[n]
       /\ \A c \in Currency : c # n => run'.initial[c] = run.initial[c]
  BY <1>3, <1>6, <1>8, <1>9
<1>11. \A c \in {B, C} : wallet[c] >= Reserve + Debt(c)
  BY ReserveCovers DEF MoneyInv
<1>12. PlaceInv'
  BY <1>1, <1>7 DEF MoneyInv, PlaceInv, Executing, Coin
<1>13. CASE run.leg < 2
  <2>1. pc' = "balance"
    BY <1>1, <1>7, <1>13
  <2>2. run'.leg = 2 => run'.initial[B] >= Reserve + Debt(B)
    BY <1>1, <1>4, <1>9, <1>10, <1>11, <1>13
  <2>3. InitialInv'
    BY <1>2, <1>3, <1>5, <1>9, <1>10, <2>1, <2>2 DEF InitialInv, Trading
  <2> QED
    BY <1>2, <1>12, <2>1, <2>3 DEF MoneyInv, GainedInv
<1>14. CASE run.leg = 2
  <2>1. pc' = "quote" /\ run'.leg = 1
    BY <1>7, <1>9, <1>14
  <2>2. run.initial[B] >= Reserve + Debt(B)
    BY <1>1, <1>14 DEF MoneyInv, InitialInv
  <2>3. \A c \in {B, C} : run'.initial[c] >= Reserve + Debt(c)
    BY <1>4, <1>5, <1>10, <1>11, <1>14, <2>2
  <2>4. InitialInv'
    BY <1>2, <1>3, <1>5, <1>9, <1>10, <2>1, <2>3 DEF InitialInv, Trading
  <2>5. Leg'.give \notin {B, C}
    <3>1. Legs(run.path)[1].give \notin {B, C}
      BY <1>3, LegKnown
    <3>2. Leg' = Legs(run.path)[1]
      BY <1>1, <1>9, <2>1 DEF Leg, Legs, Coin
    <3> QED
      BY <3>1, <3>2
  <2> QED
    BY <1>2, <1>12, <2>4, <2>5 DEF MoneyInv, GainedInv
<1> QED
  BY <1>1, <1>13, <1>14

\* What a leg has brought is what the next one gives.
LEMMA MoneyPoll ==
  ASSUME MoneyInv, SentInv, Poll
  PROVE  MoneyInv'
<1>1. /\ UNCHANGED <<orders, wallet, overpaid, listed, executions>>
      /\ pc = "poll" /\ run.leg \in 1 .. 3
  BY DEF Poll, SentInv, Ordered
<1>2. BooksInv' /\ PlaceInv /\ pc \in Executing /\ \A c \in Currency : Debt(c)' = Debt(c)
  BY <1>1, BooksStay DEF MoneyInv, Executing
<1>3. CASE Abandon
  BY <1>1, <1>2, <1>3, GivenUp DEF MoneyInv
<1>4. CASE /\ run.leg < 3 /\ run' = [run EXCEPT !.leg = @ + 1, !.gained = Carried]
           /\ pc' = "quote" /\ attempt' = 1 /\ UNCHANGED at
  <2> DEFINE path == run.path
             l == run.leg
  <2>1. /\ Coin \in Coins /\ path \in {"forward", "reverse"} /\ IsRun(run)
        /\ run.initial \in [Currency -> Int] /\ l \in 1 .. 3 /\ l < 3
        /\ wallet \in [Currency -> Nat] /\ Coin' = Coin
    BY <1>1, <1>4 DEF MoneyInv, PlaceInv, InitialInv, BooksInv, SentInv, Executing, Trading, Coin
  <2>2. /\ run'.path = path /\ run'.leg = l + 1 /\ run'.initial = run.initial
        /\ run'.gained = Carried
    BY <1>1, <1>4, <2>1 DEF IsRun, RunFields
  <2>3. PICK g : g = Leg.get
    OBVIOUS
  <2>4. /\ g \in Currency /\ Legs(path)[l].get = g /\ Legs(path)[l + 1].give = g
    BY <2>1, <2>3, LegKnown DEF Leg
  <2>5. Carried \in Int /\ (Carried > 0 => Carried = wallet[g] - run.initial[g])
    BY <2>1, <2>3, <2>4 DEF Carried, Gained
  <2>6. Leg'.give = g
    BY <2>1, <2>2, <2>4 DEF Leg, Legs
  <2>7. \A c \in {B, C} : Awaited(c) => run.initial[c] >= Reserve + Debt(c)
    BY <1>1 DEF MoneyInv, InitialInv, Trading
  <2>8. \A c : Awaited(c)' => Awaited(c)
    <3> SUFFICES ASSUME NEW c, NEW k \in l + 1 .. 3, Legs(path)[k].get = c
                 PROVE  Awaited(c)
      BY <2>1, <2>2 DEF Awaited, Legs
    <3>1. k \in l .. 3
      BY <2>1
    <3> QED
      BY <3>1 DEF Awaited
  <2>9. InitialInv'
    <3>1. B \in Currency /\ C \in Currency
      BY DEF Currency
    <3> QED
      BY <1>2, <1>4, <2>1, <2>2, <2>5, <2>7, <2>8, <3>1 DEF InitialInv, Trading
  <2>10. GainedInv'
    <3> SUFFICES ASSUME Carried > 0, g \in {B, C}
                 PROVE  wallet[g] >= Reserve + Debt(g) + Carried
      BY <1>1, <1>2, <2>2, <2>4, <2>6 DEF GainedInv
    <3>1. l \in l .. 3
      BY <2>1
    <3>2. Awaited(g)
      BY <2>4, <3>1 DEF Awaited
    <3>3. run.initial[g] >= Reserve + Debt(g)
      BY <2>7, <3>2
    <3>4. Debt(g) \in Int /\ wallet[g] \in Int /\ run.initial[g] \in Int
      BY <2>1, <2>4, DebtIsInt DEF MoneyInv
    <3> QED
      BY <2>5, <3>3, <3>4, BoundsAssumption
  <2>11. PlaceInv'
    BY <1>1, <1>2, <1>4, <2>1 DEF PlaceInv, Executing
  <2> QED
    BY <1>2, <2>9, <2>10, <2>11 DEF MoneyInv
<1> QED
  BY <1>3, <1>4 DEF Poll

\* What the exchange fills leaves no less above the debt than there was.
LEMMA MoneyFill ==
  ASSUME MoneyInv, SentInv, NEW o \in orders, Fill(o)
  PROVE  MoneyInv'
<1> DEFINE u == Unit(o, MaxPrice)
<1>1. PICK cost \in 1 .. u :
        /\ wallet' = [wallet EXCEPT ![o.give] = @ - cost, ![o.get] = @ + 1]
        /\ overpaid' = [overpaid EXCEPT ![o.give] = @ + cost - 1]
  BY DEF Fill
<1>2. orders' = Filled(orders, o) /\ UNCHANGED botVars
  BY DEF Fill, Filled, Left
<1>3. GoodOrders(orders) /\ GoodOrder(o) /\ Single(orders) /\ \A q \in orders : IsOrder(q)
  BY DEF MoneyInv, BooksInv, GoodOrders, SentInv
<1>4. /\ u \in Nat \ {0} /\ MaxPrice \in Nat /\ Unit(o, 1) = 1
      /\ o.give \in Currency /\ o.get \in Currency /\ o.give # o.get
      /\ cost \in Nat /\ 1 <= cost /\ cost <= u
  BY <1>1, <1>3 DEF GoodOrder, Unit
<1> HIDE DEF u
<1>5. GoodOrders(orders')
  BY <1>2, <1>3, <1>4, ClaimedFilled
<1>6. ASSUME NEW c
      PROVE  /\ Promised(c)' = Promised(c) - (IF o.give = c THEN 1 ELSE 0)
             /\ Blocked(c)' = Blocked(c) - (IF o.give = c THEN u ELSE 0)
  <2>1. /\ Claimed(orders', 1, c) = Claimed(orders, 1, c) - (IF o.give = c THEN Unit(o, 1) ELSE 0)
        /\ Claimed(orders', MaxPrice, c) =
             Claimed(orders, MaxPrice, c) - (IF o.give = c THEN Unit(o, MaxPrice) ELSE 0)
    BY <1>2, <1>3, <1>4, ClaimedFilled
  <2> QED
    BY <1>4, <2>1 DEF Promised, Blocked, u
<1>7. wallet \in [Currency -> Nat] /\ overpaid \in [Currency -> Nat]
  BY DEF MoneyInv, BooksInv
<1>8. ASSUME NEW c \in Currency
      PROVE  /\ wallet'[c] = IF c = o.give THEN wallet[c] - cost
                             ELSE IF c = o.get THEN wallet[c] + 1 ELSE wallet[c]
             /\ overpaid'[c] = IF c = o.give THEN overpaid[c] + cost - 1 ELSE overpaid[c]
  BY <1>1, <1>4, <1>7
<1>9. ASSUME NEW c \in Currency
      PROVE  /\ wallet'[c] \in Nat /\ overpaid'[c] \in Nat /\ Blocked(c)' <= wallet'[c]
             /\ Debt(c) \in Int /\ Debt(c)' \in Int /\ wallet[c] \in Int
             /\ Debt(c)' <= Debt(c) /\ wallet[c] - Debt(c) <= wallet'[c] - Debt(c)'
  <2>1. /\ wallet[c] \in Nat /\ overpaid[c] \in Nat /\ Promised(c) \in Nat /\ Blocked(c) \in Nat
        /\ Blocked(c) <= wallet[c]
    BY DebtIsInt DEF MoneyInv, BooksInv
  <2>2. Blocked(c)' \in Nat
    BY <1>4, <1>5, ClaimedIsNat DEF Blocked
  <2>3. Debt(c) = Promised(c) - overpaid[c] /\ Debt(c)' = Promised(c)' - overpaid'[c]
    BY DEF Debt
  <2> QED
    BY <1>4, <1>6, <1>8, <2>1, <2>2, <2>3
<1>10. B \in Currency /\ C \in Currency
  BY DEF Currency
<1>11. BooksInv'
  <2>1. wallet' \in [Currency -> Nat] /\ overpaid' \in [Currency -> Nat]
    BY <1>1, <1>7, <1>9
  <2>2. ASSUME NEW c \in {B, C} PROVE wallet'[c] - Promised(c)' + overpaid'[c] >= Reserve
    <3>1. c \in Currency /\ wallet[c] >= Reserve + Debt(c)
      BY <1>10, ReserveCovers DEF MoneyInv
    <3>2. Promised(c) \in Nat /\ overpaid[c] \in Nat
      BY <3>1, DebtIsInt DEF MoneyInv
    <3>3. wallet'[c] - Debt(c)' >= Reserve
      BY <1>9, <3>1, BoundsAssumption
    <3>4. Debt(c)' = Promised(c)' - overpaid'[c] /\ Promised(c)' \in Int
      BY <1>6, <3>2 DEF Debt
    <3> QED
      BY <1>9, <3>1, <3>3, <3>4
  <2> QED
    BY <1>5, <1>9, <2>1, <2>2 DEF BooksInv, ReserveKept
<1>12. /\ UNCHANGED <<pc, listed, at, attempt, run, executions>> /\ Coin' = Coin /\ Leg' = Leg
       /\ \A c : Awaited(c)' = Awaited(c)
  BY <1>2 DEF botVars, Coin, Leg, Legs, Awaited
<1>13. PlaceInv'
  BY <1>12 DEF MoneyInv, PlaceInv
<1>14. InitialInv'
  <2>1. run.initial \in [Currency -> Int]
    BY DEF MoneyInv, InitialInv
  <2>2. ASSUME NEW c \in Currency, run.initial[c] >= Reserve + Debt(c)
        PROVE  run.initial[c] >= Reserve + Debt(c)'
    <3>1. Debt(c) \in Int /\ Debt(c)' \in Int /\ Debt(c)' <= Debt(c) /\ run.initial[c] \in Int
      BY <1>9, <2>1
    <3> QED
      BY <2>2, <3>1, BoundsAssumption
  <2> QED
    BY <1>10, <1>12, <2>2 DEF MoneyInv, InitialInv
<1>15. GainedInv'
  <2> SUFFICES ASSUME pc \in {"quote", "place"}, run.gained > 0, Leg.give \in {B, C}
               PROVE  wallet'[Leg.give] >= Reserve + Debt(Leg.give)' + run.gained
    BY <1>12 DEF GainedInv
  <2>1. PICK c \in {B, C} : c = Leg.give
    OBVIOUS
  <2>2. wallet[c] >= Reserve + Debt(c) + run.gained /\ run.gained \in Int
    BY <2>1 DEF MoneyInv, GainedInv, InitialInv
  <2>3. c \in Currency
    BY <1>10
  <2>4. wallet'[c] >= Reserve + Debt(c)' + run.gained
    BY <1>9, <2>2, <2>3, BoundsAssumption
  <2> QED
    BY <1>12, <2>1, <2>4
<1> QED
  BY <1>11, <1>13, <1>14, <1>15 DEF MoneyInv

\* An order that is sent is for what the current leg may give.
LEMMA MoneySent ==
  ASSUME MoneyInv, SentInv, Place, orders' = orders \cup {Order},
         Order.qty * Unit(Order, MaxPrice) + Blocked(Leg.give) <= wallet[Leg.give]
  PROVE  /\ BooksInv' /\ Leg.give \in Currency
         /\ \A c \in Currency : c # Leg.give => Debt(c)' = Debt(c)
<1>1. /\ UNCHANGED <<wallet, overpaid, executions>> /\ pc = "place" /\ run.gained > 0
      /\ run.leg \in 1 .. 3 /\ executions \in Nat
  BY DEF Place, SentInv, Ordered
<1>2. /\ Coin \in Coins /\ run.path \in {"forward", "reverse"} /\ run.gained \in Int
      /\ GoodOrders(orders) /\ MaxPrice \in Nat
      /\ wallet \in [Currency -> Nat] /\ overpaid \in [Currency -> Nat]
  BY <1>1 DEF MoneyInv, PlaceInv, InitialInv, BooksInv, Executing, Trading
<1>3. PICK o : o = Order
  OBVIOUS
<1>4. /\ o.give = Leg.give /\ o.get = Leg.get /\ o.buy = Leg.buy /\ o.qty = run.gained
      /\ o.n = executions /\ o.leg = run.leg
  BY <1>3 DEF Order
<1>5. Leg.give \in Currency /\ Leg.get \in Currency /\ Leg.give # Leg.get /\ Leg.buy \in BOOLEAN
  BY <1>1, <1>2, LegKnown, LegBuys DEF Leg
<1>6. GoodOrder(o)
  BY <1>1, <1>2, <1>4, <1>5 DEF GoodOrder
<1>7. o \notin orders
  <2>1. \A q \in orders : q.n = executions => q.leg < run.leg
    BY <1>1 DEF SentInv, Ordered
  <2> QED
    BY <1>1, <1>4, <2>1
<1>8. orders' = orders \cup {o}
  BY <1>3
<1>9. GoodOrders(orders')
  BY <1>2, <1>6, <1>7, <1>8, ClaimedMore
<1>10. PICK g : g = Leg.give
  OBVIOUS
<1>11. ASSUME NEW c, NEW price \in Nat
       PROVE  /\ Claimed(orders', price, c) = Claimed(orders, price, c) + Share(o, price, c)
              /\ Claimed(orders, price, c) \in Nat /\ Share(o, price, c) \in Int
  <2>1. GoodOrders(orders) /\ GoodOrder(o) /\ o \notin orders /\ orders' = orders \cup {o}
    BY <1>2, <1>6, <1>7, <1>8
  <2>2. Claimed(orders', price, c) = Claimed(orders, price, c) + Share(o, price, c)
    BY <2>1, ClaimedMore
  <2>3. Share(o, price, c) \in Int
    BY <2>1, ClaimedMore
  <2>4. Claimed(orders, price, c) \in Nat
    BY <2>1, ClaimedIsNat
  <2> QED
    BY <2>2, <2>3, <2>4
<1>12. /\ \A c, price : c # g => Share(o, price, c) = 0
       /\ \A price : Share(o, price, g) = o.qty * Unit(o, price)
  BY <1>4, <1>10 DEF Share
<1>13. ASSUME NEW c \in Currency, c # g
       PROVE  Promised(c)' = Promised(c) /\ Blocked(c)' = Blocked(c) /\ Debt(c)' = Debt(c)
  <2>1. ASSUME NEW price \in Nat PROVE Claimed(orders', price, c) = Claimed(orders, price, c)
    <3>1. Claimed(orders', price, c) = Claimed(orders, price, c) + Share(o, price, c)
      BY <1>11
    <3>2. Claimed(orders, price, c) \in Nat
      BY <1>11
    <3>3. Share(o, price, c) = 0
      BY <1>12, <1>13
    <3> QED
      BY <3>1, <3>2, <3>3
  <2> QED
    BY <1>1, <1>2, <2>1 DEF Promised, Blocked, Debt
<1>14. Promised(g)' = Promised(g) + run.gained
  <2>1. Share(o, 1, g) = run.gained
    BY <1>2, <1>4, <1>12 DEF Unit
  <2>2. Claimed(orders', 1, g) = Claimed(orders, 1, g) + run.gained
    BY <1>11, <2>1
  <2> QED
    BY <2>2 DEF Promised
<1>15. Blocked(g)' <= wallet[g]
  <2>1. Claimed(orders', MaxPrice, g) = Claimed(orders, MaxPrice, g) + Share(o, MaxPrice, g)
    BY <1>2, <1>11
  <2>2. Claimed(orders, MaxPrice, g) \in Nat /\ Share(o, MaxPrice, g) \in Int
    BY <1>2, <1>11
  <2>3. Share(o, MaxPrice, g) + Claimed(orders, MaxPrice, g) <= wallet[g]
    BY <1>3, <1>10, <1>12 DEF Blocked
  <2>4. wallet[g] \in Int
    BY <1>2, <1>5, <1>10
  <2> QED
    BY <2>1, <2>2, <2>3, <2>4 DEF Blocked
<1>16. g \in {B, C} => wallet[g] >= Reserve + Debt(g) + run.gained
  BY <1>1, <1>10 DEF MoneyInv, GainedInv
<1>17. /\ Debt(g) = Promised(g) - overpaid[g] /\ Promised(g) \in Nat
       /\ overpaid[g] \in Nat /\ wallet[g] \in Nat
  BY <1>5, <1>10, DebtIsInt DEF MoneyInv, Debt
<1>18. ASSUME NEW c \in {B, C} PROVE wallet[c] - Promised(c)' + overpaid[c] >= Reserve
  <2>1. CASE c = g
    BY <1>2, <1>14, <1>16, <1>17, <2>1, BoundsAssumption
  <2>2. CASE c # g
    <3>1. c \in Currency
      BY DEF Currency
    <3>2. wallet[c] - Promised(c) + overpaid[c] >= Reserve
      BY DEF MoneyInv, BooksInv, ReserveKept
    <3> QED
      BY <1>13, <2>2, <3>1, <3>2
  <2> QED
    BY <2>1, <2>2
<1>19. \A c \in Currency : Blocked(c)' <= wallet[c]
  BY <1>13, <1>15 DEF MoneyInv, BooksInv
<1>20. BooksInv'
  BY <1>1, <1>2, <1>9, <1>18, <1>19 DEF BooksInv, ReserveKept
<1> QED
  BY <1>5, <1>10, <1>13, <1>20

LEMMA MoneyPlace ==
  ASSUME MoneyInv, SentInv, Place
  PROVE  MoneyInv'
<1>1. /\ UNCHANGED <<wallet, overpaid, listed, executions>> /\ pc = "place"
      /\ run.leg \in 1 .. 3 /\ PlaceInv /\ pc \in Executing
  BY DEF Place, SentInv, Ordered, MoneyInv, Executing
<1>2. CASE orders' = orders /\ Abandon
  BY <1>1, <1>2, BooksStay, GivenUp DEF MoneyInv
<1>3. CASE /\ Order.qty * Unit(Order, MaxPrice) + Blocked(Leg.give) <= wallet[Leg.give]
           /\ orders' = orders \cup {Order}
           /\ (pc' = "poll" /\ UNCHANGED <<run, at, attempt>>) \/ Abandon
  <2>1. /\ BooksInv' /\ Leg.give \in Currency
        /\ \A c \in Currency : c # Leg.give => Debt(c)' = Debt(c)
    BY <1>3, MoneySent
  <2>2. CASE Abandon
    BY <1>1, <2>1, <2>2, GivenUp DEF MoneyInv
  <2>3. CASE pc' = "poll" /\ UNCHANGED <<run, at, attempt>>
    <3>1. Coin' = Coin /\ Coin \in Coins /\ run.path \in {"forward", "reverse"}
      BY <1>1, <2>3 DEF Coin, MoneyInv, PlaceInv, InitialInv, Trading
    <3>2. \A c : Awaited(c)' = Awaited(c)
      BY <1>1, <2>3, <3>1 DEF Awaited, Legs
    <3>3. ASSUME NEW c \in {B, C}, Awaited(c)
          PROVE  run.initial[c] >= Reserve + Debt(c)'
      <4>1. run.initial[c] >= Reserve + Debt(c)
        BY <1>1, <3>3 DEF MoneyInv, InitialInv, Trading
      <4>2. c # Leg.give
        BY <1>1, <3>1, <3>3, LegKnown DEF Awaited, Leg
      <4>3. c \in Currency
        BY DEF Currency
      <4> QED
        BY <2>1, <4>1, <4>2, <4>3
    <3>4. run.initial \in [Currency -> Int] /\ run.gained \in Int
      BY DEF MoneyInv, InitialInv
    <3>5. InitialInv'
      BY <2>3, <3>1, <3>2, <3>3, <3>4 DEF InitialInv, Trading
    <3>6. PlaceInv'
      BY <1>1, <2>3, <3>1 DEF PlaceInv, Executing
    <3> QED
      BY <2>1, <2>3, <3>5, <3>6 DEF MoneyInv, GainedInv
  <2> QED
    BY <1>3, <2>2, <2>3
<1> QED
  BY <1>2, <1>3 DEF Place

LEMMA MoneyStep == MoneyInv /\ SentInv /\ [Next]_vars => MoneyInv'
<1> SUFFICES ASSUME MoneyInv, SentInv, [Next]_vars PROVE MoneyInv'
  OBVIOUS
<1>1. CASE Step
  BY <1>1, MoneySweep, MoneyConfirm, MoneyReadBalance, MoneyQuote, MoneyThrow, MoneyPoll DEF Step
<1>2. CASE Signal \/ QuoteFails \/ AssessThrows
  BY <1>2, MoneySweep, MoneyQuoteFails
<1>3. CASE Assess \/ Place \/ ExecutionThrows
  BY <1>3, MoneySweep, MoneyPlace, MoneyThrow
<1>4. CASE FillAny
  BY <1>4, MoneyFill DEF FillAny
<1>5. CASE UNCHANGED vars
  <2>1. UNCHANGED <<orders, wallet, overpaid, run, listed, at, attempt, executions, pc>>
    BY <1>5 DEF vars, botVars
  <2>2. BooksInv' /\ PlaceInv'
    BY <2>1, BooksStay DEF MoneyInv, PlaceInv, Coin
  <2>3. /\ pc' \in {"quote", "place"} => pc \in {"quote", "place"}
        /\ pc' \in {"balance"} \cup Trading => pc' = pc \/ (pc \in Trading /\ pc' \in Trading)
    BY <2>1
  <2> QED
    BY <2>1, <2>2, <2>3, ReadingsStay DEF MoneyInv
<1> QED
  BY <1>1, <1>2, <1>3, <1>4, <1>5 DEF Next

LEMMA MoneyInit == Init => MoneyInv
<1> SUFFICES ASSUME Init PROVE MoneyInv
  OBVIOUS
<1>1. /\ orders = {} /\ wallet = [c \in Currency |-> Reserve]
      /\ overpaid = [c \in Currency |-> 0] /\ pc = "start" /\ at = 1 /\ attempt = 1
      /\ run = NoRun /\ executions = 0 /\ listed \in Listings
  BY DEF Init
<1>2. GoodOrders(orders)
  BY <1>1, FS_EmptySet DEF GoodOrders
<1>3. ASSUME NEW price \in Nat, NEW c PROVE Claimed(orders, price, c) = 0
  <2>1. {o \in orders : o.give = c} = {}
    BY <1>1
  <2> QED
    BY <2>1, SumEmpty DEF Claimed
<1>4. \A c \in Currency : Promised(c) = 0 /\ Blocked(c) = 0
  BY <1>3 DEF Promised, Blocked
<1>5. B \in Currency /\ C \in Currency
  BY DEF Currency
<1>6. BooksInv
  BY <1>1, <1>2, <1>4, <1>5, BoundsAssumption DEF BooksInv, ReserveKept
<1>7. PlaceInv
  BY <1>1, MarketAssumption, BoundsAssumption DEF PlaceInv, Executing
<1>8. InitialInv /\ GainedInv
  BY <1>1 DEF InitialInv, GainedInv, NoRun, Trading
<1> QED
  BY <1>6, <1>7, <1>8 DEF MoneyInv

\* What was in the wallets of B and C before the bot began is never traded, for
\* any markets, amounts, prices and number of executions: whatever answers are
\* lost, whatever is given up and in whatever order the exchange fills, the open
\* orders promise no more than what came in since (main.cpp 680-850).
THEOREM ReserveIsKept == Spec => []MoneyKept
<1>1. Init => SentInv
  BY EmptyRun DEF Init, SentInv, Single, Ordered
<1>2. MoneyInv /\ SentInv => MoneyKept
  <2> SUFFICES ASSUME MoneyInv, SentInv PROVE MoneyKept
    OBVIOUS
  <2>1. \A o \in orders : o.qty > 0 /\ o.give \in Currency /\ o.get \in Currency
    BY DEF MoneyInv, BooksInv, GoodOrders, GoodOrder
  <2>2. run.leg \in 0 .. 3
    BY DEF SentInv, IsRun
  <2> QED
    BY <2>1, <2>2 DEF MoneyInv, BooksInv, PlaceInv, Executing, MoneyKept, TypeOK
<1> QED
  BY <1>1, <1>2, MoneyInit, SentStep, MoneyStep, PTL DEF Spec
=============================================================================
