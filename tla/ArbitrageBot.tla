---------------------------- MODULE ArbitrageBot ----------------------------
(***************************************************************************)
(* The arbitrage bot (arbitrage/main.cpp) and its WebSocket client: one    *)
(* thread that sweeps the listed markets and, for a profitable coin, sends *)
(* three orders round the coin and the currencies B and C.  Everything it  *)
(* learns comes from requests, and between any two of them the exchange    *)
(* fills orders, those included that an earlier execution gave up on.      *)
(*                                                                         *)
(* Quantities are units and a quote pays one for one; a purchase, whose    *)
(* limit is the level after the one quoted, may cost more when it fills.   *)
(* The threads that would read from the WebSocket do not exist: nothing    *)
(* runs ioc_, so no handler of it is ever called.                          *)
(***************************************************************************)
EXTENDS Integers, Sequences, FiniteSets, Functions

CONSTANTS
  Coins,             \* currencies other than B and C
  Listings,          \* lists of markets the exchange may publish
  TradeAmount,       \* config.tradeAmountA
  Reserve,           \* what every wallet holds at first
  MaxPrice,          \* the price of one unit when a purchase fills, at most
  MaxAttempts,       \* MAX_RETRY_ATTEMPTS
  MaxExecutions      \* bound: executions in a behaviour

ASSUME BotAssumption ==
  TradeAmount \in Nat \ {0} /\ MaxAttempts \in Nat \ {0} /\ MaxPrice \in Nat \ {0}

B == "USDT"
C == "IRT"
Currency == Coins \cup {B, C}

ASSUME MarketAssumption ==
  B \notin Coins /\ C \notin Coins /\ Listings \subseteq Seq(Currency)
ASSUME BoundsAssumption == Reserve \in Nat /\ MaxExecutions \in Nat

VARIABLES
  useWebSocket,  \* config.useWebSocket
  listed,        \* symbols_: the coins of the markets, in their order
  broken,        \* coins without a market against B or against C
  pc,            \* where the bot's thread is
  at,            \* the market the sweep has come to
  attempt,       \* the current one of getBestTurnOverWithRetry
  run,           \* the locals of executeArbitrage
  executions,    \* calls of executeArbitrage so far
  wallet,        \* external: balances at the exchange
  orders,        \* external: orders at the exchange that are not filled
  overpaid       \* history: what purchases cost more than quoted, by currency

botVars == <<useWebSocket, listed, broken, pc, at, attempt, run, executions>>
vars == <<botVars, wallet, orders, overpaid>>

Coin == listed[at]
NoRun == [path |-> "none", leg |-> 0, initial |-> [c \in Currency |-> 0], gained |-> 0]

Init ==
  /\ useWebSocket \in BOOLEAN /\ listed \in Listings /\ broken \in SUBSET Coins
  /\ pc = "start" /\ at = 1 /\ attempt = 1 /\ run = NoRun
  /\ executions = 0
  /\ wallet = [c \in Currency |-> Reserve] /\ orders = {}
  /\ overpaid = [c \in Currency |-> 0]

-----------------------------------------------------------------------------
(* start: connecting and subscribing.  connect and send run under mutex_   *)
(* and on failure call handle_disconnect, which locks mutex_ again: the    *)
(* thread never comes back.                                                *)

Start ==
  /\ pc = "start"
  /\ \/ pc' = "top"
     \/ useWebSocket /\ pc' = "stuck"
  /\ UNCHANGED <<useWebSocket, listed, broken, at, attempt, run, executions,
                 wallet, orders, overpaid>>

\* A signal ends the process wherever it is; the exchange keeps its orders.
\* (running_ is cleared by the destructor only, which the loop never lets run.)
Signal ==
  /\ pc # "exited" /\ pc' = "exited"
  /\ at' = 1 /\ attempt' = 1 /\ run' = NoRun
  /\ UNCHANGED <<useWebSocket, listed, broken, executions, wallet, orders, overpaid>>

-----------------------------------------------------------------------------
(* The monitoring loop. *)

Top ==
  /\ pc = "top"
  /\ listed # <<>>
  /\ pc' = "assess" /\ at' = 1 /\ attempt' = 1
  /\ UNCHANGED <<useWebSocket, listed, broken, run, executions,
                 wallet, orders, overpaid>>

\* Mutant: the sweep starts again from its first market.
MoveOnAgain == pc' = "top" /\ UNCHANGED at /\ attempt' = 1
\* On to the next market, or through with the sweep.
MoveOn ==
  /\ attempt' = 1
  /\ IF at < Len(listed) THEN pc' = "assess" /\ at' = at + 1
     ELSE pc' = "top" /\ UNCHANGED at

\* A market between B and C has no coin.
Skip ==
  /\ pc = "assess" /\ Coin \notin Coins
  /\ MoveOn
  /\ UNCHANGED <<useWebSocket, listed, broken, run, executions,
                 wallet, orders, overpaid>>

\* getBestTurnOverWithRetry gets a quote.  Books are fetched for it unless the
\* WebSocket should have brought them; the markets of a broken coin have none.
Quoted == Coin \in Coins \ broken

\* ... or fails, and after the last attempt throws.
QuoteFails ==
  /\ pc \in {"assess", "confirm", "quote"} /\ Coin \in Coins
  /\ ~ useWebSocket \/ Coin \in broken
  /\ attempt < MaxAttempts /\ attempt' = attempt + 1
  /\ UNCHANGED <<useWebSocket, listed, broken, pc, at, run, executions,
                 wallet, orders, overpaid>>

\* The exception leaves the sweep: it is caught outside of the loop over the
\* markets, and the sweep starts again from the first of them.
AssessThrows ==
  /\ pc = "assess" /\ Coin \in Coins /\ attempt = MaxAttempts
  /\ ~ useWebSocket \/ Coin \in broken
  /\ pc' = "top" /\ attempt' = 1
  /\ UNCHANGED <<useWebSocket, listed, broken, at, run, executions,
                 wallet, orders, overpaid>>

\* calculateArbitrageProfit finds a profit, which has executeArbitrage called,
\* or finds none.
Assess ==
  /\ pc = "assess" /\ Quoted
  /\ \/ /\ executions < MaxExecutions
        /\ executions' = executions + 1
        /\ pc' = "confirm" /\ attempt' = 1 /\ UNCHANGED at
     \/ MoveOn /\ UNCHANGED executions
  /\ UNCHANGED <<useWebSocket, listed, broken, run, wallet, orders, overpaid>>

-----------------------------------------------------------------------------
(* executeArbitrage. *)

\* Any exception ends it; the orders it has sent stay where they are.
Abandon == run' = NoRun /\ MoveOn

\* The profit is calculated again, and the better of the two paths is taken.
Confirm ==
  /\ pc = "confirm" /\ Quoted
  /\ \/ /\ \E p \in {"forward", "reverse"} : run' = [NoRun EXCEPT !.path = p]
        /\ pc' = "balance" /\ attempt' = 1 /\ UNCHANGED at
     \/ Abandon
  /\ UNCHANGED <<useWebSocket, listed, broken, executions,
                 wallet, orders, overpaid>>

\* The three balances are read one request after the other.
NextBalance == <<Coin, B, C>>[run.leg + 1]
ReadBalance ==
  /\ pc = "balance"
  /\ LET seen == [run EXCEPT !.initial[NextBalance] = wallet[NextBalance]]
     IN  IF run.leg < 2
         THEN run' = [seen EXCEPT !.leg = @ + 1] /\ UNCHANGED pc
         ELSE run' = [seen EXCEPT !.leg = 1, !.gained = TradeAmount] /\ pc' = "quote"
  /\ UNCHANGED <<useWebSocket, listed, broken, at, attempt, executions,
                 wallet, orders, overpaid>>

\* What a leg of a path gives away and gets.
Legs(path) ==
  IF path = "forward"
  THEN <<[give |-> Coin, get |-> B, buy |-> FALSE],
         [give |-> B, get |-> C, buy |-> FALSE],
         [give |-> C, get |-> Coin, buy |-> TRUE]>>
  ELSE <<[give |-> Coin, get |-> C, buy |-> FALSE],
         [give |-> C, get |-> B, buy |-> TRUE],
         [give |-> B, get |-> Coin, buy |-> TRUE]>>
Leg == Legs(run.path)[run.leg]

Quote ==
  /\ pc = "quote" /\ Quoted
  /\ pc' = "place" /\ attempt' = 1
  /\ UNCHANGED <<useWebSocket, listed, broken, at, run, executions,
                 wallet, orders, overpaid>>

Order == [n |-> executions, leg |-> run.leg, give |-> Leg.give, get |-> Leg.get,
          buy |-> Leg.buy, qty |-> run.gained]

\* What a unit of an order costs when a purchase is filled at the given price.
Unit(o, price) == IF o.buy THEN price ELSE 1
\* What orders take of a currency by the time they are filled.
Claimed(os, price, c) ==
  SumFunctionOnSet([o \in os |-> o.qty * Unit(o, price)], {o \in os : o.give = c})

\* What the open orders promise of a currency, at the prices quoted and at the
\* prices of their limits, for which the exchange blocks the wallet.
Promised(c) == Claimed(orders, 1, c)
Blocked(c) == Claimed(orders, MaxPrice, c)

\* Mutant: when the answer is lost the order is sent again.
PlaceAgain ==
  /\ pc = "place" /\ run.gained > 0
  /\ orders' = orders \cup {Order} /\ pc' \in {"poll", "place"}
  /\ UNCHANGED <<run, at, attempt, useWebSocket, listed, broken, executions,
                 wallet, overpaid>>

\* placeMarketOrder: a quantity that is not positive throws before anything is
\* sent.  The request may fail before it has reached the exchange or after,
\* when the answer is lost: makeRequest even takes a connection that was closed
\* properly for a failure.  The exchange may refuse, and
\* does what the wallet cannot pay.
Place ==
  /\ pc = "place" /\ run.gained > 0
  /\ \/ /\ Order.qty * Unit(Order, MaxPrice) + Blocked(Leg.give) <= wallet[Leg.give]
        /\ orders' = orders \cup {Order}
        /\ \/ pc' = "poll" /\ UNCHANGED <<run, at, attempt>>
           \/ Abandon
     \/ orders' = orders /\ Abandon
  /\ UNCHANGED <<useWebSocket, listed, broken, executions, wallet, overpaid>>

PlaceThrows ==
  /\ pc = "place" /\ run.gained <= 0
  /\ Abandon
  /\ UNCHANGED <<useWebSocket, listed, broken, executions,
                 wallet, orders, overpaid>>

\* Mutant: what was in the wallet before counts as gained.
GainedAll == wallet[Leg.get]
\* Mutant: the wallet of what the leg gives away is watched.
GainedGiven == run.initial[Leg.give] - wallet[Leg.give]
\* What has arrived since the balances were read.
Gained == wallet[Leg.get] - run.initial[Leg.get]

\* The loop after the second order of the forward path assigns a variable of
\* its own, which hides the one that is used after it and is still 0.
Carried == IF run.path = "forward" /\ run.leg = 2 THEN 0 ELSE Gained

\* The wallet is asked again until it has changed, in either direction; after
\* the last leg the execution has succeeded.
Poll ==
  /\ pc = "poll" /\ Gained # 0
  /\ IF run.leg < 3
     THEN /\ run' = [run EXCEPT !.leg = @ + 1, !.gained = Carried]
          /\ pc' = "quote" /\ attempt' = 1 /\ UNCHANGED at
     ELSE Abandon
  /\ UNCHANGED <<useWebSocket, listed, broken, executions,
                 wallet, orders, overpaid>>

\* A request for a balance, or the last attempt at a quote, throws.
ExecutionThrows ==
  /\ \/ pc \in {"balance", "poll"}
     \/ pc \in {"confirm", "quote"} /\ ~ useWebSocket /\ attempt = MaxAttempts
  /\ Abandon
  /\ UNCHANGED <<useWebSocket, listed, broken, executions,
                 wallet, orders, overpaid>>

-----------------------------------------------------------------------------
(* External: the exchange fills one unit of an order. *)

Fill(o) ==
  /\ o \in orders
  /\ \E cost \in 1..Unit(o, MaxPrice) :
       /\ wallet' = [wallet EXCEPT ![o.give] = @ - cost, ![o.get] = @ + 1]
       /\ overpaid' = [overpaid EXCEPT ![o.give] = @ + cost - 1]
  /\ orders' = (orders \ {o}) \cup
               (IF o.qty > 1 THEN {[o EXCEPT !.qty = @ - 1]} ELSE {})
  /\ UNCHANGED botVars

FillAny == \E o \in orders : Fill(o)

Step ==
  \/ Start \/ Top \/ Skip \/ Confirm \/ ReadBalance \/ Quote \/ PlaceThrows \/ Poll
Next ==
  \/ Step \/ Signal \/ QuoteFails \/ AssessThrows \/ Assess \/ Place \/ ExecutionThrows
  \/ FillAny

Spec == Init /\ [][Next]_vars

\* The thread goes on while it can, and requests for quotes are answered again
\* and again.  Nothing makes the exchange fill an order: main.cpp:249 sends it
\* with execution "limit", and nobody cancels it.
FairSpec ==
  /\ Spec
  /\ WF_vars(Step \/ Place \/ QuoteFails \/ AssessThrows \/ Assess)
  /\ \A c \in Coins : SF_vars(Assess /\ Coin = c)

-----------------------------------------------------------------------------
(* Properties. *)

TypeOK ==
  /\ pc \in {"start", "stuck", "top", "assess", "confirm", "balance", "quote", "place",
             "poll", "exited"}
  /\ at \in 1..Len(listed) \cup {1} /\ attempt \in 1..MaxAttempts
  /\ executions \in 0..MaxExecutions
  /\ wallet \in [Currency -> Nat]
  /\ \A o \in orders : o.qty > 0 /\ o.give \in Currency /\ o.get \in Currency
  /\ run.leg \in 0..3

\* What was in the wallets of B and C before the bot began is not traded: at
\* any moment the orders that are still open promise no more than what came in
\* since -- whatever was abandoned before, filled late or counted while an
\* older order was being filled -- but for what purchases cost above the quote.
ReserveKept ==
  \A c \in {B, C} : wallet[c] - Promised(c) + overpaid[c] >= Reserve

\* An order is sent at most once, whatever answers are lost: orders of one leg
\* of one execution that are still open are one order, and the bot has given up
\* or is waiting for it (makeRequest, placeMarketOrder).
SentOnce ==
  /\ \A o, q \in orders : o.n = q.n /\ o.leg = q.leg => o = q
  /\ pc = "place" => ~ \E o \in orders : o.n = executions /\ o.leg = run.leg

\* Whatever answers are lost, what was there before stays there (main.cpp
\* 680-850).
MoneyKept == TypeOK /\ ReserveKept

\* The wait after a leg has no time-out, so it may last for ever; if it does,
\* the wallet it watches is left as it was before the execution, whatever other
\* orders are filled meanwhile.  In the first two legs of the first execution,
\* which no older order can disturb, the exchange has not filled a unit of the
\* leg's order.  (After the third leg it may have filled all of it, when the
\* purchase brought back exactly what was sold: main.cpp:746, 834.)
WaitsForFills ==
  <>[](pc = "poll") =>
    <>[](/\ pc = "poll" /\ wallet[Leg.get] = run.initial[Leg.get]
         /\ executions = 1 /\ run.leg < 3 =>
              \E o \in orders : o.leg = run.leg /\ o.qty = run.gained)

\* A sweep comes to every market before the first that has no complete books,
\* unless an execution has the thread wait for a wallet or a signal comes.
SweepReaches ==
  \A i \in 1..3 :
    pc = "top" /\ i <= Len(listed) /\ (\A j \in 1..i : listed[j] \notin broken)
      ~> (pc = "assess" /\ at = i) \/ pc \in {"poll", "exited"}

\* Finding: the third order of a cycle is for the amount that the second
\* brought (the first execution, which nothing else can disturb).
ThirdOrderSent == pc = "place" /\ executions = 1 => run.gained > 0
=============================================================================
