----------------------------- MODULE SpotExchange -----------------------------
(***************************************************************************)
(* The simulated spot account (ct::exchange::SpotExchange, Exchange.cpp):  *)
(* a balance per asset, and per symbol the quantity that STOP and LIMIT    *)
(* sells have reserved.  Each handler holds mutex_ from its first line to  *)
(* its last, so it is one action; threads interleave between handlers.     *)
(*                                                                         *)
(* An order is submitted once, and then executed or cancelled at most      *)
(* once: Order::execute and Order::cancel return early on an order that    *)
(* has ended.  Amounts are integers in a unit small enough for the fee.    *)
(***************************************************************************)
EXTENDS Integers, FiniteSets, Functions

CONSTANTS
    Orders,          \* order identities, each submitted at most once
    Terms,           \* what an order may ask for
    Assets,          \* asset names
    Symbols,         \* trading pairs
    Base,            \* [Symbols -> Assets], helper::getBaseAsset
    Settlement,      \* settlement_currency_
    StartingBalance, \* starting_balance_
    StartingBase,    \* what setAsset gives of each base asset beforehand
    FeePercent,      \* fee_rate_, in hundredths
    Modes,           \* the modes a session may run in: live or not
    Streamed         \* balances the exchange's stream may report

Sides == {"BUY", "SELL"}
Types == {"MARKET", "LIMIT", "STOP", "FOK", "STOP_LIMIT"}
Term == [symbol : Symbols, side : Sides, type : Types, qty : Nat, price : Nat]

ASSUME OrdersAssumption == IsFiniteSet(Orders)
ASSUME TermsAssumption == Terms \subseteq Term
ASSUME AssetsAssumption ==
    /\ Settlement \in Assets
    /\ Base \in [Symbols -> Assets \ {Settlement}]
ASSUME AmountsAssumption ==
    /\ StartingBalance \in Nat
    /\ StartingBase \in Nat
    /\ FeePercent \in 0..100
    /\ Streamed \subseteq Nat
    /\ Modes \subseteq BOOLEAN

VARIABLES
    live,      \* helper::isLiveTrading(), the same throughout a session
    assets,    \* assets_
    stopSum,   \* stop_sell_orders_qty_sum_
    limitSum,  \* limit_sell_orders_qty_sum_
    started,   \* started_balance_, set by the stream
    status,    \* what has happened to each order
    terms,     \* what each submitted order asked for
    sold,      \* history: the quantity each executed sell really sold
    streamed   \* history: the last balance the stream reported

vars == <<live, assets, stopSum, limitSum, started, status, terms, sold, streamed>>
ledgerVars == <<assets, stopSum, limitSum>>

Status == {"new", "open", "rejected", "executed", "canceled"}
NoTerm == [symbol |-> "none", side |-> "none", type |-> "none", qty |-> 0, price |-> 0]

-------------------------------------------------------------------------------
(* What orders are worth                                                    *)

\* Order::getValue; an order without a price counts with the price 0.
Value(t) == t.qty * t.price

\* An amount after fees are deducted.
Keep(amount) == (amount * (100 - FeePercent)) \div 100

\* Mutant: a sell's quantity keeps its negative sign.
FillSigned(t) == -t.qty

\* A sell order for more than the balance sells the balance.
Fill(t) == IF t.qty > assets[Base[t.symbol]] THEN assets[Base[t.symbol]] ELSE t.qty

\* An order of another type than these leaves both sums alone.
Reserve(sum, t, type, n) ==
    IF t.side = "SELL" /\ t.type = type THEN [sum EXCEPT ![t.symbol] = @ + n] ELSE sum

\* Sells the order is checked together with.
SellTotal(t) ==
    IF t.type = "STOP" THEN stopSum[t.symbol] + t.qty ELSE limitSum[t.symbol] + t.qty

\* Mutant: buys are not checked against the wallet.
AcceptsAnyBuy(t) ==
    \/ t.side = "BUY"
    \/ live
    \/ t.type \in {"MARKET", "LIMIT", "STOP"} /\ SellTotal(t) <= assets[Base[t.symbol]]

\* A sell of another type than these is refused as unknown, a buy is not.
Accepts(t) ==
    \/ live
    \/ t.side = "BUY" /\ Value(t) <= assets[Settlement]
    \/ /\ t.side = "SELL"
       /\ t.type \in {"MARKET", "LIMIT", "STOP"}
       /\ SellTotal(t) <= assets[Base[t.symbol]]

-------------------------------------------------------------------------------
(* The handlers                                                             *)

\* The constructor files the balance under "USDT" before it looks up the settlement
\* currency, which is USDT too for every spot exchange in EXCHANGES_DATA.
Init ==
    /\ live \in Modes
    /\ assets = [a \in Assets |->
                    IF a = Settlement THEN StartingBalance
                    ELSE IF \E s \in Symbols : Base[s] = a THEN StartingBase ELSE 0]
    /\ stopSum = [s \in Symbols |-> 0]
    /\ limitSum = [s \in Symbols |-> 0]
    /\ started = 0
    /\ status = [o \in Orders |-> "new"]
    /\ terms = [o \in Orders |-> NoTerm]
    /\ sold = [o \in Orders |-> 0]
    /\ streamed = assets[Settlement]

\* onOrderSubmission: a buy pays now, a STOP or LIMIT sell reserves.
Submit(o, t) ==
    /\ status[o] = "new"
    /\ Accepts(t)
    /\ status' = [status EXCEPT ![o] = "open"]
    /\ terms' = [terms EXCEPT ![o] = t]
    /\ IF live
       THEN UNCHANGED ledgerVars
       ELSE /\ assets' = IF t.side = "BUY"
                         THEN [assets EXCEPT ![Settlement] = @ - Value(t)]
                         ELSE assets
            /\ stopSum' = Reserve(stopSum, t, "STOP", t.qty)
            /\ limitSum' = Reserve(limitSum, t, "LIMIT", t.qty)
    /\ UNCHANGED <<started, sold, streamed>>

\* Mutant: the catch block does not restore the sums.
RejectKeepsReservation(o, t) ==
    /\ status[o] = "new"
    /\ ~Accepts(t)
    /\ status' = [status EXCEPT ![o] = "rejected"]
    /\ stopSum' = Reserve(stopSum, t, "STOP", t.qty)
    /\ limitSum' = Reserve(limitSum, t, "LIMIT", t.qty)
    /\ UNCHANGED <<assets, started, terms, sold, streamed>>

\* onOrderSubmission throws, and its catch block restores what it changed.
Reject(o, t) ==
    /\ status[o] = "new"
    /\ ~Accepts(t)
    /\ status' = [status EXCEPT ![o] = "rejected"]
    /\ UNCHANGED <<ledgerVars, started, terms, sold, streamed>>

\* onOrderExecution: a buy delivers the base asset less the fee, a sell delivers
\* as much as the balance allows and is paid less the fee.
Execute(o) ==
    /\ status[o] = "open"
    /\ status' = [status EXCEPT ![o] = "executed"]
    /\ LET t == terms[o]
           b == Base[t.symbol]
       IN  IF live
           THEN UNCHANGED <<ledgerVars, sold>>
           ELSE /\ assets' = IF t.side = "BUY"
                             THEN [assets EXCEPT ![b] = @ + Keep(t.qty)]
                             ELSE [assets EXCEPT ![b] = @ - Fill(t),
                                                 ![Settlement] = @ + Keep(Fill(t) * t.price)]
                /\ sold' = IF t.side = "BUY" THEN sold ELSE [sold EXCEPT ![o] = Fill(t)]
                /\ stopSum' = Reserve(stopSum, t, "STOP", -t.qty)
                /\ limitSum' = Reserve(limitSum, t, "LIMIT", -t.qty)
    /\ UNCHANGED <<started, terms, streamed>>

\* Mutant: cancelling does not repay a buy.
CancelKeepsCash(o) ==
    /\ status[o] = "open"
    /\ status' = [status EXCEPT ![o] = "canceled"]
    /\ stopSum' = Reserve(stopSum, terms[o], "STOP", -terms[o].qty)
    /\ limitSum' = Reserve(limitSum, terms[o], "LIMIT", -terms[o].qty)
    /\ UNCHANGED <<assets, started, terms, sold, streamed>>

\* onOrderCancellation: a buy is repaid, a sell's reservation is lifted.
Cancel(o) ==
    /\ status[o] = "open"
    /\ status' = [status EXCEPT ![o] = "canceled"]
    /\ LET t == terms[o]
       IN  IF live
           THEN UNCHANGED ledgerVars
           ELSE /\ assets' = IF t.side = "BUY"
                             THEN [assets EXCEPT ![Settlement] = @ + Value(t)]
                             ELSE assets
                /\ stopSum' = Reserve(stopSum, t, "STOP", -t.qty)
                /\ limitSum' = Reserve(limitSum, t, "LIMIT", -t.qty)
    /\ UNCHANGED <<started, terms, sold, streamed>>

\* onUpdateFromStream, which throws unless the session trades live.
UpdateFromStream(balance) ==
    /\ live
    /\ assets' = [assets EXCEPT ![Settlement] = balance]
    /\ started' = IF started = 0 THEN balance ELSE started
    /\ streamed' = balance
    /\ UNCHANGED <<stopSum, limitSum, status, terms, sold>>

Next ==
    /\ \/ \E o \in Orders, t \in Terms : Submit(o, t) \/ Reject(o, t)
       \/ \E o \in Orders : Execute(o) \/ Cancel(o)
       \/ \E balance \in Streamed : UpdateFromStream(balance)
    /\ UNCHANGED live

Spec == Init /\ [][Next]_vars

-------------------------------------------------------------------------------
(* What the account promises                                                *)

Open(o) == status[o] = "open"
Executed(o) == status[o] = "executed"
Buys == {o \in Orders : terms[o].side = "BUY"}
Sells(type) == {o \in Orders : terms[o].side = "SELL" /\ terms[o].type = type}
SellsOf(b) == {o \in Orders : terms[o].side = "SELL" /\ Base[terms[o].symbol] = b}
\* The open sells of a type and a symbol, and what they ask for together.
Reserving(type, s) == {o \in Sells(type) : Open(o) /\ terms[o].symbol = s}
Reserved(type, s) == SumFunctionOnSet([o \in Orders |-> terms[o].qty], Reserving(type, s))
\* What buys cost, what sells brought and what buys delivered, by order.
Cost == [o \in Orders |-> Value(terms[o])]
Proceeds == [o \in Orders |-> Keep(sold[o] * terms[o].price)]
Delivered == [o \in Orders |-> Keep(terms[o].qty)]
\* The buys that are paid for, and those of a base asset that were delivered.
Paid == {o \in Buys : Open(o) \/ Executed(o)}
Received(b) == {o \in Buys : Executed(o) /\ Base[terms[o].symbol] = b}
BaseAssets == {Base[s] : s \in Symbols}

\* The state stays in the ranges its declarations give it.
TypeOK ==
    /\ live \in BOOLEAN
    /\ assets \in [Assets -> Int]
    /\ stopSum \in [Symbols -> Int]
    /\ limitSum \in [Symbols -> Int]
    /\ started \in Nat
    /\ status \in [Orders -> Status]
    /\ terms \in [Orders -> Term \cup {NoTerm}]
    /\ \A o \in Orders : status[o] \in {"open", "executed", "canceled"} => terms[o] \in Term
    /\ sold \in [Orders -> Nat]
    /\ streamed \in Nat

\* No interleaving of handlers overdraws the account: a buy is paid from what is
\* there, and sells that were accepted separately are cut down when together
\* they ask for more than is there (ConcurrentOperations expects both
\* balances to stay at zero or above).
Solvent == \A a \in Assets : assets[a] >= 0

\* What is reserved per symbol is exactly what its open STOP and LIMIT sells ask
\* for: the sums are maintained by three handlers, each of which adds or
\* subtracts under its own conditions.
Reservations ==
    ~live => \A s \in Symbols : /\ stopSum[s] = Reserved("STOP", s)
                                /\ limitSum[s] = Reserved("LIMIT", s)

\* The wallet is the starting balance, less what open and executed buys cost,
\* plus what executed sells brought after fees: cancelling gives back what
\* submitting took, and nothing is paid twice.
CashLedger ==
    ~live =>
        assets[Settlement] =
            StartingBalance
            - SumFunctionOnSet(Cost, Paid)
            + SumFunctionOnSet(Proceeds, Orders)

\* Each base asset is what was there, plus what executed buys delivered after
\* fees, less what executed sells sold.
BaseLedger ==
    ~live => \A b \in BaseAssets :
        assets[b] =
            StartingBase
            + SumFunctionOnSet(Delivered, Received(b))
            - SumFunctionOnSet(sold, SellsOf(b))

\* Both together: money and assets are moved, never made or lost.
Ledgers == CashLedger /\ BaseLedger

\* A live session's wallet is what the exchange reported last, whatever orders
\* are submitted, executed and cancelled meanwhile.
LiveFollowsStream ==
    live => /\ assets[Settlement] = streamed
            /\ \A b \in BaseAssets : assets[b] = StartingBase
===============================================================================
