------------------------------ MODULE OrdersState ------------------------------
(***************************************************************************)
(* Orders from the strategy to the simulated exchange and back: Broker     *)
(* chooses what to submit (Broker.cpp), Api hands it to the driver of the  *)
(* exchange (Api.cpp), Sandbox creates the order and files it              *)
(* (Exchange.cpp), OrdersState keeps it (Order.cpp), and db::Order is the  *)
(* life of one order (DB.cpp).                                             *)
(*                                                                         *)
(* Orders are filed under the driver's own name, which for every exchange  *)
(* is Sandbox's default.  Prices are abstracted to what Broker compares    *)
(* them for; vectors are sets, since no operation depends on their order.  *)
(***************************************************************************)
CONSTANTS
    OrderIds,     \* the orders that may be created
    Exchanges,    \* the exchanges strategies trade on
    Symbols,      \* trading pairs
    DriverName,   \* the name Api::initDrivers gives every driver
    UnitTesting   \* helper::isUnitTesting()

ASSUME FlagsAssumption == UnitTesting \in BOOLEAN

VARIABLES
    status,     \* status_ of each order, "none" before it exists
    deal,       \* what each order is
    storage,    \* storage_
    active,     \* active_storage_
    toExecute,  \* to_execute_
    positions,  \* what PositionsState says of each exchange and symbol
    askedOne,   \* history: orders that cancelOrder found
    askedAll,   \* history: orders that were live when cancelAllOrders was called
    revived     \* history: orders that queueIt or executePartially took from their end

ordersVars == <<status, deal, storage, active, toExecute, positions, askedOne, askedAll, revived>>
files == <<storage, active, toExecute>>
asked == <<askedOne, askedAll>>
history == <<asked, revived>>

Sides == {"BUY", "SELL"}
Types == {"MARKET", "LIMIT", "STOP"}
Statuses == {"none", "ACTIVE", "CANCELED", "EXECUTED", "PARTIALLY_FILLED", "QUEUED"}
PositionTypes == {"LONG", "SHORT", "CLOSE"}

Markets == Exchanges \X Symbols
\* helper::makeKey(exchange, symbol)
Keys == (Exchanges \cup {DriverName}) \X Symbols
Deals == [exchange : Exchanges, symbol : Symbols, type : Types, side : Sides]
NoDeal == [exchange |-> "none", symbol |-> "none", type |-> "none", side |-> "none"]

\* helper::positionTypeToOrderSide
EntrySide(type) == IF type = "LONG" THEN "BUY" ELSE "SELL"
\* helper::oppositeSide
Opposite(side) == IF side = "BUY" THEN "SELL" ELSE "BUY"

Exists(o) == status[o] # "none"
Ended(o) == status[o] \in {"CANCELED", "EXECUTED"}
\* The key Sandbox files an order under.
Key(o) == <<DriverName, deal[o].symbol>>

-------------------------------------------------------------------------------
(* Queries of OrdersState                                                   *)

\* getOrders and getActiveOrders look their key up.
GetOrders(key) == storage[key]
GetActiveOrders(key) == active[key]

-------------------------------------------------------------------------------
(* Submitting orders                                                        *)

OrdersInit ==
    /\ status = [o \in OrderIds |-> "none"]
    /\ deal = [o \in OrderIds |-> NoDeal]
    /\ storage = [key \in Keys |-> {}]
    /\ active = [key \in Keys |-> {}]
    /\ toExecute = {}
    /\ positions = [m \in Markets |-> "CLOSE"]
    /\ askedOne = {}
    /\ askedAll = {}
    /\ revived = {}

\* What Sandbox makes of the order it is asked for: limitOrder creates a STOP
\* order and stopOrder a LIMIT order.
SandboxType(kind) ==
    IF kind = "LIMIT" THEN "STOP" ELSE IF kind = "STOP" THEN "LIMIT" ELSE "MARKET"

\* Sandbox::marketOrder, limitOrder and stopOrder.
Submit(o, x, s, kind, side) ==
    /\ ~Exists(o)
    /\ status' = [status EXCEPT ![o] = "QUEUED"]
    /\ deal' = [deal EXCEPT ![o] = [exchange |-> x, symbol |-> s,
                                    type |-> SandboxType(kind), side |-> side]]
    /\ storage' = [storage EXCEPT ![<<DriverName, s>>] = @ \cup {o}]
    /\ active' = [active EXCEPT ![<<DriverName, s>>] = @ \cup {o}]
    /\ toExecute' = IF kind = "MARKET" THEN toExecute \cup {o} ELSE toExecute
    /\ UNCHANGED <<positions, history>>

\* sellAtMarket and buyAtMarket.
AtMarket(o, x, s, side) == Submit(o, x, s, "MARKET", side)

\* sellAt and buyAt.
AtPrice(o, x, s, side) == Submit(o, x, s, "LIMIT", side)

\* startProfitAt, when the price is on the side of the current price it allows.
StartProfitAt(o, x, s, side) == Submit(o, x, s, "STOP", side)

\* reducePositionAt: a price near the current one asks for a MARKET order, one that
\* takes a profit for a LIMIT order, one that takes a loss for a STOP order.
ReducePositionAt(o, x, s, price) ==
    /\ positions[<<x, s>>] # "CLOSE"
    /\ LET side == Opposite(EntrySide(positions[<<x, s>>]))
       IN  \/ price = "near" /\ Submit(o, x, s, "MARKET", side)
           \/ price = "profit" /\ Submit(o, x, s, "LIMIT", side)
           \/ price = "loss" /\ Submit(o, x, s, "STOP", side)

-------------------------------------------------------------------------------
(* The life of an order                                                     *)

\* Order::cancel, and why it returns early.
Cancels(o, source) == ~Ended(o) /\ ~(source = "stream" /\ status[o] = "QUEUED")

\* The exchange reports a cancellation.
CancelFromStream(o) ==
    /\ Exists(o)
    /\ Cancels(o, "stream")
    /\ status' = [status EXCEPT ![o] = "CANCELED"]
    /\ UNCHANGED <<deal, files, positions, history>>

\* Mutant: an order that has ended is executed again.
ExecuteAgain(o) ==
    /\ Exists(o)
    /\ status' = [status EXCEPT ![o] = "EXECUTED"]
    /\ UNCHANGED <<deal, files, positions, history>>

\* Order::execute.
Execute(o) ==
    /\ Exists(o)
    /\ ~Ended(o)
    /\ status' = [status EXCEPT ![o] = "EXECUTED"]
    /\ UNCHANGED <<deal, files, positions, history>>

\* Order::queueIt and executePartially, which look at no status ("NOTE:
\* Precondition?"): an order that has ended lives again.
GoesTo(o, next) ==
    /\ Exists(o)
    /\ status' = [status EXCEPT ![o] = next]
    /\ revived' = IF Ended(o) THEN revived \cup {o} ELSE revived
    /\ UNCHANGED <<deal, files, positions, asked>>

ExecutePartially(o) == GoesTo(o, "PARTIALLY_FILLED")

QueueIt(o) == GoesTo(o, "QUEUED")

\* Order::resubmit.
Resubmit(o) ==
    /\ status[o] = "QUEUED"
    /\ status' = [status EXCEPT ![o] = "ACTIVE"]
    /\ UNCHANGED <<deal, files, positions, history>>

-------------------------------------------------------------------------------
(* OrdersState and Sandbox                                                  *)

\* Mutant: the pending orders are executed whatever has become of them.
ExecuteAllPending ==
    /\ toExecute # {}
    /\ status' = [o \in OrderIds |-> IF o \in toExecute THEN "EXECUTED" ELSE status[o]]
    /\ toExecute' = {}
    /\ UNCHANGED <<deal, storage, active, positions, history>>

ExecutePendingMarketOrders ==
    /\ toExecute # {}
    /\ status' = [o \in OrderIds |->
                    IF o \in toExecute /\ ~Ended(o) THEN "EXECUTED" ELSE status[o]]
    /\ toExecute' = {}
    /\ UNCHANGED <<deal, storage, active, positions, history>>

\* Sandbox::cancelOrder finds the order in storage_ and cancels it; an order it
\* does not find leaves everything as it is.
CancelOrder(o) ==
    /\ Exists(o)
    /\ o \in storage[Key(o)]
    /\ status' = IF Cancels(o, "") THEN [status EXCEPT ![o] = "CANCELED"] ELSE status
    /\ askedOne' = IF Cancels(o, "") THEN askedOne \cup {o} ELSE askedOne
    /\ UNCHANGED <<deal, files, positions, askedAll, revived>>

\* Sandbox::cancelAllOrders cancels the orders that are ACTIVE and forgets the
\* others, except when unit tests run.
CancelAllOrders(s) ==
    LET key == <<DriverName, s>>
    IN  /\ status' = [o \in OrderIds |->
                        IF o \in active[key] /\ status[o] = "ACTIVE" THEN "CANCELED" ELSE status[o]]
        /\ storage' = IF UnitTesting THEN storage ELSE [storage EXCEPT ![key] = {}]
        /\ askedAll' = askedAll \cup {o \in active[key] : ~Ended(o)}
        /\ UNCHANGED <<deal, active, toExecute, positions, askedOne, revived>>

\* Mutant: only ACTIVE orders stay.
KeepActiveOnly(key) ==
    /\ active' = [active EXCEPT ![key] = {o \in @ : status[o] = "ACTIVE"}]
    /\ UNCHANGED <<status, deal, storage, toExecute, positions, history>>

UpdateActiveOrders(key) ==
    /\ active' = [active EXCEPT ![key] = {o \in @ : ~Ended(o)}]
    /\ UNCHANGED <<status, deal, storage, toExecute, positions, history>>

RemoveOrder(o) ==
    /\ Exists(o)
    /\ storage' = [storage EXCEPT ![Key(o)] = @ \ {o}]
    /\ active' = [active EXCEPT ![Key(o)] = @ \ {o}]
    /\ UNCHANGED <<status, deal, toExecute, positions, history>>

\* resetTradeOrders, after each completed trade; to_execute_ is left alone.
ResetTradeOrders(key) ==
    /\ storage' = [storage EXCEPT ![key] = {}]
    /\ active' = [active EXCEPT ![key] = {}]
    /\ UNCHANGED <<status, deal, toExecute, positions, history>>

\* reset, which leaves to_execute_ alone too.
Reset ==
    /\ storage' = [key \in Keys |-> {}]
    /\ active' = [key \in Keys |-> {}]
    /\ UNCHANGED <<status, deal, toExecute, positions, history>>

\* The position of a market changes: any trade may open, close or flip it.
PositionMoves(m, type) ==
    /\ positions' = [positions EXCEPT ![m] = type]
    /\ UNCHANGED <<status, deal, files, history>>

OrdersNext ==
    \/ \E o \in OrderIds, x \in Exchanges, s \in Symbols, side \in Sides :
        \/ AtMarket(o, x, s, side)
        \/ AtPrice(o, x, s, side)
        \/ StartProfitAt(o, x, s, side)
    \/ \E o \in OrderIds, x \in Exchanges, s \in Symbols, price \in {"near", "profit", "loss"} :
        ReducePositionAt(o, x, s, price)
    \/ \E o \in OrderIds :
        \/ CancelFromStream(o) \/ Execute(o) \/ ExecutePartially(o) \/ QueueIt(o) \/ Resubmit(o)
        \/ CancelOrder(o) \/ RemoveOrder(o)
    \/ ExecutePendingMarketOrders
    \/ \E s \in Symbols : CancelAllOrders(s)
    \/ \E key \in Keys : UpdateActiveOrders(key) \/ ResetTradeOrders(key)
    \/ Reset
    \/ \E m \in Markets, type \in PositionTypes : PositionMoves(m, type)

OrdersSpec == OrdersInit /\ [][OrdersNext]_ordersVars

-------------------------------------------------------------------------------
(* What the order bookkeeping promises                                      *)

\* The state stays in the ranges its declarations give it, an order is filed only
\* under its own symbol, and only orders that exist are filed.
TypeOK ==
    /\ status \in [OrderIds -> Statuses]
    /\ deal \in [OrderIds -> Deals \cup {NoDeal}]
    /\ \A o \in OrderIds : Exists(o) => deal[o] \in Deals
    /\ storage \in [Keys -> SUBSET OrderIds]
    /\ active \in [Keys -> SUBSET OrderIds]
    /\ \A key \in Keys : \A o \in storage[key] \cup active[key] : Exists(o) /\ key = Key(o)
    /\ toExecute \subseteq {o \in OrderIds : Exists(o)}
    /\ positions \in [Markets -> PositionTypes]
    /\ askedOne \subseteq OrderIds
    /\ askedAll \subseteq OrderIds
    /\ revived \subseteq OrderIds

\* An order that storage_ knows and that has not ended is among the active orders,
\* however often the active orders were refreshed, reset or removed meanwhile:
\* the strategy never loses sight of an order it can still cancel.  Only an order
\* that was revived after its end, when a refresh had dropped it, can be missing.
LiveIsActive ==
    \A key \in Keys : \A o \in storage[key] : ~Ended(o) => o \in active[key] \/ o \in revived

\* An order that has been executed or cancelled stays so: it is neither executed by
\* a later flush of the pending market orders, nor cancelled by a late request, nor
\* resubmitted.  Nothing moves it but the two calls that look at no status.
EndIsFinal ==
    [][\A o \in OrderIds : Ended(o) /\ status'[o] # status[o] => ExecutePartially(o) \/ QueueIt(o)]_ordersVars

\* An order that cancelOrder cancelled is never executed, even when it is still
\* waiting in to_execute_, unless one of those calls brought it back.
CancelOrderHonoured == \A o \in askedOne \ revived : status[o] # "EXECUTED"

\* An order that was live when all orders of its symbol were cancelled is never
\* executed ("Cancel all orders for a symbol").
CancelAllHonoured == \A o \in askedAll : status[o] # "EXECUTED"

===============================================================================
