---------------------------- MODULE TradingProofs ---------------------------
(***************************************************************************)
(* From the orders of a strategy to its trades: that orders which end stay *)
(* ended and a cancelled one is never executed, but for the two calls that *)
(* check nothing, and that every live order is found among the active ones;*)
(* what a report of an executed order may do to a position, and what       *)
(* closed trades are told apart by.  All for any number of orders,         *)
(* exchanges and symbols, all terms, fees and streams.                     *)
(***************************************************************************)
EXTENDS Trading, OrdersState, FunctionProofs, TLAPS

-------------------------------------------------------------------------------
(* The orders.                                                              *)

\* An order that cancelOrder cancelled is still cancelled: CancelOrderHonoured alone
\* does not say why a flush of to_execute_ passes it over.
AskedIsCanceled == \A o \in askedOne \ revived : Exists(o) /\ status[o] = "CANCELED"

OrdersInv == TypeOK /\ LiveIsActive /\ AskedIsCanceled

-------------------------------------------------------------------------------
(* One step of the orders.                                                  *)

\* The key of an order that exists is one of the keys.
LEMMA KeyInKeys ==
    ASSUME TypeOK, NEW o \in OrderIds, Exists(o)
    PROVE  Key(o) \in Keys
BY DEF TypeOK, Key, Keys, Deals

LEMMA OrdersBegin == OrdersInit => OrdersInv
BY DEF OrdersInit, OrdersInv, TypeOK, LiveIsActive, AskedIsCanceled, Statuses, PositionTypes, Exists

\* A submitted order is filed in storage_ and among the active orders at once.
LEMMA SubmitKeeps ==
    ASSUME OrdersInv,
           NEW o \in OrderIds, NEW x \in Exchanges, NEW s \in Symbols,
           NEW kind \in Types, NEW side \in Sides, Submit(o, x, s, kind, side)
    PROVE  OrdersInv'
<1> DEFINE key == <<DriverName, s>>
           order == [exchange |-> x, symbol |-> s,
                     type |-> SandboxType(kind), side |-> side]
<1>1. key \in Keys
  BY DEF Keys
<1>2. order \in Deals
  BY DEF Deals, SandboxType, Types
<1>3. /\ ~Exists(o)
      /\ status' = [status EXCEPT ![o] = "QUEUED"]
      /\ deal' = [deal EXCEPT ![o] = order]
      /\ storage' = [storage EXCEPT ![key] = @ \cup {o}]
      /\ active' = [active EXCEPT ![key] = @ \cup {o}]
      /\ toExecute' \subseteq toExecute \cup {o}
      /\ UNCHANGED <<positions, askedOne, askedAll, revived>>
  BY DEF Submit, history, asked
<1>4. order.symbol = s
  OBVIOUS
<1> HIDE DEF order
<1>5. \A p \in OrderIds :
        p # o => (Exists(p)' <=> Exists(p)) /\ (Ended(p)' <=> Ended(p)) /\ Key(p)' = Key(p)
  BY <1>3 DEF OrdersInv, TypeOK, Exists, Ended, Key
<1>6. Exists(o)' /\ ~Ended(o)' /\ Key(o)' = key
  BY <1>3, <1>4 DEF OrdersInv, TypeOK, Exists, Ended, Key
<1>7. TypeOK'
  <2>1. status' \in [OrderIds -> Statuses] /\ deal' \in [OrderIds -> Deals \cup {NoDeal}]
    BY <1>2, <1>3 DEF OrdersInv, TypeOK, Statuses
  <2>2. (\A p \in OrderIds : Exists(p) => deal[p] \in Deals)'
    BY <1>2, <1>3, <1>5 DEF OrdersInv, TypeOK
  <2>3. storage' \in [Keys -> SUBSET OrderIds] /\ active' \in [Keys -> SUBSET OrderIds]
    BY <1>1, <1>3 DEF OrdersInv, TypeOK
  <2>4. ASSUME NEW k \in Keys, NEW p \in storage'[k] \cup active'[k]
        PROVE  Exists(p)' /\ k = Key(p)'
    <3>1. CASE p = o
      <4>1. o \notin storage[k] /\ o \notin active[k]
        BY <1>3 DEF OrdersInv, TypeOK
      <4>2. k = key
        BY <1>1, <1>3, <2>4, <3>1, <4>1 DEF OrdersInv, TypeOK
      <4> QED
        BY <1>6, <3>1, <4>2
    <3>2. CASE p # o
      <4>1. p \in storage[k] \cup active[k]
        BY <1>1, <1>3, <2>4, <3>2 DEF OrdersInv, TypeOK
      <4> QED
        BY <1>5, <3>2, <4>1 DEF OrdersInv, TypeOK
    <3> QED
      BY <3>1, <3>2
  <2>5. (toExecute \subseteq {p \in OrderIds : Exists(p)})'
    BY <1>3, <1>5, <1>6 DEF OrdersInv, TypeOK
  <2>6. /\ positions' \in [Markets -> PositionTypes]
        /\ askedOne' \subseteq OrderIds /\ askedAll' \subseteq OrderIds
        /\ revived' \subseteq OrderIds
    BY <1>3 DEF OrdersInv, TypeOK
  <2> QED
    BY <2>1, <2>2, <2>3, <2>4, <2>5, <2>6 DEF TypeOK
<1>8. LiveIsActive'
  <2> SUFFICES ASSUME NEW k \in Keys, NEW p \in storage'[k], ~Ended(p)'
               PROVE  p \in active'[k] \/ p \in revived'
    BY DEF LiveIsActive
  <2>1. CASE p \in storage[k]
    <3>1. p # o
      BY <1>3, <2>1 DEF OrdersInv, TypeOK
    <3>2. p \in active[k] \/ p \in revived
      BY <1>5, <2>1, <3>1 DEF OrdersInv, TypeOK, LiveIsActive
    <3> QED
      BY <1>1, <1>3, <3>2 DEF OrdersInv, TypeOK
  <2>2. CASE p \notin storage[k]
    BY <1>1, <1>3, <2>2 DEF OrdersInv, TypeOK
  <2> QED
    BY <2>1, <2>2
<1>9. AskedIsCanceled'
  BY <1>3 DEF OrdersInv, TypeOK, AskedIsCanceled, Exists
<1> QED
  BY <1>7, <1>8, <1>9 DEF OrdersInv

\* A step that moves orders to other statuses, those that have ended only if it
\* notes them as revived, keeps the files as they are, and so what is said of them.
LEMMA StatusMoves ==
    ASSUME OrdersInv, UNCHANGED <<deal, storage, active, positions, askedAll>>,
           toExecute' \subseteq toExecute,
           status' \in [OrderIds -> Statuses],
           revived \subseteq revived', revived' \subseteq OrderIds,
           \A o \in OrderIds : Exists(o)' <=> Exists(o),
           \A o \in OrderIds : Ended(o) => status'[o] = status[o] \/ o \in revived',
           askedOne' \subseteq askedOne \cup {o \in OrderIds : status'[o] = "CANCELED"}
    PROVE  OrdersInv'
<1>1. \A o \in OrderIds : Key(o)' = Key(o)
  BY DEF Key
<1>2. \A o \in OrderIds : Ended(o) => Ended(o)' \/ o \in revived'
  BY DEF Ended
<1>3. TypeOK'
  BY <1>1 DEF OrdersInv, TypeOK, Statuses
<1>4. LiveIsActive'
  BY <1>2 DEF OrdersInv, TypeOK, LiveIsActive
<1>5. AskedIsCanceled'
  BY <1>2 DEF OrdersInv, TypeOK, AskedIsCanceled, Ended, Exists
<1> QED
  BY <1>3, <1>4, <1>5 DEF OrdersInv

\* A step that takes orders out of the files, from active_storage_ no more than
\* from storage_ or orders that have ended, keeps what is said of them.
LEMMA FilesShrink ==
    ASSUME OrdersInv, UNCHANGED <<status, deal, toExecute, positions, history>>,
           storage' \in [Keys -> SUBSET OrderIds],
           active' \in [Keys -> SUBSET OrderIds],
           \A key \in Keys :
             storage'[key] \subseteq storage[key] /\ active'[key] \subseteq active[key],
           \A key \in Keys : \A o \in active[key] :
             o \in active'[key] \/ Ended(o) \/ o \notin storage'[key]
    PROVE  OrdersInv'
<1>1. \A o : (Exists(o)' <=> Exists(o)) /\ (Ended(o)' <=> Ended(o)) /\ Key(o)' = Key(o)
  BY DEF Exists, Ended, Key
<1>2. TypeOK'
  BY <1>1 DEF OrdersInv, TypeOK, history, asked
<1>3. LiveIsActive'
  BY <1>1 DEF OrdersInv, TypeOK, LiveIsActive, history
<1>4. AskedIsCanceled'
  BY <1>1 DEF OrdersInv, AskedIsCanceled, history, asked
<1> QED
  BY <1>2, <1>3, <1>4 DEF OrdersInv

\* cancelAllOrders moves statuses and empties one file at once.
LEMMA CancelAllKeeps ==
    ASSUME OrdersInv, NEW s \in Symbols, CancelAllOrders(s)
    PROVE  OrdersInv'
<1> DEFINE key == <<DriverName, s>>
<1>1. /\ UNCHANGED <<deal, active, toExecute, positions, askedOne, revived>>
      /\ status' \in [OrderIds -> Statuses]
      /\ \A o \in OrderIds : Exists(o)' <=> Exists(o)
      /\ \A o \in OrderIds : Ended(o) => status'[o] = status[o]
      /\ askedAll' \subseteq OrderIds
  <2>1. /\ UNCHANGED <<deal, active, toExecute, positions, askedOne, revived>>
        /\ status' = [o \in OrderIds |->
                        IF o \in active[key] /\ status[o] = "ACTIVE" THEN "CANCELED" ELSE status[o]]
        /\ askedAll' = askedAll \cup {o \in active[key] : ~Ended(o)}
    BY DEF CancelAllOrders
  <2>2. key \in Keys
    BY DEF Keys
  <2>3. status \in [OrderIds -> Statuses] /\ askedAll \subseteq OrderIds /\ active[key] \subseteq OrderIds
    BY <2>2 DEF OrdersInv, TypeOK
  <2>4. status' \in [OrderIds -> Statuses] /\ askedAll' \subseteq OrderIds
    BY <2>1, <2>3 DEF Statuses
  <2>5. \A o \in OrderIds : (Exists(o)' <=> Exists(o)) /\ (Ended(o) => status'[o] = status[o])
    BY <2>1, <2>3 DEF Exists, Ended
  <2> QED
    BY <2>1, <2>4, <2>5
<1>2. key \in Keys
  BY DEF Keys
<1>3. /\ storage' \in [Keys -> SUBSET OrderIds]
      /\ \A k \in Keys : storage'[k] \subseteq storage[k]
  BY <1>2 DEF CancelAllOrders, OrdersInv, TypeOK
<1>4. \A o \in OrderIds : (Ended(o) => Ended(o)') /\ Key(o)' = Key(o)
  BY <1>1 DEF Ended, Key
<1>5. TypeOK'
  BY <1>1, <1>3, <1>4 DEF OrdersInv, TypeOK
<1>6. LiveIsActive'
  BY <1>1, <1>3, <1>4 DEF OrdersInv, TypeOK, LiveIsActive
<1>7. AskedIsCanceled'
  BY <1>1 DEF OrdersInv, TypeOK, AskedIsCanceled, Ended, Exists
<1> QED
  BY <1>5, <1>6, <1>7 DEF OrdersInv

-------------------------------------------------------------------------------
(* Every step                                                               *)

LEMMA OrdersStep == OrdersInv /\ [OrdersNext]_ordersVars => OrdersInv'
<1> SUFFICES ASSUME OrdersInv, [OrdersNext]_ordersVars PROVE OrdersInv'
  OBVIOUS
<1>1. ASSUME NEW o \in OrderIds, NEW x \in Exchanges, NEW s \in Symbols, NEW side \in Sides,
             AtMarket(o, x, s, side) \/ AtPrice(o, x, s, side) \/ StartProfitAt(o, x, s, side)
      PROVE  OrdersInv'
  BY <1>1, SubmitKeeps DEF AtMarket, AtPrice, StartProfitAt, Types
<1>2. ASSUME NEW o \in OrderIds, NEW x \in Exchanges, NEW s \in Symbols,
             NEW price \in {"near", "profit", "loss"}, ReducePositionAt(o, x, s, price)
      PROVE  OrdersInv'
  <2>1. PICK kind \in Types, side \in Sides : Submit(o, x, s, kind, side)
    BY <1>2 DEF ReducePositionAt, Types, Sides, Opposite
  <2> QED
    BY <2>1, SubmitKeeps
<1>3. ASSUME NEW o \in OrderIds, CancelFromStream(o) \/ Execute(o) \/ Resubmit(o)
      PROVE  OrdersInv'
  <2>1. \E to \in Statuses \ {"none"} : status' = [status EXCEPT ![o] = to]
    BY <1>3 DEF CancelFromStream, Execute, Resubmit, Statuses
  <2>2. /\ Exists(o) /\ ~Ended(o)
        /\ UNCHANGED <<deal, storage, active, toExecute, positions, askedOne, askedAll, revived>>
    BY <1>3 DEF CancelFromStream, Cancels, Execute, Resubmit, Exists, Ended, files, history, asked
  <2>3. status' \in [OrderIds -> Statuses]
    BY <2>1 DEF OrdersInv, TypeOK
  <2>4. \A p \in OrderIds : (Exists(p)' <=> Exists(p)) /\ (Ended(p) => status'[p] = status[p])
    BY <2>1, <2>2 DEF OrdersInv, TypeOK, Exists
  <2> QED
    BY <2>2, <2>3, <2>4, StatusMoves DEF OrdersInv, TypeOK, Statuses
<1>13. ASSUME NEW o \in OrderIds, ExecutePartially(o) \/ QueueIt(o)
       PROVE  OrdersInv'
  <2>1. PICK to \in Statuses \ {"none"} : GoesTo(o, to)
    BY <1>13 DEF ExecutePartially, QueueIt, Statuses
  <2>2. /\ UNCHANGED <<deal, storage, active, toExecute, positions, askedOne, askedAll>>
        /\ revived \subseteq revived' /\ revived' \subseteq OrderIds
        /\ status' \in [OrderIds -> Statuses]
    BY <2>1 DEF GoesTo, files, asked, OrdersInv, TypeOK
  <2>3. \A p \in OrderIds : /\ Exists(p)' <=> Exists(p)
                            /\ Ended(p) => status'[p] = status[p] \/ p \in revived'
    BY <2>1 DEF GoesTo, OrdersInv, TypeOK, Exists
  <2> QED
    BY <2>2, <2>3, StatusMoves DEF Statuses
<1>4. ASSUME NEW o \in OrderIds, CancelOrder(o) PROVE OrdersInv'
  <2>1. status' \in [OrderIds -> Statuses]
    BY <1>4 DEF CancelOrder, OrdersInv, TypeOK, Statuses
  <2>2. \A p \in OrderIds : (Exists(p)' <=> Exists(p)) /\ (Ended(p) => status'[p] = status[p])
    BY <1>4 DEF CancelOrder, Cancels, OrdersInv, TypeOK, Exists
  <2>3. askedOne' \subseteq askedOne \cup {p \in OrderIds : status'[p] = "CANCELED"}
    <3>1. CASE Cancels(o, "")
      <4>1. status' = [status EXCEPT ![o] = "CANCELED"] /\ askedOne' = askedOne \cup {o}
        BY <1>4, <3>1 DEF CancelOrder
      <4>2. status'[o] = "CANCELED"
        BY <4>1 DEF OrdersInv, TypeOK
      <4> QED
        BY <4>1, <4>2
    <3>2. CASE ~Cancels(o, "")
      BY <1>4, <3>2 DEF CancelOrder
    <3> QED
      BY <3>1, <3>2
  <2> QED
    BY <1>4, <2>1, <2>2, <2>3, StatusMoves DEF CancelOrder, files, Statuses, OrdersInv, TypeOK
<1>5. CASE ExecutePendingMarketOrders
  <2>1. status' \in [OrderIds -> Statuses]
    BY <1>5 DEF ExecutePendingMarketOrders, OrdersInv, TypeOK, Statuses
  <2>2. \A p \in OrderIds : (Exists(p)' <=> Exists(p)) /\ (Ended(p) => status'[p] = status[p])
    BY <1>5 DEF ExecutePendingMarketOrders, OrdersInv, TypeOK, Exists
  <2> QED
    BY <1>5, <2>1, <2>2, StatusMoves DEF ExecutePendingMarketOrders, history, asked, Statuses,
                                                OrdersInv, TypeOK
<1>6. ASSUME NEW s \in Symbols, CancelAllOrders(s) PROVE OrdersInv'
  BY <1>6, CancelAllKeeps
<1>7. ASSUME NEW key \in Keys, UpdateActiveOrders(key) PROVE OrdersInv'
  BY <1>7, FilesShrink DEF UpdateActiveOrders, OrdersInv, TypeOK
<1>8. ASSUME NEW key \in Keys, ResetTradeOrders(key) PROVE OrdersInv'
  BY <1>8, FilesShrink DEF ResetTradeOrders, OrdersInv, TypeOK
<1>9. CASE Reset
  BY <1>9, FilesShrink DEF Reset, OrdersInv, TypeOK
<1>10. ASSUME NEW o \in OrderIds, RemoveOrder(o) PROVE OrdersInv'
  <2>1. Key(o) \in Keys
    BY <1>10, KeyInKeys DEF RemoveOrder, OrdersInv
  <2> QED
    BY <1>10, <2>1, FilesShrink DEF RemoveOrder, OrdersInv, TypeOK
<1>11. ASSUME NEW m \in Markets, NEW type \in PositionTypes, PositionMoves(m, type) PROVE OrdersInv'
  BY <1>11 DEF PositionMoves, files, history, asked, OrdersInv, TypeOK, LiveIsActive, AskedIsCanceled,
               Exists, Ended, Key
<1>12. CASE UNCHANGED ordersVars
  BY <1>12 DEF ordersVars, OrdersInv, TypeOK, LiveIsActive, AskedIsCanceled, Exists, Ended, Key
<1> QED
  BY <1>1, <1>2, <1>3, <1>4, <1>5, <1>6, <1>7, <1>8, <1>9, <1>10, <1>11, <1>12, <1>13 DEF OrdersNext

\* No step but queueIt and executePartially moves an order that has ended.
LEMMA EndStays ==
    ASSUME TypeOK, [OrdersNext]_ordersVars, NEW o \in OrderIds, Ended(o),
           ~ExecutePartially(o), ~QueueIt(o)
    PROVE  status'[o] = status[o]
<1>1. ASSUME NEW p \in OrderIds, NEW x \in Exchanges, NEW s \in Symbols, NEW kind, NEW side,
             Submit(p, x, s, kind, side)
      PROVE  status'[o] = status[o]
  BY <1>1 DEF Submit, TypeOK, Exists, Ended
<1>2. ASSUME NEW p \in OrderIds, NEW x \in Exchanges, NEW s \in Symbols, NEW side \in Sides,
             AtMarket(p, x, s, side) \/ AtPrice(p, x, s, side) \/ StartProfitAt(p, x, s, side)
      PROVE  status'[o] = status[o]
  BY <1>1, <1>2 DEF AtMarket, AtPrice, StartProfitAt
<1>3. ASSUME NEW p \in OrderIds, NEW x \in Exchanges, NEW s \in Symbols,
             NEW price \in {"near", "profit", "loss"}, ReducePositionAt(p, x, s, price)
      PROVE  status'[o] = status[o]
  BY <1>1, <1>3 DEF ReducePositionAt
<1>4. ASSUME NEW p \in OrderIds,
             CancelFromStream(p) \/ Execute(p) \/ Resubmit(p) \/ CancelOrder(p)
      PROVE  status'[o] = status[o]
  BY <1>4 DEF CancelFromStream, Execute, Resubmit, CancelOrder, Cancels, Ended, TypeOK
<1>12. ASSUME NEW p \in OrderIds, ExecutePartially(p) \/ QueueIt(p) PROVE status'[o] = status[o]
  <2>1. p # o
    BY <1>12
  <2> QED
    BY <1>12, <2>1 DEF ExecutePartially, QueueIt, GoesTo, TypeOK
<1>5. CASE ExecutePendingMarketOrders
  BY <1>5 DEF ExecutePendingMarketOrders, TypeOK
<1>6. ASSUME NEW s \in Symbols, CancelAllOrders(s) PROVE status'[o] = status[o]
  BY <1>6 DEF CancelAllOrders, Ended, TypeOK
<1>7. CASE UNCHANGED status
  BY <1>7
<1>8. ASSUME NEW key \in Keys, UpdateActiveOrders(key) \/ ResetTradeOrders(key) PROVE UNCHANGED status
  BY <1>8 DEF UpdateActiveOrders, ResetTradeOrders
<1>9. ASSUME NEW p \in OrderIds, RemoveOrder(p) PROVE UNCHANGED status
  BY <1>9 DEF RemoveOrder
<1>10. ASSUME NEW m \in Markets, NEW type \in PositionTypes, PositionMoves(m, type)
       PROVE  UNCHANGED status
  BY <1>10 DEF PositionMoves
<1>11. Reset \/ UNCHANGED ordersVars => UNCHANGED status
  BY DEF Reset, ordersVars
<1> QED
  BY <1>2, <1>3, <1>4, <1>5, <1>6, <1>7, <1>8, <1>9, <1>10, <1>11, <1>12 DEF OrdersNext

-------------------------------------------------------------------------------
(* What the orders promise.                                                 *)

\* The inductive invariant, on which the theorems below rest.
THEOREM OrdersInvariant == OrdersSpec => []OrdersInv
BY OrdersBegin, OrdersStep, PTL DEF OrdersSpec

\* Every live order that storage_ knows is among the active orders, unless it was
\* brought back after its end.
THEOREM LiveOrdersActive == OrdersSpec => []LiveIsActive
<1>1. OrdersSpec => []OrdersInv
  BY OrdersInvariant
<1>2. OrdersInv => LiveIsActive
  BY DEF OrdersInv
<1> QED
  BY <1>1, <1>2, PTL

\* An order that cancelOrder cancelled is never executed, whether it waits in
\* to_execute_ or not, unless queueIt or executePartially brought it back.
THEOREM CancelHonoured == OrdersSpec => []CancelOrderHonoured
<1>1. OrdersSpec => []OrdersInv
  BY OrdersInvariant
<1>2. OrdersInv => CancelOrderHonoured
  BY DEF OrdersInv, AskedIsCanceled, CancelOrderHonoured
<1> QED
  BY <1>1, <1>2, PTL

\* An order that has been executed or cancelled stays so, except in the two calls
\* that look at no status.
THEOREM EndsAreFinal == OrdersSpec => EndIsFinal
<1> DEFINE Moved == \A o \in OrderIds :
                      Ended(o) /\ status'[o] # status[o] => ExecutePartially(o) \/ QueueIt(o)
<1>1. OrdersSpec => []OrdersInv
  BY OrdersInvariant
<1>2. OrdersInv /\ [OrdersNext]_ordersVars => [Moved]_ordersVars
  BY EndStays DEF OrdersInv
<1> QED
  BY <1>1, <1>2, PTL DEF OrdersSpec, EndIsFinal

-------------------------------------------------------------------------------
(* The account.                                                             *)

USE AccountAssumption, PositionAssumption, TradesAssumption

-------------------------------------------------------------------------------
(* Positions. *)

Fields == {"qty", "previous", "entry", "exit", "current"}
IsPosition(p) == p = [f \in Fields |-> p[f]] /\ p.qty \in Int /\ p.previous \in Int

\* The orders have terms, the reports are of orders, and the position is one.
PositionInv ==
  /\ live \in BOOLEAN /\ market \in {"SPOT", "FUTURES"}
  /\ terms \in [Orders -> Terms] /\ executed \in Seq(Orders)
  /\ IsPosition(pos)

\* A call with its outcome leaves a position; if it throws, with the quantity
\* and the entry price there were.
Lawful(e, p) ==
  /\ IsPosition(e.pos)
  /\ e.error # "none" => e.pos.qty = p.qty /\ e.pos.entry = p.entry

\* The fee makes a quantity smaller, and never turns it or leaves nothing.
LEMMA NetBounded ==
  ASSUME NEW q \in Int
  PROVE  /\ Net(q) \in Int
         /\ q >= 0 => 0 <= Net(q) /\ Net(q) <= q
         /\ q <= 0 => q <= Net(q) /\ Net(q) <= 0
         /\ q # 0 => Net(q) # 0
<1> DEFINE share == 100 - FeePercent
           product == q * share
<1>1. share \in 1 .. 100
  OBVIOUS
<1>2. Net(q) = IF q < 0 THEN product \div 100 ELSE - ((- product) \div 100)
  <2>1. (- q) * share = - product
    BY <1>1
  <2> QED
    BY <2>1 DEF Net
<1>3. /\ product \in Int
      /\ q >= 0 => q <= product /\ product <= q * 100
      /\ q <= 0 => q * 100 <= product /\ product <= q
  BY <1>1
<1> HIDE DEF product
<1> QED
  BY <1>2, <1>3

LEMMA UpdatedPosition ==
  ASSUME NEW p, IsPosition(p), NEW q \in Int
  PROVE  /\ IsPosition(UpdateQty(p, q))
         /\ UpdateQty(p, q).qty = q /\ UpdateQty(p, q).entry = p.entry
BY DEF UpdateQty, IsPosition, Fields

LEMMA PricedPosition ==
  ASSUME NEW p, IsPosition(p), NEW e
  PROVE  LET entered == [p EXCEPT !.entry = e]
             left == [p EXCEPT !.exit = e]
         IN  /\ IsPosition(entered) /\ entered.qty = p.qty /\ entered.entry = e
             /\ IsPosition(left) /\ left.qty = p.qty /\ left.entry = p.entry
BY DEF IsPosition, Fields

\* Without a live session the quantity is the position's own, and any but 0 is
\* an open position.
LEMMA BacktestOpen ==
  ASSUME ~ live, NEW p, p.qty \in Int
  PROVE  CanMutateQty /\ (IsOpen(p) <=> p.qty # 0) /\ (IsLong(p) <=> p.qty > 0)
BY DEF CanMutateQty, IsOpen, IsLong, IsShort, MinQty

\* close empties a spot position of a backtest and refuses a futures one.
LEMMA CloseEffect ==
  ASSUME ~ live, market \in {"SPOT", "FUTURES"}, NEW p, IsPosition(p), NEW price, p.qty # 0
  PROVE  /\ Lawful(Close(p, price), p)
         /\ market = "SPOT" => /\ Close(p, price).error = "none"
                               /\ Close(p, price).pos.qty = 0 /\ Close(p, price).pos.entry = NoPrice
         /\ market = "FUTURES" => Close(p, price).error # "none"
<1> DEFINE left == [p EXCEPT !.exit = Price(price)]
           empty == [left EXCEPT !.entry = NoPrice]
<1>1. p.qty \in Int
  BY DEF IsPosition
<1>2. IsOpen(p) /\ CanMutateQty
  BY <1>1, BacktestOpen
<1>3. IsPosition(left) /\ left.qty = p.qty /\ left.entry = p.entry
  BY PricedPosition
<1> HIDE DEF left
<1>4. IsPosition(empty) /\ empty.entry = NoPrice
  BY <1>3, PricedPosition
<1> HIDE DEF empty
<1>5. Close(p, price) = IF market = "FUTURES" THEN FuturesRefuses(left) ELSE Done(Set(empty, 0))
  BY <1>2 DEF Close, left, empty
<1>6. CASE market = "FUTURES"
  BY <1>3, <1>5, <1>6 DEF Lawful, FuturesRefuses, Throws
<1>7. CASE market = "SPOT"
  <2>1. Net(0) = 0
    BY NetBounded
  <2>2. Set(empty, 0) = UpdateQty(empty, 0)
    BY <1>7, <2>1 DEF Set
  <2>3. IsPosition(Set(empty, 0)) /\ Set(empty, 0).qty = 0 /\ Set(empty, 0).entry = NoPrice
    BY <1>4, <2>2, UpdatedPosition
  <2> QED
    BY <1>5, <1>7, <2>3 DEF Lawful, Done
<1> QED
  BY <1>6, <1>7

\* open gives an empty position the side and the price of its order, and at
\* most its size.
LEMMA OpenEffect ==
  ASSUME ~ live, NEW p, IsPosition(p), p.qty = 0, NEW q \in Int, NEW price
  PROVE  /\ Lawful(Open(p, q, price), p)
         /\ Open(p, q, price).error = "none"
         /\ q >= 0 => 0 <= Open(p, q, price).pos.qty /\ Open(p, q, price).pos.qty <= q
         /\ q <= 0 => q <= Open(p, q, price).pos.qty /\ Open(p, q, price).pos.qty <= 0
         /\ q # 0 => Open(p, q, price).pos.qty # 0
         /\ market = "FUTURES" => Open(p, q, price).pos.qty = q
         /\ Open(p, q, price).pos.entry = Price(price)
<1> DEFINE opened == [[p EXCEPT !.entry = Price(price)] EXCEPT !.exit = NoPrice]
           net == IF market = "SPOT" THEN Net(q) ELSE q
<1>1. CanMutateQty /\ ~ IsOpen(p)
  BY BacktestOpen
<1>2. IsPosition(opened) /\ opened.entry = Price(price)
  <2> DEFINE entered == [p EXCEPT !.entry = Price(price)]
  <2>1. IsPosition(entered) /\ entered.entry = Price(price)
    BY PricedPosition
  <2> HIDE DEF entered
  <2>2. LET left == [entered EXCEPT !.exit = NoPrice]
        IN  IsPosition(left) /\ left.entry = Price(price)
    BY <2>1, PricedPosition, ZenonT(30)
  <2> QED
    BY <2>2 DEF entered
<1>3. opened = [p EXCEPT !.entry = Price(price), !.exit = NoPrice]
  OBVIOUS
<1> HIDE DEF opened
<1>4. /\ net \in Int
      /\ q >= 0 => 0 <= net /\ net <= q
      /\ q <= 0 => q <= net /\ net <= 0
      /\ q # 0 => net # 0
      /\ market = "FUTURES" => net = q
  BY NetBounded
<1> HIDE DEF net
<1>5. Open(p, q, price) = Done(UpdateQty(opened, net))
  BY <1>1, <1>3 DEF Open, Set, net
<1>6. /\ IsPosition(UpdateQty(opened, net)) /\ UpdateQty(opened, net).qty = net
      /\ UpdateQty(opened, net).entry = Price(price)
  BY <1>2, <1>4, UpdatedPosition
<1> QED
  BY <1>4, <1>5, <1>6 DEF Lawful, Done

\* increase keeps the side and averages the price; a futures position gets all
\* of the order.
LEMMA IncreaseEffect ==
  ASSUME ~ live, NEW p, IsPosition(p), p.qty # 0, NEW q \in Int, NEW price
  PROVE  /\ Lawful(Increase(p, q, price), p)
         /\ p.qty > 0 => Increase(p, q, price).pos.qty > 0
         /\ p.qty < 0 => Increase(p, q, price).pos.qty < 0
         /\ Increase(p, q, price).pos.entry = Average(q, price, p.qty, p.entry)
         /\ market = "FUTURES" =>
              Increase(p, q, price).pos.qty = IF p.qty > 0 THEN p.qty + Abs(q) ELSE p.qty - Abs(q)
<1> DEFINE larger == [p EXCEPT !.entry = Average(q, price, p.qty, p.entry)]
           added == p.qty + IF market = "SPOT" THEN Net(Abs(q)) ELSE Abs(q)
<1>1. p.qty \in Int /\ Abs(q) \in Nat
  BY DEF IsPosition, Abs
<1>2. CanMutateQty /\ IsOpen(p) /\ (IsLong(p) <=> p.qty > 0)
  BY <1>1, BacktestOpen
<1>3. /\ IsPosition(larger) /\ larger.qty = p.qty
      /\ larger.entry = Average(q, price, p.qty, p.entry)
  BY PricedPosition
<1>4. /\ added \in Int /\ added >= p.qty
      /\ market = "FUTURES" => added = p.qty + Abs(q)
  BY <1>1, NetBounded
<1> HIDE DEF larger
<1>5. Increase(p, q, price) =
        Done(IF p.qty > 0 THEN Add(larger, Abs(q)) ELSE Subtract(larger, Abs(q)))
  BY <1>2 DEF Increase, larger
<1>6. Add(larger, Abs(q)) = UpdateQty(larger, added)
  BY <1>3 DEF Add
<1>7. Subtract(larger, Abs(q)) = UpdateQty(larger, p.qty - Abs(q))
  BY <1>3 DEF Subtract
<1> HIDE DEF added
<1>8. CASE p.qty > 0
  <2>1. /\ IsPosition(UpdateQty(larger, added)) /\ UpdateQty(larger, added).qty = added
        /\ UpdateQty(larger, added).entry = larger.entry
    BY <1>3, <1>4, UpdatedPosition
  <2> QED
    BY <1>1, <1>3, <1>4, <1>5, <1>6, <1>8, <2>1 DEF Lawful, Done
<1>9. CASE p.qty < 0
  <2> DEFINE n == p.qty - Abs(q)
  <2>1. n \in Int /\ n < 0
    BY <1>1, <1>9
  <2> HIDE DEF n
  <2>2. /\ IsPosition(UpdateQty(larger, n)) /\ UpdateQty(larger, n).qty = n
        /\ UpdateQty(larger, n).entry = larger.entry
    BY <1>3, <2>1, UpdatedPosition
  <2> QED
    BY <1>1, <1>3, <1>5, <1>7, <1>9, <2>1, <2>2 DEF Lawful, Done, n
<1> QED
  BY <1>1, <1>8, <1>9

\* reduce by less than there is keeps the side and the price and makes nothing
\* larger; a futures position stays as it is.
LEMMA ReduceEffect ==
  ASSUME ~ live, market \in {"SPOT", "FUTURES"}, NEW p, IsPosition(p), p.qty # 0,
         NEW q \in Int, NEW price, Abs(q) < Abs(p.qty)
  PROVE  /\ Lawful(Reduce(p, q, price), p)
         /\ p.qty > 0 => 0 < Reduce(p, q, price).pos.qty /\ Reduce(p, q, price).pos.qty <= p.qty
         /\ p.qty < 0 => p.qty <= Reduce(p, q, price).pos.qty /\ Reduce(p, q, price).pos.qty < 0
         /\ Reduce(p, q, price).pos.entry = p.entry
         /\ market = "FUTURES" => Reduce(p, q, price).error # "none"
<1>1. p.qty \in Int /\ Abs(q) \in Nat
  BY DEF IsPosition, Abs
<1>2. CanMutateQty /\ IsOpen(p) /\ (IsLong(p) <=> p.qty > 0)
  BY <1>1, BacktestOpen
<1>3. CASE market = "FUTURES"
  <2>1. Reduce(p, q, price) = FuturesRefuses(p)
    BY <1>2, <1>3 DEF Reduce
  <2> QED
    BY <1>1, <2>1 DEF Lawful, FuturesRefuses, Throws
<1>4. CASE market = "SPOT"
  <2>1. Reduce(p, q, price) = Done(IF p.qty > 0 THEN Subtract(p, Abs(q)) ELSE Add(p, Abs(q)))
    BY <1>2, <1>4 DEF Reduce
  <2> DEFINE n == IF p.qty > 0 THEN p.qty - Abs(q) ELSE p.qty + Net(Abs(q))
  <2>2. /\ n \in Int
        /\ p.qty > 0 => 0 < n /\ n <= p.qty
        /\ p.qty < 0 => p.qty <= n /\ n < 0
    <3>1. Net(Abs(q)) \in Int /\ 0 <= Net(Abs(q)) /\ Net(Abs(q)) <= Abs(q)
      BY <1>1, NetBounded
    <3>2. Abs(p.qty) = IF p.qty < 0 THEN - p.qty ELSE p.qty
      BY DEF Abs
    <3> QED
      BY <1>1, <3>1, <3>2
  <2>3. Reduce(p, q, price) = Done(UpdateQty(p, n))
    BY <1>4, <2>1 DEF Subtract, Add
  <2> HIDE DEF n
  <2>4. /\ IsPosition(UpdateQty(p, n)) /\ UpdateQty(p, n).qty = n
        /\ UpdateQty(p, n).entry = p.entry
    BY <2>2, UpdatedPosition
  <2> QED
    BY <1>4, <2>2, <2>3, <2>4 DEF Lawful, Done
<1> QED
  BY <1>3, <1>4

\* What a report may do to the position p it finds in a backtest.
Honours(p, o, r) ==
  p.qty # 0 =>
    /\ Sign(r.qty) = - Sign(p.qty) =>
         /\ Abs(Qty(o)) > Abs(p.qty) /\ ~ ReduceOnly(o)
         /\ Abs(r.qty) <= Abs(p.qty + Qty(o))
    /\ ReduceOnly(o) => Abs(r.qty) <= Abs(p.qty)

\* onExecutedOrder of a backtest, case by case.
LEMMA BacktestHonours ==
  ASSUME ~ live, market \in {"SPOT", "FUTURES"}, NEW p, IsPosition(p),
         NEW o, Qty(o) \in Int, NEW price
  PROVE  LET e == Backtest(p, Qty(o), price, ReduceOnly(o))
         IN  Lawful(e, p) /\ Honours(p, o, e.pos)
<1> DEFINE q == Qty(o)
           e == Backtest(p, q, price, ReduceOnly(o))
<1> HIDE DEF q, e
<1>1. p.qty \in Int /\ q \in Int
  BY DEF IsPosition, q
<1>2. CASE p.qty = 0
  <2>1. e = Open(p, q, price)
    BY <1>2 DEF Backtest, e
  <2> QED
    BY <1>1, <1>2, <2>1, OpenEffect DEF Honours, q, e
<1>3. CASE p.qty # 0 /\ p.qty + q = 0
  <2>1. e = Close(p, price)
    BY <1>3 DEF Backtest, e
  <2>2. Lawful(e, p) /\ (e.pos.qty = 0 \/ e.pos.qty = p.qty)
    BY <1>3, <2>1, CloseEffect DEF Lawful
  <2> QED
    BY <1>1, <1>3, <2>2 DEF Honours, Sign, Abs, q, e
<1>4. CASE p.qty # 0 /\ p.qty + q # 0 /\ Sign(p.qty) = Sign(q)
  <2>1. e = IF ReduceOnly(o) THEN Done(p) ELSE Increase(p, q, price)
    BY <1>4 DEF Backtest, e
  <2>2. Lawful(e, p) /\ (p.qty > 0 => e.pos.qty > 0) /\ (p.qty < 0 => e.pos.qty < 0)
    BY <1>1, <1>4, <2>1, IncreaseEffect DEF Lawful, Done
  <2>3. ReduceOnly(o) => e.pos.qty = p.qty
    BY <2>1 DEF Done
  <2>4. e.pos.qty \in Int
    BY <2>2 DEF Lawful, IsPosition
  <2> QED
    BY <1>1, <1>4, <2>2, <2>3, <2>4 DEF Honours, Sign, Abs, q, e
<1>5. CASE p.qty # 0 /\ p.qty + q # 0 /\ Sign(p.qty) # Sign(q) /\ Abs(q) > Abs(p.qty)
  <2>1. e = IF ReduceOnly(o) THEN Close(p, price) ELSE Flip(p, q, price)
    BY <1>5 DEF Backtest, e
  <2>2. CASE ReduceOnly(o) \/ market = "FUTURES"
    <3>1. e = Close(p, price)
      BY <1>5, <2>1, <2>2, CloseEffect DEF Flip
    <3>2. Lawful(e, p) /\ (e.pos.qty = 0 \/ e.pos.qty = p.qty)
      BY <1>5, <3>1, CloseEffect DEF Lawful
    <3> QED
      BY <1>1, <1>5, <3>2 DEF Honours, Sign, Abs, q, e
  <2>3. CASE ~ ReduceOnly(o) /\ market = "SPOT"
    <3> DEFINE c == Close(p, price).pos
    <3>1. IsPosition(c) /\ c.qty = 0 /\ Close(p, price).error = "none"
      BY <1>5, <2>3, CloseEffect DEF Lawful
    <3>2. e = Open(c, p.qty + q, price)
      BY <2>1, <2>3, <3>1 DEF Flip
    <3> HIDE DEF c
    <3> DEFINE n == p.qty + q
    <3>3. n \in Int
      BY <1>1
    <3> HIDE DEF n
    <3>4. /\ Lawful(e, c) /\ e.error = "none"
          /\ n >= 0 => 0 <= e.pos.qty /\ e.pos.qty <= n
          /\ n <= 0 => n <= e.pos.qty /\ e.pos.qty <= 0
      BY <3>1, <3>2, <3>3, OpenEffect DEF n
    <3>5. Lawful(e, p) /\ e.pos.qty \in Int
      BY <3>4 DEF Lawful, IsPosition
    <3>6. Abs(e.pos.qty) <= Abs(n)
      BY <3>3, <3>4, <3>5 DEF Abs
    <3> QED
      BY <1>5, <2>3, <3>5, <3>6 DEF Honours, n, q, e
  <2> QED
    BY <2>2, <2>3
<1>6. CASE p.qty # 0 /\ p.qty + q # 0 /\ Sign(p.qty) # Sign(q) /\ ~ (Abs(q) > Abs(p.qty))
  <2>1. e = Reduce(p, q, price)
    BY <1>6 DEF Backtest, e
  <2>2. Abs(q) < Abs(p.qty)
    BY <1>1, <1>6 DEF Abs, Sign
  <2>3. /\ Lawful(e, p)
        /\ p.qty > 0 => 0 < e.pos.qty /\ e.pos.qty <= p.qty
        /\ p.qty < 0 => p.qty <= e.pos.qty /\ e.pos.qty < 0
    BY <1>1, <1>6, <2>1, <2>2, ReduceEffect
  <2>4. e.pos.qty \in Int
    BY <2>3 DEF Lawful, IsPosition
  <2> QED
    BY <1>1, <1>6, <2>3, <2>4 DEF Honours, Sign, Abs, q, e
<1> QED
  BY <1>2, <1>3, <1>4, <1>5, <1>6 DEF q, e

\* onExecutedOrder of a live spot session leaves the quantity to the stream.
LEMMA LiveKeeps ==
  ASSUME live, market = "SPOT", NEW p, IsPosition(p), NEW q, NEW price
  PROVE  LET e == LiveSpot(p, q, price)
         IN  Lawful(e, p) /\ e.pos.qty = p.qty
<1>1. ~ CanMutateQty
  BY DEF CanMutateQty
<1>2. Lawful(Close(p, price), p) /\ Close(p, price).pos.qty = p.qty
  <2> DEFINE left == [p EXCEPT !.exit = Price(price)]
             empty == [left EXCEPT !.entry = NoPrice]
  <2>1. IsPosition(left) /\ left.qty = p.qty
    BY PricedPosition
  <2> HIDE DEF left
  <2>2. IsPosition(empty) /\ empty.qty = p.qty
    BY <2>1, PricedPosition
  <2> HIDE DEF empty
  <2>3. Close(p, price) = Done(empty)
    BY <1>1 DEF Close, left, empty
  <2> QED
    BY <2>2, <2>3 DEF Done, Lawful
<1>3. Lawful(Open(p, q, price), p) /\ Open(p, q, price).pos.qty = p.qty
  <2> DEFINE entered == [p EXCEPT !.entry = Price(price)]
             opened == [entered EXCEPT !.exit = NoPrice]
  <2>1. IsPosition(entered) /\ entered.qty = p.qty
    BY PricedPosition
  <2>2. opened = [p EXCEPT !.entry = Price(price), !.exit = NoPrice]
    OBVIOUS
  <2> HIDE DEF entered
  <2>3. IsPosition(opened) /\ opened.qty = p.qty
    BY <2>1, PricedPosition
  <2> HIDE DEF opened
  <2>4. Open(p, q, price) = Done(opened)
    BY <1>1, <2>2 DEF Open
  <2> QED
    BY <2>3, <2>4 DEF Done, Lawful
<1>4. Lawful(Increase(p, q, price), p) /\ Increase(p, q, price).pos.qty = p.qty
  <2> DEFINE larger == [p EXCEPT !.entry = Average(q, price, p.qty, p.entry)]
  <2>1. IsPosition(larger) /\ larger.qty = p.qty
    BY PricedPosition
  <2> HIDE DEF larger
  <2>2. Increase(p, q, price) = IF IsOpen(p) THEN Done(larger) ELSE Throws(p, 0, "OpenPositionError")
    BY <1>1 DEF Increase, larger
  <2> QED
    BY <2>1, <2>2 DEF Done, Throws, Lawful
<1>5. Reduce(p, q, price) = Done(p) /\ Lawful(Done(p), p) /\ Done(p).pos.qty = p.qty
  BY <1>1 DEF Reduce, Done, Lawful
<1> DEFINE e == LiveSpot(p, q, price)
<1>6. e \in {Close(p, price), Open(p, q, price), Increase(p, q, price), Reduce(p, q, price), Done(p)}
  BY DEF LiveSpot
<1> QED
  BY <1>2, <1>3, <1>4, <1>5, <1>6

-------------------------------------------------------------------------------
(* Steps of the position. *)

\* The terms of an order.
LEMMA OrderTerms ==
  ASSUME PositionInv, NEW o \in Orders
  PROVE  Qty(o) \in Int
<1>1. terms[o] \in [qty : Int, price : Int, reduce_only : BOOLEAN]
  BY DEF PositionInv
<1> QED
  BY <1>1 DEF Qty

\* What the call that handles a report does to the position.
LEMMA EffectHonours ==
  ASSUME PositionInv, NEW o \in Orders
  PROVE  LET e == Effect(pos, o)
         IN  /\ Lawful(e, pos)
             /\ ~ live => Honours(pos, o, e.pos)
             /\ live => e.pos.qty = pos.qty
<1>1. IsPosition(pos) /\ market \in {"SPOT", "FUTURES"} /\ Qty(o) \in Int
  BY OrderTerms DEF PositionInv
<1>2. CASE ~ live
  <2>1. Effect(pos, o) = Backtest(pos, Qty(o), terms[o].price, ReduceOnly(o))
    BY <1>2 DEF Effect
  <2> QED
    BY <1>1, <1>2, <2>1, BacktestHonours
<1>3. CASE live /\ market = "SPOT"
  <2>1. Effect(pos, o) = LiveSpot(pos, Qty(o), terms[o].price)
    BY <1>3 DEF Effect
  <2> QED
    BY <1>1, <1>3, <2>1, LiveKeeps
<1>4. CASE live /\ market = "FUTURES"
  <2>1. Effect(pos, o) = Done(pos)
    BY <1>4 DEF Effect
  <2> QED
    BY <1>1, <1>4, <2>1 DEF Done, Lawful
<1> QED
  BY <1>1, <1>2, <1>3, <1>4

Honoured == Reports => HonoursOrder /\ LeavesStreamedQty /\ FailureChangesNothing

LEMMA ReportStep ==
  ASSUME PositionInv, NEW o \in Orders, OnExecutedOrder(o)
  PROVE  PositionInv' /\ Honoured
<1> DEFINE e == Effect(pos, o)
<1>1. pos' = e.pos /\ error' = e.error /\ UNCHANGED <<live, terms, market>>
  BY DEF OnExecutedOrder
<1>2. /\ Lawful(e, pos)
      /\ ~ live => Honours(pos, o, e.pos)
      /\ live => e.pos.qty = pos.qty
  BY EffectHonours
<1> HIDE DEF e
<1>3. executed' = Append(executed, o) /\ executed \in Seq(Orders)
  BY DEF OnExecutedOrder, PositionInv
<1>4. Reported = o /\ executed' \in Seq(Orders)
  BY <1>3 DEF Reported, Last
<1>5. PositionInv'
  BY <1>1, <1>2, <1>4 DEF PositionInv, Lawful
<1>6. HonoursOrder
  BY <1>1, <1>2, <1>4 DEF HonoursOrder, Honours
<1>7. LeavesStreamedQty /\ FailureChangesNothing
  BY <1>1, <1>2 DEF LeavesStreamedQty, FailureChangesNothing, Lawful
<1> QED
  BY <1>5, <1>6, <1>7 DEF Honoured

LEMMA StreamStep ==
  ASSUME PositionInv, NEW q \in Streamed, NEW entry, OnUpdateFromStream(q, entry)
  PROVE  PositionInv' /\ Honoured
<1> DEFINE p == IF q = pos.qty THEN pos ELSE [pos EXCEPT !.qty = q, !.previous = pos.qty]
<1>1. UNCHANGED <<live, terms, market, executed>>
  BY DEF OnUpdateFromStream
<1>2. IsPosition(p)
  BY UpdatedPosition DEF PositionInv, UpdateQty
<1>3. pos' = IF market = "FUTURES" THEN [p EXCEPT !.entry = Price(entry)]
             ELSE IF Abs(q) > MinQty /\ pos.entry = NoPrice
                  THEN [p EXCEPT !.entry = pos.current] ELSE p
  BY DEF OnUpdateFromStream
<1> HIDE DEF p
<1>4. IsPosition(pos')
  BY <1>2, <1>3, PricedPosition
<1> QED
  BY <1>1, <1>4 DEF PositionInv, Honoured, Reports

LEMMA PositionStep == PositionInv /\ [Next]_vars => PositionInv' /\ Honoured
<1> SUFFICES ASSUME PositionInv, [Next]_vars PROVE PositionInv' /\ Honoured
  OBVIOUS
<1>1. CASE UNCHANGED <<live, terms, market, pos, executed>>
  BY <1>1 DEF PositionInv, Honoured, Reports
<1>2. CASE \E o \in Orders : OnExecutedOrder(o)
  BY <1>2, ReportStep
<1>3. CASE \E q \in Streamed, entry \in {1, 2} : OnUpdateFromStream(q, entry)
  BY <1>3, StreamStep
<1>4. CASE \E o \in Orders : OnOrderSubmission(o) /\ UNCHANGED positionVars
  BY <1>1, <1>4 DEF OnOrderSubmission, positionVars
<1>5. CASE \E o \in Orders : OnOrderCancellation(o) /\ UNCHANGED positionVars
  BY <1>1, <1>5 DEF OnOrderCancellation, positionVars
<1>6. CASE UNCHANGED vars
  BY <1>1, <1>6 DEF vars
<1> QED
  BY <1>1, <1>2, <1>3, <1>4, <1>5, <1>6 DEF Next, PositionNext

LEMMA PositionStart == Init => PositionInv
<1> SUFFICES ASSUME Init PROVE PositionInv
  OBVIOUS
<1>1. /\ live \in BOOLEAN /\ market \in {"SPOT", "FUTURES"} /\ terms \in [Orders -> Terms]
      /\ executed = <<>>
      /\ pos = [qty |-> 0, previous |-> 0, entry |-> NoPrice, exit |-> NoPrice,
                current |-> Price(1)]
  BY DEF Init, PositionInit, AccountInit
<1>2. IsPosition(pos)
  BY <1>1 DEF IsPosition, Fields
<1> QED
  BY <1>1, <1>2 DEF PositionInv

\* Whatever was executed and streamed before, and for every fee, a report turns
\* a position of a backtest only for an order larger than it and leaves no more
\* than the rest of it, a reduce-only order makes none larger, the stream's
\* quantity is left alone, and a report that throws leaves quantity and entry
\* price as they were (Position.cpp 419-523).
THEOREM ReportsAreHonoured == Spec => ReportsHonoured
<1>1. PositionInv /\ [Next]_vars => [Honoured]_posVars
  BY PositionStep
<1>2. Spec => [][Honoured]_posVars
  BY <1>1, PositionStart, PositionStep, PTL DEF Spec
<1> QED
  BY <1>2 DEF ReportsHonoured, Honoured

-------------------------------------------------------------------------------
(* What is available. *)

\* The sum is over orders of the session, and the session is finite.
AvailableInv == PositionInv /\ submitted \in SUBSET Orders /\ AvailableExplained

\* Any orders taken together are finitely many.
LEMMA SomeOrders == \A S \in SUBSET Orders : IsFiniteSet(S)
BY OrdersAssumption, FS_Subset

\* What the orders of the session are for.
LEMMA QtysAreInt ==
  ASSUME PositionInv
  PROVE  \A o \in Orders : Qtys[o] = Qty(o) /\ Qtys[o] \in Int
BY OrderTerms DEF Qtys

\* The terms of the orders stay.
LEMMA TermsStay ==
  ASSUME UNCHANGED terms
  PROVE  Qtys' = Qtys /\ Costs' = Costs /\ \A o : Qty(o)' = Qty(o) /\ ReduceOnly(o)' = ReduceOnly(o)
BY DEF Qtys, Costs, Qty, ReduceOnly

\* A submission that returns adds what the order is for.
LEMMA SubmissionStep ==
  ASSUME AvailableInv, NEW o \in Orders, OnOrderSubmission(o)
  PROVE  submitted' \in SUBSET Orders /\ AvailableExplained'
<1>1. UNCHANGED <<live, terms>> /\ o \notin submitted /\ submitted \in SUBSET Orders
  BY DEF OnOrderSubmission, AvailableInv
<1>2. CASE UNCHANGED <<submitted, available>>
  BY <1>1, <1>2, TermsStay DEF AvailableInv, AvailableExplained
<1>3. CASE /\ submitted' = submitted \cup {o}
           /\ available' = IF live THEN available ELSE available + Qty(o)
  <2>1. IsFiniteSet(submitted) /\ \A x \in submitted \cup {o} : Qtys[x] \in Int
    BY <1>1, SomeOrders, QtysAreInt DEF AvailableInv
  <2>2. SumFunctionOnSet(Qtys, submitted \cup {o}) = SumFunctionOnSet(Qtys, submitted) + Qtys[o]
    BY <1>1, <2>1, SumMore
  <2>3. Qtys[o] = Qty(o)
    BY QtysAreInt DEF AvailableInv
  <2> QED
    BY <1>1, <1>3, <2>2, <2>3, TermsStay DEF AvailableInv, AvailableExplained
<1> QED
  BY <1>2, <1>3 DEF OnOrderSubmission

\* A cancellation takes as much back.
LEMMA CancellationStep ==
  ASSUME AvailableInv, NEW o \in Orders, OnOrderCancellation(o)
  PROVE  submitted' \in SUBSET Orders /\ AvailableExplained'
<1>1. /\ UNCHANGED <<live, terms>> /\ o \in submitted /\ submitted \in SUBSET Orders
      /\ submitted' = submitted \ {o}
      /\ available' = IF live THEN available ELSE available - Qty(o)
  BY DEF OnOrderCancellation, AvailableInv
<1>2. IsFiniteSet(submitted) /\ \A x \in submitted : Qtys[x] \in Int
  BY <1>1, SomeOrders, QtysAreInt DEF AvailableInv
<1>3. SumFunctionOnSet(Qtys, submitted) = SumFunctionOnSet(Qtys, submitted \ {o}) + Qtys[o]
  BY <1>1, <1>2, SumLess
<1>4. SumFunctionOnSet(Qtys, submitted \ {o}) \in Int
  <2>1. IsFiniteSet(submitted \ {o}) /\ \A x \in submitted \ {o} : Qtys[x] \in Int
    BY <1>1, <1>2, SomeOrders
  <2> QED
    BY <2>1, SumIsInt
<1>5. Qtys[o] = Qty(o) /\ Qty(o) \in Int
  BY <1>1, QtysAreInt DEF AvailableInv
<1> QED
  BY <1>1, <1>3, <1>4, <1>5, TermsStay DEF AvailableInv, AvailableExplained

\* Nothing else touches the account's assets.
LEMMA AvailableStep == AvailableInv /\ [Next]_vars => AvailableInv'
<1> SUFFICES ASSUME AvailableInv, [Next]_vars PROVE AvailableInv'
  OBVIOUS
<1>1. PositionInv'
  BY PositionStep DEF AvailableInv
<1>2. CASE UNCHANGED <<live, terms, available, submitted>>
  BY <1>1, <1>2, TermsStay DEF AvailableInv, AvailableExplained
<1>3. CASE \E o \in Orders : OnOrderSubmission(o)
  BY <1>1, <1>3, SubmissionStep DEF AvailableInv
<1>4. CASE \E o \in Orders : OnOrderCancellation(o)
  BY <1>1, <1>4, CancellationStep DEF AvailableInv
<1>5. CASE \E o \in Orders : OnExecutedOrder(o)
  BY <1>2, <1>5 DEF OnExecutedOrder
<1>6. CASE \E q \in Streamed, entry \in {1, 2} : OnUpdateFromStream(q, entry)
  BY <1>2, <1>6 DEF OnUpdateFromStream
<1>7. CASE UNCHANGED vars
  BY <1>2, <1>7 DEF vars
<1> QED
  BY <1>2, <1>3, <1>4, <1>5, <1>6, <1>7 DEF Next, PositionNext

\* Whatever was submitted and cancelled in whatever order, the futures account
\* of a backtest has more available than at the start by what the submitted
\* orders are for (Exchange.cpp 620, 685).
THEOREM AvailableIsExplained == Spec => []AvailableExplained
<1>1. Init => AvailableInv
  <2> SUFFICES ASSUME Init PROVE AvailableInv
    OBVIOUS
  <2>1. submitted = {} /\ available = 0
    BY DEF Init, PositionInit, AccountInit
  <2>2. SumFunctionOnSet(Qtys, {}) = 0
    BY SumEmpty
  <2> QED
    BY <2>1, <2>2, PositionStart DEF AvailableInv, AvailableExplained
<1> QED
  BY <1>1, AvailableStep, PTL DEF Spec, AvailableInv

-------------------------------------------------------------------------------
(* Entry prices and the ledger of a futures position. *)

\* The largest of some numbers is one of them.
LEMMA LargestIsOne ==
  ASSUME NEW n \in Nat, NEW S \in SUBSET (1 .. n), S # {}
  PROVE  Max(S) \in S
<1> DEFINE T == {n - k : k \in S}
<1>1. T \in SUBSET Nat /\ T # {}
  <2>1. \A k \in S : n - k \in Nat
    OBVIOUS
  <2> QED
    BY <2>1
<1>2. PICK m \in T : \A i \in T : m <= i
  <2> HIDE DEF T
  <2> QED
    BY <1>1, Least
<1>3. PICK k \in S : m = n - k
  BY <1>2
<1>4. ASSUME NEW x \in S PROVE k >= x
  <2>1. m <= n - x /\ k \in Int /\ x \in Int
    BY <1>2
  <2> QED
    BY <1>3, <2>1
<1> QED
  BY <1>4 DEF Max

\* In lowest terms or not, the average of two sizes with their costs is the cost
\* of both over both sizes.
LEMMA AverageExact ==
  ASSUME NEW q \in Int, q # 0, NEW price \in Int, NEW prior \in Int,
         NEW entry \in [cost : Int, size : Nat], entry.size > 0
  PROVE  LET a == Average(q, price, prior, entry)
             cost == Abs(q) * price * entry.size + Abs(prior) * entry.cost
             size == (Abs(q) + Abs(prior)) * entry.size
         IN  /\ a \in [cost : Int, size : Nat] /\ a.size > 0
             /\ a.cost * size = cost * a.size
<1> DEFINE cost == Abs(q) * price * entry.size + Abs(prior) * entry.cost
           size == (Abs(q) + Abs(prior)) * entry.size
           common == {k \in 1 .. size : cost % k = 0 /\ size % k = 0}
           d == Max(common)
<1>1. /\ Abs(q) \in Nat /\ Abs(q) > 0 /\ Abs(prior) \in Nat
      /\ entry.cost \in Int /\ entry.size \in Nat /\ entry.size > 0
  BY DEF Abs
<1>2. entry # NoPrice
  BY DEF NoPrice
<1>3. Average(q, price, prior, entry) = [cost |-> cost \div d, size |-> size \div d]
  BY <1>2 DEF Average
<1>4. cost \in Int
  <2>1. Abs(q) * price * entry.size \in Int /\ Abs(prior) * entry.cost \in Int
    BY <1>1
  <2> QED
    BY <2>1
<1>5. size \in Nat /\ size > 0
  BY <1>1
<1> HIDE DEF cost, size
<1>6. common \in SUBSET (1 .. size) /\ 1 \in common
  BY <1>4, <1>5
<1>7. d \in common
  <2> HIDE DEF common
  <2> QED
    BY <1>5, <1>6, LargestIsOne
<1> HIDE DEF d
<1>8. d \in Nat /\ 0 < d /\ d <= size /\ cost % d = 0 /\ size % d = 0
  BY <1>5, <1>7
<1> DEFINE c == cost \div d
           z == size \div d
<1>9. c \in Int /\ z \in Int /\ cost = d * c /\ size = d * z
  BY <1>4, <1>5, <1>8
<1> HIDE DEF c, z
<1>10. z \in Nat /\ z > 0
  BY <1>5, <1>8, <1>9
<1>11. c * size = cost * z
  BY <1>8, <1>9
<1> QED
  BY <1>3, <1>9, <1>10, <1>11 DEF cost, size, c, z

\* A position has an entry price while it is open.
Priced(p) ==
  /\ p.entry \in [cost : Int, size : Nat]
  /\ p.qty # 0 => p.entry.size > 0
  /\ p.qty = 0 => p.entry = NoPrice

\* onExecutedOrder of a backtest leaves it so, in whatever way it ends.
LEMMA BacktestPriced ==
  ASSUME ~ live, market \in {"SPOT", "FUTURES"}, NEW p, IsPosition(p), Priced(p),
         NEW q \in Int, q # 0, NEW price \in Int, NEW reduceOnly \in BOOLEAN
  PROVE  Priced(Backtest(p, q, price, reduceOnly).pos)
<1> DEFINE e == Backtest(p, q, price, reduceOnly)
<1> HIDE DEF e
<1>1. p.qty \in Int
  BY DEF IsPosition
<1>3. ASSUME NEW c, IsPosition(c), c.qty = 0, NEW n \in Int, n # 0
      PROVE  Priced(Open(c, n, price).pos)
  <2>1. Open(c, n, price).pos.qty # 0 /\ Open(c, n, price).pos.entry = Price(price)
    BY <1>3, OpenEffect
  <2> QED
    BY <2>1 DEF Priced, Price
<1>4. ASSUME p.qty # 0 PROVE Priced(Close(p, price).pos)
  <2>1. CASE market = "FUTURES"
    <3>1. Close(p, price).pos.qty = p.qty /\ Close(p, price).pos.entry = p.entry
      BY <1>4, <2>1, CloseEffect DEF Lawful
    <3> QED
      BY <3>1 DEF Priced
  <2>2. CASE market = "SPOT"
    <3>1. Close(p, price).pos.qty = 0 /\ Close(p, price).pos.entry = NoPrice
      BY <1>4, <2>2, CloseEffect
    <3> QED
      BY <3>1 DEF Priced, NoPrice
  <2> QED
    BY <2>1, <2>2
<1>5. CASE p.qty = 0
  <2>1. e = Open(p, q, price)
    BY <1>5 DEF Backtest, e
  <2> QED
    BY <1>3, <1>5, <2>1 DEF e
<1>6. CASE p.qty # 0 /\ p.qty + q = 0
  <2>1. e = Close(p, price)
    BY <1>6 DEF Backtest, e
  <2> QED
    BY <1>4, <1>6, <2>1 DEF e
<1>7. CASE p.qty # 0 /\ p.qty + q # 0 /\ Sign(p.qty) = Sign(q)
  <2>1. e = IF reduceOnly THEN Done(p) ELSE Increase(p, q, price)
    BY <1>7 DEF Backtest, e
  <2>2. CASE reduceOnly
    BY <2>1, <2>2 DEF Done, e
  <2>3. CASE ~ reduceOnly
    <3> DEFINE a == Average(q, price, p.qty, p.entry)
    <3>1. a \in [cost : Int, size : Nat] /\ a.size > 0
      BY <1>1, <1>7, AverageExact DEF Priced
    <3>2. e.pos.entry = a /\ e.pos.qty # 0
      BY <1>1, <1>7, <2>1, <2>3, IncreaseEffect
    <3> HIDE DEF a
    <3> QED
      BY <3>1, <3>2 DEF Priced, e
  <2> QED
    BY <2>2, <2>3
<1>8. CASE p.qty # 0 /\ p.qty + q # 0 /\ Sign(p.qty) # Sign(q) /\ Abs(q) > Abs(p.qty)
  <2>1. e = IF reduceOnly THEN Close(p, price) ELSE Flip(p, q, price)
    BY <1>8 DEF Backtest, e
  <2>2. CASE Close(p, price).error # "none" \/ reduceOnly
    <3>1. e = Close(p, price)
      BY <2>1, <2>2 DEF Flip
    <3> QED
      BY <1>4, <1>8, <3>1 DEF e
  <2>3. CASE Close(p, price).error = "none" /\ ~ reduceOnly
    <3> DEFINE c == Close(p, price).pos
               n == p.qty + q
    <3>1. e = Open(c, n, price)
      BY <2>1, <2>3 DEF Flip
    <3>2. IsPosition(c) /\ c.qty = 0
      BY <1>8, <2>3, CloseEffect DEF Lawful
    <3>3. n \in Int /\ n # 0
      BY <1>1, <1>8
    <3> HIDE DEF c, n
    <3> QED
      BY <1>3, <3>1, <3>2, <3>3 DEF e
  <2> QED
    BY <2>2, <2>3
<1>9. CASE p.qty # 0 /\ p.qty + q # 0 /\ Sign(p.qty) # Sign(q) /\ ~ (Abs(q) > Abs(p.qty))
  <2>1. e = Reduce(p, q, price)
    BY <1>9 DEF Backtest, e
  <2>2. Abs(q) < Abs(p.qty)
    BY <1>1, <1>9 DEF Abs, Sign
  <2>3. e.pos.entry = p.entry /\ (p.qty > 0 => 0 < e.pos.qty) /\ (p.qty < 0 => e.pos.qty < 0)
    BY <1>1, <1>9, <2>1, <2>2, ReduceEffect
  <2> QED
    BY <1>1, <1>9, <2>3 DEF Priced, e
<1> QED
  BY <1>5, <1>6, <1>7, <1>8, <1>9

\* A futures position of a backtest is opened by the first order and added to
\* by orders on its side; what another order does to it throws.
LEMMA BacktestFutures ==
  ASSUME ~ live, market = "FUTURES", NEW p, IsPosition(p),
         NEW q \in Int, q # 0, NEW price, NEW reduceOnly \in BOOLEAN
  PROVE  LET e == Backtest(p, q, price, reduceOnly)
         IN  IF p.qty = 0
             THEN e.pos.qty = q /\ e.pos.entry = Price(price)
             ELSE IF Sign(p.qty) = Sign(q) /\ ~ reduceOnly
             THEN /\ e.pos.qty = p.qty + q
                  /\ e.pos.entry = Average(q, price, p.qty, p.entry)
             ELSE e.pos.qty = p.qty /\ e.pos.entry = p.entry
<1> DEFINE e == Backtest(p, q, price, reduceOnly)
<1> HIDE DEF e
<1>1. p.qty \in Int
  BY DEF IsPosition
<1>2. ASSUME p.qty # 0
      PROVE  Close(p, price).pos.qty = p.qty /\ Close(p, price).pos.entry = p.entry
  BY <1>2, CloseEffect DEF Lawful
<1>3. CASE p.qty = 0
  <2>1. e = Open(p, q, price)
    BY <1>3 DEF Backtest, e
  <2> QED
    BY <1>3, <2>1, OpenEffect DEF e
<1>4. CASE p.qty # 0 /\ p.qty + q = 0
  <2>1. e = Close(p, price) /\ Sign(p.qty) # Sign(q)
    BY <1>1, <1>4 DEF Backtest, Sign, e
  <2> QED
    BY <1>2, <1>4, <2>1 DEF e
<1>5. CASE p.qty # 0 /\ p.qty + q # 0 /\ Sign(p.qty) = Sign(q)
  <2>1. e = IF reduceOnly THEN Done(p) ELSE Increase(p, q, price)
    BY <1>5 DEF Backtest, e
  <2>2. CASE reduceOnly
    BY <1>5, <2>1, <2>2 DEF Done, e
  <2>3. CASE ~ reduceOnly
    <3>1. /\ e.pos.entry = Average(q, price, p.qty, p.entry)
          /\ e.pos.qty = IF p.qty > 0 THEN p.qty + Abs(q) ELSE p.qty - Abs(q)
      BY <1>5, <2>1, <2>3, IncreaseEffect, SMTT(30)
    <3>2. e.pos.qty = p.qty + q
      BY <1>1, <1>5, <3>1 DEF Sign, Abs
    <3> QED
      BY <1>5, <2>3, <3>1, <3>2 DEF e
  <2> QED
    BY <2>2, <2>3
<1>6. CASE p.qty # 0 /\ p.qty + q # 0 /\ Sign(p.qty) # Sign(q) /\ Abs(q) > Abs(p.qty)
  <2>1. e = IF reduceOnly THEN Close(p, price) ELSE Flip(p, q, price)
    BY <1>6 DEF Backtest, e
  <2>2. e = Close(p, price)
    BY <1>6, <2>1, CloseEffect DEF Flip
  <2> QED
    BY <1>2, <1>6, <2>2 DEF e
<1>7. CASE p.qty # 0 /\ p.qty + q # 0 /\ Sign(p.qty) # Sign(q) /\ ~ (Abs(q) > Abs(p.qty))
  <2>1. e = Reduce(p, q, price)
    BY <1>7 DEF Backtest, e
  <2>2. Abs(q) < Abs(p.qty)
    BY <1>1, <1>7 DEF Abs, Sign
  <2>3. e.pos.qty = p.qty /\ e.pos.entry = p.entry
    BY <1>7, <2>1, <2>2, ReduceEffect DEF Lawful
  <2> QED
    BY <1>7, <2>3 DEF e
<1> QED
  BY <1>3, <1>4, <1>5, <1>6, <1>7 DEF e

\* A factor that is not 0 can be left out.
LEMMA FactorLeftOut ==
  ASSUME NEW k \in Int, k > 0 \/ k = -1, NEW x \in Int, NEW y \in Int, k * x = k * y
  PROVE  x = y
<1>1. CASE k = -1
  BY <1>1
<1>2. CASE k > 0
  <2>1. k * (x - y) = 0
    OBVIOUS
  <2>2. ASSUME x - y > 0 PROVE FALSE
    <3> DEFINE d == x - y
    <3>1. d \in Int /\ d > 0 /\ k * d = 0
      BY <2>1, <2>2
    <3> HIDE DEF d
    <3> QED
      BY <1>2, <3>1
  <2>3. ASSUME y - x > 0 PROVE FALSE
    <3> DEFINE d == y - x
    <3>1. d \in Int /\ d > 0 /\ k * d = 0
      BY <2>1, <2>3
    <3> HIDE DEF d
    <3> QED
      BY <1>2, <3>1
  <2> QED
    BY <2>2, <2>3
<1> QED
  BY <1>1, <1>2

\* An order adds to a position whose books are right.
Joins(q, price, prior, sum, entry, a) ==
  /\ q \in Int /\ q # 0 /\ price \in Int /\ prior \in Int /\ prior # 0
  /\ Sign(prior) = Sign(q) /\ sum \in Int
  /\ entry \in [cost : Int, size : Nat] /\ entry.size > 0
  /\ entry.cost * prior = sum * entry.size
  /\ a = Average(q, price, prior, entry)

\* What it does to them: its cost over its size, with what there was.
LEMMA AverageBooks ==
  ASSUME NEW q, NEW price, NEW prior, NEW sum, NEW entry, NEW a,
         Joins(q, price, prior, sum, entry, a)
  PROVE  a.cost * (prior + q) = (sum + q * price) * a.size
<1> DEFINE c == entry.cost
           n == entry.size
           cost == Abs(q) * price * n + Abs(prior) * c
           size == (Abs(q) + Abs(prior)) * n
           s == Sign(q)
<1>0. /\ q \in Int /\ q # 0 /\ price \in Int /\ prior \in Int /\ prior # 0
      /\ Sign(prior) = Sign(q) /\ sum \in Int
      /\ entry \in [cost : Int, size : Nat] /\ entry.size > 0
      /\ entry.cost * prior = sum * entry.size
      /\ a = Average(q, price, prior, entry)
  BY DEF Joins
<1>1. a \in [cost : Int, size : Nat] /\ a.cost * size = cost * a.size
  BY <1>0, AverageExact
<1>2. /\ c \in Int /\ n \in Nat /\ n > 0 /\ c * prior = sum * n
      /\ s \in {1, -1} /\ Abs(q) = s * q /\ Abs(prior) = s * prior
  BY <1>0 DEF Sign, Abs
<1> HIDE DEF c, n, s
<1> DEFINE t == prior + q
           u == sum + q * price
<1>3. cost = s * (n * u)
  <2>1. cost = s * (q * price * n + prior * c)
    BY <1>0, <1>2
  <2>2. prior * c = sum * n
    BY <1>0, <1>2
  <2>3. q * price * n + sum * n = n * u
    BY <1>0, <1>2
  <2> QED
    BY <2>1, <2>2, <2>3
<1>4. size = s * (n * t)
  BY <1>0, <1>2
<1>5. t \in Int /\ u \in Int /\ a.cost \in Int /\ a.size \in Int
  BY <1>0, <1>1
<1> HIDE DEF cost, size, t, u
<1> DEFINE x == a.cost * t
           y == u * a.size
<1>6. x \in Int /\ y \in Int /\ n * x \in Int /\ n * y \in Int
  BY <1>2, <1>5
<1>7. s * (n * x) = s * (n * y)
  <2>1. a.cost * (s * (n * t)) = (s * (n * u)) * a.size
    BY <1>1, <1>3, <1>4
  <2> QED
    BY <1>0, <1>2, <1>5, <2>1
<1> HIDE DEF x, y
<1>8. n * x = n * y
  BY <1>2, <1>6, <1>7, FactorLeftOut
<1>9. x = y
  BY <1>2, <1>6, <1>8, FactorLeftOut
<1> QED
  BY <1>9 DEF t, u, x, y

\* The ledger alone is not inductive: that a report finds the entry price it
\* averages, and the side of the first order, is what the rest says.
LedgerInv ==
  /\ PositionInv /\ FuturesLedger
  /\ ~ live => Priced(pos)
  /\ ~ live /\ market = "FUTURES" =>
       IF executed = <<>> THEN pos.qty = 0
       ELSE pos.qty # 0 /\ Sign(pos.qty) = Sign(Qty(Head(executed)))

\* The orders that were reported, and those of them that add, are in the session.
LEMMA SomeAdding ==
  ASSUME PositionInv, executed # <<>>
  PROVE  /\ ToSet(executed) \in SUBSET Orders /\ Head(executed) \in Orders
         /\ Adding \in SUBSET Orders /\ IsFiniteSet(Adding)
<1>1. executed \in Seq(Orders)
  BY DEF PositionInv
<1>2. ToSet(executed) \in SUBSET Orders /\ Head(executed) \in Orders
  BY <1>1 DEF ToSet
<1>3. Adding \in SUBSET Orders
  BY <1>2 DEF Adding
<1> QED
  BY <1>2, <1>3, SomeOrders

\* Which orders add after one more was reported.
LEMMA AddingAppended ==
  ASSUME PositionInv, NEW o \in Orders, o \notin ToSet(executed), UNCHANGED terms,
         executed' = Append(executed, o)
  PROVE  /\ executed' # <<>>
         /\ executed = <<>> => Head(executed') = o /\ Adding' = {o}
         /\ executed # <<>> =>
              /\ Head(executed') = Head(executed) /\ o \notin Adding
              /\ Adding' = IF ~ ReduceOnly(o) /\ Sign(Qty(o)) = Sign(Qty(Head(executed)))
                           THEN Adding \cup {o} ELSE Adding
<1>1. executed \in Seq(Orders)
  BY DEF PositionInv
<1>2. /\ executed' # <<>> /\ Head(executed') = IF executed = <<>> THEN o ELSE Head(executed)
      /\ executed # <<>> => Head(executed) \in ToSet(executed)
  BY <1>1 DEF ToSet
<1>3. ToSet(executed') = ToSet(executed) \cup {o}
  BY <1>1 DEF ToSet
<1>4. executed = <<>> => ToSet(executed) = {}
  BY DEF ToSet
<1>5. \A x : Qty(x)' = Qty(x) /\ ReduceOnly(x)' = ReduceOnly(x)
  BY TermsStay
<1>6. Adding' = {x \in ToSet(executed') :
                   \/ x = Head(executed')
                   \/ ~ ReduceOnly(x) /\ Sign(Qty(x)) = Sign(Qty(Head(executed')))}
  BY <1>5 DEF Adding
<1>7. CASE executed = <<>>
  BY <1>2, <1>3, <1>4, <1>6, <1>7
<1>8. CASE executed # <<>>
  <2>1. Head(executed') = Head(executed) /\ o # Head(executed) /\ o \notin Adding
    BY <1>2, <1>8 DEF Adding
  <2> QED
    BY <1>2, <1>3, <1>6, <1>8, <2>1 DEF Adding
<1> QED
  BY <1>7, <1>8

\* Both sums after an order that adds.
LEMMA SumsAdded ==
  ASSUME PositionInv, executed # <<>>, NEW o \in Orders, o \notin Adding
  PROVE  /\ SumFunctionOnSet(Qtys, Adding \cup {o}) = SumFunctionOnSet(Qtys, Adding) + Qty(o)
         /\ SumFunctionOnSet(Costs, Adding \cup {o})
              = SumFunctionOnSet(Costs, Adding) + Qty(o) * terms[o].price
         /\ SumFunctionOnSet(Costs, Adding) \in Int
<1>1. \A x \in Orders : Qtys[x] \in Int /\ Costs[x] \in Int
  <2>1. \A x \in Orders : terms[x].price \in Int /\ Qty(x) \in Int
    BY OrderTerms DEF PositionInv
  <2> QED
    BY <2>1 DEF Qtys, Costs
<1>2. Qtys[o] = Qty(o) /\ Costs[o] = Qty(o) * terms[o].price
  BY DEF Qtys, Costs
<1>3. Adding \in SUBSET Orders /\ IsFiniteSet(Adding)
  BY SomeAdding
<1>4. \A x \in Adding \cup {o} : Qtys[x] \in Int /\ Costs[x] \in Int
  BY <1>1, <1>3
<1>5. SumFunctionOnSet(Qtys, Adding \cup {o}) = SumFunctionOnSet(Qtys, Adding) + Qtys[o]
  BY <1>3, <1>4, SumMore
<1>6. SumFunctionOnSet(Costs, Adding \cup {o}) = SumFunctionOnSet(Costs, Adding) + Costs[o]
  BY <1>3, <1>4, SumMore
<1>7. SumFunctionOnSet(Costs, Adding) \in Int
  BY <1>3, <1>4, SumIsInt
<1> QED
  BY <1>2, <1>5, <1>6, <1>7

\* A sum over one order is its summand.
LEMMA SumOfOne ==
  ASSUME NEW f, NEW o, f[o] \in Int
  PROVE  SumFunctionOnSet(f, {o}) = f[o]
<1>1. SumFunctionOnSet(f, {} \cup {o}) = SumFunctionOnSet(f, {}) + f[o]
  BY FS_EmptySet, SumMore
<1>2. {} \cup {o} = {o}
  OBVIOUS
<1> QED
  BY <1>1, <1>2, SumEmpty

\* A report of an executed order keeps the books of a futures position.
LEMMA LedgerReport ==
  ASSUME LedgerInv, PositionInv', NEW o \in Orders, OnExecutedOrder(o),
         ~ live, market = "FUTURES"
  PROVE  /\ FuturesLedger'
         /\ pos'.qty # 0 /\ Sign(pos'.qty) = Sign(Qty(Head(executed')))
<1> DEFINE q == Qty(o)
           price == terms[o].price
<1>1. /\ PositionInv /\ IsPosition(pos) /\ pos.qty \in Int /\ executed' = Append(executed, o)
      /\ o \notin ToSet(executed) /\ UNCHANGED <<live, terms, market>>
      /\ pos' = Backtest(pos, q, price, ReduceOnly(o)).pos
  BY DEF LedgerInv, PositionInv, IsPosition, OnExecutedOrder, Effect
<1>2. q \in Int /\ q # 0 /\ price \in Int /\ ReduceOnly(o) \in BOOLEAN
  <2>1. terms[o] \in Terms /\ terms[o] \in [qty : Int, price : Int, reduce_only : BOOLEAN]
    BY <1>1 DEF PositionInv
  <2> QED
    BY <2>1, QtyAssumption DEF Qty, ReduceOnly
<1>3. IF pos.qty = 0
      THEN pos'.qty = q /\ pos'.entry = Price(price)
      ELSE IF Sign(pos.qty) = Sign(q) /\ ~ ReduceOnly(o)
      THEN pos'.qty = pos.qty + q /\ pos'.entry = Average(q, price, pos.qty, pos.entry)
      ELSE pos'.qty = pos.qty /\ pos'.entry = pos.entry
  BY <1>1, <1>2, BacktestFutures
<1>4. Qtys' = Qtys /\ Costs' = Costs /\ \A x : Qty(x)' = Qty(x)
  BY <1>1, TermsStay
<1>5. FuturesLedger' = ( /\ pos'.qty = SumFunctionOnSet(Qtys, Adding')
                         /\ pos'.entry.cost * pos'.qty
                              = SumFunctionOnSet(Costs, Adding') * pos'.entry.size)
  <2>1. executed' # <<>>
    BY <1>1, AddingAppended
  <2> QED
    BY <1>1, <1>4, <2>1 DEF FuturesLedger
<1>6. CASE executed = <<>>
  <2>1. pos.qty = 0
    BY <1>6 DEF LedgerInv
  <2>2. Head(executed') = o /\ Adding' = {o}
    BY <1>1, <1>6, AddingAppended
  <2>3. Qtys[o] = q /\ Costs[o] = q * price
    BY DEF Qtys, Costs
  <2>4. SumFunctionOnSet(Qtys, {o}) = q
    BY <1>2, <2>3, SumOfOne
  <2>5. SumFunctionOnSet(Costs, {o}) = q * price
    <3>1. Costs[o] \in Int
      BY <1>2, <2>3
    <3> QED
      BY <2>3, <3>1, SumOfOne
  <2>6. pos'.qty = q /\ pos'.entry.cost = price /\ pos'.entry.size = 1
    BY <1>3, <2>1 DEF Price
  <2>7. pos'.entry.cost * pos'.qty = (q * price) * pos'.entry.size
    BY <1>2, <2>6
  <2> QED
    BY <1>2, <1>4, <1>5, <2>2, <2>4, <2>5, <2>6, <2>7
<1>7. CASE executed # <<>>
  <2> DEFINE add == ~ ReduceOnly(o) /\ Sign(q) = Sign(Qty(Head(executed)))
  <2>1. /\ pos.qty # 0 /\ Sign(pos.qty) = Sign(Qty(Head(executed)))
        /\ pos.qty = SumFunctionOnSet(Qtys, Adding)
        /\ pos.entry.cost * pos.qty = SumFunctionOnSet(Costs, Adding) * pos.entry.size
        /\ pos.entry \in [cost : Int, size : Nat] /\ pos.entry.size > 0
    BY <1>7 DEF LedgerInv, FuturesLedger, Priced
  <2>2. /\ Head(executed') = Head(executed) /\ o \notin Adding
        /\ Adding' = IF add THEN Adding \cup {o} ELSE Adding
    BY <1>1, <1>7, AddingAppended
  <2>3. CASE ~ add
    BY <1>3, <1>4, <1>5, <2>1, <2>2, <2>3
  <2>4. CASE add
    <3>1. pos'.qty = pos.qty + q /\ pos'.entry = Average(q, price, pos.qty, pos.entry)
      BY <1>3, <2>1, <2>4
    <3>2. /\ SumFunctionOnSet(Qtys, Adding \cup {o}) = SumFunctionOnSet(Qtys, Adding) + q
          /\ SumFunctionOnSet(Costs, Adding \cup {o}) = SumFunctionOnSet(Costs, Adding) + q * price
          /\ SumFunctionOnSet(Costs, Adding) \in Int
      BY <1>1, <1>7, <2>2, SumsAdded
    <3>3. Sign(pos.qty) = Sign(q)
      BY <2>1, <2>4
    <3>4. pos'.entry.cost * (pos.qty + q)
            = (SumFunctionOnSet(Costs, Adding) + q * price) * pos'.entry.size
      <4> DEFINE sum == SumFunctionOnSet(Costs, Adding)
      <4>1. /\ q \in Int /\ q # 0 /\ price \in Int
            /\ pos.qty \in Int /\ pos.qty # 0 /\ Sign(pos.qty) = Sign(q) /\ sum \in Int
            /\ pos.entry \in [cost : Int, size : Nat] /\ pos.entry.size > 0
            /\ pos.entry.cost * pos.qty = sum * pos.entry.size
        BY <1>1, <1>2, <2>1, <3>2, <3>3
      <4> HIDE DEF sum, q, price
      <4>2. pos'.entry = Average(q, price, pos.qty, pos.entry)
        BY <3>1 DEF q, price
      <4>3. Joins(q, price, pos.qty, sum, pos.entry, pos'.entry)
        BY <4>1, <4>2 DEF Joins
      <4>4. pos'.entry.cost * (pos.qty + q) = (sum + q * price) * pos'.entry.size
        BY <4>3, AverageBooks
      <4> QED
        BY <4>4 DEF sum
    <3>5. Sign(pos.qty + q) = Sign(pos.qty) /\ pos.qty + q # 0
      BY <1>1, <1>2, <2>1, <3>3 DEF Sign
    <3> QED
      BY <1>4, <1>5, <2>1, <2>2, <2>4, <3>1, <3>2, <3>4, <3>5
  <2> QED
    BY <2>3, <2>4
<1> QED
  BY <1>6, <1>7

\* A report leaves an open position with an entry price, and the books kept.
LEMMA LedgerStep == LedgerInv /\ [Next]_vars => LedgerInv'
<1> SUFFICES ASSUME LedgerInv, [Next]_vars PROVE LedgerInv'
  OBVIOUS
<1>1. PositionInv /\ PositionInv'
  BY PositionStep DEF LedgerInv
<1>2. CASE UNCHANGED <<live, terms, market, pos, executed>>
  <2>1. Adding' = Adding /\ Qtys' = Qtys /\ Costs' = Costs
    BY <1>2 DEF Adding, Qtys, Costs, Qty, ReduceOnly
  <2>2. FuturesLedger'
    BY <1>2, <2>1 DEF LedgerInv, FuturesLedger
  <2>3. ~ live' => Priced(pos')
    BY <1>2 DEF LedgerInv
  <2>4. Qty(Head(executed))' = Qty(Head(executed))
    BY <1>2 DEF Qty
  <2> QED
    BY <1>1, <1>2, <2>2, <2>3, <2>4 DEF LedgerInv
<1>3. CASE \E q \in Streamed, entry \in {1, 2} : OnUpdateFromStream(q, entry)
  <2>1. live'
    BY <1>3 DEF OnUpdateFromStream
  <2> QED
    BY <1>1, <2>1 DEF LedgerInv, FuturesLedger
<1>4. CASE \E o \in Orders : OnExecutedOrder(o)
  <2> SUFFICES ASSUME NEW o \in Orders, OnExecutedOrder(o) PROVE LedgerInv'
    BY <1>4
  <2>1. UNCHANGED <<live, terms, market>> /\ executed' = Append(executed, o)
    BY DEF OnExecutedOrder
  <2>2. ~ live' => Priced(pos')
    <3> SUFFICES ASSUME ~ live PROVE Priced(pos')
      BY <2>1
    <3> DEFINE q == Qty(o)
               price == terms[o].price
    <3>1. terms[o] \in Terms /\ terms[o] \in [qty : Int, price : Int, reduce_only : BOOLEAN]
      BY <1>1 DEF PositionInv
    <3>2. q \in Int /\ q # 0 /\ price \in Int /\ ReduceOnly(o) \in BOOLEAN
      BY <3>1, QtyAssumption DEF Qty, ReduceOnly
    <3>3. pos' = Backtest(pos, q, price, ReduceOnly(o)).pos
      BY DEF OnExecutedOrder, Effect
    <3> HIDE DEF q, price
    <3>4. market \in {"SPOT", "FUTURES"} /\ IsPosition(pos) /\ Priced(pos)
      BY <1>1 DEF LedgerInv, PositionInv
    <3> QED
      BY <3>2, <3>3, <3>4, BacktestPriced
  <2>3. CASE ~ live /\ market = "FUTURES"
    <3>1. FuturesLedger' /\ pos'.qty # 0 /\ Sign(pos'.qty) = Sign(Qty(Head(executed')))
      BY <1>1, <2>3, LedgerReport
    <3>2. Qty(Head(executed))' = Qty(Head(executed'))
      BY <2>1 DEF Qty
    <3>3. executed' # <<>>
      BY <1>1, <2>1 DEF PositionInv
    <3> QED
      BY <1>1, <2>2, <3>1, <3>2, <3>3 DEF LedgerInv
  <2>4. CASE live \/ market # "FUTURES"
    BY <1>1, <2>1, <2>2, <2>4 DEF LedgerInv, FuturesLedger
  <2> QED
    BY <2>3, <2>4
<1>5. CASE \E o \in Orders : (OnOrderSubmission(o) \/ OnOrderCancellation(o)) /\ UNCHANGED positionVars
  BY <1>2, <1>5 DEF OnOrderSubmission, OnOrderCancellation, positionVars
<1>6. CASE UNCHANGED vars
  BY <1>2, <1>6 DEF vars
<1> QED
  BY <1>2, <1>3, <1>4, <1>5, <1>6 DEF Next, PositionNext

LEMMA LedgerStart == Init => LedgerInv
<1> SUFFICES ASSUME Init PROVE LedgerInv
  OBVIOUS
<1>1. executed = <<>> /\ pos.qty = 0 /\ pos.entry = NoPrice
  BY DEF Init, PositionInit
<1>2. Priced(pos)
  BY <1>1 DEF Priced, NoPrice
<1> QED
  BY <1>1, <1>2, PositionStart DEF LedgerInv, FuturesLedger

\* A position of a backtest has an entry price exactly while it is open, on
\* every market and for every fee, after flips, reductions and calls that threw
\* in the middle alike (Position.cpp 305-417).
THEOREM EntriesWhileOpen == Spec => []EntryWhileOpen
<1>1. LedgerInv => EntryWhileOpen
  BY DEF LedgerInv, Priced, EntryWhileOpen, NoPrice
<1> QED
  BY <1>1, LedgerStart, LedgerStep, PTL DEF Spec

\* In a backtest on futures, however many orders were reported, the quantity is
\* the sum over the first order and those that added to it, and the entry price
\* is what they cost over that quantity, exactly (Position.cpp 370-417).
THEOREM FuturesLedgerKept == Spec => []FuturesLedger
<1>1. LedgerInv => FuturesLedger
  BY DEF LedgerInv
<1> QED
  BY <1>1, LedgerStart, LedgerStep, PTL DEF Spec

-------------------------------------------------------------------------------
(* Trades. *)

Logged == [qty : Int, partial : BOOLEAN]

\* A trade, which once opened has a type.
Sane(t) ==
  /\ t \in Trade
  /\ t.opened => t.type # "CLOSE"

\* Identifiers only grow: a closed trade is below those closed after it and
\* below the trade in progress.
TradesInv ==
  /\ ids \in 0 .. MaxIds /\ log \in Seq(Logged)
  /\ trades \in Seq([trade : Trade, log : Seq(Logged)])
  /\ current = NoTrade => trades = <<>>
  /\ current # NoTrade => Sane(current) /\ current.id <= ids
  /\ \A k \in DOMAIN trades :
       /\ Sane(trades[k].trade) /\ trades[k].trade.opened
       /\ trades[k].trade.id < current.id
       /\ \A l \in DOMAIN trades : l < k => trades[l].trade.id < trades[k].trade.id

\* A trade is never what stands for none.
LEMMA TradeIsOne == \A t \in Trade : t # NoTrade
BY DEF Trade, NoTrade

LEMMA SaneNew ==
  ASSUME NEW i \in 1 .. MaxIds
  PROVE  Sane(NewTrade(i)) /\ NewTrade(i).id = i /\ NewTrade(i) # NoTrade
<1>1. NewTrade(i) \in Trade
  BY DEF NewTrade, Trade
<1>2. NewTrade(i).id = i /\ NewTrade(i).opened = FALSE
  BY DEF NewTrade
<1> QED
  BY <1>1, <1>2, TradeIsOne DEF Sane

\* getCurrentTrade gives a trade with the next identifier.
LEMMA LookupSane ==
  ASSUME TradesInv, ids + 1 <= MaxIds
  PROVE  Sane(Lookup) /\ Lookup.id = ids + 1 /\ Lookup # NoTrade
<1>1. ids + 1 \in 1 .. MaxIds /\ ids \in Nat
  BY DEF TradesInv
<1>2. CASE current = NoTrade
  BY <1>1, <1>2, SaneNew DEF Lookup, Found
<1>3. CASE current # NoTrade
  <2> DEFINE t == [current EXCEPT !.id = ids + 1]
  <2>1. Lookup = t
    BY <1>3 DEF Lookup, Found
  <2>2. current \in Trade /\ Sane(current) /\ current.id <= ids
    BY <1>3 DEF TradesInv, Sane
  <2>3. /\ t \in Trade /\ t.id = ids + 1 /\ t.orders = current.orders
        /\ t.opened = current.opened /\ t.type = current.type
    BY <1>1, <2>2 DEF Trade
  <2> HIDE DEF t
  <2> QED
    BY <2>1, <2>2, <2>3, TradeIsOne DEF Sane
<1> QED
  BY <1>2, <1>3

\* addBuyOrder and addSellOrder change nothing but the quantities.
LEMMA RecordedSane ==
  ASSUME NEW t, Sane(t), NEW side, NEW q \in Int
  PROVE  Sane(AddRecord(t, side, q)) /\ AddRecord(t, side, q).id = t.id
<1> DEFINE r == AddRecord(t, side, q)
<1>1. t \in Trade
  BY DEF Sane
<1>2. Append(t.buys, q) \in Seq(Int) /\ Append(t.sells, q) \in Seq(Int)
  BY <1>1 DEF Trade
<1>3. /\ r \in Trade /\ r.id = t.id /\ r.orders = t.orders
      /\ r.opened = t.opened /\ r.type = t.type
  BY <1>1, <1>2 DEF AddRecord, Trade
<1> HIDE DEF r
<1>4. Sane(r)
  BY <1>3 DEF Sane
<1> QED
  BY <1>3, <1>4 DEF r

\* The trade in progress may be replaced by a later state of it.
LEMMA CurrentReplaced ==
  ASSUME TradesInv, ids' \in 0 .. MaxIds, ids < ids', log' \in Seq(Logged),
         UNCHANGED trades, Sane(current'), current'.id = ids'
  PROVE  TradesInv'
<1>1. current' # NoTrade
  BY TradeIsOne DEF Sane
<1>2. current = NoTrade \/ (current.id <= ids /\ current.id \in 1 .. MaxIds)
  BY DEF TradesInv, Sane, Trade
<1>3. \A k \in DOMAIN trades : trades[k].trade.id < current'.id
  <2> SUFFICES ASSUME NEW k \in DOMAIN trades PROVE trades[k].trade.id < current'.id
    OBVIOUS
  <2>1. current # NoTrade /\ trades[k].trade.id < current.id
    BY DEF TradesInv
  <2>2. trades[k].trade.id \in 1 .. MaxIds
    BY DEF TradesInv, Sane, Trade
  <2>3. current.id \in Int /\ current.id <= ids /\ ids \in Int /\ ids' \in Int
    BY <1>2, <2>1 DEF TradesInv
  <2> QED
    BY <2>1, <2>2, <2>3
<1>4. \A k \in DOMAIN trades' :
        /\ Sane(trades'[k].trade) /\ trades'[k].trade.opened
        /\ trades'[k].trade.id < current'.id
        /\ \A l \in DOMAIN trades' : l < k => trades'[l].trade.id < trades'[k].trade.id
  BY <1>3 DEF TradesInv
<1>5. trades' \in Seq([trade : Trade, log : Seq(Logged)])
  BY DEF TradesInv
<1>6. current'.id <= ids'
  OBVIOUS
<1> QED
  BY <1>1, <1>4, <1>5, <1>6 DEF TradesInv

LEMMA AddExecutedOrderStep ==
  ASSUME TradesInv, NEW q \in Fills, NEW partial \in BOOLEAN, AddExecutedOrder(q, partial)
  PROVE  TradesInv'
<1> DEFINE t == Lookup
           n == [t EXCEPT !.orders = Append(@, t.id)]
           noted == IF partial THEN t ELSE AddRecord(n, Side(q), q)
<1>1. /\ ids \in 0 .. MaxIds /\ ids + 2 <= MaxIds /\ ids' = ids + 2
      /\ log \in Seq(Logged) /\ log' = Append(log, [qty |-> q, partial |-> partial])
      /\ UNCHANGED trades /\ q \in Int
  BY DEF AddExecutedOrder, TradesInv
<1>2. log' \in Seq(Logged)
  BY <1>1 DEF Logged
<1>3. Sane(t) /\ t.id = ids + 1 /\ t \in Trade
  BY <1>1, LookupSane DEF Sane
<1>4. current' = AddRecord(Found(noted, ids + 2), Side(q), Size(q))
  BY DEF AddExecutedOrder
<1> HIDE DEF t
\* One more order is noted, under the identifier of this moment.
<1>5. /\ n \in Trade /\ n.id = ids + 1
      /\ n.orders = Append(t.orders, t.id)
      /\ n.opened = t.opened /\ n.type = t.type
  <2>1. Append(t.orders, t.id) \in Seq(1 .. MaxIds)
    BY <1>3 DEF Trade
  <2> QED
    BY <1>3, <2>1 DEF Trade
<1> HIDE DEF n
<1>7. /\ noted \in Trade
      /\ noted.opened => noted.type # "CLOSE"
  <2>1. CASE partial
    BY <1>1, <1>3, <2>1 DEF Sane, Trade
  <2>2. CASE ~ partial
    <3>1. Append(n.buys, q) \in Seq(Int) /\ Append(n.sells, q) \in Seq(Int)
      BY <1>1, <1>5 DEF Trade
    <3>2. /\ noted \in Trade /\ noted.orders = n.orders
          /\ noted.opened = n.opened /\ noted.type = n.type
      BY <1>5, <2>2, <3>1 DEF AddRecord, Trade
    <3> QED
      BY <1>3, <1>5, <3>2 DEF Sane
  <2> QED
    BY <2>1, <2>2
<1> HIDE DEF noted
<1> DEFINE f == [noted EXCEPT !.id = ids + 2]
<1>8. Found(noted, ids + 2) = f
  BY <1>7, TradeIsOne DEF Found
<1>9. /\ f \in Trade /\ f.id = ids + 2 /\ f.orders = noted.orders
      /\ f.opened = noted.opened /\ f.type = noted.type
  <2>1. ids + 2 \in 1 .. MaxIds
    BY <1>1
  <2>2. noted \in Trade
    BY <1>7
  <2> QED
    BY <2>1, <2>2 DEF Trade
<1> HIDE DEF f
<1>11. Sane(f)
  BY <1>7, <1>9 DEF Sane
<1>12. Size(q) \in Int
  BY <1>1 DEF Size
<1>13. Sane(current') /\ current'.id = ids + 2
  BY <1>4, <1>8, <1>9, <1>11, <1>12, RecordedSane
<1> QED
  BY <1>1, <1>2, <1>13, CurrentReplaced

LEMMA OpenTradeStep ==
  ASSUME TradesInv, NEW type \in {"LONG", "SHORT"}, NEW opened \in BOOLEAN,
         OpenTrade(type, opened)
  PROVE  TradesInv'
<1> DEFINE t == Lookup
           u == [t EXCEPT !.opened = opened, !.type = type]
<1>1. /\ ids \in 0 .. MaxIds /\ ids + 1 <= MaxIds /\ ids' = ids + 1
      /\ log' \in Seq(Logged) /\ UNCHANGED trades /\ current' = u
  BY DEF OpenTrade, TradesInv
<1>2. Sane(t) /\ t.id = ids + 1 /\ t \in Trade
  BY <1>1, LookupSane DEF Sane
<1> HIDE DEF t
<1>3. u \in Trade /\ u.id = ids + 1 /\ u.orders = t.orders /\ u.type = type
  BY <1>2 DEF Trade
<1> HIDE DEF u
<1>4. Sane(u)
  BY <1>2, <1>3 DEF Sane
<1> QED
  BY <1>1, <1>3, <1>4, CurrentReplaced

LEMMA CloseTradeStep ==
  ASSUME TradesInv, CloseTrade
  PROVE  TradesInv'
<1> DEFINE t == Lookup
<1>1. ids \in 0 .. MaxIds /\ ids + 2 <= MaxIds
  BY DEF CloseTrade, TradesInv
<1>2. Sane(t) /\ t.id = ids + 1 /\ t \in Trade
  BY <1>1, LookupSane DEF Sane
<1>3. CASE ~ t.opened
  <2>1. current' = t /\ ids' = ids + 1 /\ UNCHANGED <<trades, log>>
    BY <1>3 DEF CloseTrade
  <2> HIDE DEF t
  <2>2. log' \in Seq(Logged)
    BY <2>1 DEF TradesInv
  <2> QED
    BY <1>1, <1>2, <2>1, <2>2, CurrentReplaced
<1>4. CASE t.opened
  <2> DEFINE e == [trade |-> t, log |-> log]
             i == ids + 2
  <2>1. /\ trades' = Append(trades, e) /\ current' = NewTrade(i)
        /\ log' = <<>> /\ ids' = i
    BY <1>4 DEF CloseTrade
  <2> HIDE DEF t
  <2>2. e \in [trade : Trade, log : Seq(Logged)] /\ e.trade = t
    BY <1>2 DEF TradesInv
  <2> HIDE DEF e
  <2>3. trades \in Seq([trade : Trade, log : Seq(Logged)])
    BY DEF TradesInv
  <2>4. /\ trades' \in Seq([trade : Trade, log : Seq(Logged)])
        /\ Len(trades) \in Nat /\ DOMAIN trades = 1 .. Len(trades)
        /\ DOMAIN trades' = 1 .. Len(trades) + 1 /\ trades'[Len(trades) + 1] = e
        /\ \A k \in DOMAIN trades : trades'[k] = trades[k]
    BY <2>1, <2>2, <2>3
  <2>5. i \in 1 .. MaxIds
    BY <1>1
  <2> HIDE DEF i
  <2>6. Sane(current') /\ current'.id = i /\ current' # NoTrade
    BY <2>1, <2>5, SaneNew
  <2>7. \A k \in DOMAIN trades : trades[k].trade.id \in 1 .. ids
    <3> SUFFICES ASSUME NEW k \in DOMAIN trades PROVE trades[k].trade.id \in 1 .. ids
      OBVIOUS
    <3>1. current # NoTrade /\ trades[k].trade.id < current.id /\ current.id <= ids
      BY DEF TradesInv
    <3>2. trades[k].trade.id \in 1 .. MaxIds /\ current.id \in 1 .. MaxIds
      BY <3>1 DEF TradesInv, Sane, Trade
    <3> QED
      BY <1>1, <3>1, <3>2
  <2>8. \A k \in DOMAIN trades' :
          /\ Sane(trades'[k].trade) /\ trades'[k].trade.opened
          /\ trades'[k].trade.id < current'.id
          /\ \A l \in DOMAIN trades' : l < k => trades'[l].trade.id < trades'[k].trade.id
    <3> SUFFICES ASSUME NEW k \in DOMAIN trades'
                 PROVE  /\ Sane(trades'[k].trade) /\ trades'[k].trade.opened
                        /\ trades'[k].trade.id < i
                        /\ \A l \in DOMAIN trades' : l < k => trades'[l].trade.id < trades'[k].trade.id
      BY <2>6
    <3>1. CASE k \in DOMAIN trades
      <4>1. Sane(trades[k].trade) /\ trades[k].trade.opened
        BY <3>1 DEF TradesInv
      <4>2. trades[k].trade.id < i
        BY <1>1, <2>7, <3>1 DEF i
      <4>3. \A l \in DOMAIN trades' : l < k => l \in DOMAIN trades
        BY <2>4, <3>1
      <4>4. \A l \in DOMAIN trades : l < k => trades[l].trade.id < trades[k].trade.id
        BY <3>1 DEF TradesInv
      <4> QED
        BY <2>4, <3>1, <4>1, <4>2, <4>3, <4>4
    <3>2. CASE k = Len(trades) + 1
      <4>1. trades'[k].trade = t
        BY <2>2, <2>4, <3>2
      <4>2. t.id < i
        BY <1>1, <1>2 DEF i
      <4>3. \A l \in DOMAIN trades' : l < k => l \in DOMAIN trades
        BY <2>4, <3>2
      <4>4. \A l \in DOMAIN trades : trades[l].trade.id < t.id
        BY <1>1, <1>2, <2>7
      <4> QED
        BY <1>2, <1>4, <2>4, <4>1, <4>2, <4>3, <4>4 DEF t
    <3> QED
      BY <2>4, <3>1, <3>2
  <2>9. /\ ids' \in 0 .. MaxIds /\ log' \in Seq(Logged) /\ current'.id <= ids'
    BY <2>1, <2>5, <2>6
  <2> QED
    BY <2>4, <2>6, <2>8, <2>9 DEF TradesInv
<1> QED
  BY <1>3, <1>4

LEMMA TradesStep == TradesInv /\ [Next]_vars => TradesInv'
<1> SUFFICES ASSUME TradesInv, [Next]_vars PROVE TradesInv'
  OBVIOUS
<1>1. CASE UNCHANGED <<current, trades, ids, log>>
  BY <1>1 DEF TradesInv
<1>2. CASE \E q \in Fills, partial \in BOOLEAN : AddExecutedOrder(q, partial)
  BY <1>2, AddExecutedOrderStep
<1>3. CASE \E type \in {"LONG", "SHORT"}, opened \in BOOLEAN : OpenTrade(type, opened)
  BY <1>3, OpenTradeStep
<1>4. CASE CloseTrade
  BY <1>4, CloseTradeStep
<1>5. CASE UNCHANGED vars
  BY <1>1, <1>5 DEF vars
<1> QED
  BY <1>1, <1>2, <1>3, <1>4, <1>5 DEF Next, TradesNext

\* What the invariant says of the trades that are kept.
LEMMA TradesTold == TradesInv => TradesIdentified
<1> SUFFICES ASSUME TradesInv PROVE TradesIdentified
  OBVIOUS
<1>1. TradesTypeOK
  BY DEF TradesInv, TradesTypeOK, Sane
<1>2. ClosedWereOpen
  <2>1. \A k \in DOMAIN trades : trades[k].trade.opened /\ trades[k].trade.type # "CLOSE"
    BY DEF TradesInv, Sane
  <2>2. DOMAIN trades \subseteq Int /\ \A k \in DOMAIN trades : trades[k].trade.id \in Int
    <3>1. \A k \in DOMAIN trades : Sane(trades[k].trade)
      BY DEF TradesInv
    <3>2. \A k \in DOMAIN trades : trades[k].trade.id \in Int
      BY <3>1 DEF Sane, Trade
    <3>3. DOMAIN trades = 1 .. Len(trades) /\ Len(trades) \in Nat
      BY DEF TradesInv
    <3> QED
      BY <3>2, <3>3
  <2>3. \A k, l \in DOMAIN trades : l < k => trades[l].trade.id < trades[k].trade.id
    BY DEF TradesInv
  <2>4. \A k, l \in DOMAIN trades : trades[k].trade.id = trades[l].trade.id => k = l
    BY <2>2, <2>3
  <2>5. current # NoTrade => \A k \in DOMAIN trades : trades[k].trade.id # current.id
    <3>1. current # NoTrade => current.id \in Int
      BY DEF TradesInv, Sane, Trade
    <3>2. \A k \in DOMAIN trades : trades[k].trade.id < current.id
      BY DEF TradesInv
    <3> QED
      BY <2>2, <3>1, <3>2
  <2> QED
    BY <2>1, <2>4, <2>5 DEF ClosedWereOpen
<1> QED
  BY <1>1, <1>2 DEF TradesIdentified

\* Through any sequence of executions, openings and closings, every trade in
\* the list was opened and has a type and an identifier of its own
\* (Trade.cpp 131-264).
THEOREM TradesAreIdentified == Spec => []TradesIdentified
<1>1. Init => TradesInv
  <2> SUFFICES ASSUME Init PROVE TradesInv
    OBVIOUS
  <2>1. current = NoTrade /\ trades = <<>> /\ ids = 0 /\ log = <<>>
    BY DEF Init, TradesInit
  <2> QED
    BY <2>1 DEF TradesInv
<1> QED
  BY <1>1, TradesStep, TradesTold, PTL DEF Spec

\* A log of partial fills, and what the quantities of a trade come to under it.
Partial(l) == \A k \in DOMAIN l : l[k].partial
Books(t, l) ==
  Partial(l) => /\ SumFunction(t.buys) = Executed(l, "BUY")
                /\ SumFunction(t.sells) = Executed(l, "SELL")

\* The quantities of a trade that does not exist yet would be those of an empty
\* log.
RecordedInv ==
  /\ TradesInv /\ PartialsRecorded
  /\ current = NoTrade => log = <<>>

\* The trades that are kept, one by one.
Told ==
  /\ \A k \in DOMAIN trades : Books(trades[k].trade, trades[k].log)
  /\ current # NoTrade => Books(current, log)

\* They are all there is.
LEMMA KeptBooks == PartialsRecorded <=> Told
<1>1. ASSUME PartialsRecorded
      PROVE  Told
  <2>1. \A e \in Kept : Books(e.trade, e.log)
    BY <1>1 DEF PartialsRecorded, Exact, Partial, Books
  <2>2. ASSUME NEW k \in DOMAIN trades PROVE Books(trades[k].trade, trades[k].log)
    <3> DEFINE e == [trade |-> trades[k].trade, log |-> trades[k].log]
    <3>1. e \in Kept /\ e.trade = trades[k].trade /\ e.log = trades[k].log
      BY DEF Kept
    <3> HIDE DEF e
    <3> QED
      BY <2>1, <3>1
  <2>3. ASSUME current # NoTrade PROVE Books(current, log)
    <3> DEFINE e == [trade |-> current, log |-> log]
    <3>1. e \in Kept /\ e.trade = current /\ e.log = log
      BY <2>3 DEF Kept
    <3> HIDE DEF e
    <3> QED
      BY <2>1, <3>1
  <2> QED
    BY <2>2, <2>3 DEF Told
<1>2. ASSUME Told PROVE PartialsRecorded
  <2>1. ASSUME NEW e \in Kept PROVE Books(e.trade, e.log)
    <3>1. \/ \E k \in DOMAIN trades : e = [trade |-> trades[k].trade, log |-> trades[k].log]
          \/ current # NoTrade /\ e = [trade |-> current, log |-> log]
      BY DEF Kept
    <3>2. \/ \E k \in DOMAIN trades : e.trade = trades[k].trade /\ e.log = trades[k].log
          \/ current # NoTrade /\ e.trade = current /\ e.log = log
      BY <3>1
    <3> QED
      BY <1>2, <3>2 DEF Told
  <2> QED
    BY <2>1 DEF PartialsRecorded, Exact, Partial, Books
<1> QED
  BY <1>1, <1>2

\* In the next state as well.
LEMMA KeptBooksLater == PartialsRecorded' <=> Told'
BY KeptBooks, PTL

\* An execution counts on its side.
LEMMA ExecutedAppended ==
  ASSUME NEW l \in Seq(Logged), NEW x \in Logged, NEW side
  PROVE  /\ Executed(l, side) \in Int
         /\ Executed(Append(l, x), side) = Executed(l, side) + Counted(x, side)
<1> DEFINE f == [y \in Logged |-> Counted(y, side)]
           m == Append(l, x)
<1>1. f \in [Logged -> Int]
  BY DEF Counted, Size, Logged
<1>2. \A s \in {l, m} : \A k \in DOMAIN s : s[k] \in Logged
  OBVIOUS
<1> HIDE DEF m
<1>3. \A s \in {l, m} : [k \in DOMAIN s |-> f[s[k]]] = [k \in DOMAIN s |-> Counted(s[k], side)]
  BY <1>2
<1>4. f[x] = Counted(x, side)
  OBVIOUS
<1> HIDE DEF f
<1>5. /\ SumFunction([k \in DOMAIN l |-> f[l[k]]]) \in Int
      /\ SumFunction([k \in DOMAIN m |-> f[m[k]]])
           = SumFunction([k \in DOMAIN l |-> f[l[k]]]) + f[x]
  <2>1. l \in Seq(Logged) /\ x \in Logged /\ f \in [Logged -> Int]
    BY <1>1
  <2> QED
    BY <2>1, SumMappedAppended, ZenonT(60) DEF m
<1> QED
  BY <1>3, <1>4, <1>5 DEF Executed, m

\* Nothing was executed in a new trade.
LEMMA NewBooks ==
  ASSUME NEW i
  PROVE  Books(NewTrade(i), <<>>)
<1>1. \A side : Executed(<<>>, side) = 0
  <2> SUFFICES ASSUME NEW side PROVE Executed(<<>>, side) = 0
    OBVIOUS
  <2> DEFINE l == <<>>
  <2>1. [k \in DOMAIN l |-> Counted(l[k], side)] = <<>>
    OBVIOUS
  <2> QED
    BY <2>1, SumEmptySeq DEF Executed
<1>2. NewTrade(i).buys = <<>> /\ NewTrade(i).sells = <<>>
  BY DEF NewTrade
<1> QED
  BY <1>1, <1>2, SumEmptySeq DEF Books

\* getCurrentTrade changes the identifier alone.
LEMMA LookupBooks ==
  ASSUME RecordedInv
  PROVE  Books(Lookup, log)
<1>1. CASE current = NoTrade
  <2>1. Lookup = NewTrade(ids + 1) /\ log = <<>>
    BY <1>1 DEF RecordedInv, Lookup, Found
  <2> QED
    BY <2>1, NewBooks
<1>2. CASE current # NoTrade
  <2>1. current \in Trade /\ Lookup = [current EXCEPT !.id = ids + 1]
    BY <1>2 DEF RecordedInv, TradesInv, Sane, Lookup, Found
  <2>2. Lookup.buys = current.buys /\ Lookup.sells = current.sells
    BY <2>1 DEF Trade
  <2>3. Books(current, log)
    BY <1>2, KeptBooks DEF RecordedInv, Told
  <2> QED
    BY <2>2, <2>3 DEF Books
<1> QED
  BY <1>1, <1>2

\* A recorded quantity is added on its side.
LEMMA RecordAdds ==
  ASSUME NEW t \in Trade, NEW side \in {"BUY", "SELL"}, NEW n \in Int
  PROVE  LET r == AddRecord(t, side, n)
         IN  /\ r \in Trade
             /\ SumFunction(t.buys) \in Int /\ SumFunction(t.sells) \in Int
             /\ SumFunction(r.buys) = SumFunction(t.buys) + IF side = "BUY" THEN n ELSE 0
             /\ SumFunction(r.sells) = SumFunction(t.sells) + IF side = "SELL" THEN n ELSE 0
<1> DEFINE r == AddRecord(t, side, n)
<1>1. /\ t.buys \in Seq(Int) /\ t.sells \in Seq(Int)
      /\ Append(t.buys, n) \in Seq(Int) /\ Append(t.sells, n) \in Seq(Int)
  BY DEF Trade
<1>2. /\ SumFunction(t.buys) \in Int /\ SumFunction(Append(t.buys, n)) = SumFunction(t.buys) + n
      /\ SumFunction(t.sells) \in Int /\ SumFunction(Append(t.sells, n)) = SumFunction(t.sells) + n
  BY <1>1, SumAppended
<1>3. /\ r \in Trade
      /\ r.buys = IF side = "BUY" THEN Append(t.buys, n) ELSE t.buys
      /\ r.sells = IF side = "SELL" THEN Append(t.sells, n) ELSE t.sells
  BY <1>1 DEF AddRecord, Trade
<1> HIDE DEF r
<1> QED
  BY <1>2, <1>3 DEF r

\* An executed order, recorded once or twice.
LEMMA AddExecutedOrderBooks ==
  ASSUME RecordedInv, NEW q \in Fills, NEW partial \in BOOLEAN, AddExecutedOrder(q, partial)
  PROVE  current' \in Trade /\ Books(current', log')
<1> DEFINE t == Lookup
           n == [t EXCEPT !.orders = Append(@, t.id)]
           noted == IF partial THEN t ELSE AddRecord(n, Side(q), q)
           f == [noted EXCEPT !.id = ids + 2]
           x == [qty |-> q, partial |-> partial]
<1>1. /\ ids \in 0 .. MaxIds /\ ids + 2 <= MaxIds /\ q \in Int
      /\ log \in Seq(Logged) /\ log' = Append(log, x) /\ x \in Logged
  BY DEF AddExecutedOrder, RecordedInv, TradesInv, Logged
<1>2. current' = AddRecord(Found(noted, ids + 2), Side(q), Size(q))
  BY DEF AddExecutedOrder
<1>3. t \in Trade /\ t.id \in 1 .. MaxIds /\ Books(t, log)
  BY <1>1, LookupSane, LookupBooks DEF RecordedInv, Sane, Trade
<1> HIDE DEF t
<1>4. n \in Trade /\ n.buys = t.buys /\ n.sells = t.sells
  <2>1. Append(t.orders, t.id) \in Seq(1 .. MaxIds)
    BY <1>3 DEF Trade
  <2> QED
    BY <1>3, <2>1 DEF Trade
<1> HIDE DEF n
<1>5. Side(q) \in {"BUY", "SELL"} /\ Size(q) \in Int
  BY <1>1 DEF Side, Size
<1> DEFINE B(u) == SumFunction(u.buys)
           S(u) == SumFunction(u.sells)
<1>6. /\ noted \in Trade /\ B(t) \in Int /\ S(t) \in Int
      /\ B(noted) = B(t) + IF ~ partial /\ Side(q) = "BUY" THEN q ELSE 0
      /\ S(noted) = S(t) + IF ~ partial /\ Side(q) = "SELL" THEN q ELSE 0
  <2>1. /\ AddRecord(n, Side(q), q) \in Trade /\ B(n) \in Int /\ S(n) \in Int
        /\ B(AddRecord(n, Side(q), q)) = B(n) + IF Side(q) = "BUY" THEN q ELSE 0
        /\ S(AddRecord(n, Side(q), q)) = S(n) + IF Side(q) = "SELL" THEN q ELSE 0
    BY <1>1, <1>4, <1>5, RecordAdds
  <2>2. B(n) = B(t) /\ S(n) = S(t)
    BY <1>4
  <2> HIDE DEF B, S
  <2> QED
    BY <1>3, <2>1, <2>2
<1> HIDE DEF noted
<1>7. f \in Trade /\ Found(noted, ids + 2) = f /\ B(f) = B(noted) /\ S(f) = S(noted)
  <2>1. noted \in Trade /\ noted # NoTrade /\ ids + 2 \in 1 .. MaxIds
    BY <1>1, <1>6, TradeIsOne
  <2>2. f \in Trade /\ f.buys = noted.buys /\ f.sells = noted.sells
    BY <2>1 DEF Trade
  <2> QED
    BY <2>1, <2>2 DEF Found
<1> HIDE DEF f
<1>8. /\ current' \in Trade
      /\ B(current') = B(f) + IF Side(q) = "BUY" THEN Size(q) ELSE 0
      /\ S(current') = S(f) + IF Side(q) = "SELL" THEN Size(q) ELSE 0
  BY <1>2, <1>5, <1>7, RecordAdds
<1>9. \A side \in {"BUY", "SELL"} :
        /\ Executed(log, side) \in Int
        /\ Executed(log', side) = Executed(log, side) + IF Side(q) = side THEN Size(q) ELSE 0
  <2>1. \A side : Counted(x, side) = IF Side(q) = side THEN Size(q) ELSE 0
    BY DEF Counted
  <2> HIDE DEF x
  <2>2. \A side : /\ Executed(log, side) \in Int
                  /\ Executed(Append(log, x), side) = Executed(log, side) + Counted(x, side)
    BY <1>1, ExecutedAppended
  <2> QED
    BY <1>1, <2>1, <2>2
<1>10. ASSUME Partial(log')
       PROVE  partial /\ B(t) = Executed(log, "BUY") /\ S(t) = Executed(log, "SELL")
  <2>1. /\ DOMAIN log' = DOMAIN log \cup {Len(log) + 1}
        /\ log'[Len(log) + 1] = x /\ \A k \in DOMAIN log : log'[k] = log[k]
    BY <1>1
  <2>2. x.partial = partial
    OBVIOUS
  <2> HIDE DEF x
  <2>3. partial /\ Partial(log)
    BY <1>10, <2>1, <2>2 DEF Partial
  <2> QED
    BY <1>3, <2>3 DEF Books
<1> HIDE DEF B, S
<1>11. ASSUME Partial(log')
       PROVE  B(current') = Executed(log', "BUY") /\ S(current') = Executed(log', "SELL")
  BY <1>5, <1>6, <1>7, <1>8, <1>9, <1>10, <1>11
<1> QED
  BY <1>8, <1>11 DEF Books, B, S

\* Every step keeps the quantities of every trade.
LEMMA RecordedStep == RecordedInv /\ [Next]_vars => RecordedInv'
<1> SUFFICES ASSUME RecordedInv, [Next]_vars PROVE RecordedInv'
  OBVIOUS
<1>1. TradesInv /\ TradesInv'
  BY TradesStep DEF RecordedInv
<1>2. Told
  BY KeptBooks DEF RecordedInv
<1>3. ASSUME UNCHANGED trades, current' # NoTrade, Books(current', log') PROVE RecordedInv'
  <2>1. Told'
    BY <1>2, <1>3 DEF Told
  <2> QED
    BY <1>1, <1>3, <2>1, KeptBooksLater DEF RecordedInv
<1>4. CASE UNCHANGED <<current, trades, ids, log>>
  <2>1. Told'
    BY <1>2, <1>4 DEF Told
  <2>2. log' = log /\ current' = current
    BY <1>4
  <2> QED
    BY <1>1, <2>1, <2>2, KeptBooksLater DEF RecordedInv
<1>5. CASE \E q \in Fills, partial \in BOOLEAN : AddExecutedOrder(q, partial)
  <2> SUFFICES ASSUME NEW q \in Fills, NEW partial \in BOOLEAN, AddExecutedOrder(q, partial)
               PROVE  RecordedInv'
    BY <1>5
  <2>1. current' \in Trade /\ Books(current', log') /\ UNCHANGED trades
    BY AddExecutedOrderBooks DEF AddExecutedOrder
  <2> QED
    BY <1>3, <2>1, TradeIsOne
<1>6. CASE \E type \in {"LONG", "SHORT"}, opened \in BOOLEAN : OpenTrade(type, opened)
  <2> SUFFICES ASSUME NEW type \in {"LONG", "SHORT"}, NEW opened \in BOOLEAN,
                      OpenTrade(type, opened)
               PROVE  RecordedInv'
    BY <1>6
  <2> DEFINE t == Lookup
             u == [t EXCEPT !.opened = opened, !.type = type]
  <2>1. UNCHANGED <<trades, log>> /\ current' = u
    BY DEF OpenTrade
  <2>2. t \in Trade /\ Books(t, log)
    BY <1>1, LookupSane, LookupBooks DEF OpenTrade, TradesInv, Sane
  <2> HIDE DEF t
  <2>3. u \in Trade /\ u.buys = t.buys /\ u.sells = t.sells
    BY <2>2 DEF Trade
  <2> HIDE DEF u
  <2>4. Books(current', log')
    BY <2>1, <2>2, <2>3 DEF Books
  <2> QED
    BY <1>3, <2>1, <2>3, <2>4, TradeIsOne
<1>7. CASE CloseTrade
  <2> DEFINE t == Lookup
  <2>1. t \in Trade /\ Books(t, log)
    BY <1>1, <1>7, LookupSane, LookupBooks DEF CloseTrade, TradesInv, Sane
  <2>2. CASE ~ t.opened
    <3>1. current' = t /\ UNCHANGED <<trades, log>>
      BY <1>7, <2>2 DEF CloseTrade
    <3> HIDE DEF t
    <3> QED
      BY <1>3, <2>1, <3>1, TradeIsOne
  <2>3. CASE t.opened
    <3> DEFINE e == [trade |-> t, log |-> log]
    <3>1. trades' = Append(trades, e) /\ current' = NewTrade(ids + 2) /\ log' = <<>>
      BY <1>7, <2>3 DEF CloseTrade
    <3> HIDE DEF t
    <3>2. e.trade = t /\ e.log = log
      OBVIOUS
    <3> HIDE DEF e
    <3>3. trades \in Seq([trade : Trade, log : Seq(Logged)])
      BY <1>1 DEF TradesInv
    <3>4. /\ DOMAIN trades' = DOMAIN trades \cup {Len(trades) + 1}
          /\ trades'[Len(trades) + 1] = e
          /\ \A k \in DOMAIN trades : trades'[k] = trades[k]
      BY <3>1, <3>3
    <3>5. \A k \in DOMAIN trades' : Books(trades'[k].trade, trades'[k].log)
      BY <1>2, <2>1, <3>2, <3>4 DEF Told
    <3>6. Books(current', log')
      BY <3>1, NewBooks
    <3>7. Told'
      BY <3>5, <3>6 DEF Told
    <3>8. current' # NoTrade
      BY <3>1 DEF NewTrade, NoTrade
    <3> QED
      BY <1>1, <3>7, <3>8, KeptBooksLater DEF RecordedInv
  <2> QED
    BY <2>2, <2>3
<1>8. CASE UNCHANGED vars
  BY <1>4, <1>8 DEF vars
<1> QED
  BY <1>4, <1>5, <1>6, <1>7, <1>8 DEF Next, TradesNext

\* For every sequence of executions, openings and closings, a trade all of whose
\* executions were partial fills says exactly what was bought and sold in it
\* (Trade.cpp 146-186).
THEOREM PartialsAreRecorded == Spec => []PartialsRecorded
<1>1. Init => RecordedInv
  <2> SUFFICES ASSUME Init PROVE RecordedInv
    OBVIOUS
  <2>1. current = NoTrade /\ trades = <<>> /\ ids = 0 /\ log = <<>>
    BY DEF Init, TradesInit
  <2>2. TradesInv
    BY <2>1 DEF TradesInv
  <2>3. PartialsRecorded
    BY <2>1, KeptBooks DEF Told
  <2> QED
    BY <2>1, <2>2, <2>3 DEF RecordedInv
<1> QED
  BY <1>1, RecordedStep, PTL DEF Spec, RecordedInv
=============================================================================
