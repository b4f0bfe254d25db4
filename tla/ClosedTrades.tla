---------------------------- MODULE ClosedTrades ----------------------------
(***************************************************************************)
(* The trade in progress of one exchange and symbol and the list of closed *)
(* trades (src/Trade.cpp, ClosedTradesState; db::ClosedTrade in            *)
(* src/DB.cpp).  The calls come from whoever executes orders and from      *)
(* positions that open and close.                                          *)
(*                                                                         *)
(* getCurrentTrade creates the trade at its first call.  At every later    *)
(* one it gives the trade a new identifier, as the test for a missing one  *)
(* is the wrong way round.  Identifiers are numbered in the order of their *)
(* generation.                                                             *)
(***************************************************************************)
EXTENDS Integers, Sequences, FiniteSets, Functions

CONSTANTS
  Fills,          \* quantities of executed orders, negative for a sell
  MaxIds          \* bound: identifiers generated

ASSUME TradesAssumption == Fills \subseteq Int /\ MaxIds \in Nat

VARIABLES
  current,        \* the trade in progress, or NoTrade
  trades,         \* trades_, the closed ones
  ids,            \* identifiers generated so far
  log             \* what was executed in the trade in progress: [qty, partial]

tradeVars == <<current, trades, ids, log>>

NoTrade == [id |-> 0]
NewTrade(i) ==
  [id |-> i, opened |-> FALSE, type |-> "CLOSE", buys |-> <<>>, sells |-> <<>>, orders |-> <<>>]

\* getCurrentTrade over trade t, when identifier i is the next.
Found(t, i) == IF t = NoTrade THEN NewTrade(i) ELSE [t EXCEPT !.id = i]
Lookup == Found(current, ids + 1)

Side(q) == IF q > 0 THEN "BUY" ELSE "SELL"
Size(q) == IF q < 0 THEN -q ELSE q
AddRecord(t, side, q) ==
  IF side = "BUY" THEN [t EXCEPT !.buys = Append(@, q)]
  ELSE [t EXCEPT !.sells = Append(@, q)]

\* ClosedTrade::getQty
GetQty(t) ==
  IF t.type = "LONG" THEN SumFunction(t.buys)
  ELSE IF t.type = "SHORT" THEN SumFunction(t.sells) ELSE 0

-----------------------------------------------------------------------------
TradesInit ==
  /\ current = NoTrade /\ trades = <<>> /\ ids = 0 /\ log = <<>>

\* A whole order is recorded with its signed quantity and noted under the
\* trade's identifier; then, as after a partial fill, its size is recorded,
\* by a function that looks the trade up again.
AddExecutedOrder(q, partial) ==
  /\ ids + 2 <= MaxIds
  /\ LET noted == IF partial THEN Lookup
                  ELSE AddRecord([Lookup EXCEPT !.orders = Append(@, Lookup.id)], Side(q), q)
     IN current' = AddRecord(Found(noted, ids + 2), Side(q), Size(q))
  /\ ids' = ids + 2
  /\ log' = Append(log, [qty |-> q, partial |-> partial])
  /\ UNCHANGED trades

\* opened is whether the position has a time of opening.
OpenTrade(type, opened) ==
  /\ ids < MaxIds
  /\ current' = [Lookup EXCEPT !.opened = opened, !.type = type]
  /\ ids' = ids + 1
  /\ UNCHANGED <<trades, log>>

\* Mutant: a trade that was never opened is stored.
CloseAnyTrade ==
  /\ ids + 2 <= MaxIds
  /\ trades' = Append(trades, [trade |-> Lookup, log |-> log])
  /\ current' = NewTrade(ids + 2)
  /\ log' = <<>>
  /\ ids' = ids + 2

\* Mutant: the trade that was stored goes on (no resetCurrentTrade).
CloseTradeKept ==
  /\ ids + 2 <= MaxIds
  /\ IF Lookup.opened
     THEN /\ trades' = Append(trades, [trade |-> Lookup, log |-> log])
          /\ current' = [Lookup EXCEPT !.id = ids + 2]
          /\ log' = <<>>
          /\ ids' = ids + 2
     ELSE /\ current' = Lookup /\ ids' = ids + 1
          /\ UNCHANGED <<trades, log>>

\* A trade that was never opened stays; another one is stored and replaced.
CloseTrade ==
  /\ ids + 2 <= MaxIds
  /\ IF Lookup.opened
     THEN /\ trades' = Append(trades, [trade |-> Lookup, log |-> log])
          /\ current' = NewTrade(ids + 2)
          /\ log' = <<>>
          /\ ids' = ids + 2
     ELSE /\ current' = Lookup /\ ids' = ids + 1
          /\ UNCHANGED <<trades, log>>

TradesNext ==
  \/ \E q \in Fills, partial \in BOOLEAN : AddExecutedOrder(q, partial)
  \/ \E type \in {"LONG", "SHORT"}, opened \in BOOLEAN : OpenTrade(type, opened)
  \/ CloseTrade

-----------------------------------------------------------------------------
Trade == [id : 1 .. MaxIds, opened : BOOLEAN, type : {"CLOSE", "LONG", "SHORT"},
          buys : Seq(Int), sells : Seq(Int), orders : Seq(1 .. MaxIds)]

\* Types, and that identifiers are generated in order.
TradesTypeOK ==
  /\ ids \in 0 .. MaxIds
  /\ current # NoTrade => current \in Trade /\ current.id <= ids
  /\ \A k \in DOMAIN trades : trades[k].trade \in Trade

Kept ==
  {[trade |-> trades[k].trade, log |-> trades[k].log] : k \in DOMAIN trades}
    \cup IF current = NoTrade THEN {} ELSE {[trade |-> current, log |-> log]}
Counted(x, side) == IF Side(x.qty) = side THEN Size(x.qty) ELSE 0
Executed(l, side) == SumFunction([k \in DOMAIN l |-> Counted(l[k], side)])
Exact(e) == /\ SumFunction(e.trade.buys) = Executed(e.log, "BUY")
            /\ SumFunction(e.trade.sells) = Executed(e.log, "SELL")

\* The records are "used for correct trade-metrics calculations" (Trade.cpp 180):
\* a trade all of whose executions were partial fills says that exactly those were
\* bought and sold in it, through any openings, closings and refused closings; none
\* is lost, counted on the other side, or carried over into the next trade.  Of a
\* trade with whole orders the code does not keep it: they are recorded twice.
PartialsRecorded ==
  \A e \in Kept : (\A k \in DOMAIN e.log : e.log[k].partial) => Exact(e)

\* Every trade in the list was opened, has a type to compute its quantity by,
\* and has an identifier that no other trade has (Trade.cpp 218-264).
ClosedWereOpen ==
  /\ \A k \in DOMAIN trades : trades[k].trade.opened /\ trades[k].trade.type # "CLOSE"
  /\ \A k, l \in DOMAIN trades : trades[k].trade.id = trades[l].trade.id => k = l
  /\ current # NoTrade => \A k \in DOMAIN trades : trades[k].trade.id # current.id

\* Trades are told apart: the list's are closed ones, with identifiers of their own.
TradesIdentified == TradesTypeOK /\ ClosedWereOpen
=============================================================================
