--------------------------- MODULE FuturesExchange --------------------------
(***************************************************************************)
(* The futures account of a backtest or a paper session (src/Exchange.cpp, *)
(* FuturesExchange), as far as it can be used: every handler locks mutex_, *)
(* which is not recursive, for its whole length.  Submitting an order that *)
(* is not reduce-only asks for the margin under that lock, and asking for  *)
(* the margin locks it again, so that call never returns and no later one  *)
(* gets in.  The lists of open orders are never created; to look one up    *)
(* throws.  In a live session the handlers return at once.                 *)
(***************************************************************************)
EXTENDS Integers, FiniteSets, Functions

CONSTANTS
  Orders,        \* orders of the session
  Terms          \* what an order may ask for: [qty, price, reduce_only], qty
                 \* negative for a sell, price 0 for an order without a price

ASSUME AccountAssumption == Terms \subseteq [qty : Int, price : Int, reduce_only : BOOLEAN]
\* No order is for nothing (the assertions of Broker.cpp 26-122).
ASSUME QtyAssumption == \A t \in Terms : t.qty # 0
ASSUME OrdersAssumption == IsFiniteSet(Orders)

VARIABLES
  live,          \* helper::isLiveTrading()
  terms,         \* the terms of each order
  mutex,         \* "free", or "stuck" in a call that waits for itself
  available,     \* available_assets_ of the base asset
  submitted,     \* orders whose submission returned and that were not cancelled
  credits,       \* calls of addRealizedPnl that changed the wallet
  charges        \* calls of chargeFee that changed the wallet

accountVars == <<live, terms, mutex, available, submitted, credits, charges>>

Qty(o) == terms[o].qty
ReduceOnly(o) == terms[o].reduce_only

AccountInit ==
  /\ live \in BOOLEAN
  /\ terms \in [Orders -> Terms]
  /\ mutex = "free" /\ available = 0 /\ submitted = {}
  /\ credits = 0 /\ charges = 0

\* getAvailableMargin: nothing but a lock as far as the others can tell.
GetAvailableMargin(locked) == IF locked THEN "stuck" ELSE "free"

OnOrderSubmission(o) ==
  /\ mutex = "free" /\ o \notin submitted
  /\ IF live \/ ReduceOnly(o)
     THEN /\ submitted' = submitted \cup {o}
          /\ available' = IF live THEN available ELSE available + Qty(o)
          /\ UNCHANGED mutex
     ELSE /\ mutex' = GetAvailableMargin(TRUE)
          /\ UNCHANGED <<submitted, available>>
  /\ UNCHANGED <<live, terms, credits, charges>>

\* Mutant: a cancelled order keeps its share of the available assets.
OnOrderCancellationKept(o) ==
  /\ mutex = "free" /\ o \in submitted
  /\ submitted' = submitted \ {o}
  /\ UNCHANGED <<live, terms, mutex, available, credits, charges>>

\* Cancelling takes the quantity back; the list of open orders is looked up
\* only for an order that is not reduce-only.
OnOrderCancellation(o) ==
  /\ mutex = "free" /\ o \in submitted
  /\ submitted' = submitted \ {o}
  /\ available' = IF live THEN available ELSE available - Qty(o)
  /\ UNCHANGED <<live, terms, mutex, credits, charges>>

\* What is available beyond the start is what the submitted orders are for:
\* no submission or cancellation leaves a trace of its own (Exchange.cpp 620,
\* 685), whatever orders there are.
Qtys == [o \in Orders |-> Qty(o)]
AvailableExplained ==
  ~ live => available = SumFunctionOnSet(Qtys, submitted)
=============================================================================
