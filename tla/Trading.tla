------------------------------- MODULE Trading ------------------------------
(***************************************************************************)
(* The two records kept of what was executed: the position with its        *)
(* account, and the trade.  Nothing in the code connects them yet (the     *)
(* calls are TODO comments in Position.cpp 600-614 and DB.cpp 1166-1180),  *)
(* so a behaviour exercises one of them.                                   *)
(***************************************************************************)
EXTENDS Position, ClosedTrades

VARIABLE subject   \* "position" or "trades"

vars == <<subject, live, terms, mutex, available, submitted, credits, charges,
          market, minimum, pos, executed, error, current, trades, ids, log>>

Init ==
  /\ PositionInit /\ TradesInit
  /\ subject \in {"position", "trades"}
  /\ subject = "trades" =>
       ~ live /\ market = "SPOT" /\ \A s \in Minimums : minimum <= s
       /\ terms = [o \in Orders |-> CHOOSE t \in Terms : TRUE]

Next ==
  \/ /\ subject = "position" /\ PositionNext
     /\ UNCHANGED <<subject, current, trades, ids, log>>
  \/ /\ subject = "trades" /\ TradesNext
     /\ UNCHANGED <<subject, live, terms, mutex, available, submitted, credits, charges,
                    market, minimum, pos, executed, error>>

Spec == Init /\ [][Next]_vars
=============================================================================
