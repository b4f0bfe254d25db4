-------------------------- MODULE SpotExchangeProofs --------------------------
(***************************************************************************)
(* That the spot account is never overdrawn, that what it holds back for   *)
(* sells is what the open ones ask for, and that its money and assets are  *)
(* accounted for order by order: for every finite set of orders, every set *)
(* of terms, every fee and every starting balance.                         *)
(***************************************************************************)
EXTENDS SpotExchange, FunctionProofs, TLAPS

USE TermsAssumption, AssetsAssumption, AmountsAssumption

\* Cash and base assets do not go below zero, and the state is in its ranges:
\* Solvent alone is not inductive, since what an order pays back or delivers is
\* not negative only because its terms are natural numbers.
SpotInv == TypeOK /\ Solvent

-------------------------------------------------------------------------------
(* Amounts                                                                  *)

\* The fee leaves a share of an amount that is neither negative nor more than
\* the amount.
LEMMA KeepBounded ==
    ASSUME NEW amount \in Nat
    PROVE  Keep(amount) \in 0..amount
<1> DEFINE share == 100 - FeePercent
<1>1. share \in 0..100
  OBVIOUS
<1>2. amount * share \in Nat /\ amount * share <= amount * 100
  BY <1>1
<1> HIDE DEF share
<1> DEFINE product == amount * share
<1>3. product \in Nat /\ product <= amount * 100
  BY <1>2
<1> HIDE DEF product
<1>4. product \div 100 \in 0..amount
  BY <1>3
<1> QED
  BY <1>4 DEF Keep, product, share

\* An order's value is a natural number.
LEMMA ValueNat ==
    ASSUME NEW t \in Term
    PROVE  Value(t) \in Nat
BY DEF Value, Term

\* A sum keeps its domain and stays integer when an order is added or removed.
LEMMA ReserveType ==
    ASSUME NEW sum \in [Symbols -> Int], NEW t \in Term, NEW type, NEW n \in Int
    PROVE  Reserve(sum, t, type, n) \in [Symbols -> Int]
BY DEF Reserve, Term

\* What a sell takes is there, whatever it asks for.
LEMMA FillCovered ==
    ASSUME TypeOK, Solvent, NEW t \in Term
    PROVE  /\ Base[t.symbol] \in Assets \ {Settlement}
           /\ Fill(t) \in Nat
           /\ Fill(t) <= assets[Base[t.symbol]]
<1>1. Base[t.symbol] \in Assets \ {Settlement} /\ t.qty \in Nat
  BY DEF Term
<1>2. assets[Base[t.symbol]] \in Nat
  BY <1>1 DEF TypeOK, Solvent
<1> QED
  BY <1>1, <1>2 DEF Fill

-------------------------------------------------------------------------------
(* The invariant                                                            *)

LEMMA SpotInit == Init => SpotInv
<1> SUFFICES ASSUME Init PROVE SpotInv
  OBVIOUS
<1>1. assets \in [Assets -> Nat]
  BY DEF Init
<1> QED
  BY <1>1 DEF Init, SpotInv, TypeOK, Solvent, Status

LEMMA SubmitSolvent ==
    ASSUME SpotInv, NEW o \in Orders, NEW t \in Terms, Submit(o, t), UNCHANGED live
    PROVE  SpotInv'
<1>1. t \in Term /\ Value(t) \in Nat
  BY ValueNat
<1>2. assets' \in [Assets -> Int] /\ Solvent'
  <2>1. CASE assets' = assets
    BY <2>1 DEF SpotInv, TypeOK, Solvent
  <2>2. CASE assets' # assets
    <3>1. ~live /\ t.side = "BUY" /\ assets' = [assets EXCEPT ![Settlement] = @ - Value(t)]
      BY <2>2 DEF Submit, ledgerVars
    <3>2. Value(t) <= assets[Settlement]
      BY <3>1 DEF Submit, Accepts
    <3> QED
      BY <1>1, <3>1, <3>2 DEF SpotInv, TypeOK, Solvent
  <2> QED
    BY <2>1, <2>2
<1>3. stopSum' \in [Symbols -> Int] /\ limitSum' \in [Symbols -> Int]
  <2>1. t.qty \in Int
    BY <1>1 DEF Term
  <2> QED
    BY <1>1, <2>1, ReserveType DEF Submit, ledgerVars, SpotInv, TypeOK
<1>4. /\ live' \in BOOLEAN
      /\ started' \in Nat
      /\ status' \in [Orders -> Status]
      /\ terms' \in [Orders -> Term \cup {NoTerm}]
      /\ sold' \in [Orders -> Nat]
      /\ streamed' \in Nat
  BY <1>1 DEF Submit, SpotInv, TypeOK, Status
<1>5. ASSUME NEW p \in Orders, status'[p] \in {"open", "executed", "canceled"}
      PROVE  terms'[p] \in Term
  BY <1>1, <1>5 DEF Submit, SpotInv, TypeOK
<1> QED
  BY <1>2, <1>3, <1>4, <1>5 DEF SpotInv, TypeOK

LEMMA ExecuteSolvent ==
    ASSUME SpotInv, NEW o \in Orders, Execute(o), UNCHANGED live
    PROVE  SpotInv'
<1> DEFINE t == terms[o]
           b == Base[t.symbol]
<1>1. t \in Term
  BY DEF Execute, SpotInv, TypeOK
<1>2. /\ b \in Assets \ {Settlement}
      /\ Fill(t) \in Nat
      /\ Fill(t) <= assets[b]
  BY <1>1, FillCovered DEF SpotInv
<1>3. t.qty \in Nat /\ -t.qty \in Int /\ t.price \in Nat
  BY <1>1 DEF Term
<1>4. Keep(t.qty) \in Nat /\ Keep(Fill(t) * t.price) \in Nat
  <2>1. Fill(t) * t.price \in Nat
    BY <1>2, <1>3
  <2> QED
    BY <1>3, <2>1, KeepBounded
<1> HIDE DEF t, b
<1>5. assets' \in [Assets -> Int] /\ Solvent'
  <2>1. CASE live
    BY <2>1 DEF Execute, ledgerVars, SpotInv, TypeOK, Solvent
  <2>2. CASE ~live /\ t.side = "BUY"
    <3>1. assets' = [assets EXCEPT ![b] = @ + Keep(t.qty)]
      BY <2>2 DEF Execute, t, b
    <3> QED
      BY <1>2, <1>4, <3>1 DEF SpotInv, TypeOK, Solvent
  <2>3. CASE ~live /\ t.side # "BUY"
    <3>1. assets' = [assets EXCEPT ![b] = @ - Fill(t), ![Settlement] = @ + Keep(Fill(t) * t.price)]
      BY <2>3 DEF Execute, t, b
    <3>2. assets[b] - Fill(t) \in Nat /\ Settlement \in Assets
      BY <1>2 DEF SpotInv, TypeOK
    <3> QED
      BY <1>2, <1>4, <3>1, <3>2 DEF SpotInv, TypeOK, Solvent
  <2> QED
    BY <2>1, <2>2, <2>3
<1>6. stopSum' \in [Symbols -> Int] /\ limitSum' \in [Symbols -> Int]
  <2>1. CASE live
    BY <2>1 DEF Execute, ledgerVars, SpotInv, TypeOK
  <2>2. CASE ~live
    BY <1>1, <1>3, <2>2, ReserveType DEF Execute, SpotInv, TypeOK, t
  <2> QED
    BY <2>1, <2>2
<1>7. sold' \in [Orders -> Nat]
  BY <1>2 DEF Execute, SpotInv, TypeOK, t
<1>8. /\ live' \in BOOLEAN
      /\ started' \in Nat
      /\ status' \in [Orders -> Status]
      /\ terms' \in [Orders -> Term \cup {NoTerm}]
      /\ streamed' \in Nat
      /\ \A p \in Orders : status'[p] \in {"open", "executed", "canceled"} => terms'[p] \in Term
  BY DEF Execute, SpotInv, TypeOK, Status
<1> QED
  BY <1>5, <1>6, <1>7, <1>8 DEF SpotInv, TypeOK

LEMMA CancelSolvent ==
    ASSUME SpotInv, NEW o \in Orders, Cancel(o), UNCHANGED live
    PROVE  SpotInv'
<1> DEFINE t == terms[o]
<1>1. t \in Term
  BY DEF Cancel, SpotInv, TypeOK
<1>2. Value(t) \in Nat /\ -t.qty \in Int
  BY <1>1, ValueNat DEF Term
<1> HIDE DEF t
<1>3. assets' \in [Assets -> Int] /\ Solvent'
  <2>1. assets' = assets \/ assets' = [assets EXCEPT ![Settlement] = @ + Value(t)]
    BY DEF Cancel, ledgerVars, t
  <2> QED
    BY <1>2, <2>1 DEF SpotInv, TypeOK, Solvent
<1>4. stopSum' \in [Symbols -> Int] /\ limitSum' \in [Symbols -> Int]
  <2>1. CASE live
    BY <2>1 DEF Cancel, ledgerVars, SpotInv, TypeOK
  <2>2. CASE ~live
    BY <1>1, <1>2, <2>2, ReserveType DEF Cancel, SpotInv, TypeOK, t
  <2> QED
    BY <2>1, <2>2
<1>5. /\ live' \in BOOLEAN
      /\ started' \in Nat
      /\ status' \in [Orders -> Status]
      /\ terms' \in [Orders -> Term \cup {NoTerm}]
      /\ sold' \in [Orders -> Nat]
      /\ streamed' \in Nat
      /\ \A p \in Orders : status'[p] \in {"open", "executed", "canceled"} => terms'[p] \in Term
  BY DEF Cancel, SpotInv, TypeOK, Status
<1> QED
  BY <1>3, <1>4, <1>5 DEF SpotInv, TypeOK

LEMMA SpotNext == SpotInv /\ [Next]_vars => SpotInv'
<1> SUFFICES ASSUME SpotInv, [Next]_vars PROVE SpotInv'
  OBVIOUS
<1>1. ASSUME NEW o \in Orders, NEW t \in Terms, Submit(o, t), UNCHANGED live PROVE SpotInv'
  BY <1>1, SubmitSolvent
<1>2. ASSUME NEW o \in Orders, NEW t \in Terms, Reject(o, t), UNCHANGED live PROVE SpotInv'
  BY <1>2 DEF Reject, ledgerVars, SpotInv, TypeOK, Solvent, Status
<1>3. ASSUME NEW o \in Orders, Execute(o), UNCHANGED live PROVE SpotInv'
  BY <1>3, ExecuteSolvent
<1>4. ASSUME NEW o \in Orders, Cancel(o), UNCHANGED live PROVE SpotInv'
  BY <1>4, CancelSolvent
<1>5. ASSUME NEW balance \in Streamed, UpdateFromStream(balance), UNCHANGED live PROVE SpotInv'
  <2>1. balance \in Nat
    OBVIOUS
  <2> QED
    BY <1>5, <2>1 DEF UpdateFromStream, SpotInv, TypeOK, Solvent
<1>6. CASE UNCHANGED vars
  BY <1>6 DEF vars, SpotInv, TypeOK, Solvent
<1> QED
  BY <1>1, <1>2, <1>3, <1>4, <1>5, <1>6 DEF Next

\* For every set of orders and terms, the account is never overdrawn: the
\* check at submission, the cut at execution and the repayment at cancellation
\* keep every balance at zero or above in every interleaving.
THEOREM SpotSolvent == Spec => []Solvent
<1>1. SpotInv => Solvent
  BY DEF SpotInv
<1> QED
  BY SpotInit, SpotNext, <1>1, PTL DEF Spec

\* The state stays in the ranges its declarations give it.
THEOREM SpotTypes == Spec => []TypeOK
<1>1. SpotInv => TypeOK
  BY DEF SpotInv
<1> QED
  BY SpotInit, SpotNext, <1>1, PTL DEF Spec

-------------------------------------------------------------------------------
(* A live session                                                           *)

LEMMA FollowsInit == Init => LiveFollowsStream
<1> SUFFICES ASSUME Init PROVE LiveFollowsStream
  OBVIOUS
<1>1. assets[Settlement] = streamed
  BY DEF Init
<1>2. ASSUME NEW b \in BaseAssets PROVE assets[b] = StartingBase
  <2>1. PICK s \in Symbols : Base[s] = b
    BY DEF BaseAssets
  <2>2. b \in Assets /\ b # Settlement
    BY <2>1
  <2> QED
    BY <2>1, <2>2 DEF Init
<1> QED
  BY <1>1, <1>2 DEF LiveFollowsStream

LEMMA FollowsNext ==
    ASSUME SpotInv, LiveFollowsStream, [Next]_vars
    PROVE  LiveFollowsStream'
<1> SUFFICES ASSUME live'
             PROVE  assets'[Settlement] = streamed' /\ \A b \in BaseAssets : assets'[b] = StartingBase
  BY DEF LiveFollowsStream, BaseAssets
<1>1. live
  BY DEF Next, vars
<1>2. ASSUME UNCHANGED <<assets, streamed>>
      PROVE  assets'[Settlement] = streamed' /\ \A b \in BaseAssets : assets'[b] = StartingBase
  BY <1>1, <1>2 DEF LiveFollowsStream
<1>3. ASSUME NEW balance \in Streamed, UpdateFromStream(balance)
      PROVE  assets'[Settlement] = streamed' /\ \A b \in BaseAssets : assets'[b] = StartingBase
  <2>1. assets' = [assets EXCEPT ![Settlement] = balance] /\ streamed' = balance
    BY <1>3 DEF UpdateFromStream
  <2>2. \A b \in BaseAssets : b \in Assets /\ b # Settlement
    BY DEF BaseAssets
  <2> QED
    BY <1>1, <2>1, <2>2 DEF LiveFollowsStream, SpotInv, TypeOK
<1>4. ASSUME NEW o \in Orders, NEW t \in Terms, Submit(o, t) \/ Reject(o, t)
      PROVE  UNCHANGED <<assets, streamed>>
  BY <1>1, <1>4 DEF Submit, Reject, ledgerVars
<1>5. ASSUME NEW o \in Orders, Execute(o) \/ Cancel(o)
      PROVE  UNCHANGED <<assets, streamed>>
  BY <1>1, <1>5 DEF Execute, Cancel, ledgerVars
<1>6. CASE UNCHANGED vars
  BY <1>2, <1>6 DEF vars
<1> QED
  BY <1>2, <1>3, <1>4, <1>5, <1>6 DEF Next

\* Whatever is submitted, executed and cancelled meanwhile, a live session's
\* wallet holds what the exchange reported last.
THEOREM LiveWalletFollows == Spec => []LiveFollowsStream
BY SpotInit, SpotNext, FollowsInit, FollowsNext, PTL DEF Spec

-------------------------------------------------------------------------------
(* The sums                                                                 *)

\* Only an executed order has sold anything: the sum of what was sold changes
\* where an order is executed and nowhere else.
SoldIsExecuted == \A o \in Orders : sold[o] # 0 => status[o] = "executed"

\* The ledgers are inductive together with the types and SoldIsExecuted.
LedgerInv == SpotInv /\ SoldIsExecuted /\ Reservations /\ Ledgers

\* Any orders taken together are finitely many.
LEMMA SomeOrders == \A S \in SUBSET Orders : IsFiniteSet(S)
BY OrdersAssumption, FS_Subset

\* What every order has is an amount.
LEMMA AmountsAreInt ==
    ASSUME TypeOK
    PROVE  \A o \in Orders : /\ terms[o].qty \in Nat /\ terms[o].price \in Nat
                             /\ Value(terms[o]) \in Nat
                             /\ sold[o] \in Nat
                             /\ Keep(terms[o].qty) \in Int
                             /\ Keep(sold[o] * terms[o].price) \in Int
<1> TAKE o \in Orders
<1>1. terms[o].qty \in Nat /\ terms[o].price \in Nat /\ sold[o] \in Nat
  BY DEF TypeOK, Term, NoTerm
<1>2. sold[o] * terms[o].price \in Nat /\ terms[o].qty * terms[o].price \in Nat
  BY <1>1
<1> QED
  BY <1>1, <1>2, KeepBounded DEF Value

\* A reservation changes the sum of the order's own symbol and no other.
LEMMA ReserveAt ==
    ASSUME NEW sum \in [Symbols -> Int], NEW t \in Term, NEW type, NEW n \in Int, NEW s \in Symbols
    PROVE  Reserve(sum, t, type, n)[s] =
             sum[s] + IF t.side = "SELL" /\ t.type = type /\ t.symbol = s THEN n ELSE 0
BY DEF Reserve, Term

\* A submitted sell joins those that reserve.
LEMMA ReservedJoined ==
    ASSUME TypeOK, TypeOK', NEW o \in Orders, NEW t \in Term, NEW type, NEW s \in Symbols,
           status[o] = "new", status' = [status EXCEPT ![o] = "open"],
           terms' = [terms EXCEPT ![o] = t]
    PROVE  Reserved(type, s)' = Reserved(type, s)
             + IF t.side = "SELL" /\ t.type = type /\ t.symbol = s THEN t.qty ELSE 0
<1> DEFINE R == Reserving(type, s)
           f == [p \in Orders |-> terms[p].qty]
           g == [p \in Orders |-> terms'[p].qty]
           joins == t.side = "SELL" /\ t.type = type /\ t.symbol = s
<1>1. /\ IsFiniteSet(R) /\ R \in SUBSET Orders /\ o \notin R
      /\ R' = IF joins THEN R \cup {o} ELSE R
  <2>1. R \in SUBSET Orders /\ o \notin R
    BY DEF Reserving, Sells, Open
  <2>2. \A p \in Orders : p \in R' <=> (p \in R \/ (p = o /\ joins))
    BY DEF Reserving, Sells, Open, TypeOK
  <2>3. R' \in SUBSET Orders
    BY DEF Reserving, Sells
  <2> QED
    BY <2>1, <2>2, <2>3, SomeOrders
<1>2. \A p \in R : f[p] \in Int /\ g[p] = f[p]
  BY <1>1, AmountsAreInt DEF TypeOK
<1>3. g[o] = t.qty /\ t.qty \in Int
  BY DEF TypeOK, Term
<1>4. Reserved(type, s) = SumFunctionOnSet(f, R) /\ Reserved(type, s)' = SumFunctionOnSet(g, R')
  BY DEF Reserved
<1> HIDE DEF R, f, g
<1>5. SumFunctionOnSet(f, R) \in Int /\ SumFunctionOnSet(g, R) = SumFunctionOnSet(f, R)
  BY <1>1, <1>2, SumIsInt, SumSame
<1>6. SumFunctionOnSet(g, R \cup {o}) = SumFunctionOnSet(f, R) + g[o]
  <2>1. IsFiniteSet(R) /\ o \notin R /\ g[o] \in Int
    BY <1>1, <1>3
  <2>2. \A p \in R \cup {o} : g[p] \in Int
    BY <1>2, <2>1
  <2> HIDE DEF joins
  <2> QED
    BY <1>5, <2>1, <2>2, SumMore, ZenonT(60)
<1> QED
  BY <1>1, <1>3, <1>4, <1>5, <1>6

\* A sell that has ended leaves them.
LEMMA ReservedLeft ==
    ASSUME TypeOK, NEW o \in Orders, NEW type, NEW s \in Symbols, NEW e, e # "open",
           status[o] = "open", status' = [status EXCEPT ![o] = e], UNCHANGED terms
    PROVE  Reserved(type, s)' = Reserved(type, s)
             + IF terms[o].side = "SELL" /\ terms[o].type = type /\ terms[o].symbol = s
               THEN - terms[o].qty ELSE 0
<1> DEFINE R == Reserving(type, s)
           f == [p \in Orders |-> terms[p].qty]
           leaves == terms[o].side = "SELL" /\ terms[o].type = type /\ terms[o].symbol = s
<1>1. /\ IsFiniteSet(R) /\ R \in SUBSET Orders /\ (o \in R <=> leaves)
      /\ R' = R \ {o}
  <2>1. R \in SUBSET Orders /\ (o \in R <=> leaves)
    BY DEF Reserving, Sells, Open
  <2>2. \A p \in Orders : p \in R' <=> (p \in R /\ p # o)
    BY DEF Reserving, Sells, Open, TypeOK
  <2>3. R' \in SUBSET Orders
    BY DEF Reserving, Sells
  <2> QED
    BY <2>1, <2>2, <2>3, SomeOrders
<1>2. \A p \in Orders : f[p] \in Int
  BY AmountsAreInt
<1>3. f[o] = terms[o].qty
  OBVIOUS
<1>4. Reserved(type, s) = SumFunctionOnSet(f, R) /\ Reserved(type, s)' = SumFunctionOnSet(f, R')
  BY DEF Reserved
<1> HIDE DEF R, f
<1>5. SumFunctionOnSet(f, R) \in Int
  BY <1>1, <1>2, SumIsInt
<1>6. CASE leaves
  <2>1. SumFunctionOnSet(f, R \ {o}) = SumFunctionOnSet(f, R) - f[o]
    BY <1>1, <1>2, <1>6, SumLeft
  <2> QED
    BY <1>1, <1>2, <1>3, <1>4, <1>5, <1>6, <2>1
<1>7. CASE ~ leaves
  <2>1. R \ {o} = R
    BY <1>1, <1>7
  <2>2. Reserved(type, s)' = Reserved(type, s) /\ Reserved(type, s) \in Int
    BY <1>1, <1>4, <1>5, <2>1
  <2> QED
    BY <1>7, <2>2
<1> QED
  BY <1>6, <1>7

\* A sell that is submitted reserves, any other order does not.
LEMMA ReservationsSubmit ==
    ASSUME SpotInv, SpotInv', Reservations, NEW o \in Orders, NEW t \in Terms,
           Submit(o, t), UNCHANGED live
    PROVE  Reservations'
<1> SUFFICES ASSUME ~ live, NEW s \in Symbols
             PROVE  stopSum'[s] = Reserved("STOP", s)' /\ limitSum'[s] = Reserved("LIMIT", s)'
  BY DEF Reservations
<1>1. /\ t \in Term /\ t.qty \in Int /\ TypeOK /\ TypeOK'
      /\ stopSum \in [Symbols -> Int] /\ limitSum \in [Symbols -> Int]
  BY DEF SpotInv, TypeOK, Term
<1>2. /\ status[o] = "new" /\ status' = [status EXCEPT ![o] = "open"]
      /\ terms' = [terms EXCEPT ![o] = t]
      /\ stopSum' = Reserve(stopSum, t, "STOP", t.qty)
      /\ limitSum' = Reserve(limitSum, t, "LIMIT", t.qty)
  BY DEF Submit
<1>3. stopSum[s] = Reserved("STOP", s) /\ limitSum[s] = Reserved("LIMIT", s)
  BY DEF Reservations
<1>4. stopSum'[s] = Reserved("STOP", s)'
  <2> DEFINE change == IF t.side = "SELL" /\ t.type = "STOP" /\ t.symbol = s THEN t.qty ELSE 0
  <2>1. stopSum'[s] = stopSum[s] + change
    BY <1>1, <1>2, ReserveAt
  <2>2. Reserved("STOP", s)' = Reserved("STOP", s) + change
    BY <1>1, <1>2, ReservedJoined, ZenonT(60)
  <2> QED
    BY <1>3, <2>1, <2>2
<1>5. limitSum'[s] = Reserved("LIMIT", s)'
  <2> DEFINE change == IF t.side = "SELL" /\ t.type = "LIMIT" /\ t.symbol = s THEN t.qty ELSE 0
  <2>1. limitSum'[s] = limitSum[s] + change
    BY <1>1, <1>2, ReserveAt
  <2>2. Reserved("LIMIT", s)' = Reserved("LIMIT", s) + change
    BY <1>1, <1>2, ReservedJoined, ZenonT(60)
  <2> QED
    BY <1>3, <2>1, <2>2
<1> QED
  BY <1>4, <1>5

\* A sell that is executed or cancelled reserves no more.
LEMMA ReservationsEnd ==
    ASSUME SpotInv, Reservations, NEW o \in Orders, Execute(o) \/ Cancel(o), UNCHANGED live
    PROVE  Reservations'
<1> SUFFICES ASSUME ~ live, NEW s \in Symbols
             PROVE  stopSum'[s] = Reserved("STOP", s)' /\ limitSum'[s] = Reserved("LIMIT", s)'
  BY DEF Reservations
<1> DEFINE t == terms[o]
<1>0. PICK e : e # "open" /\ status' = [status EXCEPT ![o] = e]
  BY DEF Execute, Cancel
<1>1. /\ TypeOK /\ status[o] = "open" /\ e # "open"
      /\ status' = [status EXCEPT ![o] = e]
      /\ UNCHANGED terms
      /\ stopSum' = Reserve(stopSum, t, "STOP", -t.qty)
      /\ limitSum' = Reserve(limitSum, t, "LIMIT", -t.qty)
  BY <1>0 DEF SpotInv, Execute, Cancel
<1>2. /\ t \in Term /\ -t.qty \in Int
      /\ stopSum \in [Symbols -> Int] /\ limitSum \in [Symbols -> Int]
  BY <1>1 DEF TypeOK, Term
<1>3. stopSum[s] = Reserved("STOP", s) /\ limitSum[s] = Reserved("LIMIT", s)
  BY DEF Reservations
<1>4. stopSum'[s] = Reserved("STOP", s)'
  <2> DEFINE change == IF t.side = "SELL" /\ t.type = "STOP" /\ t.symbol = s THEN -t.qty ELSE 0
  <2>1. stopSum'[s] = stopSum[s] + change
    BY <1>1, <1>2, ReserveAt
  <2>2. Reserved("STOP", s)' = Reserved("STOP", s) + change
    BY <1>1, <1>2, ReservedLeft
  <2> QED
    BY <1>3, <2>1, <2>2
<1>5. limitSum'[s] = Reserved("LIMIT", s)'
  <2> DEFINE change == IF t.side = "SELL" /\ t.type = "LIMIT" /\ t.symbol = s THEN -t.qty ELSE 0
  <2>1. limitSum'[s] = limitSum[s] + change
    BY <1>1, <1>2, ReserveAt
  <2>2. Reserved("LIMIT", s)' = Reserved("LIMIT", s) + change
    BY <1>1, <1>2, ReservedLeft
  <2> QED
    BY <1>3, <2>1, <2>2
<1> QED
  BY <1>4, <1>5

\* A step that changes neither the terms of an order nor whether it is open or
\* executed leaves the sums alone.
LEMMA SumsKept ==
    ASSUME SoldIsExecuted, Reservations, Ledgers, UNCHANGED <<live, ledgerVars, terms, sold>>,
           \A o \in Orders : (Open(o) <=> Open(o)') /\ (Executed(o) <=> Executed(o)')
    PROVE  SoldIsExecuted' /\ Reservations' /\ Ledgers'
<1>1. SoldIsExecuted'
  BY DEF SoldIsExecuted, Executed
<1>2. Buys' = Buys /\ \A type : Sells(type)' = Sells(type)
  BY DEF Buys, Sells
<1>3. \A type, s : Reserving(type, s)' = Reserving(type, s)
  BY <1>2 DEF Reserving, Sells
<1>4. Reservations'
  BY <1>3 DEF Reservations, Reserved, ledgerVars
<1>5. Paid' = Paid /\ \A b : Received(b)' = Received(b) /\ SellsOf(b)' = SellsOf(b)
  BY <1>2 DEF Paid, Received, SellsOf, Buys
<1>6. Cost' = Cost /\ Proceeds' = Proceeds /\ Delivered' = Delivered
  BY DEF Cost, Proceeds, Delivered, Value, Keep
<1>7. CashLedger'
  BY <1>5, <1>6 DEF Ledgers, CashLedger, ledgerVars
<1>8. BaseLedger'
  BY <1>5, <1>6 DEF Ledgers, BaseLedger, BaseAssets, ledgerVars
<1> QED
  BY <1>1, <1>4, <1>7, <1>8 DEF Ledgers

\* What the sums are over: finite sets of orders, and amounts.
LEMMA Summands ==
    ASSUME TypeOK
    PROVE  /\ IsFiniteSet(Orders) /\ IsFiniteSet(Paid) /\ Paid \subseteq Orders
           /\ \A b : /\ IsFiniteSet(Received(b)) /\ Received(b) \subseteq Orders
                     /\ IsFiniteSet(SellsOf(b)) /\ SellsOf(b) \subseteq Orders
           /\ \A o \in Orders : /\ Cost[o] \in Int /\ Proceeds[o] \in Int
                                /\ Delivered[o] \in Int /\ sold[o] \in Int
           /\ SumFunctionOnSet(Cost, Paid) \in Int
           /\ SumFunctionOnSet(Proceeds, Orders) \in Int
           /\ \A b : /\ SumFunctionOnSet(Delivered, Received(b)) \in Int
                     /\ SumFunctionOnSet(sold, SellsOf(b)) \in Int
<1>1. /\ IsFiniteSet(Orders) /\ IsFiniteSet(Paid) /\ Paid \subseteq Orders
      /\ \A b : /\ IsFiniteSet(Received(b)) /\ Received(b) \subseteq Orders
                /\ IsFiniteSet(SellsOf(b)) /\ SellsOf(b) \subseteq Orders
  BY OrdersAssumption, SomeOrders DEF Paid, Buys, Received, SellsOf
<1>2. \A o \in Orders : /\ Cost[o] \in Int /\ Proceeds[o] \in Int
                        /\ Delivered[o] \in Int /\ sold[o] \in Int
  BY AmountsAreInt DEF Cost, Proceeds, Delivered
<1>3. /\ SumFunctionOnSet(Cost, Paid) \in Int
      /\ SumFunctionOnSet(Proceeds, Orders) \in Int
  BY <1>1, <1>2, SumIsInt
<1>4. ASSUME NEW b
      PROVE  /\ SumFunctionOnSet(Delivered, Received(b)) \in Int
             /\ SumFunctionOnSet(sold, SellsOf(b)) \in Int
  BY <1>1, <1>2, SumIsInt
<1> QED
  BY <1>1, <1>2, <1>3, <1>4

\* A submitted buy is paid for; nothing is sold or delivered yet.
LEMMA LedgersSubmit ==
    ASSUME SpotInv, SpotInv', SoldIsExecuted, Ledgers, NEW o \in Orders, NEW t \in Terms,
           Submit(o, t), UNCHANGED live
    PROVE  SoldIsExecuted' /\ Ledgers'
<1>1. /\ TypeOK /\ TypeOK' /\ t \in Term /\ status[o] = "new" /\ sold[o] = 0 /\ UNCHANGED sold
      /\ status' = [status EXCEPT ![o] = "open"] /\ terms' = [terms EXCEPT ![o] = t]
      /\ status \in [Orders -> Status] /\ terms \in [Orders -> Term \cup {NoTerm}]
  BY DEF SpotInv, TypeOK, Submit, SoldIsExecuted
<1>2. SoldIsExecuted'
  BY <1>1 DEF SoldIsExecuted
<1>3. /\ status'[o] = "open" /\ terms'[o] = t
      /\ \A p \in Orders \ {o} : status'[p] = status[p] /\ terms'[p] = terms[p]
  BY <1>1
<1>4. o \notin Paid /\ Paid' = IF t.side = "BUY" THEN Paid \cup {o} ELSE Paid
  <2>1. o \notin Paid
    BY <1>1 DEF Paid, Open, Executed
  <2>2. \A p \in Orders : p \in Paid' <=> (p \in Paid \/ (p = o /\ t.side = "BUY"))
    BY <1>3, <2>1 DEF Paid, Buys, Open, Executed
  <2>3. Paid \subseteq Orders /\ Paid' \subseteq Orders
    BY DEF Paid, Buys
  <2> QED
    BY <2>1, <2>2, <2>3
<1>5. \A b : Received(b)' = Received(b)
  BY <1>1, <1>3 DEF Received, Buys, Executed
<1>6. /\ \A p \in Orders \ {o} : Cost'[p] = Cost[p] /\ Delivered'[p] = Delivered[p]
      /\ Cost'[o] = Value(t)
      /\ \A p \in Orders : Proceeds'[p] = Proceeds[p]
  <2>1. \A p \in Orders \ {o} : Cost'[p] = Cost[p] /\ Delivered'[p] = Delivered[p]
    BY <1>3 DEF Cost, Delivered, Value, Keep
  <2>2. Cost'[o] = Value(t)
    BY <1>3 DEF Cost, Value
  <2>3. ASSUME NEW p \in Orders PROVE Proceeds'[p] = Proceeds[p]
    <3>1. CASE p = o
      <4>1. terms[o].price \in Int /\ terms'[o].price \in Int
        BY <1>1 DEF Term, NoTerm
      <4>2. sold[o] * terms[o].price = 0 /\ sold[o] * terms'[o].price = 0
        BY <1>1, <4>1
      <4> QED
        BY <1>1, <3>1, <4>2 DEF Proceeds, Keep
    <3>2. CASE p # o
      BY <1>1, <1>3, <3>2 DEF Proceeds, Keep
    <3> QED
      BY <3>1, <3>2
  <2> QED
    BY <2>1, <2>2, <2>3
<1>7. CashLedger'
  <2>1. SUFFICES ASSUME ~ live
                 PROVE  assets'[Settlement] =
                          StartingBalance - SumFunctionOnSet(Cost', Paid')
                            + SumFunctionOnSet(Proceeds', Orders)
    BY DEF CashLedger, Submit
  <2>2. SumFunctionOnSet(Proceeds', Orders) = SumFunctionOnSet(Proceeds, Orders)
    BY <1>1, <1>6, Summands, SumSame
  <2>3. SumFunctionOnSet(Cost', Paid) = SumFunctionOnSet(Cost, Paid)
    <3>1. \A p \in Paid : Cost'[p] = Cost[p]
      BY <1>1, <1>4, <1>6, Summands
    <3> QED
      BY <1>1, <3>1, Summands, SumSame
  <2>4. assets[Settlement] = StartingBalance - SumFunctionOnSet(Cost, Paid)
                               + SumFunctionOnSet(Proceeds, Orders)
    BY <2>1 DEF Ledgers, CashLedger
  <2>5. CASE t.side = "BUY"
    <3>1. SumFunctionOnSet(Cost', Paid \cup {o}) = SumFunctionOnSet(Cost', Paid) + Value(t)
      <4>1. \A p \in Paid \cup {o} : Cost'[p] \in Int
        BY <1>1, <1>6, ValueNat, Summands
      <4>2. IsFiniteSet(Paid) /\ o \notin Paid
        BY <1>1, <1>4, Summands
      <4>3. SumFunctionOnSet(Cost', Paid \cup {o}) = SumFunctionOnSet(Cost', Paid) + Cost'[o]
        BY <4>1, <4>2, SumMore
      <4> QED
        BY <1>6, <4>3
    <3>2. assets'[Settlement] = assets[Settlement] - Value(t)
      BY <2>1, <2>5 DEF Submit, SpotInv, TypeOK
    <3>3. Value(t) \in Int
      BY <1>1, ValueNat
    <3> QED
      BY <1>1, <1>4, <2>2, <2>3, <2>4, <2>5, <3>1, <3>2, <3>3, Summands
  <2>6. CASE t.side # "BUY"
    <3>1. assets' = assets
      BY <2>1, <2>6 DEF Submit
    <3> QED
      BY <1>4, <2>2, <2>3, <2>4, <2>6, <3>1
  <2> QED
    BY <2>5, <2>6
<1>8. BaseLedger'
  <2>1. SUFFICES ASSUME ~ live, NEW b \in BaseAssets
                 PROVE  assets'[b] = StartingBase
                          + SumFunctionOnSet(Delivered', Received(b)')
                          - SumFunctionOnSet(sold', SellsOf(b)')
    BY DEF BaseLedger, BaseAssets, Submit
  <2>2. assets[b] = StartingBase + SumFunctionOnSet(Delivered, Received(b))
                      - SumFunctionOnSet(sold, SellsOf(b))
    BY <2>1 DEF Ledgers, BaseLedger
  <2>3. assets'[b] = assets[b]
    <3>1. b \in Assets /\ b # Settlement
      BY DEF BaseAssets
    <3> QED
      BY <2>1, <3>1 DEF Submit, SpotInv, TypeOK
  <2>4. SumFunctionOnSet(Delivered', Received(b)') = SumFunctionOnSet(Delivered, Received(b))
    <3>1. o \notin Received(b)
      BY <1>1 DEF Received, Executed
    <3>2. \A p \in Received(b) : Delivered'[p] = Delivered[p]
      BY <1>1, <1>6, <3>1, Summands
    <3> QED
      BY <1>1, <1>5, <3>2, Summands, SumSame
  <2>5. SumFunctionOnSet(sold, SellsOf(b)') = SumFunctionOnSet(sold, SellsOf(b))
    <3>1. SellsOf(b)' \ {o} = SellsOf(b) \ {o}
      BY <1>3 DEF SellsOf
    <3>2. SumFunctionOnSet(sold, SellsOf(b) \ {o}) = SumFunctionOnSet(sold, SellsOf(b))
      BY <1>1, Summands, SumWithout
    <3>3. SumFunctionOnSet(sold, SellsOf(b)' \ {o}) = SumFunctionOnSet(sold, SellsOf(b)')
      <4>0. SellsOf(b)' \in SUBSET Orders
        BY DEF SellsOf
      <4>1. IsFiniteSet(SellsOf(b)') /\ \A p \in SellsOf(b)' : sold[p] \in Int
        BY <1>1, <4>0, SomeOrders, Summands
      <4> QED
        BY <1>1, <4>1, SumWithout
    <3> QED
      BY <3>1, <3>2, <3>3
  <2> QED
    BY <1>1, <2>2, <2>3, <2>4, <2>5
<1> QED
  BY <1>2, <1>7, <1>8 DEF Ledgers

\* An executed buy is delivered, an executed sell is paid; each was counted as
\* nothing before.
LEMMA LedgersExecute ==
    ASSUME SpotInv, SpotInv', SoldIsExecuted, Ledgers, NEW o \in Orders,
           Execute(o), UNCHANGED live
    PROVE  SoldIsExecuted' /\ Ledgers'
<1> DEFINE t == terms[o]
           b == Base[t.symbol]
<1>1. /\ TypeOK /\ TypeOK' /\ status[o] = "open" /\ sold[o] = 0 /\ t \in Term /\ UNCHANGED terms
      /\ status' = [status EXCEPT ![o] = "executed"]
      /\ status \in [Orders -> Status] /\ sold \in [Orders -> Nat]
  BY DEF SpotInv, TypeOK, Execute, SoldIsExecuted
<1>2. /\ status'[o] = "executed" /\ \A p \in Orders \ {o} : status'[p] = status[p]
      /\ \A p \in Orders \ {o} : sold'[p] = sold[p]
  BY <1>1 DEF Execute, ledgerVars
<1>3. SoldIsExecuted'
  BY <1>2 DEF SoldIsExecuted
<1>4. /\ Paid' = Paid /\ Cost' = Cost /\ Delivered' = Delivered
      /\ \A a : SellsOf(a)' = SellsOf(a)
  <2>1. \A p \in Orders : p \in Paid' <=> p \in Paid
    BY <1>1, <1>2 DEF Paid, Buys, Open, Executed
  <2>2. Paid \subseteq Orders /\ Paid' \subseteq Orders
    BY DEF Paid, Buys
  <2> QED
    BY <1>1, <2>1, <2>2 DEF Cost, Delivered, Value, Keep, SellsOf
<1>5. ASSUME NEW a
      PROVE  /\ o \notin Received(a)
             /\ Received(a)' = IF t.side = "BUY" /\ b = a THEN Received(a) \cup {o} ELSE Received(a)
  <2>1. o \notin Received(a)
    BY <1>1 DEF Received, Executed
  <2>2. \A p \in Orders : p \in Received(a)' <=>
                            (p \in Received(a) \/ (p = o /\ t.side = "BUY" /\ b = a))
    BY <1>1, <1>2, <2>1 DEF Received, Buys, Executed
  <2>3. Received(a) \subseteq Orders /\ Received(a)' \subseteq Orders
    BY DEF Received, Buys
  <2> QED
    BY <2>1, <2>2, <2>3
<1>6. /\ Fill(t) \in Nat /\ b \in Assets /\ b # Settlement
      /\ t.price \in Nat /\ Settlement \in Assets
  BY <1>1, FillCovered DEF SpotInv, Term
<1>7. /\ Proceeds[o] = 0
      /\ \A p \in Orders \ {o} : Proceeds'[p] = Proceeds[p]
  <2>1. sold[o] * t.price = 0
    BY <1>1, <1>6
  <2>2. Keep(0) = 0
    BY DEF Keep
  <2> QED
    BY <1>1, <1>2, <2>1, <2>2 DEF Proceeds, Keep
<1>8. /\ \A p \in Orders : Proceeds'[p] \in Int /\ sold'[p] \in Int
  BY <1>1, AmountsAreInt DEF Proceeds, TypeOK, Keep, Term, NoTerm
<1>9. CashLedger'
  <2>1. SUFFICES ASSUME ~ live
                 PROVE  assets'[Settlement] =
                          StartingBalance - SumFunctionOnSet(Cost, Paid)
                            + SumFunctionOnSet(Proceeds', Orders)
    BY <1>4 DEF CashLedger, Execute
  <2>2. assets[Settlement] = StartingBalance - SumFunctionOnSet(Cost, Paid)
                               + SumFunctionOnSet(Proceeds, Orders)
    BY <2>1 DEF Ledgers, CashLedger
  <2>3. SumFunctionOnSet(Proceeds', Orders) =
          SumFunctionOnSet(Proceeds, Orders) - Proceeds[o] + Proceeds'[o]
    BY <1>1, <1>7, <1>8, Summands, SumChanged
  <2>4. assets'[Settlement] = assets[Settlement] + Proceeds'[o]
    <3>1. CASE t.side = "BUY"
      <4>1. assets'[Settlement] = assets[Settlement] /\ sold' = sold
        BY <1>6, <2>1, <3>1 DEF Execute, SpotInv, TypeOK
      <4>2. Proceeds'[o] = 0
        BY <1>1, <1>7, <4>1 DEF Proceeds, Keep
      <4> QED
        BY <1>1, <4>1, <4>2, <1>6 DEF TypeOK
    <3>2. CASE t.side # "BUY"
      <4>1. assets'[Settlement] = assets[Settlement] + Keep(Fill(t) * t.price)
        BY <1>6, <2>1, <3>2 DEF Execute, SpotInv, TypeOK
      <4>2. sold'[o] = Fill(t) /\ terms' = terms
        BY <1>1, <2>1, <3>2 DEF Execute
      <4>3. Proceeds'[o] = Keep(Fill(t) * t.price)
        BY <4>2 DEF Proceeds, Keep
      <4> QED
        BY <4>1, <4>3
    <3> QED
      BY <3>1, <3>2
  <2>5. assets[Settlement] \in Int
    BY <1>1, <1>6 DEF TypeOK
  <2> QED
    BY <1>1, <1>7, <1>8, <2>2, <2>3, <2>4, <2>5, Summands
<1>10. BaseLedger'
  <2>1. SUFFICES ASSUME ~ live, NEW a \in BaseAssets
                 PROVE  assets'[a] = StartingBase
                          + SumFunctionOnSet(Delivered, Received(a)')
                          - SumFunctionOnSet(sold', SellsOf(a))
    BY <1>4 DEF BaseLedger, BaseAssets, Execute
  <2>2. assets[a] = StartingBase + SumFunctionOnSet(Delivered, Received(a))
                      - SumFunctionOnSet(sold, SellsOf(a))
    BY <2>1 DEF Ledgers, BaseLedger
  <2>3. a \in Assets /\ a # Settlement /\ assets[a] \in Int
    BY <1>1 DEF BaseAssets, TypeOK
  <2>4. CASE t.side = "BUY"
    <3>1. /\ assets' = [assets EXCEPT ![b] = @ + Keep(t.qty)] /\ sold' = sold
          /\ Delivered[o] = Keep(t.qty)
      BY <2>1, <2>4 DEF Execute, Delivered
    <3>2. CASE a = b
      <4>1. SumFunctionOnSet(Delivered, Received(a) \cup {o}) =
              SumFunctionOnSet(Delivered, Received(a)) + Delivered[o]
        <5>1. IsFiniteSet(Received(a)) /\ \A p \in Received(a) \cup {o} : Delivered[p] \in Int
          BY <1>1, Summands
        <5> QED
          BY <1>5, <5>1, SumMore
      <4>2. assets'[a] = assets[a] + Delivered[o]
        BY <1>1, <2>3, <3>1, <3>2 DEF TypeOK
      <4>3. Received(a)' = Received(a) \cup {o}
        BY <1>5, <2>4, <3>2
      <4> QED
        BY <1>1, <2>2, <2>3, <3>1, <4>1, <4>2, <4>3, Summands
    <3>3. CASE a # b
      <4>1. assets'[a] = assets[a] /\ Received(a)' = Received(a)
        BY <1>1, <1>5, <2>3, <3>1, <3>3 DEF TypeOK
      <4> QED
        BY <2>2, <3>1, <4>1
    <3> QED
      BY <3>2, <3>3
  <2>5. CASE t.side # "BUY"
    <3>1. /\ assets' = [assets EXCEPT ![b] = @ - Fill(t), ![Settlement] = @ + Keep(Fill(t) * t.price)]
          /\ sold'[o] = Fill(t) /\ t.side = "SELL"
      BY <1>1, <2>1, <2>5 DEF Execute, Term, Sides
    <3>2. Received(a)' = Received(a)
      BY <1>5, <2>5
    <3>3. CASE a = b
      <4>1. o \in SellsOf(a)
        BY <3>1, <3>3 DEF SellsOf
      <4>2. SumFunctionOnSet(sold', SellsOf(a)) =
              SumFunctionOnSet(sold, SellsOf(a)) - sold[o] + sold'[o]
        <5>1. /\ IsFiniteSet(SellsOf(a))
              /\ \A p \in SellsOf(a) : sold[p] \in Int /\ sold'[p] \in Int
              /\ \A p \in SellsOf(a) \ {o} : sold[p] = sold'[p]
          BY <1>1, <1>2, <1>8, Summands
        <5> QED
          BY <4>1, <5>1, SumChanged
      <4>3. assets'[a] = assets[a] - Fill(t)
        BY <1>1, <2>3, <3>1, <3>3 DEF TypeOK
      <4> QED
        BY <1>1, <1>6, <2>2, <2>3, <3>1, <3>2, <4>2, <4>3, Summands
    <3>4. CASE a # b
      <4>1. o \notin SellsOf(a)
        BY <3>4 DEF SellsOf
      <4>2. SumFunctionOnSet(sold', SellsOf(a)) = SumFunctionOnSet(sold, SellsOf(a))
        <5>1. IsFiniteSet(SellsOf(a)) /\ \A p \in SellsOf(a) : sold[p] = sold'[p]
          BY <1>1, <1>2, <4>1, Summands
        <5> QED
          BY <5>1, SumSame
      <4>3. assets'[a] = assets[a]
        BY <1>1, <2>3, <3>1, <3>4 DEF TypeOK
      <4> QED
        BY <2>2, <3>2, <4>2, <4>3
    <3> QED
      BY <3>3, <3>4
  <2> QED
    BY <2>4, <2>5
<1> QED
  BY <1>3, <1>9, <1>10 DEF Ledgers

\* A cancelled buy is paid back.
LEMMA LedgersCancel ==
    ASSUME SpotInv, SoldIsExecuted, Ledgers, NEW o \in Orders, Cancel(o), UNCHANGED live
    PROVE  SoldIsExecuted' /\ Ledgers'
<1> DEFINE t == terms[o]
<1>1. /\ TypeOK /\ status[o] = "open" /\ t \in Term /\ UNCHANGED <<terms, sold>>
      /\ status' = [status EXCEPT ![o] = "canceled"] /\ status \in [Orders -> Status]
  BY DEF SpotInv, TypeOK, Cancel
<1>2. /\ status'[o] = "canceled" /\ \A p \in Orders \ {o} : status'[p] = status[p]
  BY <1>1
<1>3. SoldIsExecuted'
  BY <1>1, <1>2 DEF SoldIsExecuted
<1>4. /\ Paid' = Paid \ {o} /\ (o \in Paid <=> t.side = "BUY")
  <2>1. \A p \in Orders : p \in Paid' <=> p \in Paid /\ p # o
    BY <1>1, <1>2 DEF Paid, Buys, Open, Executed
  <2>2. Paid \subseteq Orders /\ Paid' \subseteq Orders
    BY DEF Paid, Buys
  <2>3. o \in Paid <=> t.side = "BUY"
    BY <1>1 DEF Paid, Buys, Open
  <2> QED
    BY <2>1, <2>2, <2>3
<1>5. Cost' = Cost /\ Delivered' = Delivered /\ Proceeds' = Proceeds
  BY <1>1 DEF Cost, Delivered, Proceeds, Value, Keep
<1>6. \A a : SellsOf(a)' = SellsOf(a) /\ Received(a)' = Received(a)
  BY <1>1, <1>2 DEF SellsOf, Received, Buys, Executed
<1>7. CashLedger'
  <2>1. SUFFICES ASSUME ~ live
                 PROVE  assets'[Settlement] =
                          StartingBalance - SumFunctionOnSet(Cost, Paid \ {o})
                            + SumFunctionOnSet(Proceeds, Orders)
    BY <1>4, <1>5 DEF CashLedger, Cancel
  <2>2. assets[Settlement] = StartingBalance - SumFunctionOnSet(Cost, Paid)
                               + SumFunctionOnSet(Proceeds, Orders)
    BY <2>1 DEF Ledgers, CashLedger
  <2>3. CASE t.side = "BUY"
    <3>1. SumFunctionOnSet(Cost, Paid) = SumFunctionOnSet(Cost, Paid \ {o}) + Cost[o]
      <4>1. IsFiniteSet(Paid) /\ \A p \in Paid : Cost[p] \in Int
        BY <1>1, Summands
      <4> QED
        BY <1>4, <2>3, <4>1, SumLess
    <3>2. assets'[Settlement] = assets[Settlement] + Cost[o]
      BY <2>1, <2>3 DEF Cancel, SpotInv, TypeOK, Cost
    <3>3. Cost[o] \in Int /\ SumFunctionOnSet(Cost, Paid \ {o}) \in Int
      <4>1. IsFiniteSet(Paid \ {o}) /\ \A p \in Paid \ {o} : Cost[p] \in Int
        BY <1>1, Summands, FS_RemoveElement
      <4> QED
        BY <1>1, <4>1, SumIsInt, Summands
    <3> QED
      BY <1>1, <2>2, <3>1, <3>2, <3>3, Summands
  <2>4. CASE t.side # "BUY"
    <3>1. assets' = assets /\ Paid \ {o} = Paid
      BY <1>4, <2>1, <2>4 DEF Cancel
    <3> QED
      BY <2>2, <3>1
  <2> QED
    BY <2>3, <2>4
<1>8. BaseLedger'
  <2>1. SUFFICES ASSUME ~ live, NEW a \in BaseAssets
                 PROVE  assets'[a] = assets[a]
    BY <1>1, <1>5, <1>6 DEF Ledgers, BaseLedger, BaseAssets, Cancel
  <2>2. a \in Assets /\ a # Settlement
    BY DEF BaseAssets
  <2> QED
    BY <2>1, <2>2 DEF Cancel, SpotInv, TypeOK
<1> QED
  BY <1>3, <1>7, <1>8 DEF Ledgers

\* No order, no reservation, and the balance of the start.
LEMMA LedgerInit == Init => LedgerInv
<1> SUFFICES ASSUME Init PROVE LedgerInv
  OBVIOUS
<1>1. TypeOK
  BY SpotInit DEF SpotInv
<1>2. SoldIsExecuted
  BY DEF Init, SoldIsExecuted
<1>3. \A type, s : Reserving(type, s) = {}
  BY DEF Init, Reserving, Sells, Open
<1>4. Reservations
  <2>1. \A type, s : Reserved(type, s) = 0
    BY <1>3, SumEmpty DEF Reserved
  <2> QED
    BY <2>1 DEF Init, Reservations
<1>5. Paid = {} /\ \A b : Received(b) = {}
  BY DEF Init, Paid, Received, Buys, Open, Executed
<1>6. \A b : SellsOf(b) = {}
  BY DEF Init, SellsOf, NoTerm
<1>7. SumFunctionOnSet(Proceeds, Orders) = 0
  <2>1. \A o \in Orders : Proceeds[o] = [p \in Orders |-> 0][o]
    BY DEF Init, Proceeds, NoTerm, Keep
  <2>2. SumFunctionOnSet(Proceeds, Orders) = SumFunctionOnSet([p \in Orders |-> 0], Orders)
    BY <2>1, OrdersAssumption, SumSame
  <2>3. SumFunctionOnSet([p \in Orders |-> 0], Orders) = 0
    BY OrdersAssumption, SumOfZeros
  <2> QED
    BY <2>2, <2>3
<1>8. CashLedger
  BY <1>5, <1>7, SumEmpty DEF Init, CashLedger
<1>9. BaseLedger
  <2>1. \A b \in BaseAssets : assets[b] = StartingBase
    BY FollowsInit DEF Init, BaseAssets
  <2> QED
    BY <1>5, <1>6, <2>1, SumEmpty DEF BaseLedger
<1> QED
  BY <1>2, <1>4, <1>8, <1>9, SpotInit DEF LedgerInv, Ledgers

\* Every step keeps the books.
LEMMA LedgerNext == LedgerInv /\ [Next]_vars => LedgerInv'
<1> SUFFICES ASSUME LedgerInv, [Next]_vars PROVE LedgerInv'
  OBVIOUS
<1>1. SpotInv /\ SpotInv' /\ SoldIsExecuted /\ Reservations /\ Ledgers
  BY SpotNext DEF LedgerInv
<1>2. ASSUME NEW o \in Orders, NEW t \in Terms, Submit(o, t), UNCHANGED live
      PROVE  SoldIsExecuted' /\ Reservations' /\ Ledgers'
  BY <1>1, <1>2, ReservationsSubmit, LedgersSubmit
<1>3. ASSUME NEW o \in Orders, NEW t \in Terms, Reject(o, t), UNCHANGED live
      PROVE  SoldIsExecuted' /\ Reservations' /\ Ledgers'
  <2>1. \A p \in Orders : (Open(p) <=> Open(p)') /\ (Executed(p) <=> Executed(p)')
    BY <1>1, <1>3 DEF Reject, Open, Executed, SpotInv, TypeOK
  <2> QED
    BY <1>1, <1>3, <2>1, SumsKept DEF Reject
<1>4. ASSUME NEW o \in Orders, Execute(o), UNCHANGED live
      PROVE  SoldIsExecuted' /\ Reservations' /\ Ledgers'
  BY <1>1, <1>4, ReservationsEnd, LedgersExecute
<1>5. ASSUME NEW o \in Orders, Cancel(o), UNCHANGED live
      PROVE  SoldIsExecuted' /\ Reservations' /\ Ledgers'
  BY <1>1, <1>5, ReservationsEnd, LedgersCancel
<1>6. ASSUME NEW balance \in Streamed, UpdateFromStream(balance), UNCHANGED live
      PROVE  SoldIsExecuted' /\ Reservations' /\ Ledgers'
  <2>1. live /\ live'
    BY <1>6 DEF UpdateFromStream
  <2>2. SoldIsExecuted'
    BY <1>1, <1>6 DEF UpdateFromStream, SoldIsExecuted
  <2> QED
    BY <2>1, <2>2 DEF Reservations, Ledgers, CashLedger, BaseLedger
<1>7. ASSUME UNCHANGED vars
      PROVE  SoldIsExecuted' /\ Reservations' /\ Ledgers'
  BY <1>1, <1>7, SumsKept DEF vars, ledgerVars, Open, Executed
<1> QED
  BY <1>1, <1>2, <1>3, <1>4, <1>5, <1>6, <1>7 DEF Next, LedgerInv

\* For every set of orders and terms, in every interleaving: what is reserved
\* per symbol is the sum over its open sells.
THEOREM ReservationsExact == Spec => []Reservations
<1>1. LedgerInv => Reservations
  BY DEF LedgerInv
<1> QED
  BY LedgerInit, LedgerNext, <1>1, PTL DEF Spec

\* For every set of orders, every fee and every balance to start with: wallet
\* and base assets are what the orders that were paid, executed and cancelled
\* make them.
THEOREM LedgersBalance == Spec => []Ledgers
<1>1. LedgerInv => Ledgers
  BY DEF LedgerInv
<1> QED
  BY LedgerInit, LedgerNext, <1>1, PTL DEF Spec
===============================================================================
