----------------------------- MODULE ConnectionUse -----------------------------
(***************************************************************************)
(* The data layer on top of the pool (src/DB.cpp): TransactionGuard, and   *)
(* the functions that take a shared_ptr to a connection (findById,         *)
(* findByFilter, save, batchSave, saveCandles).  When that pointer is null *)
(* they bind a reference to the object a temporary shared_ptr owns: the    *)
(* deleter runs at the end of that line, before the statements.            *)
(*                                                                         *)
(* A thread runs one of the operations in Operations at a time, and every  *)
(* step of the pool is one of ConnectionPool.                              *)
(***************************************************************************)
EXTENDS ConnectionPool

CONSTANT Operations   \* which of "held", "guard", "null" the threads use

ASSUME OperationsAssumption == Operations \subseteq {"held", "guard", "null"}

VARIABLES
    stage,   \* where each thread is in the data layer
    using,   \* the connection each thread runs statements on
    tx       \* connections with an open transaction (_transaction_active)

useVars == <<stage, using, tx>>
allVars == <<vars, useVars>>

\* "out": in no operation; "borrowing": Database::getConnection, then the
\* caller's own use of it; "guarding": in TransactionGuard's constructor;
\* "open": the guard exists; "closing": its transaction is over, conn_ is not yet
\* released; "fetching": evaluating the null-pointer default; "borrowed": using it.
Stages == {"out", "borrowing", "guarding", "open", "closing", "fetching", "borrowed"}

UseTypeOK ==
    /\ TypeOK
    /\ stage \in [Thread -> Stages]
    /\ using \in [Thread -> SUBSET Conn]
    /\ tx \in SUBSET Conn

UseInit ==
    /\ Init
    /\ stage = [t \in Thread |-> "out"]
    /\ using = [t \in Thread |-> {}]
    /\ tx = {}

Moves(t, s) == stage' = [stage EXCEPT ![t] = s]
Quiet(t)    == pc[t] = "idle" /\ using[t] = {}

\* The deleter of t's shared_ptr, which takes t to s.  A connection the pool
\* destroys takes its transaction with it; one that goes back to the queue keeps it.
Returned(t, c, s) ==
    /\ Release(t, c)
    /\ tx' = tx \cap Open'
    /\ stage' = IF terminated' THEN stage ELSE [stage EXCEPT ![t] = s]

-------------------------------------------------------------------------------
\* Database::getConnection by a caller that keeps the shared_ptr.
Borrow(t) ==
    /\ "held" \in Operations
    /\ stage[t] = "out" /\ Quiet(t)
    /\ Call(t) /\ Moves(t, "borrowing")
    /\ UNCHANGED <<using, tx>>

\* Its getConnection threw.
BorrowFails(t) ==
    /\ stage[t] = "borrowing" /\ pc[t] = "idle" /\ held[t] = {}
    /\ Moves(t, "out")
    /\ UNCHANGED <<vars, using, tx>>

\* The borrower is done with its connection: the deleter of its shared_ptr runs.
GiveUp(t, c) ==
    /\ stage[t] = "borrowing" /\ Quiet(t)
    /\ Returned(t, c, "out") /\ UNCHANGED using

\* TransactionGuard::TransactionGuard: refused during a shutdown.
Guard(t) ==
    /\ "guard" \in Operations
    /\ stage[t] = "out" /\ Quiet(t) /\ ~isShuttingDown
    /\ Call(t) /\ mode'[t] = "plain"
    /\ Moves(t, "guarding")
    /\ UNCHANGED <<using, tx>>

GuardRefused(t) ==
    /\ stage[t] = "guarding" /\ pc[t] = "idle" /\ held[t] = {}
    /\ Moves(t, "out")
    /\ UNCHANGED <<vars, using, tx>>

\* start_transaction: throws on a connection that is dead or already in a
\* transaction, and the exception destroys conn_.
Begin(t) ==
    /\ stage[t] = "guarding" /\ Quiet(t)
    /\ \E c \in held[t] :
         IF c \in dead \cup tx THEN Moves(t, "closing") /\ UNCHANGED tx
         ELSE Moves(t, "open") /\ tx' = tx \cup {c}
    /\ UNCHANGED <<vars, using>>

\* TransactionGuard::commit: sqlpp marks the transaction over, then sends COMMIT.
Commit(t) ==
    /\ stage[t] = "open" /\ Quiet(t)
    /\ tx' = tx \ held[t]
    /\ UNCHANGED <<vars, stage, using>>

\* Mutant: the destructor trusts commit() to have been called.
EndWithoutRollback(t) ==
    /\ stage[t] = "open" /\ Quiet(t)
    /\ Moves(t, "closing")
    /\ UNCHANGED <<vars, using, tx>>

\* ~TransactionGuard: roll back unless committed.  ROLLBACK fails on a dead
\* connection, which then keeps the flag.
End(t) ==
    /\ stage[t] = "open" /\ Quiet(t)
    /\ tx' = tx \ (held[t] \ dead)
    /\ Moves(t, "closing")
    /\ UNCHANGED <<vars, using>>

\* TransactionGuard::rollback, after which the guard still exists.
Rollback(t) ==
    /\ stage[t] = "open" /\ Quiet(t)
    /\ tx' = tx \ (held[t] \ dead)
    /\ UNCHANGED <<vars, stage, using>>

\* conn_ is destroyed: its deleter runs.
CloseGuard(t, c) ==
    /\ stage[t] = "closing"
    /\ Returned(t, c, "out") /\ UNCHANGED using

\* An operation called without a connection (nullptr is the default argument of
\* save): it evaluates *(conn_ptr ? conn_ptr : Database::getConnection()).
Fetch(t) ==
    /\ "null" \in Operations
    /\ stage[t] = "out" /\ Quiet(t)
    /\ Call(t) /\ mode'[t] = "plain"
    /\ Moves(t, "fetching")
    /\ UNCHANGED <<using, tx>>

FetchFails(t) ==
    /\ stage[t] = "fetching" /\ pc[t] = "idle" /\ held[t] = {}
    /\ Moves(t, "out")
    /\ UNCHANGED <<vars, using, tx>>

\* The temporary dies and the reference stays: the statements begin.
Fetched(t, c) ==
    /\ stage[t] = "fetching"
    /\ Returned(t, c, "borrowed")
    /\ using' = IF terminated' THEN using ELSE [using EXCEPT ![t] = {c}]

\* An operation called with the caller's own connection.
Use(t, c) ==
    /\ stage[t] \in {"borrowing", "open"} /\ Quiet(t) /\ c \in held[t]
    /\ using' = [using EXCEPT ![t] = {c}]
    /\ UNCHANGED <<vars, stage, tx>>

\* The statements have run, or thrown; ConnectionStateGuard is gone.
UseEnds(t) ==
    /\ using[t] # {}
    /\ using' = [using EXCEPT ![t] = {}]
    /\ Moves(t, IF stage[t] = "borrowed" THEN "out" ELSE stage[t])
    /\ UNCHANGED <<vars, tx>>

-------------------------------------------------------------------------------
\* The steps of the pool and of the shutdown that are no operation's own.
InPool(t) == Get(t) \/ Leave(t) \/ WakeSleeps(t) \/ ProbeAlive(t) \/ ProbeDead(t)

DropProbe(t) ==
    /\ Drop(t)
    /\ tx' = tx \cap Open'
    /\ UNCHANGED <<stage, using>>

Stop(t) ==
    /\ \/ stage[t] = "out" /\ Quiet(t) /\ Shutdown(t)
       \/ Launch(t) \/ ShutdownReturns(t)
    /\ UNCHANGED useVars

Environment ==
    /\ \/ InitPool \/ SetMaxConnections \/ \E c \in Conn : Die(c)
       \/ Signal \/ SignalLaunch \/ ShutdownWorker
    /\ UNCHANGED useVars

Operation(t) ==
    \/ Borrow(t) \/ BorrowFails(t) \/ \E c \in Conn : GiveUp(t, c)
    \/ Guard(t) \/ GuardRefused(t) \/ Begin(t)
    \/ Commit(t) \/ Rollback(t) \/ End(t) \/ \E c \in Conn : CloseGuard(t, c)
    \/ Fetch(t) \/ FetchFails(t) \/ \E c \in Conn : Fetched(t, c)
    \/ \E c \in Conn : Use(t, c)
    \/ UseEnds(t)

UseNext ==
    /\ ~terminated
    /\ \/ Environment
       \/ \E t \in Thread : \/ Operation(t) \/ DropProbe(t) \/ Stop(t)
                            \/ InPool(t) /\ UNCHANGED useVars

UseSpec == UseInit /\ [][UseNext]_allVars

-------------------------------------------------------------------------------
\* A connection goes back to the queue without an open transaction, whatever
\* commits, rollbacks and deaths of the connection preceded its return: no guard
\* fails, and no operation runs, inside the transaction of a previous owner.
CleanReturn == availableConnections \cap tx = {}
===============================================================================
