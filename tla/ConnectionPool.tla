---------------------------- MODULE ConnectionPool ----------------------------
(***************************************************************************)
(* ct::db::ConnectionPool and ct::db::DatabaseShutdownManager (src/DB.cpp):*)
(* threads borrow PostgreSQL connections through shared_ptrs whose deleter *)
(* is returnConnection, wait on a condition variable when the pool is at   *)
(* its limit, and race with a shutdown that drains the pool.               *)
(*                                                                         *)
(* Everything a function does while it owns mutex_ is one action.  The     *)
(* only shared state such a section reads that mutex_ does not protect is  *)
(* the atomic shuttingDown_, which every section reads at most once.       *)
(***************************************************************************)
EXTENDS Integers, FiniteSets

CONSTANTS Thread,             \* threads that use the database
          Conn,               \* identities of connection objects
          PoolSize,           \* connections ConnectionPool::init opens
          MaxConnections,     \* maxConnections_ before any setMaxConnections
          Limits,             \* arguments setMaxConnections is called with
          MaxLimit,           \* the largest limit ever in force
          MaxHeld             \* bound: connections a thread asks for at once

ASSUME PoolAssumption ==
    /\ IsFiniteSet(Thread) /\ IsFiniteSet(Conn)
    /\ PoolSize \in Nat /\ MaxLimit \in Nat /\ MaxHeld \in Nat
    /\ MaxConnections \in Nat /\ Limits \subseteq Nat
    /\ PoolSize <= MaxLimit /\ MaxConnections <= MaxLimit
    /\ \A n \in Limits : n <= MaxLimit

VARIABLES
    availableConnections,  \* idle connections (the queue's order is abstracted)
    managedConnections,    \* connections lent out
    activeConnections,     \* the counter the code keeps beside them
    maxConnections,        \* the limit in force
    initialized,           \* a connection has ever been created
    dead,                  \* connections whose server side is gone
    terminated,            \* std::terminate has ended the process
    pc,                    \* where each thread is
    mode,                  \* which getConnection call the thread is in
    held,                  \* connections the thread owns a shared_ptr to
    probe,                 \* the connection getConnectionWithHealthCheck tests
    phase,                 \* progress of the one shutdown
    drainAsleep,           \* the drain sleeps on connectionReturned_
    signal                 \* progress of handleSignal

poolVars     == <<availableConnections, managedConnections, activeConnections,
                  maxConnections, initialized>>
threadVars   == <<pc, mode, held, probe>>
shutdownVars == <<phase, drainAsleep, signal>>
vars         == <<poolVars, dead, terminated, threadVars, shutdownVars>>

\* "calling": about to lock mutex_ in getConnection; "asleep" and "notified":
\* inside wait_for; "probing": running SELECT 1; "dropping": about to release
\* probe; "launching": has won the CAS; "awaiting": in waitForShutdown.
Places == {"idle", "calling", "asleep", "notified", "probing", "dropping",
           "launching", "awaiting"}

\* A plain getConnection, or the first and the second one of the health check.
Modes == {"plain", "check", "replace"}

\* "claimed": CAS done, std::async not yet; then the steps of performShutdown.
Phases == {"running", "claimed", "hooks", "draining", "completing", "done"}

TypeOK ==
    /\ availableConnections \in SUBSET Conn
    /\ managedConnections \in SUBSET Conn
    /\ activeConnections \in Nat
    /\ maxConnections \in Nat
    /\ initialized \in BOOLEAN
    /\ dead \in SUBSET Conn
    /\ terminated \in BOOLEAN
    /\ pc \in [Thread -> Places]
    /\ mode \in [Thread -> Modes]
    /\ held \in [Thread -> SUBSET Conn]
    /\ probe \in [Thread -> SUBSET Conn]
    /\ phase \in Phases
    /\ drainAsleep \in BOOLEAN
    /\ signal \in {"none", "launching"}

isShuttingDown == phase # "running"
futureValid    == phase \notin {"running", "claimed"}
Open           == availableConnections \cup managedConnections
Asleep         == {t \in Thread : pc[t] = "asleep"}
Notified       == {t \in Thread : pc[t] = "notified"}

Init ==
    /\ availableConnections = {} /\ managedConnections = {}
    /\ activeConnections = 0 /\ maxConnections = MaxConnections
    /\ initialized = FALSE
    /\ dead = {} /\ terminated = FALSE
    /\ pc = [t \in Thread |-> "idle"] /\ mode = [t \in Thread |-> "plain"]
    /\ held = [t \in Thread |-> {}] /\ probe = [t \in Thread |-> {}]
    /\ phase = "running" /\ drainAsleep = FALSE /\ signal = "none"

-------------------------------------------------------------------------------
\* init opens the first PoolSize connections; createNewConnection may throw
\* part way, which keeps those already opened.  The program calls it again only
\* if nothing was opened.
InitPool ==
    /\ ~initialized
    /\ \E S \in SUBSET Conn :
         /\ S # {} /\ Cardinality(S) <= PoolSize
         /\ availableConnections' = S
    /\ initialized' = TRUE
    /\ UNCHANGED <<managedConnections, activeConnections, maxConnections,
                   dead, terminated, threadVars, shutdownVars>>

\* setMaxConnections only stores the limit: it wakes nobody.
SetMaxConnections ==
    /\ maxConnections' \in Limits \ {maxConnections}
    /\ UNCHANGED <<availableConnections, managedConnections, activeConnections,
                   initialized, dead, terminated, threadVars, shutdownVars>>

\* The server drops a connection, idle or lent.
Die(c) ==
    /\ c \in Open \ dead
    /\ dead' = dead \cup {c}
    /\ UNCHANGED <<poolVars, terminated, threadVars, shutdownVars>>

-------------------------------------------------------------------------------
\* A thread calls getConnection or getConnectionWithHealthCheck.
Call(t) ==
    /\ pc[t] = "idle" /\ Cardinality(held[t]) < MaxHeld
    /\ pc' = [pc EXCEPT ![t] = "calling"]
    /\ \E m \in {"plain", "check"} : mode' = [mode EXCEPT ![t] = m]
    /\ UNCHANGED <<poolVars, dead, terminated, held, probe, shutdownVars>>

\* Where a getConnection that succeeds takes its caller.
Continuation(m) == IF m = "plain" THEN "idle"
                   ELSE IF m = "check" THEN "probing" ELSE "dropping"

\* The pending getConnection of t returns c.
Returns(t, c) ==
    /\ held' = [held EXCEPT ![t] = @ \cup {c}]
    /\ managedConnections' = managedConnections \cup {c}
    /\ activeConnections' = activeConnections + 1
    /\ pc' = [pc EXCEPT ![t] = Continuation(mode[t])]
    /\ probe' = [probe EXCEPT ![t] = IF mode[t] = "check" THEN {c} ELSE @]
    /\ mode' = [mode EXCEPT ![t] = "plain"]
    /\ UNCHANGED <<maxConnections, dead, terminated, shutdownVars>>

\* The pending getConnection of t throws; unwinding the health check releases
\* the connection it was replacing.
Throws(t) ==
    /\ pc' = [pc EXCEPT ![t] = IF mode[t] = "replace" THEN "dropping" ELSE "idle"]
    /\ mode' = [mode EXCEPT ![t] = "plain"]
    /\ UNCHANGED <<poolVars, dead, terminated, held, probe, shutdownVars>>

GetRejected(t) ==
    /\ pc[t] = "calling"
    /\ ~initialized \/ isShuttingDown
    /\ Throws(t)

\* Mutant: getConnection does not look at the shutdown flag.
AdmittedAlways(t) == pc[t] = "calling" /\ initialized

Admitted(t) == pc[t] = "calling" /\ initialized /\ ~isShuttingDown

\* Mutant: the connection stays in the queue.
GetAvailableUnpopped(t, c) ==
    /\ Admitted(t)
    /\ c \in availableConnections
    /\ Returns(t, c)
    /\ UNCHANGED <<availableConnections, initialized>>

GetAvailable(t, c) ==
    /\ Admitted(t)
    /\ c \in availableConnections
    /\ availableConnections' = availableConnections \ {c}
    /\ Returns(t, c)
    /\ UNCHANGED initialized

\* Mutant: the limit is compared with <=.
GetCreatesOffByOne(t, c) ==
    /\ Admitted(t)
    /\ availableConnections = {} /\ activeConnections <= maxConnections
    /\ c \notin Open
    /\ Returns(t, c)
    /\ UNCHANGED <<availableConnections, initialized>>

\* The pool is empty but below its limit: open a connection and take it.
GetCreates(t, c) ==
    /\ Admitted(t)
    /\ availableConnections = {} /\ activeConnections < maxConnections
    /\ c \notin Open
    /\ Returns(t, c)
    /\ UNCHANGED <<availableConnections, initialized>>

GetCreateFails(t) ==
    /\ Admitted(t)
    /\ availableConnections = {} /\ activeConnections < maxConnections
    /\ Throws(t)

GetSleeps(t) ==
    /\ Admitted(t)
    /\ availableConnections = {} /\ activeConnections >= maxConnections
    /\ pc' = [pc EXCEPT ![t] = "asleep"]
    /\ UNCHANGED <<poolVars, dead, terminated, mode, held, probe, shutdownVars>>

Waiting(t) == pc[t] \in {"asleep", "notified"}

\* The waiter finds a connection: notified, timed out or woken spuriously.  The
\* shutdown flag is not read again.
WakeTakes(t, c) ==
    /\ Waiting(t)
    /\ c \in availableConnections
    /\ availableConnections' = availableConnections \ {c}
    /\ Returns(t, c)
    /\ UNCHANGED initialized

\* Notified, but another thread took the connection first: wait again.
WakeSleeps(t) ==
    /\ pc[t] = "notified" /\ availableConnections = {}
    /\ pc' = [pc EXCEPT ![t] = "asleep"]
    /\ UNCHANGED <<poolVars, dead, terminated, mode, held, probe, shutdownVars>>

TimesOut(t) ==
    /\ Waiting(t) /\ availableConnections = {}
    /\ Throws(t)

-------------------------------------------------------------------------------
\* Mutant: a returned connection wakes nobody.
NotifyNone(t, next) == pc' = [pc EXCEPT ![t] = next]

\* notify_one on connectionAvailable_; t is leaving for place next.
NotifyOne(t, next) ==
    IF Asleep = {} THEN pc' = [pc EXCEPT ![t] = next]
    ELSE \E w \in Asleep : pc' = [pc EXCEPT ![t] = next, ![w] = "notified"]

\* What returnConnection leaves in the pool: a live connection goes back, a dead
\* one is replaced, and during a shutdown neither happens.
GoesBack(c) ==
    \/ /\ isShuttingDown
       /\ UNCHANGED availableConnections
    \/ /\ ~isShuttingDown /\ c \notin dead
       /\ availableConnections' = availableConnections \cup {c}
    \/ /\ ~isShuttingDown /\ c \in dead
       /\ \E n \in Conn \ Open : availableConnections' = availableConnections \cup {n}

\* Mutant: a return during the shutdown forgets activeConnections_--.
ReturnUncounted(t, c) ==
    /\ c \in held[t] /\ c \in managedConnections
    /\ held' = [held EXCEPT ![t] = @ \ {c}]
    /\ GoesBack(c)
    /\ dead' = dead \ {c}
    /\ managedConnections' = managedConnections \ {c}
    /\ activeConnections' = IF isShuttingDown THEN activeConnections ELSE activeConnections - 1
    /\ NotifyOne(t, "idle")
    /\ drainAsleep' = FALSE
    /\ UNCHANGED <<maxConnections, initialized, terminated, phase, signal>>

\* Mutant: connectionReturned_ is not notified.
ReturnUnnotified(t, c) ==
    /\ c \in held[t] /\ c \in managedConnections
    /\ held' = [held EXCEPT ![t] = @ \ {c}]
    /\ GoesBack(c)
    /\ dead' = dead \ {c}
    /\ managedConnections' = managedConnections \ {c}
    /\ activeConnections' = activeConnections - 1
    /\ NotifyOne(t, "idle")
    /\ UNCHANGED <<maxConnections, initialized, terminated, shutdownVars>>

\* The deleter of t's shared_ptr to c.
ReturnConnection(t, c) ==
    /\ c \in held[t] /\ c \in managedConnections
    /\ held' = [held EXCEPT ![t] = @ \ {c}]
    /\ GoesBack(c)
    /\ dead' = dead \ {c}
    /\ managedConnections' = managedConnections \ {c}
    /\ activeConnections' = activeConnections - 1
    /\ NotifyOne(t, "idle")
    /\ drainAsleep' = FALSE
    /\ UNCHANGED <<maxConnections, initialized, terminated, phase, signal>>

\* Replacing a dead connection throws inside the deleter: std::terminate.
ReplacementFails(c) ==
    /\ c \in dead /\ ~isShuttingDown
    /\ terminated' = TRUE
    /\ UNCHANGED <<poolVars, dead, threadVars, shutdownVars>>

Release(t, c) ==
    /\ pc[t] = "idle" /\ c \in held[t]
    /\ \/ ReturnConnection(t, c) /\ UNCHANGED <<mode, probe>>
       \/ ReplacementFails(c)

\* getConnectionWithHealthCheck after its first getConnection.
ProbeAlive(t) ==
    /\ pc[t] = "probing" /\ probe[t] \cap dead = {}
    /\ pc' = [pc EXCEPT ![t] = "idle"]
    /\ probe' = [probe EXCEPT ![t] = {}]
    /\ UNCHANGED <<poolVars, dead, terminated, mode, held, shutdownVars>>

\* The dead connection is still held while the second getConnection runs.
ProbeDead(t) ==
    /\ pc[t] = "probing" /\ probe[t] \subseteq dead
    /\ pc' = [pc EXCEPT ![t] = "calling"]
    /\ mode' = [mode EXCEPT ![t] = "replace"]
    /\ UNCHANGED <<poolVars, dead, terminated, held, probe, shutdownVars>>

\* conn is overwritten, or destroyed by the exception: its deleter runs.
Drop(t) ==
    /\ pc[t] = "dropping"
    /\ \E c \in probe[t] :
         \/ /\ ReturnConnection(t, c)
            /\ probe' = [probe EXCEPT ![t] = {}]
            /\ UNCHANGED mode
         \/ ReplacementFails(c)

-------------------------------------------------------------------------------
\* Mutant: shutdown() stores TRUE without testing the old value.
ShutdownUnguarded(t) ==
    /\ pc[t] = "idle"
    /\ pc' = [pc EXCEPT ![t] = "launching"] /\ phase' = "claimed"
    /\ UNCHANGED <<poolVars, dead, terminated, mode, held, probe, drainAsleep, signal>>

\* Database::shutdown: claim the shutdown, start the worker, wait for it.
Shutdown(t) ==
    /\ pc[t] = "idle"
    /\ IF isShuttingDown
       THEN pc' = [pc EXCEPT ![t] = "awaiting"] /\ UNCHANGED phase
       ELSE pc' = [pc EXCEPT ![t] = "launching"] /\ phase' = "claimed"
    /\ UNCHANGED <<poolVars, dead, terminated, mode, held, probe, drainAsleep, signal>>

Launch(t) ==
    /\ pc[t] = "launching"
    /\ pc' = [pc EXCEPT ![t] = "awaiting"]
    /\ phase' = "hooks"
    /\ UNCHANGED <<poolVars, dead, terminated, mode, held, probe, drainAsleep, signal>>

\* waitForShutdown: nothing to wait for when the future is not yet valid.
ShutdownReturns(t) ==
    /\ pc[t] = "awaiting"
    /\ ~futureValid \/ phase = "done"
    /\ pc' = [pc EXCEPT ![t] = "idle"]
    /\ UNCHANGED <<poolVars, dead, terminated, mode, held, probe, shutdownVars>>

\* handleSignal, installed once the pool is up, runs shutdown() without waiting.
Signal ==
    /\ initialized /\ ~isShuttingDown
    /\ signal' = "launching" /\ phase' = "claimed"
    /\ UNCHANGED <<poolVars, dead, terminated, threadVars, drainAsleep>>

SignalLaunch ==
    /\ signal = "launching"
    /\ signal' = "none" /\ phase' = "hooks"
    /\ UNCHANGED <<poolVars, dead, terminated, threadVars, drainAsleep>>

\* performShutdown; a hook that throws is logged and skipped.
RunHooks ==
    /\ phase = "hooks" /\ phase' = "draining"
    /\ UNCHANGED <<poolVars, dead, terminated, threadVars, drainAsleep, signal>>

DrainSleeps ==
    /\ phase = "draining" /\ ~drainAsleep
    /\ activeConnections > 0
    /\ drainAsleep' = TRUE
    /\ UNCHANGED <<poolVars, dead, terminated, threadVars, phase, signal>>

DrainEnds ==
    /\ phase = "draining" /\ ~drainAsleep
    /\ activeConnections = 0
    /\ phase' = "completing"
    /\ UNCHANGED <<poolVars, dead, terminated, threadVars, drainAsleep, signal>>

RunCompletionHooks ==
    /\ phase = "completing" /\ phase' = "done"
    /\ UNCHANGED <<poolVars, dead, terminated, threadVars, drainAsleep, signal>>

-------------------------------------------------------------------------------
Get(t) == \/ GetRejected(t) \/ GetCreateFails(t) \/ GetSleeps(t)
          \/ \E c \in Conn : GetAvailable(t, c) \/ GetCreates(t, c)

\* Mutant: wait without a deadline.
LeaveOnlyServed(t) == \E c \in Conn : WakeTakes(t, c)

Leave(t) == TimesOut(t) \/ \E c \in Conn : WakeTakes(t, c)

ThreadStep(t) ==
    \/ Call(t) \/ Get(t) \/ Leave(t) \/ WakeSleeps(t)
    \/ \E c \in Conn : Release(t, c)
    \/ ProbeAlive(t) \/ ProbeDead(t) \/ Drop(t)
    \/ Shutdown(t) \/ Launch(t) \/ ShutdownReturns(t)

ShutdownWorker == RunHooks \/ DrainSleeps \/ DrainEnds \/ RunCompletionHooks

Next ==
    /\ ~terminated
    /\ \/ InitPool \/ SetMaxConnections
       \/ \E c \in Conn : Die(c)
       \/ \E t \in Thread : ThreadStep(t)
       \/ Signal \/ SignalLaunch \/ ShutdownWorker

Spec == Init /\ [][Next]_vars

\* What the scheduler and the code give: a thread inside the pool's code or in
\* shutdown() keeps running, wait_for has a deadline, and the operation that
\* borrowed a connection ends.  Calls, deaths and signals are never forced.
Running(t) == \/ Get(t) \/ Leave(t) \/ ProbeAlive(t) \/ ProbeDead(t) \/ Drop(t)
              \/ Launch(t) \/ ShutdownReturns(t)

Fairness ==
    /\ \A t \in Thread : /\ WF_vars(~terminated /\ Running(t))
                         /\ WF_vars(~terminated /\ \E c \in Conn : Release(t, c))
    /\ WF_vars(~terminated /\ (SignalLaunch \/ ShutdownWorker))

FairSpec == Spec /\ Fairness
-------------------------------------------------------------------------------
\* Safety.

\* The counter the shutdown waits on (waitForConnectionsToClose) counts exactly
\* the connections lent out, through every return, replacement and time-out.
Accounting == activeConnections = Cardinality(managedConnections)

\* A connection lent out has one owner, is not in the queue at the same time,
\* and every connection the pool believes lent is owned by some thread.
Ownership ==
    /\ \A t, u \in Thread : t # u => held[t] \cap held[u] = {}
    /\ managedConnections = UNION {held[t] : t \in Thread}
    /\ availableConnections \cap managedConnections = {}

\* All of the pool's books: returnConnection and getConnection change the queue,
\* the lent connections and the counter on half a dozen paths, and they agree
\* whichever was taken.
Consistent == TypeOK /\ Accounting /\ Ownership

\* The pool never opens more connections than the largest limit ever in force,
\* although replacing a dead connection opens one without reading the limit.
LimitRespected == Cardinality(Open) <= MaxLimit

\* No wake-up is lost: while a thread sleeps in getConnection, every connection
\* in the queue has a notified thread on its way to it.
NoLostWakeup == Asleep # {} => Cardinality(availableConnections) <= Cardinality(Notified)

\* Once the shutdown is claimed no thread starts to wait for a connection, and
\* only threads that were waiting by then can still obtain one: at any time,
\* also when the drain has ended, since shuttingDown_ is not read after the wait.
AdmissionClosed ==
    [][isShuttingDown =>
         \A t \in Thread : Waiting(t)' \/ ~(held'[t] \subseteq held[t]) => Waiting(t)]_vars

\* The shutdown runs once: whatever threads and signals ask for it, its phases
\* follow each other and none is repeated.
PhaseOrder == <<"running", "claimed", "hooks", "draining", "completing", "done">>
ShutdownOnce ==
    [][phase' # phase =>
         \E i \in 1..5 : phase = PhaseOrder[i] /\ phase' = PhaseOrder[i + 1]]_vars

\* The pool implements exclusive leases of open connections.
Lease == INSTANCE ConnectionLease WITH lease <- held, open <- Open
LeasesExclusive == Lease!LeaseSpec

-------------------------------------------------------------------------------
\* Liveness, under FairSpec.

\* getConnection does not block for ever: it returns or throws.
GetReturns == \A t \in Thread : (pc[t] = "calling" \/ Waiting(t)) ~> (pc[t] = "idle" \/ terminated)

\* A thread that waits for the shutdown while it owns a connection.
BlocksItself(t) == pc[t] = "awaiting" /\ held[t] # {}

\* A launched shutdown runs to its end, unless the process dies or a thread
\* waits for it with a connection in its hands.
ShutdownCompletes ==
    (phase = "hooks") ~> (phase = "done" \/ terminated \/ \E t \in Thread : BlocksItself(t))

===============================================================================
