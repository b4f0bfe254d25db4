# A TLA+ model of cipherTrader

cipherTrader is a C++ trading framework: strategies place orders through a broker,
simulated or live exchanges execute them, positions and trades follow, candles and order
books come in from the market, and everything is kept in PostgreSQL. A separate arbitrage
bot trades three-leg cycles over WebSocket market data. This directory holds TLA+ modules
that model the program's own logic, TLC configurations that check them on small
instances, and TLAPS proofs of the results that matter for every instance.

    tlc -config PoolSafety.cfg MCConnectionPool     checks one configuration
    tlapm ConnectionProofs.tla                      checks one module's proofs

`PROJECT.json` lists the runs, which lines of source each definition stands for, the
mutation each property detects, the hazards, the findings and the theorems.

## 1. The system

Paths are relative to the repository. "Shared" says who else touches the state.

| Component | State | Operations | Interaction | What is hard | What makes it correct |
|---|---|---|---|---|---|
| ConnectionPool (`src/DB.cpp` 98-320) | idle queue, lent connections, counter, limit, `mutex_`, two condition variables | init, getConnection, ...WithHealthCheck, setMaxConnections, return by `shared_ptr` deleter, drain | every thread that uses the database; the shutdown | waiting with a deadline, notify-one, connections that die, limits that move, a shutdown at any point | the counter is exact, one owner per connection, limit kept, no lost wake-up, calls return |
| DatabaseShutdownManager (`src/DB.cpp` 20-97, 340-372) | `shuttingDown_`, future, hooks | shutdown, handleSignal, waitForShutdown, performShutdown | drains the pool through its condition variable | a compare-exchange followed by an unsynchronised assignment, waiters that are admitted already | runs once, in order, ends; admission closes |
| TransactionGuard and data operations (`src/DB.cpp` 380-780 and users) | a transaction per connection | begin, commit, rollback, destructor; find, save with or without a connection of the caller's | on top of the pool | references that outlive ownership; deaths in a transaction | one thread per connection, clean returns |
| Models, saving, migrations (`src/DB.cpp`, `include/DB.hpp`, `migrations/`) | rows of eleven tables | save with conflict check, saveCandles, findById, findByFilter | PostgreSQL | check and act in two statements; the columns of a model repeated in ten places | one row per key, what is saved reads back |
| Spot account (`src/Exchange.cpp` 14-379) | balances, sums reserved by STOP and LIMIT sells, `mutex_` | submission, execution, cancellation, stream update | called for each order, from several threads | competing orders, exceptions half-way | never overdrawn, sums exact, both ledgers balance |
| Futures account (`src/Exchange.cpp` 424-715) | wallet, available assets, order lists | submission, cancellation, execution, PnL and fees | Position, orders | a lock taken twice, throws after assignment | submitted orders account for what is available |
| Exchange registry (`src/Exchange.cpp` 770-1325) | tables filled once | getters | accounts, helpers | settlement currency per exchange | table look-ups agree |
| Orders: Broker, Api, Sandbox, OrdersState, db::Order | order status, `storage_`, `active_storage_`, `to_execute_` | submit, cancel one or all, execute, fill, queue, resubmit, flush, refresh, remove, reset | strategy to exchange and back | the same order in three containers, emptied by different operations | ends are final, live orders stay visible, cancelled ones are never executed |
| Position (`src/Position.cpp`) | quantity, entry price, exit price | open, increase, reduce, close, stream update | executed orders, accounts, closed trades | fees, flips, reduce-only, two sources of updates | quantity is the sum of executed orders |
| Trades, ClosedTrades (`src/Trade.cpp`) | current trade per market, history | add trade, open, add order, close | Position | an identifier made at look-up | each executed order in exactly one trade |
| Candles (`src/Candle.cpp`) | rows per timeframe, generator thread | add, generate higher timeframes, forming candle, reset | data feed, strategies | a writer thread, late candles, boundaries of a minute | ordered, one row per minute, aggregates agree |
| DynamicArray (`src/DynamicArray.cpp`) | matrix, index, bucket, drop limit | append, slice, delete, flush, find | under candles, trades, books | index arithmetic at bucket and drop limits | behaves as a bounded sequence |
| Order books, tickers (`src/Orderbook.cpp`, `src/Ticker.cpp`) | levels, last rows | add once a second, trim to buckets | data feed | boundaries of buckets | trimmed levels keep quantity and order |
| Cache (`src/Cache.cpp`) | index file, value files | set, get, flush | file system | a stop between index and value, expiry | an entry has its value |
| WebSocket client (`arbitrage/websocket_client.hpp`) | connection flag, stream, `mutex_` | connect, send; handlers that nothing runs | bot | error paths that lock again | no deadlock |
| Market data, calculator (`arbitrage/market_data.hpp`, not modelled) | books of three markets | update, read, profit of a cycle | nobody includes it | direction of a quote | the better way round is reported |
| Arbitrage bot (`arbitrage/main.cpp`) | market of the sweep, leg of the cycle | quotes with retries, three legs, wallet polling, signal | remote exchange | unbounded polling, abandoned cycles, answers lost after the fact | what was in the wallet before is not traded, no leg is ordered twice |
| Helpers, timeframes, enums (`src/Helper.cpp`, `src/Timeframe.cpp`, `src/Enum.cpp`) | none | search, rounding, conversion | everywhere | boundaries | agree with their definitions |

`PROJECT.json` lists every component with its status, and under "hazards" what is hard to
test, each at its line. Section 5 says what is left out and why.

## 2. The modules

| Module | Stands for | Builds on |
|---|---|---|
| `ConnectionLease` | what a pool promises: exclusive leases of open connections | |
| `ConnectionPool` | pool and shutdown manager | refines `ConnectionLease` |
| `ConnectionUse` | TransactionGuard and the data operations over the pool | extends `ConnectionPool` |
| `Schema` | the eleven tables and the column lists each model repeats | |
| `Storage` | save, saveCandles and find, by several savers | extends `Schema` |
| `SpotExchange` | the spot account | |
| `OrdersState` | broker, API, sandbox, order containers, life of an order | |
| `FuturesExchange` | the futures account and its lock | |
| `Position` | a position driven by executed orders and the stream | extends `FuturesExchange` |
| `ClosedTrades` | the trade in progress and the closed ones | |
| `Trading` | positions and trades side by side | extends the two above |
| `RowStore` | what a dynamic array promises: a sequence with a window | |
| `DynamicArray` | the array | refines `RowStore` |
| `ArbitrageBot` | the bot's thread, its client and the orders at the exchange | |
| `Symbols`, `Lists`, `Numbers`, `Calendar`, `Candles`, `Markets` | functions without state | |
| `Algorithms` | calls of those functions with every input of given sets | extends the six |
| `FunctionProofs` | lemmas about sums over sets, folds over sequences, and counting | TLAPS |
| `ConnectionProofs` | theorems about the pool and its use | TLAPS |
| `TradingProofs` | theorems about orders, positions, trades and the futures account | `Trading`, `OrdersState`, TLAPS |
| `...Proofs` | theorems about the module of that name | TLAPS |
| `MC...` | the instance TLC runs | the module of that name |

Definitions whose comment begins with `Mutant:` are variants of the definition that follows.
They are part of no specification; each records a mistake that a property would detect.

### ConnectionPool

Each section the code runs under `mutex_` is one action, because such a section shares with
the outside only the atomic `shuttingDown_`, which it reads at most once. The steps between
sections are the interesting part and are separate: a caller that has not yet locked
(`calling`), one inside `wait_for` (`asleep`), one that was notified but has not re-acquired the
lock (`notified`), the two getConnection calls of the health check with `SELECT 1` between
them (`probing`, `dropping`). A `shared_ptr` is an element of `held[t]`; its deleter is
`ReturnConnection`. `wait_for` may time out or wake spuriously at any point, and a newcomer
may overtake a notified thread. Connections die at any time; opening one may fail, which in the
deleter ends the process (`terminated`). The shutdown is claimed by the compare-exchange
(`Shutdown`, `Signal`), its worker launched later (`Launch`, `SignalLaunch`), and then runs its
hooks, the drain and the completion hooks. The hooks that `Database::init` registers only
print, so they are single steps. The queue's order is abstracted to a set: no property
depends on which idle connection a caller gets.

### ConnectionUse

Adds what a thread does with a connection: `Borrow` keeps the `shared_ptr`; `Guard` works
through a `TransactionGuard` (commit, rollback and destructor, each of which can meet a dead
connection); `Fetch` calls a function with a null pointer, the default argument of save, where
`*(conn_ptr ? conn_ptr : getConnection())` leaves a reference whose owner has died at the end of the
line: the connection is back in the queue, or closed if it had died, while statements run on it.
`tx` is the set of connections with an open transaction; one that goes back to the queue keeps its
transaction. `Operations` says which of the three the threads use; the run has all of them.

### Schema and Storage

`Schema` records, per table, the columns of the migration, those that may be NULL, its unique
index, and the lists that the C++ model repeats by hand: attribute constructor, conflict
query, INSERT, UPDATE, what a filter accepts and what it applies, selection, decoding.
`Storage` runs saves over these lists. `save` is two statements on a connection that commits
each of them, so `Check` and `Update` or `Insert` are separate actions and other savers run in
between; `SaveCandles` is one statement for several candles. The server refuses what violates a
NOT NULL, the primary key or the unique index, in which NULL equals nothing. In a behaviour all
models have the same values but for the identifier and one column, the `focus`; every column
of every table is the focus of some behaviour, and a member may hold a value, nothing, or the
blank that the statements turn into NULL. A boolean is decoded as the code does it, from the text the
server sends (`BooleanText`, `ReadBoolean`); `Completed` gives a filter withTimeframeOrNull the
criterion that the code compares, which is whatever `timeframe_` holds. Not modelled are
transactions around a save, and batchSave: nothing instantiates it (`DB.hpp:228`, `DB.cpp` 779-811).

### SpotExchange

One action per handler: `mutex_` is held from the first line to the last. `Accepts` is the
chain of checks of `onOrderSubmission`, `Reject` the throw with its restoring catch block,
`Fill` the cut of a sell to the balance at execution, `Keep` the deduction of the fee.
`live` chooses the mode for a whole session. An order is submitted once and ends once, as
`Order::execute` and `Order::cancel` see to. Amounts are integers in multiples of 100 with a fee
of ten percent, so the code's exact decimals are not rounded. Two pairs share one base
asset. `sold` and `streamed` are history variables.

### OrdersState

`Submit` is what Sandbox does for its three kinds of order; the actions of `Broker` choose
the kind and the side. Orders are filed under the sandbox's own name, as `Api::initDrivers`
creates each driver with the default one. Status changes are those of `db::Order` with its
early returns. `CancelAllOrders`, `ResetTradeOrders`, `Reset`, `RemoveOrder` and
`UpdateActiveOrders` empty the containers each in its own way. `QueueIt` and `ExecutePartially`
look at no status in the code, and so are taken from any; `revived` (history) are the orders that they
brought back after their end. `positions` moves freely, an external input. The specification is
`OrdersSpec`, over `ordersVars`. The hooks of `db::Order` into exchange and position are TODO comments
in the source, so the two sides are modelled apart.

### FuturesExchange, Position, ClosedTrades, Trading

`FuturesExchange` has the handlers that can return and the lock behind which the others stay:
submitting an order that is not reduce-only asks for the margin under `mutex_`, and asking
locks `mutex_` again (`mutex = "stuck"`). `Position` models an executed order as one action whose
effect is an operator per method (`Open`, `Increase`, `Reduce`, `Close`, `Flip`), each of which
gives the position, the exception it ended with, and what the account was credited with before
that. In a backtest the report changes the quantity; in a live session `OnUpdateFromStream`
does, before or after the report, which only compares the quantity with the previous one. The
constructor leaves `exchange_` empty (a TODO); the model gives the position the account of its
market. Quantities are in thousandths, an entry price is a fraction in lowest terms. What a fee
leaves of a quantity is rounded away from 0: in doubles it is never nothing.
`ClosedTrades` has `getCurrentTrade` as `Lookup`, which makes a new identifier at every call after
the first; every operation goes through it once or twice. Nothing connects positions and
trades in the code, so in `Trading` a behaviour exercises one of them (`subject`).

### RowStore and DynamicArray

The matrix is a sequence of cells, a cell one row: a stored value, zeros, or memory that
`shrinkToFit` left as it was. `RowStore` is a sequence that can be appended to, changed in place,
shortened by one row or emptied, and that forgets half of a full window. The refinement maps its
rows to the first `index_ + 1` rows of the matrix. `Usages` are the sets of operations that the
program's users of an array call, and one with all of them.

### ArbitrageBot

`pc` is where the one thread is: sweeping (`top`, `assess`), confirming a profit (`confirm`),
reading balances (`balance`), quoting, placing and waiting for each of three legs (`quote`,
`place`, `poll`). Between any two requests the exchange fills orders, those of abandoned
executions included. A request may fail before or after the exchange has carried it out:
`Place` leaves the order there or not, and in either case the bot may give up. A quote is
retried up to `MaxAttempts` times; other failures abandon the execution and the sweep starts
over. A signal ends the process anywhere, and orders stay at the exchange. The WebSocket
client either connects and subscribes or never comes back (`stuck`): connect and send handle
a failure under `mutex_` by a call that locks it. Nothing runs `ioc_`, so no handler of it is
ever called and there is no reader to interleave. `main` has the call of the loop commented out
(main.cpp:1039); the loop is modelled as it is written. Quantities are units, and a purchase
may cost more than its quote, because its limit is one level further.

### Functions

`Symbols` (names of markets), `Lists` (searches, insertions, shifts, merges, matrices), `Numbers`
(rounding, profits, sides, genes), `Calendar` (dates, durations, timeframes), `Candles`
(generated candles, aggregation, sources) and `Markets` (trimming of books, turn-over of an
amount) are operators. A step of `Algorithms` calls one of them and keeps
arguments and result; the properties compare the result with what a caller relies on:
`BookStaysSorted` (search and insertion), `DataInPlace` (matrices and maps), `NotationsAgree` (names,
dates, durations, timeframes), `OrdersAgree` (quantities, sides, genes), `CandlesAgree`,
`TrimmedIsABook` and `TurnOverReachable`. A property of several functions is a conjunction with one
part per function. The inputs are constants (`Matrices`, `Maps`, `Asks`, `Bids`, `Offers`, ...)
with the assumptions under which the code is called: rows of one length, sides in strict order, nobody offers less than nothing, and prices the bot trades at are positive.
Numbers are integers or thousandths; what only binary floating point does is left out.

## 3. The runs

| Run | Bounds | Shows |
|---|---|---|
| `pool_safety` | 3 threads, 4 connections, limit 2 moving to 1 or 3, 2 held per thread | counter, queue, owners and types agree, limit kept, no lost wake-up, closed admission, one shutdown in order, refinement of `ConnectionLease` |
| `pool_liveness` | 2 threads, 3 connections, limits 1 and 2 | every getConnection ends; a launched shutdown ends unless a thread that owns a connection waits for it |
| `use` | 3 threads, 3 connections, limit 1 or 2, calls with and without a connection | no transaction left on an idle connection, whatever dies, times out or shuts down |
| `spot_mixed` | 4 orders of 7 kinds, 2 pairs, live and not | types, no overdraft, exact reservations, both ledgers balance |
| `orders_filed` | 2 orders, 1 symbol, 1 exchange | live orders stay active, cancelled ones are never executed, ends are left only by the two calls that look at no status |
| `storage` | 2 savers, 2 models, 3 saves, each column of each of 11 tables | what is saved reads back but booleans, filters find what they name, no rival's row is changed or lost, refusals and terminations have the reasons given |
| `trading` | 3 orders on 7 terms, 3 streamed quantities, fee 10 %; 7 trade identifiers | available assets, futures quantity and average price, honoured reports, what trades of partial fills record, closed trades told apart |
| `array` | buckets 1 to 3, no limit or limits 2 to 4, 8 rows, 2 values, 4 usages | rows stay rows, reads agree with them from either end, refinement of `RowStore` |
| `arbitrage` | 2 coins, 2 lists of markets, amount 2, price up to 2, 2 attempts, 2 executions | the reserve is not traded, no leg twice, a wait lasts only while the wallet has not moved, the sweep gets to its markets |
| `algorithms` | books of 3 prices, matrices of 3 rows by 2, maps of 2 keys, 4 candles, 4 levels to trim around a change of the unit, offers of 3 levels a side, names of 3 pieces, 4 years, with and without a leap day | functions agree with what their callers rely on, call by call |

Between 17 000 (`array`) and 675 000 (`orders_filed`) distinct states each.

The bounds let the interesting cases happen. Three threads are a returner, a sleeper and a
newcomer that overtakes it, and with four connections a replacement can exist beside a full
pool; a limit below the number of lent connections occurs. Two sells and two buys can compete
for one wallet and one asset in every order. Two orders suffice for the containers, whose
operations treat orders independently, and they share one key. Two savers with three
saves are two rivals between each other's statements over a row that a third save put there.
Three executed orders are enough to open, flip and reduce or to open, add and close; the terms
hold an order that the fee makes too large, one that is exactly opposite, and two that are
reduce-only. Eight rows pass every limit at least twice and grow each bucket three times. A
second execution of the bot runs while the first one's orders are still being filled. Liveness
of the pool needs no third thread: a waiter, and one that owns what it waits for. Deadlock
checking is off because the systems may stop: threads may call nothing, all orders may have
ended, a bound may be reached, the bot may be stuck or have exited.

Two runs end in a counterexample, each against a sentence in the source:

| Run | The source says | The code does |
|---|---|---|
| `orders_cancel_all` | "Cancel all orders for a symbol" (`Exchange.hpp:455`) | QUEUED orders, which is how Sandbox creates them, are forgotten and a pending market order is executed later |
| `arbitrage_forward` | "Third trade: A -> C (Buy A with C)" (`main.cpp:724`) | the amount the second leg brought is stored in a variable that hides the one used afterwards (711); the third leg is given 0 and throws |

### Noted while modelling

Behaviour that the models keep as the code has it, without a run that turns on it.

- Pool: "This will release the dead connection and get a new one" (`DB.cpp:215`), but the call is
  evaluated before the assignment: the health check waits for its second connection while it owns the
  dead one, and in a pool of one times out. "Wait for all connections to be released" (94), but
  `shuttingDown_` is not read after the wait: a waiter admitted before the shutdown may take a
  connection while the completion hooks run. "Wait for shutdown to complete" (`DB.hpp:40`), but a second
  caller returns at once while the first has not stored the future (65). setMaxConnections wakes
  nobody; a failing connection attempt in the deleter ends the process (295).
- Data operations: a call with a null pointer, as `DB_Test.cpp:5627` makes it ("Save should handle null
  connections gracefully by getting a default connection"), runs its statements on a connection that
  nobody holds (`DB.cpp:570`). Another thread can borrow that connection at the same time, although the
  pool is the "Thread-safe connection pool for PostgreSQL" (`DB.hpp:64`), and if it had died it is closed
  while in use. `ConnectionUse` has both behaviours; no property excludes them.
- Orders: queueIt makes QUEUED whatever the order was ("NOTE: Precondition?", `DB.cpp:1018`), which for
  the order means "it's been queued for later submission" (`DB.hpp:669`); executePartially (1175) likewise.
- Models: fromRow takes "1" and "true" for a true reduce_only (`DB.cpp:3603`, 3681), the server sends
  "t": every order reads back as not reduce-only. A filter withTimeframeOrNull (1752) tests
  `timeframe_or_null_` and reads `timeframe_`; nothing calls it. withTimeframe (1746) is right.
- Spot account: STOP and LIMIT sells are compared with the balance separately, so each may be
  accepted up to all of it (`Exchange.cpp:183`); executing an order that was refused makes a
  sum negative (245); `assets_` is read without `mutex_` (`Exchange.hpp:136`).
- Sandbox: limitOrder creates a STOP order and stopOrder a LIMIT order (`Exchange.cpp` 946-1016);
  entry orders are filed under the driver's name and not found under the exchange's.
- Futures: a submission that is not reduce-only never returns (`Exchange.cpp:608`); execution
  looks up lists that were never created; a reduction is credited before it throws.
- Trades: "Set the trade.id if not generated already" (`Trade.cpp:133`), but the test is the wrong way
  round: the identifier changes at every look-up, so orders noted before name another. The records
  are "used for correct trade-metrics calculations" (180), but a whole order reaches them twice (169,
  172): a whole buy counts double, a whole sell cancels itself.
- Dynamic array: created for one row it does not grow, since half of 1 is 0 (`DynamicArray.cpp:277`);
  the next row is beyond the matrix. `IndexInside` excludes that bucket.
- Order books: "Accumulate quantity for the current trimmed price" (`Orderbook.cpp:223`), but a level that
  opens a bucket is assigned (219) and then added (224); the last bucket is dropped.
- Bot: the wait after the third leg compares with the balance before the first sale
  (`main.cpp:746`, 834); a connection that the server closed properly counts as a failed request
  (128); one coin's exception restarts the whole sweep (907).
- Cycles: "Buy C with A" (`market_data.hpp:107`) multiplies by a bid where it should divide by the ask, so
  that a losing way back can be reported as a profit. Nobody includes the file.
- Candles, trades, tickers and order books of all markets: `init` assigns through `at()` on an
  empty map and throws.

### Fairness

`pool_liveness`: `FairSpec` is weak fairness, per thread, of the steps of a thread that is inside
pool code (it holds no lock for ever, `wait_for` has a deadline) and of giving up a connection
(operations end), and weak fairness of the shutdown worker, an `std::async` task. Nothing makes a
thread call the pool, a connection die or a signal arrive. Weak fairness suffices since a waiter's
time-out or its taking of a connection stays possible until it leaves.

`arbitrage`: weak fairness of the one thread's steps, which nothing blocks but its waits; strong
fairness, per coin, of a quote that succeeds, since requests may fail but a server that answers
answers again. There is none of filling: orders are sent with a limit and without a time-out, so an
order may stay in the market for ever and the bot waits for ever. `WaitsForFills` says that this is the
only reason: a wait lasts only while the wallet has not moved. Nothing forces a failure or a signal.
`SweepReaches` names the coin whose books stay incomplete.

The other runs check safety only.

## 4. The proofs

Proved by TLAPS for every value of the constants that satisfies the named assumptions of the
module (`...Assumption`); further assumptions are stated in the theorem.

- `FunctionProofs`. TLAPS cannot use induction theorems, whose parameter is an operator; `WFMin` has
  none and says that a set of numbers has a smallest one, so `Counting` and `SubsetInduction` are
  stated for sets instead. From them: the recursion behind `SumFunctionOnSet` has a solution and one
  only (`AdderExists`, `AddersAgree`), the order in which elements are taken does not matter
  (`SumLess`), and a sum follows an element that joins, leaves or changes (`SumJoined`, `SumLeft`,
  `SumChanged`) and an append to a sequence (`SumAppended`). `FoldExists` gives the recursion behind
  FoldLeft a solution.
- `AlgorithmsProofs`. The inputs of a run are small sets; the theorems hold for any sets that satisfy
  the assumptions, so for arguments of any size. Each function is shown to be the value of some
  function that follows its recursion (`...Chosen`, `...Exists`), and what holds after each step is
  followed through it by `Counting`. An invariant speaks of `call` and `result` only: each call
  makes its part true (`SearchAgrees`, `ShiftAgrees`, ...), every other part holds for want of such a call.
  - `BooksAreSorted`, `DataStayInPlace`. Bisection: a window keeps the prices before the target on its
    left and those after it on its right, and each step makes it smaller (`BisectionPlaces`,
    `BooksStaySorted`, `SearchFinds`). Filling down gives each row the last value down to it
    (`FilledIsLasting`). Merges can be grouped either way (`MergesCompose`).
  - `TrimmedBooks`: `Trimmed` is what holds after each level (`TrimmedIsASide`, `TrimmedStaysABook`).
    `TurnOversReachable`: selling and buying are one walk from level to level (`TurnIsWalk`), which has
    given every level passed what an order would give it (`Walked`); the price named reaches a level that
    has enough, or the last one (`WalkEnds`), so an order limited there takes the same
    (`TurnOverExecuted`). `CandlesAlwaysAgree`: `Covers` says of a candle that it opens with the first,
    closes with the last, spans all and sums their volumes; that of two parts covers the whole, and only
    one candle covers it (`CandlesCompose`). `GeneratedChain` follows the generator's state.
  Prices, levels and units are integers there, as everywhere in the models, and the amount turned
  over is a multiple of `Share`.
- `ConnectionProofs`. The invariant `PoolInv` is TypeOK, Accounting, Ownership,
  LimitRespected, NoLostWakeup, the limit in force being at most `MaxLimit`, and nothing being
  lent or awaited before init. LimitRespected is not inductive alone: a replaced connection
  is opened without reading the limit, and only an exact counter and a queue disjoint from the
  lent connections show that it fills the place of another. Theorems `PoolConsistent`,
  `PoolLimit`, `PoolWakeups`, `ShutdownClosesAdmission`, and `PoolRefinesLease`, where each step
  lends, takes back or resizes in `ConnectionLease`. `ShutdownRunsOnce` needs `OneLauncher`:
  whoever is between the compare-exchange and the launch is alone, and exists only while the
  shutdown is claimed.
  `UseImplementsPool` (`UseSpec => Spec`) carries the pool's theorems over.
  `UseInv` adds that a thread in a guard is outside the pool, that it uses only what it
  holds, holds one connection, and that an open transaction belongs to a guard or to a
  dead connection. `ReturnsClean` holds for calls with and without a connection alike.
- `SpotExchangeProofs`. `SpotSolvent` and `SpotTypes`, with `SpotInv` = TypeOK and Solvent: the check
  at submission, the cut at execution and the repayment keep balances at zero or above, for
  every fee, price, quantity and number of orders. `LiveWalletFollows`: only the stream moves a
  live wallet (not in a run). `ReservationsExact` and `LedgersBalance`, with `LedgerInv`, which adds that only
  executed orders have sold: each handler adds or takes one order's summand from the sums it
  concerns and from no other. They need that there are finitely many orders.
- `StorageProofs`. `StorageInv` adds to StorageSound that rows which the unique index can compare are
  distinct, and that what a saver found still has the key it was found by; the latter is what
  makes an update by an old identifier safe. `Coherent` collects what the proofs need
  of a table (its key covers its index, an update touches no key, ...) and is shown for each of
  the eleven. Theorems `StorageIsSound`, `KeysAreStable`, `FiltersAreHonoured`.
  `SavesReadBack` (of all columns but the identifier and the booleans) and `RefusalsAreExplained` need `SaveInv`: a saver between its statements writes a
  model made of what it was given and of the row it found, it found rows of the table with its key
  and one at most, and no row lacks a NOT NULL column. `Copied`, shown for each of the eleven tables,
  says that what is read back of a written row is what was written. An update turns out never to be
  refused. `IdsAssumption`: generated identifiers are not the nil one.
- `TradingProofs`. Of OrdersState: `OrdersInv` is TypeOK, LiveIsActive and that an order found by
  cancelOrder is CANCELED; `LiveOrdersActive`, `CancelHonoured` and `EndsAreFinal` except what queueIt and
  executePartially, which look at no status, do to an order after its end.
  Of Trading: `ReportsAreHonoured` rests on `NetBounded`: for a fee from 0 to 99 percent a
  net quantity has the sign of the order, is not 0, and is no larger. `AvailableIsExplained`: the
  futures account is the sum over the submitted orders. `EntriesWhileOpen` (not in a run) and
  `FuturesLedgerKept`, with `LedgerInv`: that the entry price is a fraction with a denominator
  while the position is open, and that the position has the side of the first order, is what the
  average and the next report need. `AverageBooks` is the arithmetic of it: reduced to lowest terms
  or not, the average is the cost of both parts over both sizes. They assume what Broker asserts, that no
  order is for nothing. `TradesAreIdentified` rests on identifiers that grow: every one in use is
  at most `ids`, and those of closed trades are below the current one. `PartialsAreRecorded`
  follows each partial fill into the trade and into the log it is compared with.
- `DynamicArrayProofs`. `RowsAreSound`: index inside the matrix, values in the rows in use, zeros in
  the others, the window kept, for every bucket and limit. It needs that the capacity never falls
  below the bucket. `ArrayIsAStore`: the array implements `RowStore`. One lemma per operation shows
  that, from a sound array, it adds, replaces, removes or clears rows of the store, or leaves them
  alone when an append fails; `AddedToStore` is what append and appendMultiple share.
  `ReadingAgrees`: offsets from both ends, slices, find and filter answer for the stored rows and for
  no others. For filter the recursion has a solution by `Counting`, which holds as many rows as
  match. `ValuesAssumption`: a stored row is not one of zeros, which the code cannot tell from a
  row not in use.
- `ArbitrageBotProofs`. `NoLegTwice`: `SentInv` says that open orders are of executions so far and of
  legs not after the present one, so a leg that is about to be placed has no order yet.
  `ReserveIsKept` needs `MoneyInv`: the exchange covers what it blocks; a balance that a later leg is
  compared with was read when the reserve was above the debt of that moment (what open orders still
  promise, less what purchases were overpaid); filling an order never raises a debt; and the leg
  that is awaited brings a currency that no leg from there on gives (`LegKnown`). Hence what is
  counted as gained is there beyond the reserve (`GainedInv`) and may be given. The lemmas
  `ClaimedMore` and `ClaimedFilled` say what an order adds to a claim and takes from it.
  `MarketAssumption`: B and C are not coins.

Only model-checked:

- liveness: GetReturns, ShutdownCompletes, WaitsForFills, SweepReaches;
- OrdersAgree and NotationsAgree: quantities are rounded and genes mapped by one formula each; names are
  folded and cut letter by letter, durations and dates counted through tables of sizes and of days per
  month. What is at stake is the tables and the boundaries, which the run goes through entry by entry.

## 5. Not modelled

- State objects of candles, trades, tickers and order books: their `init` throws, so no behaviour
  of them exists beyond it. Their functions are in `Candles` and `Markets`, their rows in
  `DynamicArray`.
- Cache: its two members are null pointers that every call dereferences.
- Transaction manager, batchSave, and the arbitrage calculator of `market_data.hpp`: used by nothing.
- Live drivers, live closing of a futures position, addRealizedPnl and chargeFee of the spot
  account: TODO bodies or a throw of "Not implemented!".
- Wallet and margin amounts of the futures account: the one reader of them never returns.
- Indicators: floating-point formulas; their meaning is numeric.
- Exchange registry, application state, routes, configuration: tables and values set once.
- Logging, Redis, authentication, formatting, file and string helpers, strategy loader, entry point,
  build, root certificates: input, output, services and constants.
- The PostgreSQL server beyond its constraints, and the transactions of its clients.
