--------------------------- MODULE StorageProofs ----------------------------
(***************************************************************************)
(* That savers who find, update and insert in any interleaving keep the    *)
(* tables in order, for every number of savers, models and saves.          *)
(***************************************************************************)
EXTENDS Storage, FiniteSetTheorems, TLAPS

USE StorageAssumption

-------------------------------------------------------------------------------
(* What the eleven tables have in common. *)

\* The key of a table is what its unique index covers, or the identifier where
\* it has none; a filter can ask for the key; an update leaves the identifier;
\* every criterion on a column is applied; "timeframe_or_null" is no column.
Coherent(t) ==
  /\ "id" \in t.columns \ t.nullable /\ "id" \notin t.updated
  /\ t.key \subseteq t.columns /\ t.key \subseteq t.with /\ t.key \subseteq t.where
  /\ t.unique = {} => t.key = {"id"}
  /\ t.unique # {} => t.key = t.unique
  /\ t.with \cap t.columns \subseteq t.where
  /\ "timeframe_or_null" \notin t.columns

\* Each table's lists agree as far as that (db::*, src/migrations).
LEMMA TablesCoherent == \A t \in DOMAIN Tables : Coherent(Tables[t])
<1>1. Coherent(Tables["orders"])
  <2> DEFINE t == Tables["orders"]
  <2>1. /\ t.columns = OrderColumns /\ t.nullable = OrderNullable /\ t.unique = OrderUnique
        /\ t.key = OrderKey /\ t.updated = OrderUpdated
        /\ t.with = OrderWith /\ t.where = OrderWhere
    BY DEF Tables
  <2> HIDE DEF t
  <2>2. "id" \in t.columns \ t.nullable /\ "id" \notin t.updated
    BY <2>1 DEF OrderColumns, OrderNullable, OrderUpdated, OrderParties, OrderTerms, OrderProgress
  <2>3. t.key \subseteq t.columns
    BY <2>1 DEF OrderColumns, OrderKey, OrderParties, OrderTerms, OrderProgress
  <2>4. t.key \subseteq t.with /\ t.key \subseteq t.where
    BY <2>1 DEF OrderColumns, OrderKey, OrderWith, OrderWhere
  <2>5. t.unique # {} /\ t.key = t.unique
    BY <2>1 DEF OrderUnique, OrderKey
  <2>6. t.with \subseteq t.where /\ "timeframe_or_null" \notin t.columns
    BY <2>1 DEF OrderWith, OrderWhere, OrderColumns, OrderParties, OrderTerms, OrderProgress
  <2> QED
    BY <2>2, <2>3, <2>4, <2>5, <2>6 DEF Coherent, t
<1>2. Coherent(Tables["candles"])
  <2> DEFINE t == Tables["candles"]
  <2>1. /\ t.columns = CandleColumns /\ t.nullable = {} /\ t.unique = CandleUnique
        /\ t.key = CandleKey /\ t.updated = CandleUpdated
        /\ t.with = CandleWith /\ t.where = CandleWhere
    BY DEF Tables
  <2> HIDE DEF t
  <2>2. "id" \in t.columns \ t.nullable /\ "id" \notin t.updated
    BY <2>1 DEF CandleColumns, CandleUpdated
  <2>3. t.key \subseteq t.columns
    BY <2>1 DEF CandleColumns, CandleKey
  <2>4. t.key \subseteq t.with /\ t.key \subseteq t.where
    BY <2>1 DEF CandleColumns, CandleKey, CandleWith, CandleWhere
  <2>5. t.unique # {} /\ t.key = t.unique
    BY <2>1 DEF CandleUnique, CandleKey
  <2>6. t.with \cap t.columns \subseteq t.where /\ "timeframe_or_null" \notin t.columns
    BY <2>1 DEF CandleColumns, CandleWith, CandleWhere
  <2> QED
    BY <2>2, <2>3, <2>4, <2>5, <2>6 DEF Coherent, t
<1>3. Coherent(Tables["closed_trades"])
  BY ZenonT(60) DEF Coherent, Tables, ClosedTradeColumns, ClosedTradeUnique, ClosedTradeKey,
         ClosedTradeUpdated, ClosedTradeWith, ClosedTradeWhere
<1>4. Coherent(Tables["daily_balances"])
  BY ZenonT(60) DEF Coherent, Tables, DailyBalanceColumns, DailyBalanceNullable, DailyBalanceUnique, DailyBalanceKey,
         DailyBalanceUpdated, DailyBalanceWith, DailyBalanceWhere
<1>5. Coherent(Tables["exchange_api_keys"])
  BY ZenonT(60) DEF Coherent, Tables, ExchangeApiKeysColumns, ExchangeApiKeysUnique, ExchangeApiKeysKey,
         ExchangeApiKeysUpdated, ExchangeApiKeysWith, ExchangeApiKeysWhere
<1>6. Coherent(Tables["logs"])
  BY ZenonT(60) DEF Coherent, Tables, LogColumns, LogUnique, LogKey,
         LogUpdated, LogWith, LogWhere
<1>7. Coherent(Tables["notification_api_keys"])
  BY ZenonT(60) DEF Coherent, Tables, NotificationApiKeysColumns, NotificationApiKeysUnique, NotificationApiKeysKey,
         NotificationApiKeysUpdated, NotificationApiKeysWith, NotificationApiKeysWhere
<1>8. Coherent(Tables["options"])
  BY ZenonT(60) DEF Coherent, Tables, OptionColumns, OptionUnique, OptionKey,
         OptionUpdated, OptionWith, OptionWhere
<1>9. Coherent(Tables["orderbooks"])
  BY ZenonT(60) DEF Coherent, Tables, OrderbookColumns, OrderbookUnique, OrderbookKey,
         OrderbookUpdated, OrderbookWith, OrderbookWhere
<1>10. Coherent(Tables["tickers"])
  BY ZenonT(60) DEF Coherent, Tables, TickerColumns, TickerUnique, TickerKey,
         TickerUpdated, TickerWith, TickerWhere
<1>11. Coherent(Tables["trades"])
  BY ZenonT(60) DEF Coherent, Tables, TradeColumns, TradeUnique, TradeKey,
         TradeUpdated, TradeWith, TradeWhere
<1>12. DOMAIN Tables =
         {"orders", "candles", "closed_trades", "daily_balances", "exchange_api_keys", "logs",
          "notification_api_keys", "options", "orderbooks", "tickers", "trades"}
  BY DEF Tables
<1> QED
  BY <1>1, <1>2, <1>3, <1>4, <1>5, <1>6, <1>7, <1>8, <1>9, <1>10, <1>11, <1>12

-------------------------------------------------------------------------------
(* Rows. *)

Cells == Ids \cup Value \cup {Null}

\* Rows are rows of the table, each under its identifier.
Filed(rs) ==
  /\ DOMAIN rs \subseteq Ids
  /\ \A i \in DOMAIN rs : rs[i] \in [Columns -> Cells] /\ rs[i]["id"] = i

\* The unique index tells any two rows apart.
Distinct(rs) == \A i, j \in DOMAIN rs : i # j => ~ SameKey(rs[i], rs[j])

\* What a saver found still has the key of the model it is about to write.
FoundKeyed ==
  \A s \in Savers : job[s].pc = "write" =>
    /\ job[s].found \subseteq DOMAIN rows
    /\ \A i \in job[s].found, c \in T.key : rows[i][c] = Stored(job[s].model, c)

\* StorageSound is not inductive alone: save ends the process over rows that
\* the index ought to have kept apart, and an update changes rows that were
\* found a statement earlier.
StorageInv == StorageSound /\ Distinct(rows) /\ FoundKeyed

\* The lists of the table in use agree.
LEMMA TableCoherent == ASSUME table \in DOMAIN Tables PROVE Coherent(T)
BY TablesCoherent DEF T

\* Members of a model are written as cells of their columns.
LEMMA ModelCells ==
  ASSUME table \in DOMAIN Tables, NEW m \in Models, NEW c \in Columns
  PROVE  /\ Stored(m, c) \in Cells
         /\ Stored(m, "id") \in Ids \cup {Null}
<1>1. PICK i \in Ids, v \in Given : m = Model(i, v)
  BY DEF Models
<1>2. v \in Value \cup {Absent, Blank}
  BY DEF Given, MemberOf, Value
<1>3. "id" \in Columns
  BY TableCoherent DEF Coherent, Columns
<1>4. m["id"] = i /\ (c # "id" => m[c] \in Value \cup {Absent, Blank})
  BY <1>1, <1>2, <1>3 DEF Model, Usual, Value
<1> QED
  BY <1>4 DEF Stored, Cells

\* An INSERT writes a row of the table, under an identifier or none.
LEMMA InsertedIsRow ==
  ASSUME table \in DOMAIN Tables, NEW m \in Models
  PROVE  InsertedRow(m) \in [Columns -> Cells] /\ InsertedRow(m)["id"] \in Ids \cup {Null}
<1>1. "id" \in Columns
  BY TableCoherent DEF Coherent, Columns
<1>2. \A c \in Columns : Stored(m, c) \in Cells /\ Stored(m, "id") \in Ids \cup {Null}
  BY ModelCells
<1> QED
  BY <1>1, <1>2 DEF InsertedRow, Cells

\* An UPDATE leaves the row a row of the table and its identifier alone.
LEMMA UpdatedIsRow ==
  ASSUME table \in DOMAIN Tables, NEW m \in Models, NEW row \in [Columns -> Cells]
  PROVE  UpdatedRow(row, m) \in [Columns -> Cells] /\ UpdatedRow(row, m)["id"] = row["id"]
<1>1. "id" \in Columns /\ "id" \notin T.updated
  BY TableCoherent DEF Coherent, Columns
<1>2. \A c \in Columns : Stored(m, c) \in Cells
  BY ModelCells
<1> QED
  BY <1>1, <1>2 DEF UpdatedRow

\* The conflict query finds rows that have every column of the model's key.
LEMMA MatchingKeyed ==
  ASSUME table \in DOMAIN Tables, NEW m, NEW i \in Matching(rows, KeyOf(m))
  PROVE  i \in DOMAIN rows /\ \A c \in T.key : rows[i][c] = Stored(m, c)
<1>1. T.key \subseteq T.with /\ T.key \subseteq T.where
  BY TableCoherent DEF Coherent
<1> QED
  BY <1>1 DEF Matching, KeyOf

\* Two rows are found only if one of their key columns holds a NULL.
LEMMA TwoFound ==
  ASSUME table \in DOMAIN Tables, Filed(rows), Distinct(rows), NEW m,
         Cardinality(Matching(rows, KeyOf(m))) > 1
  PROVE  \E i, j \in DOMAIN rows :
           /\ i # j
           /\ \A c \in T.key : rows[i][c] = rows[j][c]
           /\ \E c \in T.key : rows[i][c] = Null
<1> DEFINE found == Matching(rows, KeyOf(m))
<1>1. found \subseteq Ids /\ found \subseteq DOMAIN rows
  BY DEF Matching, Filed
<1>2. IsFiniteSet(found)
  BY <1>1, FS_Subset
<1>3. found # {} /\ \A i : found # {i}
  BY <1>2, FS_EmptySet, FS_Singleton
<1>4. PICK i \in found, j \in found : i # j
  BY <1>3
<1>5. /\ \A c \in T.key : rows[i][c] = Stored(m, c)
      /\ \A c \in T.key : rows[j][c] = Stored(m, c)
  BY MatchingKeyed
<1>6. \A c \in T.key : rows[i][c] = rows[j][c]
  BY <1>5
<1>7. \E c \in T.key : rows[i][c] = Null
  <2>1. CASE T.unique = {}
    <3>1. T.key = {"id"}
      BY <2>1, TableCoherent DEF Coherent
    <3> QED
      BY <1>1, <1>4, <1>6, <3>1 DEF Filed
  <2>2. CASE T.unique # {}
    <3>1. T.key = T.unique
      BY <2>2, TableCoherent DEF Coherent
    <3> QED
      BY <1>1, <1>4, <1>6, <2>2, <3>1 DEF Distinct, SameKey
  <2> QED
    BY <2>1, <2>2
<1> QED
  BY <1>1, <1>4, <1>6, <1>7

\* What the server lets in leaves the other rows alone and fits with them.
LEMMA InsertFits ==
  ASSUME table \in DOMAIN Tables, NEW rs, Filed(rs), Distinct(rs),
         NEW row \in [Columns -> Cells], row["id"] \in Ids \cup {Null}, CanInsert(rs, row)
  PROVE  LET new == WithRow(rs, row["id"], row)
         IN  /\ Filed(new) /\ Distinct(new)
             /\ \A i \in DOMAIN rs : i \in DOMAIN new /\ new[i] = rs[i]
<1> DEFINE i == row["id"]
           new == WithRow(rs, i, row)
<1>1. "id" \in Columns \ T.nullable
  BY TableCoherent DEF Coherent, Columns
<1>2. i \in Ids \ DOMAIN rs
  BY <1>1 DEF CanInsert, Complete
<1>3. DOMAIN new = DOMAIN rs \cup {i} /\ new[i] = row /\ \A j \in DOMAIN rs : new[j] = rs[j]
  BY <1>2 DEF WithRow
<1> HIDE DEF new
<1>4. Filed(new)
  BY <1>2, <1>3 DEF Filed
<1>5. \A j \in DOMAIN rs : ~ SameKey(rs[j], row) /\ ~ SameKey(row, rs[j])
  BY <1>2 DEF CanInsert, Clashes, SameKey
<1>6. Distinct(new)
  BY <1>3, <1>5 DEF Distinct
<1> QED
  BY <1>3, <1>4, <1>6 DEF new

-------------------------------------------------------------------------------
(* The steps of the savers. *)

\* No row goes away and none changes its identifier or its key.
RowsKeep ==
  \A i \in DOMAIN rows :
    /\ i \in DOMAIN rows'
    /\ \A c \in {"id"} \cup T.key : rows'[i][c] = rows[i][c]

Outcomes == {"updated", "inserted", "refused", "unreadable"}

\* The table and the shape of its models are chosen once.
LEMMA FrameSame ==
  ASSUME UNCHANGED <<table, focus, sparse>>
  PROVE  T' = T /\ Columns' = Columns /\ Models' = Models /\ Given' = Given /\ Job' = Job
<1>1. T' = T /\ Columns' = Columns
  BY DEF T, Columns
<1>2. Given' = Given
  BY <1>1 DEF Given, MemberOf
<1>3. \A i, v : Model(i, v)' = Model(i, v)
  BY <1>1 DEF Model, Usual
<1>4. Models' = Models
  BY <1>2, <1>3 DEF Models
<1> QED
  BY <1>1, <1>2, <1>4 DEF Job

\* What a saver in the middle of a save holds.
LEMMA WritingJob ==
  ASSUME TypeOK, NEW s \in Savers, job[s].pc = "write"
  PROVE  job[s].model \in Models
<1>1. job[s] \in Job /\ Idle.pc = "idle"
  BY DEF TypeOK, Idle
<1>2. job[s] \in [pc : {"write"}, model : Models, given : Given, upsert : BOOLEAN,
                  found : SUBSET Ids, seen : SUBSET Ids]
  BY <1>1 DEF Job
<1> QED
  BY <1>2

\* A statement that ends a save keeps the invariant if the rows it leaves fit
\* with each other and with those it found.
LEMMA WriteKeeps ==
  ASSUME StorageInv, ~ terminated, UNCHANGED <<table, focus, sparse, terminated>>,
         Filed(rows'), Distinct(rows'), RowsKeep, saves' \in 0 .. MaxSaves,
         NEW s \in Savers, NEW o \in Outcomes, Ends(s, o)
  PROVE  StorageInv'
<1>1. T' = T /\ Columns' = Columns /\ Job' = Job
  BY FrameSame
<1>2. [pc |-> "idle", outcome |-> o] \in Job
  BY DEF Job, Outcomes
<1>3. job' \in [Savers -> Job] /\ \A r \in Savers : job'[r].pc = "write" => job'[r] = job[r]
  BY <1>2 DEF StorageInv, StorageSound, TypeOK, Ends
<1>4. TypeOK'
  <2>1. table' \in DOMAIN Tables /\ focus' \in Columns' /\ sparse' \in BOOLEAN /\ terminated' \in BOOLEAN
    BY <1>1 DEF StorageInv, StorageSound, TypeOK
  <2>2. /\ DOMAIN rows' \subseteq Ids
        /\ \A i \in DOMAIN rows' :
             rows'[i] \in [Columns' -> Ids \cup Value \cup {Null}] /\ rows'[i]["id"] = i
    BY <1>1 DEF Filed, Cells
  <2> QED
    BY <1>1, <1>3, <2>1, <2>2 DEF TypeOK
<1>5. Distinct(rows)'
  BY <1>1 DEF Distinct, SameKey
<1>6. FoundKeyed'
  <2> SUFFICES ASSUME NEW r \in Savers, job'[r].pc = "write"
               PROVE  /\ job'[r].found \subseteq DOMAIN rows'
                      /\ \A i \in job'[r].found, c \in T'.key :
                           rows'[i][c] = Stored(job'[r].model, c)
    BY DEF FoundKeyed
  <2>1. job'[r] = job[r] /\ job[r].pc = "write"
    BY <1>3
  <2>2. /\ job[r].found \subseteq DOMAIN rows
        /\ \A i \in job[r].found, c \in T.key : rows[i][c] = Stored(job[r].model, c)
    BY <2>1 DEF StorageInv, FoundKeyed
  <2>3. job[r].found \subseteq DOMAIN rows'
    BY <2>2 DEF RowsKeep
  <2>4. \A i \in job[r].found, c \in T.key : rows'[i][c] = rows[i][c]
    BY <2>2 DEF RowsKeep
  <2> QED
    BY <1>1, <2>1, <2>2, <2>3, <2>4
<1> QED
  BY <1>4, <1>5, <1>6 DEF StorageInv, StorageSound, AmbiguousOnlyWithNull

\* The rows as they are fit.
LEMMA RowsFit ==
  ASSUME StorageInv
  PROVE  table \in DOMAIN Tables /\ Filed(rows) /\ Distinct(rows)
BY DEF StorageInv, StorageSound, TypeOK, Filed, Cells

\* A statement that is refused changes no row.
LEMMA RefusedKeeps ==
  ASSUME StorageInv, ~ terminated, UNCHANGED <<table, focus, sparse, terminated, rows>>,
         saves' \in 0 .. MaxSaves, NEW s \in Savers, Ends(s, "refused")
  PROVE  StorageInv' /\ RowsKeep
<1>1. RowsKeep
  BY DEF RowsKeep
<1>2. Filed(rows') /\ Distinct(rows')
  BY RowsFit
<1> QED
  BY <1>1, <1>2, WriteKeeps DEF Outcomes

LEMMA CheckStep ==
  ASSUME StorageInv, NEW s \in Savers, Check(s)
  PROVE  StorageInv' /\ RowsKeep
<1>1. /\ UNCHANGED <<table, focus, sparse, rows>>
      /\ ~ terminated /\ saves' \in 0 .. MaxSaves
  BY DEF Check, StorageInv, StorageSound, TypeOK
<1>2. T' = T /\ Columns' = Columns /\ Job' = Job
  BY <1>1, FrameSame
<1>3. RowsKeep
  BY <1>1 DEF RowsKeep
<1>4. PICK i \in Ids, v \in Given, upsert \in BOOLEAN :
        LET m == Model(i, v)
            found == Matching(rows, KeyOf(m)) IN
        \/ Ends(s, "unreadable") /\ UNCHANGED terminated
        \/ Cardinality(found) > 1 /\ terminated' = TRUE /\ UNCHANGED job
        \/ /\ job' = [job EXCEPT ![s] = [pc |-> "write", model |-> m, given |-> v,
                          upsert |-> upsert, found |-> found, seen |-> DOMAIN rows]]
           /\ UNCHANGED terminated
  BY DEF Check
<1> DEFINE m == Model(i, v)
           found == Matching(rows, KeyOf(m))
<1>5. CASE Ends(s, "unreadable") /\ UNCHANGED terminated
  <2>1. Filed(rows') /\ Distinct(rows')
    BY <1>1, RowsFit
  <2> QED
    BY <1>1, <1>3, <1>5, <2>1, WriteKeeps DEF Outcomes
<1>6. CASE Cardinality(found) > 1 /\ terminated' = TRUE /\ UNCHANGED job
  <2>1. \E j, k \in DOMAIN rows :
          /\ j # k
          /\ \A c \in T.key : rows[j][c] = rows[k][c]
          /\ \E c \in T.key : rows[j][c] = Null
    BY <1>6, RowsFit, TwoFound
  <2>2. TypeOK'
    BY <1>1, <1>2, <1>6 DEF StorageInv, StorageSound, TypeOK
  <2>3. AmbiguousOnlyWithNull'
    BY <1>1, <1>2, <2>1 DEF AmbiguousOnlyWithNull
  <2>4. Distinct(rows)' /\ FoundKeyed'
    BY <1>1, <1>2, <1>6 DEF StorageInv, Distinct, SameKey, FoundKeyed
  <2> QED
    BY <1>3, <2>2, <2>3, <2>4 DEF StorageInv, StorageSound
<1>7. CASE /\ job' = [job EXCEPT ![s] = [pc |-> "write", model |-> m, given |-> v,
                          upsert |-> upsert, found |-> found, seen |-> DOMAIN rows]]
           /\ UNCHANGED terminated
  <2>1. m \in Models
    BY DEF Models
  <2>2. found \subseteq DOMAIN rows /\ \A j \in found, c \in T.key : rows[j][c] = Stored(m, c)
    BY RowsFit, MatchingKeyed DEF Matching
  <2>3. DOMAIN rows \subseteq Ids /\ job \in [Savers -> Job]
    BY DEF StorageInv, StorageSound, TypeOK
  <2> HIDE DEF m, found
  <2> DEFINE new == [pc |-> "write", model |-> m, given |-> v, upsert |-> upsert,
                     found |-> found, seen |-> DOMAIN rows]
  <2>4. new \in Job
    BY <2>1, <2>2, <2>3 DEF Job
  <2>5. /\ job' \in [Savers -> Job] /\ job'[s] = new
        /\ \A r \in Savers \ {s} : job'[r] = job[r]
    BY <1>7, <2>3, <2>4
  <2>6. TypeOK'
    BY <1>1, <1>2, <1>7, <2>5 DEF StorageInv, StorageSound, TypeOK
  <2>7. AmbiguousOnlyWithNull' /\ Distinct(rows)'
    BY <1>1, <1>2, <1>7 DEF StorageInv, Distinct, SameKey, AmbiguousOnlyWithNull
  <2>8. FoundKeyed'
    <3> SUFFICES ASSUME NEW r \in Savers, job'[r].pc = "write"
                 PROVE  /\ job'[r].found \subseteq DOMAIN rows'
                        /\ \A j \in job'[r].found, c \in T'.key : rows'[j][c] = Stored(job'[r].model, c)
      BY DEF FoundKeyed
    <3>1. CASE r = s
      BY <1>1, <1>2, <2>2, <2>5, <3>1
    <3>2. CASE r # s
      BY <1>1, <1>2, <2>5, <3>2 DEF StorageInv, FoundKeyed
    <3> QED
      BY <3>1, <3>2
  <2> QED
    BY <1>3, <2>6, <2>7, <2>8 DEF StorageInv, StorageSound
<1> QED
  BY <1>4, <1>5, <1>6, <1>7

LEMMA UpdateStep ==
  ASSUME StorageInv, NEW s \in Savers, Update(s)
  PROVE  StorageInv' /\ RowsKeep
<1>1. /\ UNCHANGED <<table, focus, sparse, terminated>>
      /\ ~ terminated /\ saves' \in 0 .. MaxSaves /\ job[s].pc = "write"
  BY DEF Update, StorageInv, StorageSound, TypeOK
<1> DEFINE m == job[s].model
<1>2. PICK i \in job[s].found :
        \/ /\ Complete(UpdatedRow(rows[i], m)) /\ ~ Clashes(rows, UpdatedRow(rows[i], m), i)
           /\ rows' = [rows EXCEPT ![i] = UpdatedRow(rows[i], m)] /\ Ends(s, "updated")
        \/ rows' = rows /\ Ends(s, "refused")
  BY DEF Update
<1>3. CASE rows' = rows /\ Ends(s, "refused")
  BY <1>1, <1>3, RefusedKeeps
<1>4. CASE /\ ~ Clashes(rows, UpdatedRow(rows[i], m), i)
           /\ rows' = [rows EXCEPT ![i] = UpdatedRow(rows[i], m)] /\ Ends(s, "updated")
  <2> DEFINE row == UpdatedRow(rows[i], m)
  <2>1. Filed(rows) /\ Distinct(rows) /\ table \in DOMAIN Tables /\ m \in Models
    BY <1>1, RowsFit, WritingJob DEF StorageInv, StorageSound
  <2>2. i \in DOMAIN rows /\ \A c \in T.key : rows[i][c] = Stored(m, c)
    BY <1>1 DEF StorageInv, FoundKeyed
  <2>3. row \in [Columns -> Cells] /\ row["id"] = rows[i]["id"]
    BY <2>1, <2>2, UpdatedIsRow DEF Filed
  <2>4. T.key \subseteq Columns
    BY <2>1, TableCoherent DEF Coherent, Columns
  <2>5. \A c \in T.key : row[c] = rows[i][c]
    BY <2>2, <2>4 DEF UpdatedRow
  <2>6. \A j \in DOMAIN rows \ {i} : ~ SameKey(rows[j], row) /\ ~ SameKey(row, rows[j])
    BY <1>4 DEF Clashes, SameKey
  <2> HIDE DEF row
  <2>7. rows' = [rows EXCEPT ![i] = row]
    BY <1>4 DEF row
  <2>8. DOMAIN rows' = DOMAIN rows /\ rows'[i] = row /\ \A j \in DOMAIN rows \ {i} : rows'[j] = rows[j]
    BY <2>2, <2>7
  <2>9. Filed(rows')
    BY <2>1, <2>2, <2>3, <2>8 DEF Filed
  <2>10. Distinct(rows')
    BY <2>1, <2>6, <2>8 DEF Distinct
  <2>11. RowsKeep
    BY <2>3, <2>5, <2>8 DEF RowsKeep
  <2> QED
    BY <1>1, <1>4, <2>9, <2>10, <2>11, WriteKeeps DEF Outcomes
<1> QED
  BY <1>2, <1>3, <1>4

LEMMA InsertStep ==
  ASSUME StorageInv, NEW s \in Savers, Insert(s)
  PROVE  StorageInv' /\ RowsKeep
<1>1. /\ UNCHANGED <<table, focus, sparse, terminated>>
      /\ ~ terminated /\ saves' \in 0 .. MaxSaves /\ job[s].pc = "write"
  BY DEF Insert, StorageInv, StorageSound, TypeOK
<1> DEFINE row == InsertedRow(job[s].model)
<1>2. \/ CanInsert(rows, row) /\ rows' = WithRow(rows, row["id"], row) /\ Ends(s, "inserted")
      \/ rows' = rows /\ Ends(s, "refused")
  BY DEF Insert
<1>3. row \in [Columns -> Cells] /\ row["id"] \in Ids \cup {Null}
  BY <1>1, RowsFit, WritingJob, InsertedIsRow DEF StorageInv, StorageSound
<1> HIDE DEF row
<1>4. CASE CanInsert(rows, row) /\ rows' = WithRow(rows, row["id"], row) /\ Ends(s, "inserted")
  <2>1. /\ Filed(rows') /\ Distinct(rows')
        /\ \A i \in DOMAIN rows : i \in DOMAIN rows' /\ rows'[i] = rows[i]
    BY <1>3, <1>4, RowsFit, InsertFits
  <2>2. RowsKeep
    BY <2>1 DEF RowsKeep
  <2> QED
    BY <1>1, <1>4, <2>1, <2>2, WriteKeeps DEF Outcomes
<1>5. CASE rows' = rows /\ Ends(s, "refused")
  BY <1>1, <1>5, RefusedKeeps
<1> QED
  BY <1>2, <1>4, <1>5

LEMMA SaveCandlesStep ==
  ASSUME StorageInv, NEW s \in Savers, SaveCandles(s)
  PROVE  StorageInv' /\ RowsKeep
<1>1. /\ UNCHANGED <<table, focus, sparse, terminated>>
      /\ ~ terminated /\ saves' \in 0 .. MaxSaves
  BY DEF SaveCandles, StorageInv, StorageSound, TypeOK
<1>2. PICK m1 \in Models, m2 \in Models :
        LET r1 == InsertedRow(m1)
            r2 == InsertedRow(m2)
            one == WithRow(rows, r1["id"], r1)
        IN \/ /\ CanInsert(rows, r1) /\ CanInsert(one, r2)
              /\ rows' = WithRow(one, r2["id"], r2) /\ Ends(s, "inserted")
           \/ rows' = rows /\ Ends(s, "refused")
  BY DEF SaveCandles
<1> DEFINE r1 == InsertedRow(m1)
           r2 == InsertedRow(m2)
           one == WithRow(rows, r1["id"], r1)
<1>3. CASE rows' = rows /\ Ends(s, "refused")
  BY <1>1, <1>3, RefusedKeeps
<1>4. CASE /\ CanInsert(rows, r1) /\ CanInsert(one, r2)
           /\ rows' = WithRow(one, r2["id"], r2) /\ Ends(s, "inserted")
  <2>1. /\ r1 \in [Columns -> Cells] /\ r1["id"] \in Ids \cup {Null}
        /\ r2 \in [Columns -> Cells] /\ r2["id"] \in Ids \cup {Null}
    BY RowsFit, InsertedIsRow
  <2> HIDE DEF r1, r2
  <2>2. /\ Filed(one) /\ Distinct(one)
        /\ \A i \in DOMAIN rows : i \in DOMAIN one /\ one[i] = rows[i]
    BY <1>4, <2>1, RowsFit, InsertFits
  <2> HIDE DEF one
  <2>3. /\ Filed(rows') /\ Distinct(rows')
        /\ \A i \in DOMAIN one : i \in DOMAIN rows' /\ rows'[i] = one[i]
    BY <1>4, <2>1, <2>2, RowsFit, InsertFits
  <2>4. RowsKeep
    BY <2>2, <2>3 DEF RowsKeep
  <2> QED
    BY <1>1, <1>4, <2>3, <2>4, WriteKeeps DEF Outcomes
<1> QED
  BY <1>2, <1>3, <1>4

-------------------------------------------------------------------------------
(* What becomes of a save. *)

\* No column is lost on the way through a table's lists: the constructor fills
\* it in, both statements write it, a query selects it and fromRow reads it.
Copied(t) ==
  /\ t.columns \subseteq t.attributes /\ t.columns \subseteq t.inserted
  /\ t.columns \ {"id"} \subseteq t.updated
  /\ t.columns \subseteq t.decoded /\ t.decoded \subseteq t.selected

LEMMA TablesCopied == \A t \in DOMAIN Tables : Copied(Tables[t])
<1>1. Copied(Tables["orders"])
  BY DEF Copied, Tables, OrderAttributes, OrderInserted, OrderUpdated,
         OrderSelected, OrderDecoded
<1>2. Copied(Tables["candles"])
  BY DEF Copied, Tables, CandleAttributes, CandleInserted, CandleUpdated,
         CandleSelected, CandleDecoded
<1>3. Copied(Tables["closed_trades"])
  BY DEF Copied, Tables, ClosedTradeAttributes, ClosedTradeInserted, ClosedTradeUpdated,
         ClosedTradeSelected, ClosedTradeDecoded
<1>4. Copied(Tables["daily_balances"])
  BY DEF Copied, Tables, DailyBalanceAttributes, DailyBalanceInserted, DailyBalanceUpdated,
         DailyBalanceSelected, DailyBalanceDecoded
<1>5. Copied(Tables["exchange_api_keys"])
  BY DEF Copied, Tables, ExchangeApiKeysAttributes, ExchangeApiKeysInserted, ExchangeApiKeysUpdated,
         ExchangeApiKeysSelected, ExchangeApiKeysDecoded
<1>6. Copied(Tables["logs"])
  BY DEF Copied, Tables, LogAttributes, LogInserted, LogUpdated,
         LogSelected, LogDecoded
<1>7. Copied(Tables["notification_api_keys"])
  BY DEF Copied, Tables, NotificationApiKeysAttributes, NotificationApiKeysInserted, NotificationApiKeysUpdated,
         NotificationApiKeysSelected, NotificationApiKeysDecoded
<1>8. Copied(Tables["options"])
  BY DEF Copied, Tables, OptionAttributes, OptionInserted, OptionUpdated,
         OptionSelected, OptionDecoded
<1>9. Copied(Tables["orderbooks"])
  BY DEF Copied, Tables, OrderbookAttributes, OrderbookInserted, OrderbookUpdated,
         OrderbookSelected, OrderbookDecoded
<1>10. Copied(Tables["tickers"])
  BY DEF Copied, Tables, TickerAttributes, TickerInserted, TickerUpdated,
         TickerSelected, TickerDecoded
<1>11. Copied(Tables["trades"])
  BY DEF Copied, Tables, TradeAttributes, TradeInserted, TradeUpdated,
         TradeSelected, TradeDecoded
<1>12. DOMAIN Tables =
         {"orders", "candles", "closed_trades", "daily_balances", "exchange_api_keys", "logs",
          "notification_api_keys", "options", "orderbooks", "tickers", "trades"}
  BY DEF Tables
<1> QED
  BY <1>1, <1>2, <1>3, <1>4, <1>5, <1>6, <1>7, <1>8, <1>9, <1>10, <1>11, <1>12

LEMMA TableCopied == ASSUME table \in DOMAIN Tables PROVE Copied(T)
BY TablesCopied DEF T

\* A saver between its two statements is about to write a model made from what
\* it was given, and found, of the rows there were, those with the model's
\* key: one at most.  Their keys are still the same.
Searched ==
  \A s \in Savers : job[s].pc = "write" =>
    /\ \E i \in Ids : job[s].model = Model(i, job[s].given)
    /\ Cardinality(job[s].found) <= 1
    /\ job[s].seen \subseteq DOMAIN rows
    /\ \A j \in job[s].seen :
         (\A c \in T.key : rows[j][c] = Stored(job[s].model, c)) => j \in job[s].found

\* No row lacks a column that must not be null.
AllComplete(rs) == \A i \in DOMAIN rs : Complete(rs[i])

SaveInv == Searched /\ AllComplete(rows)

\* What a model made from given values holds.
LEMMA ModelMembers ==
  ASSUME table \in DOMAIN Tables, NEW i \in Ids, NEW v \in Given, NEW c \in Columns
  PROVE  LET m == Model(i, v) IN
         /\ m["id"] = i /\ Stored(m, "id") = i
         /\ c # "id" => /\ m[c] = IF c = focus THEN v ELSE Usual(c)
                        /\ m[c] \in Value \cup {Absent, Blank}
         /\ c \notin T.nullable => m[c] # Absent /\ Stored(m, c) # Null
<1>1. "id" \in Columns
  BY TableCoherent DEF Coherent, Columns
<1>2. c \in T.attributes
  BY TableCopied DEF Copied, Columns
<1>3. i # Absent /\ i # Blank /\ i # Null
  BY IdsAssumption
<1>4. v \in Value \cup {Absent, Blank}
  BY DEF Given, MemberOf, Value
<1>5. focus \notin T.nullable => v \in Value
  BY DEF Given, MemberOf, Value
<1>6. Usual(c) \in {Absent, "v1"} /\ (c \notin T.nullable => Usual(c) = "v1")
  BY DEF Usual
<1> DEFINE m == Model(i, v)
<1>7. m["id"] = i /\ (c # "id" => m[c] = IF c = focus THEN v ELSE Usual(c))
  BY <1>1, <1>2 DEF Model
<1> HIDE DEF m
<1>8. c # "id" => m[c] \in Value \cup {Absent, Blank}
  BY <1>4, <1>6, <1>7 DEF Value
<1>9. Stored(m, "id") = i
  BY <1>3, <1>7 DEF Stored
<1>10. ASSUME c \notin T.nullable PROVE m[c] # Absent /\ Stored(m, c) # Null
  <2>1. CASE c = "id"
    BY <1>3, <1>7, <1>9, <2>1
  <2>2. CASE c # "id"
    <3>1. m[c] \in Value
      BY <1>5, <1>6, <1>7, <1>10, <2>2 DEF Value
    <3> QED
      BY <3>1 DEF Stored, Value, Absent, Blank, Null
  <2> QED
    BY <2>1, <2>2
<1> QED
  BY <1>7, <1>8, <1>9, <1>10 DEF m

\* What a saver in the middle of a save was given.
LEMMA WritingGiven ==
  ASSUME TypeOK, NEW s \in Savers, job[s].pc = "write"
  PROVE  /\ job[s].given \in Given /\ job[s].upsert \in BOOLEAN
         /\ job[s].found \subseteq Ids /\ job[s].seen \subseteq Ids
<1>1. job[s] \in Job /\ Idle.pc = "idle"
  BY DEF TypeOK, Idle
<1>2. job[s] \in [pc : {"write"}, model : Models, given : Given, upsert : BOOLEAN,
                  found : SUBSET Ids, seen : SUBSET Ids]
  BY <1>1 DEF Job
<1> QED
  BY <1>2

\* What it writes lacks nothing.
LEMMA WritesComplete ==
  ASSUME table \in DOMAIN Tables, NEW i \in Ids, NEW v \in Given
  PROVE  /\ Complete(InsertedRow(Model(i, v)))
         /\ \A row : Complete(row) => Complete(UpdatedRow(row, Model(i, v)))
<1> DEFINE m == Model(i, v)
<1>1. \A c \in Columns \ T.nullable : Stored(m, c) # Null
  BY ModelMembers
<1> HIDE DEF m
<1>2. Columns \subseteq T.inserted
  BY TableCopied DEF Copied, Columns
<1>3. Complete(InsertedRow(m))
  BY <1>1, <1>2 DEF Complete, InsertedRow
<1>4. \A row : Complete(row) => Complete(UpdatedRow(row, m))
  BY <1>1 DEF Complete, UpdatedRow
<1> QED
  BY <1>3, <1>4 DEF m

\* A search is as good as it was while no row goes away or changes its key.
LEMMA SearchKept ==
  ASSUME StorageInv, Searched, RowsKeep, UNCHANGED <<table, focus, sparse>>,
         NEW r \in Savers, job'[r].pc = "write", job'[r] = job[r]
  PROVE  /\ \E i \in Ids : job'[r].model = Model(i, job'[r].given)
         /\ Cardinality(job'[r].found) <= 1
         /\ job'[r].seen \subseteq DOMAIN rows'
         /\ \A j \in job'[r].seen :
              (\A c \in T.key : rows'[j][c] = Stored(job'[r].model, c)) => j \in job'[r].found
<1>1. /\ \E i \in Ids : job[r].model = Model(i, job[r].given)
      /\ Cardinality(job[r].found) <= 1
      /\ job[r].seen \subseteq DOMAIN rows
      /\ \A j \in job[r].seen :
           (\A c \in T.key : rows[j][c] = Stored(job[r].model, c)) => j \in job[r].found
  BY DEF Searched
<1>2. \A j \in DOMAIN rows : j \in DOMAIN rows' /\ \A c \in T.key : rows'[j][c] = rows[j][c]
  BY DEF RowsKeep
<1>3. ASSUME NEW j \in job[r].seen, \A c \in T.key : rows'[j][c] = Stored(job[r].model, c)
      PROVE  j \in job[r].found
  <2>1. \A c \in T.key : rows[j][c] = Stored(job[r].model, c)
    BY <1>1, <1>2, <1>3
  <2> QED
    BY <1>1, <2>1
<1>4. job[r].seen \subseteq DOMAIN rows'
  BY <1>1, <1>2
<1> QED
  BY <1>1, <1>3, <1>4

\* The searches of the next state, in terms of this one.
LEMMA SearchedNext ==
  ASSUME UNCHANGED <<table, focus, sparse>>,
         \A r \in Savers : job'[r].pc = "write" =>
           /\ \E i \in Ids : job'[r].model = Model(i, job'[r].given)
           /\ Cardinality(job'[r].found) <= 1
           /\ job'[r].seen \subseteq DOMAIN rows'
           /\ \A j \in job'[r].seen :
                (\A c \in T.key : rows'[j][c] = Stored(job'[r].model, c)) => j \in job'[r].found
  PROVE  Searched'
<1>1. T' = T /\ Columns' = Columns
  BY FrameSame
<1>2. \A i, v : Model(i, v)' = Model(i, v)
  BY <1>1 DEF Model, Usual
<1>3. SUFFICES ASSUME NEW r \in Savers, job'[r].pc = "write"
               PROVE  /\ \E i \in Ids : job'[r].model = Model(i, job[r].given)'
                      /\ Cardinality(job'[r].found) <= 1
                      /\ job'[r].seen \subseteq DOMAIN rows'
                      /\ \A j \in job'[r].seen :
                           (\A c \in T'.key : rows'[j][c] = Stored(job'[r].model, c))
                             => j \in job'[r].found
  BY DEF Searched, Stored
<1>4. PICK i \in Ids : job'[r].model = Model(i, job'[r].given)
  BY <1>3
<1>5. Model(i, job[r].given)' = Model(i, job'[r].given)
  BY <1>1 DEF Model, Usual
<1> QED
  BY <1>1, <1>3, <1>4, <1>5

\* The rows of the next state lack nothing.
LEMMA CompleteNext ==
  ASSUME UNCHANGED <<table, focus, sparse>>, \A i \in DOMAIN rows' : Complete(rows'[i])
  PROVE  AllComplete(rows)'
<1>1. T' = T /\ Columns' = Columns
  BY FrameSame
<1> QED
  BY <1>1 DEF AllComplete, Complete

\* The end of a save leaves the others' searches alone.
LEMMA EndKeepsSearches ==
  ASSUME StorageInv, Searched, RowsKeep, UNCHANGED <<table, focus, sparse>>,
         NEW s \in Savers, NEW o, Ends(s, o)
  PROVE  Searched'
<1>1. \A r \in Savers : job'[r].pc = "write" => job'[r] = job[r]
  BY DEF StorageInv, StorageSound, TypeOK, Ends
<1> QED
  BY <1>1, SearchKept, SearchedNext

LEMMA CheckSearches ==
  ASSUME StorageInv, SaveInv, NEW s \in Savers, Check(s)
  PROVE  SaveInv'
<1>1. UNCHANGED <<table, focus, sparse, rows>> /\ RowsKeep
  BY CheckStep DEF Check
<1>2. AllComplete(rows)'
  BY <1>1, CompleteNext DEF SaveInv, AllComplete
<1>3. PICK i \in Ids, v \in Given, upsert \in BOOLEAN :
        LET m == Model(i, v)
            found == Matching(rows, KeyOf(m)) IN
        \/ Ends(s, "unreadable")
        \/ UNCHANGED job
        \/ /\ Cardinality(found) <= 1
           /\ job' = [job EXCEPT ![s] = [pc |-> "write", model |-> m, given |-> v,
                          upsert |-> upsert, found |-> found, seen |-> DOMAIN rows]]
  BY DEF Check
<1> DEFINE m == Model(i, v)
           found == Matching(rows, KeyOf(m))
           new == [pc |-> "write", model |-> m, given |-> v, upsert |-> upsert,
                   found |-> found, seen |-> DOMAIN rows]
<1>4. CASE Ends(s, "unreadable")
  BY <1>1, <1>2, <1>4, EndKeepsSearches DEF SaveInv
<1>5. CASE UNCHANGED job
  <2>1. \A r \in Savers : job'[r] = job[r]
    BY <1>5
  <2> QED
    BY <1>1, <1>2, <2>1, SearchKept, SearchedNext DEF SaveInv
<1>6. CASE Cardinality(found) <= 1 /\ job' = [job EXCEPT ![s] = new]
  <2>1. \A j \in DOMAIN rows : (\A c \in T.key : rows[j][c] = Stored(m, c)) => j \in found
    <3>1. T.key \subseteq T.with
      BY TableCoherent, RowsFit DEF Coherent
    <3> QED
      BY <3>1 DEF Matching, KeyOf
  <2> HIDE DEF m, found
  <2>2. job'[s] = new /\ \A r \in Savers \ {s} : job'[r] = job[r]
    BY <1>6 DEF StorageInv, StorageSound, TypeOK
  <2> SUFFICES ASSUME NEW r \in Savers, job'[r].pc = "write"
               PROVE  /\ \E k \in Ids : job'[r].model = Model(k, job'[r].given)
                      /\ Cardinality(job'[r].found) <= 1
                      /\ job'[r].seen \subseteq DOMAIN rows'
                      /\ \A j \in job'[r].seen :
                           (\A c \in T.key : rows'[j][c] = Stored(job'[r].model, c))
                             => j \in job'[r].found
    BY <1>1, <1>2, SearchedNext DEF SaveInv
  <2>3. CASE r = s
    BY <1>1, <1>6, <2>1, <2>2, <2>3 DEF m
  <2>4. CASE r # s
    <3>1. job'[r] = job[r]
      BY <2>2, <2>4
    <3> QED
      BY <1>1, <3>1, SearchKept DEF SaveInv
  <2> QED
    BY <2>3, <2>4
<1> QED
  BY <1>3, <1>4, <1>5, <1>6

LEMMA UpdateSearches ==
  ASSUME StorageInv, SaveInv, NEW s \in Savers, Update(s)
  PROVE  SaveInv'
<1>1. UNCHANGED <<table, focus, sparse>> /\ RowsKeep
  BY UpdateStep DEF Update
<1>2. PICK i \in job[s].found :
        \/ /\ Complete(UpdatedRow(rows[i], job[s].model))
           /\ rows' = [rows EXCEPT ![i] = UpdatedRow(rows[i], job[s].model)] /\ Ends(s, "updated")
        \/ rows' = rows /\ Ends(s, "refused")
  BY DEF Update
<1>3. Searched'
  BY <1>1, <1>2, EndKeepsSearches DEF SaveInv
<1>4. \A j \in DOMAIN rows' : Complete(rows'[j])
  <2> DEFINE row == UpdatedRow(rows[i], job[s].model)
  <2>1. \A j \in DOMAIN rows : Complete(rows[j])
    BY DEF SaveInv, AllComplete
  <2>2. \/ Complete(row) /\ rows' = [rows EXCEPT ![i] = row]
        \/ rows' = rows
    BY <1>2
  <2> HIDE DEF row
  <2> QED
    BY <2>1, <2>2
<1> QED
  BY <1>1, <1>3, <1>4, CompleteNext DEF SaveInv

\* What the server lets in lacks nothing.
LEMMA InsertedComplete ==
  ASSUME NEW rs, AllComplete(rs), NEW row, NEW i, CanInsert(rs, row)
  PROVE  AllComplete(WithRow(rs, i, row))
BY DEF AllComplete, CanInsert, WithRow

LEMMA InsertSearches ==
  ASSUME StorageInv, SaveInv, NEW s \in Savers, Insert(s)
  PROVE  SaveInv'
<1>1. UNCHANGED <<table, focus, sparse>> /\ RowsKeep
  BY InsertStep DEF Insert
<1> DEFINE row == InsertedRow(job[s].model)
<1>2. \/ CanInsert(rows, row) /\ rows' = WithRow(rows, row["id"], row) /\ Ends(s, "inserted")
      \/ rows' = rows /\ Ends(s, "refused")
  BY DEF Insert
<1> HIDE DEF row
<1>3. Searched'
  BY <1>1, <1>2, EndKeepsSearches DEF SaveInv
<1>4. AllComplete(rows')
  BY <1>2, InsertedComplete DEF SaveInv
<1> QED
  BY <1>1, <1>3, <1>4, CompleteNext DEF SaveInv, AllComplete

LEMMA SaveCandlesSearches ==
  ASSUME StorageInv, SaveInv, NEW s \in Savers, SaveCandles(s)
  PROVE  SaveInv'
<1>1. UNCHANGED <<table, focus, sparse>> /\ RowsKeep
  BY SaveCandlesStep DEF SaveCandles
<1>2. PICK m1 \in Models, m2 \in Models :
        LET r1 == InsertedRow(m1)
            r2 == InsertedRow(m2)
            one == WithRow(rows, r1["id"], r1)
        IN \/ /\ CanInsert(rows, r1) /\ CanInsert(one, r2)
              /\ rows' = WithRow(one, r2["id"], r2) /\ Ends(s, "inserted")
           \/ rows' = rows /\ Ends(s, "refused")
  BY DEF SaveCandles
<1> DEFINE r1 == InsertedRow(m1)
           r2 == InsertedRow(m2)
           one == WithRow(rows, r1["id"], r1)
<1> HIDE DEF r1, r2, one
<1>3. \/ /\ CanInsert(rows, r1) /\ CanInsert(one, r2)
         /\ rows' = WithRow(one, r2["id"], r2) /\ Ends(s, "inserted")
      \/ rows' = rows /\ Ends(s, "refused")
  BY <1>2 DEF r1, r2, one
<1>4. Searched'
  BY <1>1, <1>3, EndKeepsSearches DEF SaveInv
<1>5. CanInsert(rows, r1) => AllComplete(one)
  BY InsertedComplete DEF SaveInv, one
<1>6. AllComplete(rows')
  BY <1>3, <1>5, InsertedComplete DEF SaveInv
<1> QED
  BY <1>1, <1>4, <1>6, CompleteNext DEF SaveInv, AllComplete

LEMMA SaveStart == Init => SaveInv
BY DEF Init, SaveInv, Searched, AllComplete, Idle

LEMMA SaveStep == StorageInv /\ SaveInv /\ [Next]_vars => SaveInv'
<1> SUFFICES ASSUME StorageInv, SaveInv, [Next]_vars PROVE SaveInv'
  OBVIOUS
<1>1. CASE Next
  <2>1. PICK s \in Savers : Check(s) \/ Update(s) \/ Insert(s) \/ SaveCandles(s)
    BY <1>1 DEF Next
  <2> QED
    BY <2>1, CheckSearches, UpdateSearches, InsertSearches, SaveCandlesSearches
<1>2. CASE UNCHANGED vars
  <2>1. UNCHANGED <<table, focus, sparse, rows, job>>
    BY <1>2 DEF vars
  <2>2. RowsKeep
    BY <2>1 DEF RowsKeep
  <2>3. Searched'
    BY <2>1, <2>2, SearchKept, SearchedNext DEF SaveInv
  <2>4. AllComplete(rows)'
    BY <2>1, CompleteNext DEF SaveInv, AllComplete
  <2> QED
    BY <2>3, <2>4 DEF SaveInv
<1> QED
  BY <1>1, <1>2

\* A save ends by one of its saver's second statements.
LEMMA EndedBy ==
  ASSUME StorageInv, [Next]_vars, NEW s \in Savers, NEW os, Ended(s, os)
  PROVE  Update(s) \/ Insert(s)
<1>1. job[s].pc = "write" /\ job'[s].pc = "idle" /\ job \in [Savers -> Job]
  BY DEF Ended, StorageInv, StorageSound, TypeOK
<1>2. job' # job
  BY <1>1
<1>3. PICK r \in Savers : Check(r) \/ Update(r) \/ Insert(r) \/ SaveCandles(r)
  BY <1>2 DEF Next, vars
<1>4. r = s
  <2> SUFFICES ASSUME r # s PROVE FALSE
    OBVIOUS
  <2>1. job'[s] = job[s]
    BY <1>1, <1>3 DEF Check, Update, Insert, SaveCandles, Ends
  <2> QED
    BY <1>1, <2>1
<1> QED
  BY <1>1, <1>3, <1>4 DEF Check, SaveCandles

\* What was given for a column comes back from the row it was written to.
LEMMA CellReadsBack ==
  ASSUME table \in DOMAIN Tables, NEW i \in Ids, NEW v \in Given, NEW c \in Columns \ ({"id"} \cup Booleans),
         NEW g, g = (IF c = focus THEN v ELSE Usual(c)), g # Absent,
         NEW row, row[c] = Stored(Model(i, v), c)
  PROVE  Decoded(row)[c] = IF g = Blank THEN Absent ELSE g
<1> DEFINE m == Model(i, v)
<1>1. m[c] = g /\ g \in Value \cup {Blank}
  BY ModelMembers
<1> HIDE DEF m
<1>2. row[c] = IF g = Blank THEN Null ELSE g
  BY <1>1 DEF m, Stored
<1>3. c \in T.decoded
  BY TableCopied DEF Copied, Columns
<1>4. Decoded(row)[c] = IF row[c] = Null THEN Absent ELSE row[c]
  BY <1>3 DEF Decoded
<1> QED
  BY <1>1, <1>2, <1>4 DEF Value, Absent, Blank, Null

\* Either statement leaves the row that it wrote readable.
LEMMA EndReadsBack ==
  ASSUME StorageInv, SaveInv, [Next]_vars, NEW s \in Savers,
         Ended(s, {"updated", "inserted"}), NEW c \in Columns \ ({"id"} \cup Booleans),
         NEW g, g = (IF c = focus THEN job[s].given ELSE Usual(c)), g # Absent,
         NEW i, i = (IF job'[s].outcome = "inserted" THEN job[s].model["id"]
                     ELSE CHOOSE j \in job[s].found : TRUE)
  PROVE  Decoded(rows'[i])[c] = IF g = Blank THEN Absent ELSE g
<1>1. /\ table \in DOMAIN Tables /\ job \in [Savers -> Job] /\ job[s].pc = "write"
      /\ job'[s].outcome \in {"updated", "inserted"}
  BY DEF StorageInv, StorageSound, TypeOK, Ended
<1>2. PICK k \in Ids : job[s].model = Model(k, job[s].given)
  BY <1>1 DEF SaveInv, Searched
<1>3. /\ job[s].given \in Given /\ job[s].found \subseteq Ids
      /\ Cardinality(job[s].found) <= 1 /\ job[s].found \subseteq DOMAIN rows
  BY <1>1, WritingGiven DEF StorageInv, StorageSound, SaveInv, Searched, FoundKeyed
<1> DEFINE m == job[s].model
<1>4. m = Model(k, job[s].given) /\ m["id"] = k /\ Stored(m, "id") = k /\ m[c] = g
  BY <1>1, <1>2, <1>3, ModelMembers
<1> SUFFICES rows'[i][c] = Stored(m, c)
  BY <1>1, <1>3, <1>4, CellReadsBack
<1> HIDE DEF m
<1>5. Update(s) \/ Insert(s)
  BY EndedBy
<1>6. CASE Update(s)
  <2>1. PICK j \in job[s].found :
          \/ rows' = [rows EXCEPT ![j] = UpdatedRow(rows[j], m)] /\ Ends(s, "updated")
          \/ Ends(s, "refused")
    BY <1>6 DEF Update, m
  <2>2. Ends(s, "updated") => job'[s].outcome = "updated"
    BY <1>1 DEF Ends
  <2>3. ~ Ends(s, "refused")
    BY <1>1 DEF Ends
  <2>4. i = CHOOSE x \in job[s].found : TRUE
    BY <2>1, <2>2, <2>3
  <2>5. i = j
    <3>1. IsFiniteSet(job[s].found)
      BY <1>3, FS_Subset
    <3>2. i \in job[s].found
      BY <2>1, <2>4
    <3>3. \A x, y \in job[s].found : x = y
      <4> SUFFICES ASSUME NEW x \in job[s].found, NEW y \in job[s].found PROVE x = y
        OBVIOUS
      <4>1. Cardinality(job[s].found) \in Nat /\ Cardinality(job[s].found) # 0
        BY <3>1, FS_CardinalityType, FS_EmptySet
      <4>2. Cardinality(job[s].found) = 1
        BY <1>3, <4>1
      <4>3. \E z : job[s].found = {z}
        BY <3>1, <4>2, FS_Singleton
      <4> QED
        BY <4>3
    <3> QED
      BY <3>2, <3>3
  <2>6. rows'[j] = UpdatedRow(rows[j], m)
    BY <1>3, <2>1, <2>3
  <2>7. c \in T.updated
    BY <1>1, TableCopied DEF Copied, Columns
  <2> QED
    BY <1>4, <2>5, <2>6, <2>7 DEF UpdatedRow
<1>7. CASE Insert(s)
  <2> DEFINE row == InsertedRow(m)
  <2>1. \/ rows' = WithRow(rows, row["id"], row) /\ Ends(s, "inserted")
        \/ Ends(s, "refused")
    BY <1>7 DEF Insert, m
  <2>2. Ends(s, "inserted") => job'[s].outcome = "inserted"
    BY <1>1 DEF Ends
  <2>3. ~ Ends(s, "refused")
    BY <1>1 DEF Ends
  <2>4. i = k
    BY <1>4, <2>1, <2>2, <2>3 DEF m
  <2>5. c \in T.inserted /\ "id" \in T.inserted /\ "id" \in Columns
    BY <1>1, TableCopied, TableCoherent DEF Copied, Coherent, Columns
  <2>6. row["id"] = k /\ row[c] = Stored(m, c)
    BY <1>4, <2>5 DEF InsertedRow
  <2> HIDE DEF row
  <2>7. rows'[k] = row
    BY <2>1, <2>3, <2>6 DEF WithRow
  <2> QED
    BY <2>4, <2>6, <2>7
<1> QED
  BY <1>5, <1>6, <1>7

\* An update is never refused: the row it writes lacks nothing, and has the key
\* that the row had.
LEMMA UpdateSucceeds ==
  ASSUME StorageInv, SaveInv, NEW s \in Savers, Update(s)
  PROVE  ~ Ends(s, "refused")
<1>1. /\ table \in DOMAIN Tables /\ job \in [Savers -> Job] /\ job[s].pc = "write"
      /\ Distinct(rows)
  BY DEF Update, StorageInv, StorageSound, TypeOK
<1>2. PICK k \in Ids : job[s].model = Model(k, job[s].given)
  BY <1>1 DEF SaveInv, Searched
<1>3. job[s].given \in Given
  BY <1>1, WritingGiven DEF StorageInv, StorageSound
<1> DEFINE m == job[s].model
<1>4. \A row : Complete(row) => Complete(UpdatedRow(row, m))
  BY <1>1, <1>2, <1>3, WritesComplete
<1>5. ASSUME NEW i \in job[s].found PROVE /\ Complete(UpdatedRow(rows[i], m))
                                          /\ ~ Clashes(rows, UpdatedRow(rows[i], m), i)
  <2>1. i \in DOMAIN rows /\ \A c \in T.key : rows[i][c] = Stored(m, c)
    BY <1>1, <1>5 DEF StorageInv, FoundKeyed
  <2>2. Complete(UpdatedRow(rows[i], m))
    BY <1>4, <2>1 DEF SaveInv, AllComplete
  <2> DEFINE row == UpdatedRow(rows[i], m)
  <2>3. T.key \subseteq Columns /\ (T.unique # {} => T.key = T.unique)
    BY <1>1, TableCoherent DEF Coherent, Columns
  <2>4. \A c \in T.key : row[c] = rows[i][c]
    BY <2>1, <2>3 DEF UpdatedRow
  <2> HIDE DEF row
  <2>5. ASSUME NEW j \in DOMAIN rows \ {i}, SameKey(rows[j], row) PROVE FALSE
    <3>1. T.unique # {} /\ \A c \in T.unique : rows[j][c] = row[c] /\ rows[j][c] # Null
      BY <2>5 DEF SameKey
    <3>2. SameKey(rows[j], rows[i])
      BY <2>3, <2>4, <3>1 DEF SameKey
    <3> QED
      BY <1>1, <2>1, <3>2 DEF Distinct
  <2>6. ~ Clashes(rows, row, i)
    BY <2>5 DEF Clashes
  <2> QED
    BY <2>2, <2>6 DEF row
<1> HIDE DEF m
<1>6. Ends(s, "updated")
  BY <1>5 DEF Update, m
<1> QED
  BY <1>1, <1>6 DEF Ends

\* An insertion of a model whose key was not found is refused only if its
\* identifier is taken or rows have been added since the search.
LEMMA InsertRefused ==
  ASSUME StorageInv, SaveInv, NEW s \in Savers, Insert(s), job[s].upsert, Ends(s, "refused"),
         DOMAIN rows = job[s].seen, job[s].model["id"] \notin DOMAIN rows
  PROVE  FALSE
<1>1. table \in DOMAIN Tables /\ job \in [Savers -> Job] /\ job[s].pc = "write"
  BY DEF Insert, StorageInv, StorageSound, TypeOK
<1>2. PICK k \in Ids : job[s].model = Model(k, job[s].given)
  BY <1>1 DEF SaveInv, Searched
<1>3. job[s].given \in Given
  BY <1>1, WritingGiven DEF StorageInv, StorageSound
<1> DEFINE m == job[s].model
           row == InsertedRow(m)
<1>4. Complete(row)
  BY <1>1, <1>2, <1>3, WritesComplete
<1>5. "id" \in Columns /\ m["id"] = k /\ Stored(m, "id") = k
  BY <1>1, <1>2, <1>3, ModelMembers, TableCoherent DEF Coherent, Columns
<1>6. Columns \subseteq T.inserted
  BY <1>1, TableCopied DEF Copied, Columns
<1>7. row["id"] = k /\ \A c \in Columns : row[c] = Stored(m, c)
  BY <1>5, <1>6 DEF InsertedRow
<1> HIDE DEF m, row
<1>8. job[s].found = {}
  BY DEF Insert
<1>9. ~ Clashes(rows, row, k)
  <2> SUFFICES ASSUME NEW j \in DOMAIN rows, SameKey(rows[j], row) PROVE FALSE
    BY DEF Clashes
  <2>1. T.unique # {} /\ \A c \in T.unique : rows[j][c] = row[c]
    BY DEF SameKey
  <2>2. T.key = T.unique /\ T.key \subseteq Columns
    BY <1>1, <2>1, TableCoherent DEF Coherent, Columns
  <2>3. \A c \in T.key : rows[j][c] = Stored(m, c)
    BY <1>7, <2>1, <2>2
  <2>4. j \in job[s].found
    BY <1>1, <2>3 DEF SaveInv, Searched, m
  <2> QED
    BY <1>8, <2>4
<1>10. CanInsert(rows, row)
  BY <1>4, <1>5, <1>7, <1>9 DEF CanInsert, m
<1>11. Ends(s, "inserted")
  BY <1>10 DEF Insert, row, m
<1> QED
  BY <1>1, <1>11 DEF Ends

-------------------------------------------------------------------------------
(* The theorems. *)

LEMMA StorageInit == Init => StorageInv
<1> SUFFICES ASSUME Init PROVE StorageInv
  OBVIOUS
<1>1. DOMAIN rows = {}
  BY DEF Init
<1>2. Idle \in Job /\ Idle.pc = "idle"
  BY DEF Job, Idle
<1>3. TypeOK
  <2>1. sparse \in BOOLEAN
    BY Zenon DEF Init
  <2>2. job \in [Savers -> Job]
    BY <1>2 DEF Init
  <2>3. saves \in 0 .. MaxSaves
    BY DEF Init
  <2> QED
    BY <1>1, <2>1, <2>2, <2>3 DEF Init, TypeOK
<1>4. FoundKeyed
  BY <1>2 DEF Init, FoundKeyed
<1> QED
  BY <1>1, <1>3, <1>4 DEF StorageInv, StorageSound, AmbiguousOnlyWithNull, Distinct, Init

LEMMA StorageStep == StorageInv /\ [Next]_vars => StorageInv' /\ RowsKeep
<1> SUFFICES ASSUME StorageInv, [Next]_vars PROVE StorageInv' /\ RowsKeep
  OBVIOUS
<1>1. CASE Next
  <2>1. PICK s \in Savers : Check(s) \/ Update(s) \/ Insert(s) \/ SaveCandles(s)
    BY <1>1 DEF Next
  <2> QED
    BY <2>1, CheckStep, UpdateStep, InsertStep, SaveCandlesStep
<1>2. CASE UNCHANGED vars
  <2>1. T' = T /\ Columns' = Columns /\ Job' = Job
    BY <1>2, FrameSame DEF vars
  <2>2. TypeOK'
    BY <1>2, <2>1 DEF vars, StorageInv, StorageSound, TypeOK
  <2>3. AmbiguousOnlyWithNull' /\ Distinct(rows)' /\ FoundKeyed'
    BY <1>2, <2>1
    DEF vars, StorageInv, StorageSound, AmbiguousOnlyWithNull, Distinct, SameKey, FoundKeyed
  <2> QED
    BY <1>2, <2>2, <2>3 DEF vars, StorageInv, StorageSound, RowsKeep
<1> QED
  BY <1>1, <1>2

\* Whatever any number of savers do between each other's two statements, every
\* row is a row of its table, and save ends the process only over rows that a
\* NULL in the key kept the unique index from telling apart (DB.cpp 697-777).
THEOREM StorageIsSound == Spec => []StorageSound
<1>1. StorageInv => StorageSound
  BY DEF StorageInv
<1> QED
  BY <1>1, StorageInit, StorageStep, PTL DEF Spec

\* An update goes by an identifier found a statement earlier, and still hits a
\* row of the model's key: no row goes away or changes its identifier or its
\* key, however the savers interleave (DB.cpp 757-769).
THEOREM KeysAreStable == Spec => KeysStable
<1>1. StorageInv /\ [Next]_vars => [RowsKeep]_vars
  BY StorageStep
<1>2. Spec => [][RowsKeep]_vars
  BY <1>1, StorageInit, StorageStep, PTL DEF Spec
<1> QED
  BY <1>2 DEF KeysStable, RowsKeep

\* A filter finds the rows that meet its criterion and no others, in every
\* table and for every column it accepts (applyToQuery of each model).
THEOREM FiltersAreHonoured == Spec => []FiltersHonoured
<1>1. StorageInv => FiltersHonoured
  <2> SUFFICES ASSUME StorageInv, NEW c \in T.with \cap Columns, NEW v \in Value \cup Ids
               PROVE  FindByFilter([k \in {c} |-> v]) =
                        {{Decoded(rows[i]) : i \in {j \in DOMAIN rows : rows[j][c] = v}}}
    BY DEF FiltersHonoured
  <2> DEFINE crit == [k \in {c} |-> v]
             found == {Decoded(rows[i]) : i \in {j \in DOMAIN rows : rows[j][c] = v}}
  <2>1. c \in T.where /\ c # "timeframe_or_null"
    BY RowsFit, TableCoherent DEF Coherent, Columns
  <2>2. Matching(rows, crit) = {j \in DOMAIN rows : rows[j][c] = v}
    BY <2>1 DEF Matching
  <2>3. Completed(crit) = {crit}
    BY <2>1 DEF Completed
  <2>4. {Decoded(rows[j]) : j \in Matching(rows, crit)} = found
    BY <2>2
  <2> HIDE DEF crit, found
  <2>5. FindByFilter(crit) = {found}
    BY <2>3, <2>4 DEF FindByFilter
  <2> QED
    BY <2>5 DEF crit, found
<1> QED
  BY <1>1, StorageInit, StorageStep, PTL DEF Spec

\* A save that succeeds can be read back, in every table: each value that was
\* given for a column other than the identifier and the booleans comes back
\* through the lists of the constructor, the statement, the selection and
\* fromRow, whatever other savers do between the two statements of save
\* (DB.cpp 697-777).
THEOREM SavesReadBack == Spec => SavedReadsBack
<1>1. StorageInv /\ SaveInv /\ [Next]_vars =>
        \A s \in Savers :
          Ended(s, {"updated", "inserted"}) => ReadsBack(s, Columns \ ({"id"} \cup Booleans))
  <2> SUFFICES ASSUME StorageInv, SaveInv, [Next]_vars, NEW s \in Savers,
                      Ended(s, {"updated", "inserted"}),
                      NEW i, i = (IF job'[s].outcome = "inserted" THEN job[s].model["id"]
                                  ELSE CHOOSE j \in job[s].found : TRUE)
               PROVE  /\ Readable
                      /\ \A c \in Columns \ ({"id"} \cup Booleans) :
                           (IF c = focus THEN job[s].given ELSE Usual(c)) # Absent =>
                             Decoded(rows'[i])[c] =
                               IF (IF c = focus THEN job[s].given ELSE Usual(c)) = Blank
                               THEN Absent ELSE (IF c = focus THEN job[s].given ELSE Usual(c))
    BY DEF ReadsBack
  <2>1. Readable
    BY RowsFit, TableCopied DEF Copied, Readable
  <2>2. ASSUME NEW c \in Columns \ ({"id"} \cup Booleans),
               NEW g, g = (IF c = focus THEN job[s].given ELSE Usual(c)), g # Absent
        PROVE  Decoded(rows'[i])[c] = IF g = Blank THEN Absent ELSE g
    BY <2>2, EndReadsBack
  <2> QED
    BY <2>1, <2>2
<1> QED
  BY <1>1, StorageInit, StorageStep, SaveStart, SaveStep, PTL DEF Spec, SavedReadsBack

\* A save that may update is refused only when its identifier is taken or rows
\* were added between its two statements: its update never is, for the row
\* found keeps its key, and its insertion not if nothing happened since the
\* search (DB.cpp 697-777).
THEOREM RefusalsAreExplained == Spec => RefusalsExplained
<1>1. StorageInv /\ SaveInv /\ [Next]_vars =>
        \A s \in Savers :
          Ended(s, {"refused"}) /\ job[s].upsert =>
            \/ DOMAIN rows # job[s].seen
            \/ job[s].model["id"] \in DOMAIN rows
  <2> SUFFICES ASSUME StorageInv, SaveInv, [Next]_vars, NEW s \in Savers,
                      Ended(s, {"refused"}), job[s].upsert,
                      DOMAIN rows = job[s].seen, job[s].model["id"] \notin DOMAIN rows
               PROVE  FALSE
    OBVIOUS
  <2>1. job \in [Savers -> Job] /\ job'[s].outcome = "refused"
    BY DEF StorageInv, StorageSound, TypeOK, Ended
  <2>2. Update(s) \/ Insert(s)
    BY EndedBy
  <2>3. Ends(s, "updated") \/ Ends(s, "inserted") \/ Ends(s, "refused")
    BY <2>2 DEF Update, Insert
  <2>4. Ends(s, "refused")
    BY <2>1, <2>3 DEF Ends
  <2> QED
    BY <2>2, <2>4, UpdateSucceeds, InsertRefused
<1> QED
  BY <1>1, StorageInit, StorageStep, SaveStart, SaveStep, PTL DEF Spec, RefusalsExplained
=============================================================================
