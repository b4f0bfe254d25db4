------------------------------ MODULE Storage -------------------------------
(***************************************************************************)
(* Saving and finding models (src/DB.cpp, src/migrations).  save is two    *)
(* statements: a query for rows with the model's key, then an UPDATE of    *)
(* the row found or an INSERT.  Several savers, each on a connection of    *)
(* its own outside any transaction, run these statements one at a time in  *)
(* any interleaving; the server refuses what violates an index.            *)
(*                                                                         *)
(* One table is used per behaviour, and the models saved in it differ in   *)
(* their identifier and in one column, the focus.  Every column of every   *)
(* table is the focus of some behaviour.                                   *)
(***************************************************************************)
EXTENDS Schema, Naturals, FiniteSets

CONSTANTS
  Savers,      \* threads that save models
  Ids,         \* identifiers (uuids) of models
  MaxSaves     \* bound: calls of save and saveCandles in a behaviour

ASSUME StorageAssumption == IsFiniteSet(Ids) /\ MaxSaves \in Nat

VARIABLES
  table,       \* name of the table in use
  focus,       \* the column in which the models differ
  sparse,      \* whether the other optional members hold nothing
  rows,        \* contents of the table, by identifier
  job,         \* what each saver is doing, and the outcome of its last call
  saves,       \* calls so far
  terminated   \* std::terminate was called

vars == <<table, focus, sparse, rows, job, saves, terminated>>

T == Tables[table]
Columns == T.columns
Idle == [pc |-> "idle", outcome |-> "none"]

(***************************************************************************)
(* Values.  A member of a model holds a value, nothing (std::nullopt) or a *)
(* blank: the nil uuid, "" or the smallest integer, which the statements   *)
(* turn into NULL.  A price is compared with NaN for that, which is        *)
(* unequal to everything, so a price has no blank.                         *)
(***************************************************************************)
Absent == "absent"
Blank == "blank"
Null == "null"

\* Models are given identifiers that are not the nil uuid.
ASSUME IdsAssumption == Ids \cap {Absent, Blank, Null} = {}

Value == {"v1", "v2"}
MemberOf(c) ==
  IF c \notin T.nullable THEN Value
  ELSE Value \cup {Absent} \cup (IF c = "price" THEN {} ELSE {Blank})
Usual(c) == IF sparse /\ c \in T.nullable THEN Absent ELSE "v1"

\* A model made by the attribute constructor from all its attributes.
Model(i, v) ==
  [c \in Columns |-> IF c = "id" THEN i
                     ELSE IF c = focus /\ c \in T.attributes THEN v
                     ELSE Usual(c)]
Given == IF focus = "id" THEN {"v1"} ELSE MemberOf(focus)
Models == {Model(i, v) : i \in Ids, v \in Given}

\* What a statement writes or compares for a member.
Stored(m, c) == IF m[c] \in {Absent, Blank} THEN Null ELSE m[c]

InsertedRow(m) == [c \in Columns |-> IF c \in T.inserted THEN Stored(m, c) ELSE Null]
UpdatedRow(row, m) ==
  [c \in Columns |-> IF c \in T.updated /\ m[c] # Absent THEN Stored(m, c) ELSE row[c]]

\* The text of a BOOLEAN column as the server sends it, and fromRow's reading
\* of it.  The only such column is reduce_only; "v1" is false and "v2" is true.
Booleans == {"reduce_only"}
BooleanText(v) == IF v = "v2" THEN "t" ELSE "f"
ReadBoolean(text) == IF text \in {"1", "true"} THEN "v2" ELSE "v1"

\* fromRow: a member per column read; a column that was not selected throws.
Readable == T.decoded \subseteq T.selected
Decoded(row) ==
  [c \in Columns |-> IF c \notin T.decoded THEN "v1"
                     ELSE IF c \in Booleans THEN ReadBoolean(BooleanText(row[c]))
                     ELSE IF row[c] = Null THEN Absent ELSE row[c]]

(***************************************************************************)
(* Queries.  A filter applies the criteria it has code for; the conflict   *)
(* query of save is a filter on the key.                                   *)
(***************************************************************************)
Matching(rs, crit) ==
  {i \in DOMAIN rs : \A c \in DOMAIN crit \cap T.where : rs[i][c] = crit[c]}
KeyOf(m) == [c \in T.key \cap T.with |-> Stored(m, c)]

\* What the criteria of a filter may turn into.  With timeframe_or_null the
\* filter of candles reads the member timeframe, an empty std::optional unless
\* that criterion is given too: undefined, so any timeframe or none.
Completed(crit) ==
  IF "timeframe_or_null" \in DOMAIN crit /\ "timeframe" \notin DOMAIN crit
  THEN {[c \in DOMAIN crit \cup {"timeframe"} |-> IF c = "timeframe" THEN v ELSE crit[c]] :
          v \in Value \cup {Absent}}
  ELSE {crit}

\* The results that findByFilter may give.
FindByFilter(crit) ==
  {{Decoded(rows[j]) : j \in Matching(rows, full)} : full \in Completed(crit)}

(***************************************************************************)
(* The server: columns that are not nullable, the primary key, and one     *)
(* unique index, in which NULL is equal to nothing.                        *)
(***************************************************************************)
Complete(row) == \A c \in Columns \ T.nullable : row[c] # Null
SameKey(r, q) == T.unique # {} /\ \A c \in T.unique : r[c] = q[c] /\ r[c] # Null
Clashes(rs, row, i) == \E j \in DOMAIN rs \ {i} : SameKey(rs[j], row)

CanInsert(rs, row) ==
  /\ Complete(row)
  /\ row["id"] \notin DOMAIN rs
  /\ ~ Clashes(rs, row, row["id"])
WithRow(rs, i, row) == [j \in DOMAIN rs \cup {i} |-> IF j = i THEN row ELSE rs[j]]

-----------------------------------------------------------------------------
Init ==
  /\ table \in DOMAIN Tables
  /\ focus \in Columns
  /\ sparse \in IF T.nullable = {} THEN {FALSE} ELSE BOOLEAN
  /\ rows = [i \in {} |-> 0]
  /\ job = [s \in Savers |-> Idle]
  /\ saves = 0
  /\ terminated = FALSE

Ends(s, outcome) == job' = [job EXCEPT ![s] = [pc |-> "idle", outcome |-> outcome]]

\* save, first statement: look for rows with the model's key.  More than one
\* is answered by a throw with no exception to throw again.
Check(s) ==
  /\ ~ terminated /\ saves < MaxSaves
  /\ job[s].pc = "idle"
  /\ saves' = saves + 1
  /\ \E i \in Ids, v \in Given, upsert \in BOOLEAN :
       LET m == Model(i, v)
           found == Matching(rows, KeyOf(m)) IN
       \/ /\ found # {} /\ ~ Readable
          /\ Ends(s, "unreadable")
          /\ UNCHANGED terminated
       \/ /\ Cardinality(found) > 1 /\ Readable
          /\ terminated' = TRUE
          /\ UNCHANGED job
       \/ /\ Cardinality(found) <= 1
          /\ found = {} \/ Readable
          /\ job' = [job EXCEPT ![s] = [pc |-> "write", model |-> m, given |-> v,
                            upsert |-> upsert, found |-> found, seen |-> DOMAIN rows]]
          /\ UNCHANGED terminated
  /\ UNCHANGED <<table, focus, sparse, rows>>

\* Second statement when a row was found and may be updated.
Update(s) ==
  /\ ~ terminated
  /\ job[s].pc = "write" /\ job[s].upsert /\ job[s].found # {}
  /\ \E i \in job[s].found :
       LET row == UpdatedRow(rows[i], job[s].model) IN
       IF Complete(row) /\ ~ Clashes(rows, row, i)
       THEN rows' = [rows EXCEPT ![i] = row] /\ Ends(s, "updated")
       ELSE rows' = rows /\ Ends(s, "refused")
  /\ UNCHANGED <<table, focus, sparse, saves, terminated>>

\* Second statement otherwise.
Insert(s) ==
  /\ ~ terminated
  /\ job[s].pc = "write" /\ (job[s].upsert => job[s].found = {})
  /\ LET row == InsertedRow(job[s].model) IN
       IF CanInsert(rows, row)
       THEN rows' = WithRow(rows, row["id"], row) /\ Ends(s, "inserted")
       ELSE rows' = rows /\ Ends(s, "refused")
  /\ UNCHANGED <<table, focus, sparse, saves, terminated>>

\* saveCandles: one INSERT of many candles, all of them or none.
SaveCandles(s) ==
  /\ ~ terminated /\ saves < MaxSaves
  /\ table = "candles"
  /\ job[s].pc = "idle"
  /\ saves' = saves + 1
  /\ \E m1, m2 \in Models :
       /\ m1["id"] # m2["id"] /\ {m1["id"], m2["id"]} \cap DOMAIN rows = {}
       /\ LET r1 == InsertedRow(m1)
              r2 == InsertedRow(m2)
              one == WithRow(rows, r1["id"], r1)
          IN IF CanInsert(rows, r1) /\ CanInsert(one, r2)
             THEN rows' = WithRow(one, r2["id"], r2) /\ Ends(s, "inserted")
             ELSE rows' = rows /\ Ends(s, "refused")
  /\ UNCHANGED <<table, focus, sparse, terminated>>

Next == \E s \in Savers : Check(s) \/ Update(s) \/ Insert(s) \/ SaveCandles(s)

Spec == Init /\ [][Next]_vars

-----------------------------------------------------------------------------
Job ==
  {Idle} \cup [pc : {"idle"}, outcome : {"updated", "inserted", "refused", "unreadable"}]
    \cup [pc : {"write"}, model : Models, given : Given, upsert : BOOLEAN,
          found : SUBSET Ids, seen : SUBSET Ids]

\* Types, and that a row is filed under its identifier.
TypeOK ==
  /\ table \in DOMAIN Tables /\ focus \in Columns /\ sparse \in BOOLEAN
  /\ DOMAIN rows \subseteq Ids
  /\ \A i \in DOMAIN rows :
       rows[i] \in [Columns -> Ids \cup Value \cup {Null}] /\ rows[i]["id"] = i
  /\ job \in [Savers -> Job]
  /\ saves \in 0 .. MaxSaves /\ terminated \in BOOLEAN

Ended(s, outcomes) ==
  job[s].pc = "write" /\ job'[s].pc = "idle" /\ job'[s].outcome \in outcomes

\* The columns cs of the row that saver s wrote read back as its model's maker
\* gave them; a blank comes back as nothing.
ReadsBack(s, cs) ==
  LET i == IF job'[s].outcome = "inserted" THEN job[s].model["id"]
           ELSE CHOOSE j \in job[s].found : TRUE
      given(c) == IF c = focus THEN job[s].given ELSE Usual(c)
  IN /\ Readable
     /\ \A c \in cs :
          given(c) # Absent =>
            Decoded(rows'[i])[c] = IF given(c) = Blank THEN Absent ELSE given(c)

\* A save that succeeds can be read back: of all columns but the identifier and
\* the booleans (a true reads back as false: ReadBoolean), each for which the
\* maker of the model gave a value comes back with it, through the attribute
\* constructor, the column lists of the statement and of the selection, and
\* fromRow (DB.cpp 697-777, and each model).
SavedReadsBack ==
  [][\A s \in Savers :
       Ended(s, {"updated", "inserted"}) => ReadsBack(s, Columns \ ({"id"} \cup Booleans))]_vars

\* Whatever savers do at the same time, no row goes away, and none changes
\* its identifier or the columns its table is keyed by (DB.cpp 751-764): the
\* update goes by an identifier found earlier and must hit a row of that key.
KeysStable ==
  [][\A i \in DOMAIN rows :
       /\ i \in DOMAIN rows'
       /\ \A c \in {"id"} \cup T.key : rows'[i][c] = rows[i][c]]_vars

\* The process is terminated (DB.cpp 743-753) only over rows whose key holds a
\* NULL: everywhere else the unique index of the migration covers the query
\* that save asks.
AmbiguousOnlyWithNull ==
  terminated => \E i, j \in DOMAIN rows :
                  /\ i # j
                  /\ \A c \in T.key : rows[i][c] = rows[j][c]
                  /\ \E c \in T.key : rows[i][c] = Null

\* Whatever two savers do between each other's statements, each row is one of
\* its table, filed under its identifier, and save ends the process only over
\* rows that a NULL kept the unique index from telling apart (save).
StorageSound == TypeOK /\ AmbiguousOnlyWithNull

\* A save that may update is refused only when its identifier is taken, by a
\* row of another key, or when a rival wrote between its two statements.
RefusalsExplained ==
  [][\A s \in Savers :
       Ended(s, {"refused"}) /\ job[s].upsert =>
         \/ DOMAIN rows # job[s].seen
         \/ job[s].model["id"] \in DOMAIN rows]_vars

\* A filter by a column finds the rows that meet its criterion, all of them and
\* no other (applyToQuery of each model).
FiltersHonoured ==
  \A c \in T.with \cap Columns : \A v \in Value \cup Ids :
    FindByFilter([k \in {c} |-> v])
      = {{Decoded(rows[i]) : i \in {j \in DOMAIN rows : rows[j][c] = v}}}
=============================================================================
