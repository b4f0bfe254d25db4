---------------------------- MODULE DynamicArray ----------------------------
(***************************************************************************)
(* DynamicBlazeArray (src/DynamicArray.cpp): a matrix whose first          *)
(* index + 1 rows are in use.  It grows by half, shrinks when it is mostly *)
(* empty and, with a drop limit, forgets its older half each time the      *)
(* limit is reached.  A row is one value, blank (zeros) or, in memory that *)
(* shrinkToFit allocates and does not clear, junk.  Zero-based row i of    *)
(* the code is data[i + 1].                                                *)
(***************************************************************************)
EXTENDS Integers, Sequences, FiniteSets

CONSTANTS
  Values,      \* rows the users store; none is all zeros
  Buckets,     \* sizes an array may be created with
  Limits,      \* drop limits; 0 stands for none
  Usages,      \* the sets of operations that users of an array call
  MaxRows      \* bound: rows in use

ASSUME SizesAssumption == Buckets \subseteq Nat \ {0} /\ Limits \subseteq Nat \ {1}

VARIABLES
  bucket,      \* bucket_size_
  limit,       \* drop_at_
  usage,       \* the operations called on this array
  data,        \* data_
  index        \* index_

vars == <<bucket, limit, usage, data, index>>

Zero == "zero"
Junk == "junk"

\* A stored row of zeros would not be told from a blank one.
ASSUME ValuesAssumption == Zero \notin Values /\ Junk \notin Values

Cell == Values \cup {Zero, Junk}
Throws == <<>>     \* what a read returns: <<result>>, a slice, or this

Size == index + 1
Capacity == Len(data)
Blank(n) == [i \in 1..n |-> Zero]
Larger(a, b) == IF a > b THEN a ELSE b
Smaller(a, b) == IF a < b THEN a ELSE b

\* The submatrix of the rows in use throws when index_ has passed the end.
Sound == Size <= Capacity

Init ==
  /\ bucket \in Buckets /\ limit \in Limits /\ usage \in Usages
  /\ data = Blank(bucket)
  /\ index = -1

-----------------------------------------------------------------------------
(* Helpers that move the matrix. *)

\* d with n rows, the first k kept and the others zero.
Resized(d, k, n) == [i \in 1..n |-> IF i <= k THEN d[i] ELSE Zero]

\* The same with the others not initialised.
ShrunkToFit(d, k, n) == [i \in 1..n |-> IF i <= k THEN d[i] ELSE Junk]

\* k rows in use lose the first n; the freed rows are cleared.
Shifted(d, k, n) ==
  [i \in 1..Len(d) |-> IF i <= k - n THEN d[i + n] ELSE IF i <= k THEN Zero ELSE d[i]]

\* Mutant: the window forgets one row too many when its limit is odd.
DroppedMore(k) == IF limit > 0 /\ k % limit = 0 THEN (limit + 1) \div 2 ELSE 0
\* How many rows are forgotten when the array has come to hold k.
Dropped(k) == IF limit > 0 /\ k % limit = 0 THEN limit \div 2 ELSE 0

\* The capacity append asks for when the array is full.
GrownByHalf == Larger(bucket, (3 * Capacity) \div 2)
\* The capacity appendMultiple asks for.
Grown(required) == Larger(required, (3 * Capacity) \div 2)

-----------------------------------------------------------------------------
(* Operations. *)

\* The array is full before the row is written; index_ has moved by then, so
\* that a failing write leaves it past the end.
AppendRow(v) ==
  LET k     == Size + 1
      grown == IF Size < Capacity THEN data
               ELSE Resized(data, Size, GrownByHalf)
  IN  /\ "append" \in usage /\ Sound /\ k <= MaxRows
      /\ IF k > Len(grown)
         THEN data' = grown /\ index' = index + 1
         ELSE /\ data' = Shifted([grown EXCEPT ![k] = v], k, Dropped(k))
              /\ index' = index + 1 - Dropped(k)
      /\ UNCHANGED <<bucket, limit, usage>>

AppendMultiple(new) ==
  LET k     == Size + Len(new)
      grown == IF k <= Capacity THEN data ELSE Resized(data, Size, Grown(k))
      full  == [i \in DOMAIN grown |-> IF i \in Size + 1..k THEN new[i - Size] ELSE grown[i]]
  IN  /\ "appendMultiple" \in usage /\ Sound /\ k <= MaxRows
      /\ data' = Shifted(full, k, Dropped(k))
      /\ index' = index + Len(new) - Dropped(k)
      /\ UNCHANGED <<bucket, limit, usage>>

Flush ==
  /\ "flush" \in usage
  /\ index' = -1
  /\ data' = Blank(IF Capacity > 2 * bucket THEN bucket ELSE Capacity)
  /\ UNCHANGED <<bucket, limit, usage>>

\* Mutant: only the row is taken out, and the last one stays behind it.
ClosedUpKept(d, k, p) == [i \in 1..Len(d) |-> IF p <= i /\ i < k THEN d[i + 1] ELSE d[i]]
\* Row p of k taken out, the last row cleared.
ClosedUp(d, k, p) ==
  [i \in 1..Len(d) |-> IF i = k THEN Zero ELSE IF p <= i /\ i < k THEN d[i + 1] ELSE d[i]]

\* A position from the front, or from the end when negative; 0 when outside.
Position(i) ==
  LET p == IF i < 0 THEN Size + i ELSE i
  IN  IF index = -1 \/ p < 0 \/ p > index THEN 0 ELSE p + 1

DeleteRow(i) ==
  LET p    == Position(i)
      d    == ClosedUp(data, Size, p)
      half == Larger(bucket, Capacity \div 2)
  IN  /\ "deleteRow" \in usage /\ Sound /\ p # 0
      /\ data' = IF Capacity > bucket /\ index < Capacity \div 4 /\ half < Capacity
                 THEN ShrunkToFit(d, index, half) ELSE d
      /\ index' = index - 1
      /\ UNCHANGED <<bucket, limit, usage>>

\* operator[] and row hand out a view of the row, which the user assigns.
Overwrite(i, v) ==
  LET p == Position(i)
  IN  /\ "overwrite" \in usage /\ p \in 1..Capacity
      /\ data' = [data EXCEPT ![p] = v]
      /\ UNCHANGED <<bucket, limit, usage, index>>

Offsets == -MaxRows..MaxRows

Next ==
  \/ \E v \in Values : AppendRow(v)
  \/ \E v, w \in Values : AppendMultiple(<<v, w>>) \/ AppendMultiple(<<v, w, v>>)
  \/ Flush
  \/ \E i \in Offsets : DeleteRow(i) \/ (\E v \in Values : Overwrite(i, v))

Spec == Init /\ [][Next]_vars

-----------------------------------------------------------------------------
(* Reading. *)

At(i) == IF Position(i) \in 1..Capacity THEN <<data[Position(i)]>> ELSE Throws

LastItem == IF Size \in 1..Capacity THEN <<data[Size]>> ELSE Throws

PastItem(k) ==
  IF index # -1 /\ k <= index /\ Size - k <= Capacity THEN <<data[Size - k]>> ELSE Throws

\* Mutant: a slice that ends at 0 is not taken to end with the array.
SliceBare(start, stop) ==
  LET from == Larger(0, IF start < 0 THEN Size + start ELSE start)
      upto == Smaller(Size, IF stop < 0 THEN Size + stop ELSE stop)
  IN  IF index = -1 \/ from >= upto \/ upto > Capacity THEN Throws
      ELSE SubSeq(data, from + 1, upto)
\* operator() and rows: negative offsets count from the end, stop 0 is the end.
Slice(start, stop) ==
  LET from == Larger(0, IF start < 0 THEN Size + start ELSE start)
      upto == Smaller(Size, IF stop = 0 THEN Size ELSE IF stop < 0 THEN Size + stop ELSE stop)
  IN  IF index = -1 \/ from >= upto \/ upto > Capacity THEN Throws
      ELSE SubSeq(data, from + 1, upto)

\* find with axis 0.  The loop runs to size_t(index_), which is the largest
\* number there is when the array is empty: it ends at a row that matches or
\* at the end of the matrix, where row() throws.
Find(v) ==
  LET last == IF index = -1 THEN Capacity ELSE Smaller(Size, Capacity)
      hits == {i \in 1..last : data[i] = v}
  IN  IF hits # {} THEN <<(CHOOSE i \in hits : \A j \in hits : i <= j) - 1>>
      ELSE IF index = -1 \/ ~ Sound THEN Throws ELSE <<-1>>

\* filter, which gathers the rows that match from the first to the last; an
\* array that is not empty and has passed its end throws.
Filter(v) ==
  LET matching[i \in 0..Size] ==
        IF i = 0 THEN <<>>
        ELSE IF data[i] = v THEN Append(matching[i - 1], data[i]) ELSE matching[i - 1]
  IN  IF index = -1 \/ ~ Sound THEN <<>> ELSE matching[Size]

\* sum and applyFunction work on whole columns, rows not in use included: what
\* sum adds up, as the number of rows of each kind.
Summed(v) == Cardinality({i \in 1..Capacity : data[i] = v})

-----------------------------------------------------------------------------
(* Properties. *)

TypeOK ==
  /\ bucket \in Buckets /\ limit \in Limits /\ usage \in Usages
  /\ data \in Seq(Cell) /\ Capacity > 0
  /\ index \in Int /\ index >= -1

\* The rows a user has put in and not lost.
Held == SubSeq(data, 1, Smaller(Size, Capacity))

\* index_ never passes the matrix, so that no operation throws on a row that
\* it had accepted -- unless the array was created for a single row: a
\* capacity of 1 grows by half to 1 again (append, DynamicArray.cpp:277).
IndexInside == bucket > 1 => Sound

\* The rows in use are values that were put in: neither blank rows nor memory
\* that was never written, after any growing, dropping, deleting or shrinking.
HeldAreValues == \A i \in DOMAIN Held : Held[i] \in Values

\* The rows not in use, which sum and applyFunction read, are all zero; only a
\* deletion, when it shrinks the matrix, leaves them as they were allocated.
SpareRowsZero ==
  \A i \in Size + 1..Capacity :
    data[i] = Zero \/ (data[i] = Junk /\ "deleteRow" \in usage)

\* So, until such a deletion, a value that was deleted, dropped, flushed or
\* shifted is never counted by a sum and never found again, not even by a
\* search of an empty array, which runs through the whole matrix.
GoneIsGone ==
  (\A i \in 1..Capacity : data[i] # Junk) =>
    \A v \in Values :
      /\ Summed(v) = Cardinality({i \in DOMAIN Held : Held[i] = v})
      /\ Find(v) # Throws => Find(v)[1] < Size

\* A window that is filled one row at a time stays below its limit, while its
\* rows are where index_ says.
WindowKept == limit > 0 /\ Sound /\ "appendMultiple" \notin usage => Size < limit

\* What a row is, used or not, after any sequence of operations.
RowsSound == TypeOK /\ IndexInside /\ HeldAreValues /\ SpareRowsZero /\ WindowKept

\* Reading agrees with the rows held, counted from either end, for every
\* offset; a stop of 0 means the end; filter keeps order and multiplicity.
PickedFrom(s, start, stop) ==
  {i \in DOMAIN s : /\ i > (IF start < 0 THEN Len(s) + start ELSE start)
                    /\ i <= (IF stop > 0 THEN stop ELSE Len(s) + stop)}
ReadsAgree ==
  /\ GoneIsGone
  /\ Sound =>
    LET n == Len(Held) IN
    /\ \A i \in Offsets :
         /\ At(i) = IF i \in 0..n - 1 THEN <<Held[i + 1]>>
                    ELSE IF -i \in 1..n THEN <<Held[n + 1 + i]>> ELSE Throws
         /\ i >= 0 => PastItem(i) = At(-(i + 1))
    /\ LastItem = At(-1)
    /\ \A i, j \in Offsets :
         LET picked == PickedFrom(Held, i, j)
         IN  IF picked = {} THEN Slice(i, j) = Throws
             ELSE /\ Len(Slice(i, j)) = Cardinality(picked)
                  /\ \A p \in picked :
                       Slice(i, j)[1 + Cardinality({q \in picked : q < p})] = Held[p]
    /\ \A v \in Values :
         /\ Len(Filter(v)) = Cardinality({i \in 1..n : Held[i] = v})
         /\ n > 0 => (Find(v) = <<-1>> <=> Filter(v) = <<>>)

\* The array implements the promise of RowStore: every operation is one of its
\* steps, or fails and leaves the rows alone.
Store == INSTANCE RowStore WITH rows <- Held, window <- limit, Rows <- Values,
                                Windows <- Limits
StoreImplemented == Store!Spec
=============================================================================
