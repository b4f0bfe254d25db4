------------------------- MODULE DynamicArrayProofs -------------------------
(***************************************************************************)
(* What the rows of a dynamic array are, used or not, for arrays of every  *)
(* size and limit and for any sequence of operations.                      *)
(***************************************************************************)
EXTENDS DynamicArray, FunctionProofs

USE SizesAssumption

\* The first k rows of d hold values; the others are zero, or junk if rows are
\* deleted.
Stocked(d, k) ==
  \A i \in 1 .. Len(d) :
    /\ i <= k => d[i] \in Values
    /\ i > k => d[i] = Zero \/ (d[i] = Junk /\ "deleteRow" \in usage)

\* The matrix never becomes smaller than it was created, which makes growing
\* by half enough; the rows tell used and unused apart by their position.
ArrayInv ==
  /\ TypeOK /\ Capacity >= bucket
  /\ IndexInside /\ Stocked(data, Size) /\ WindowKept

-------------------------------------------------------------------------------
(* Matrices. *)

LEMMA RowsOf ==
  ASSUME NEW n \in Nat, NEW d \in [1 .. n -> Cell]
  PROVE  d \in Seq(Cell) /\ Len(d) = n
OBVIOUS

\* A new matrix is blank.
LEMMA BlankRows ==
  ASSUME NEW n \in Nat
  PROVE  Blank(n) \in Seq(Cell) /\ Len(Blank(n)) = n /\ Stocked(Blank(n), 0)
<1>1. Blank(n) \in [1 .. n -> Cell] /\ \A i \in 1 .. n : Blank(n)[i] = Zero
  BY DEF Blank, Cell
<1>2. Blank(n) \in Seq(Cell) /\ Len(Blank(n)) = n
  BY <1>1, RowsOf
<1> QED
  BY <1>1, <1>2 DEF Stocked

\* A larger matrix keeps the rows in use and has no junk.
LEMMA ResizedRows ==
  ASSUME NEW d \in Seq(Cell), NEW k \in Nat, k <= Len(d), Stocked(d, k),
         NEW n \in Nat, Len(d) <= n
  PROVE  LET r == Resized(d, k, n)
         IN  r \in Seq(Cell) /\ Len(r) = n /\ Stocked(r, k)
<1> DEFINE r == Resized(d, k, n)
<1>1. Len(d) \in Nat /\ \A i \in 1 .. Len(d) : d[i] \in Cell
  OBVIOUS
<1>2. /\ DOMAIN r = 1 .. n
      /\ \A i \in 1 .. n : r[i] = IF i <= k THEN d[i] ELSE Zero
      /\ r \in [1 .. n -> Cell]
  BY <1>1 DEF Resized, Cell
<1> HIDE DEF r
<1>3. r \in Seq(Cell) /\ Len(r) = n
  BY <1>2, RowsOf
<1>4. Stocked(r, k)
  BY <1>1, <1>2, <1>3 DEF Stocked
<1> QED
  BY <1>3, <1>4 DEF r

\* Shifting keeps the newest rows and clears what they leave.
LEMMA ShiftedRows ==
  ASSUME NEW d \in Seq(Cell), NEW k \in Nat, k <= Len(d), Stocked(d, k), NEW n \in 0 .. k
  PROVE  LET r == Shifted(d, k, n)
         IN  r \in Seq(Cell) /\ Len(r) = Len(d) /\ Stocked(r, k - n)
<1> DEFINE r == Shifted(d, k, n)
           m == Len(d)
<1>1. m \in Nat /\ \A i \in 1 .. m : d[i] \in Cell
  OBVIOUS
<1>2. r = [i \in 1 .. m |-> IF i <= k - n THEN d[i + n] ELSE IF i <= k THEN Zero ELSE d[i]]
  BY DEF Shifted
<1> HIDE DEF r, m
<1>3. /\ DOMAIN r = 1 .. m
      /\ \A i \in 1 .. m :
           r[i] = IF i <= k - n THEN d[i + n] ELSE IF i <= k THEN Zero ELSE d[i]
  BY <1>2
<1>4. \A i \in 1 .. m : i <= k - n => i + n \in 1 .. m /\ i + n <= k
  BY <1>1 DEF m
<1>5. \A i \in 1 .. m : r[i] \in Cell
  BY <1>1, <1>3, <1>4 DEF Cell
<1>6. r \in [1 .. m -> Cell]
  BY <1>2, <1>3, <1>5
<1>7. r \in Seq(Cell) /\ Len(r) = m
  BY <1>1, <1>6, RowsOf
<1>8. Stocked(r, k - n)
  <2> SUFFICES ASSUME NEW i \in 1 .. m
               PROVE  /\ i <= k - n => r[i] \in Values
                      /\ i > k - n => r[i] = Zero \/ (r[i] = Junk /\ "deleteRow" \in usage)
    BY <1>7 DEF Stocked
  <2>1. CASE i <= k - n
    BY <1>1, <1>3, <1>4, <2>1 DEF Stocked, m
  <2>2. CASE i > k - n /\ i <= k
    BY <1>1, <1>3, <2>2
  <2>3. CASE i > k
    BY <1>1, <1>3, <2>3 DEF Stocked, m
  <2> QED
    BY <1>1, <2>1, <2>2, <2>3
<1> QED
  BY <1>7, <1>8 DEF r, m

\* Whatever the rows are, shifting keeps their number.
LEMMA ShiftedShape ==
  ASSUME NEW d \in Seq(Cell), NEW k \in Nat, k <= Len(d), NEW n \in 0 .. k
  PROVE  Shifted(d, k, n) \in Seq(Cell) /\ Len(Shifted(d, k, n)) = Len(d)
<1> DEFINE r == Shifted(d, k, n)
           m == Len(d)
<1>1. m \in Nat /\ \A i \in 1 .. m : d[i] \in Cell
  OBVIOUS
<1>2. r = [i \in 1 .. m |-> IF i <= k - n THEN d[i + n] ELSE IF i <= k THEN Zero ELSE d[i]]
  BY DEF Shifted
<1> HIDE DEF r
<1>3. \A i \in 1 .. m : i <= k - n => i + n \in 1 .. m
  BY <1>1
<1>4. r \in [1 .. m -> Cell]
  BY <1>1, <1>2, <1>3 DEF Cell
<1> QED
  BY <1>1, <1>4, RowsOf DEF r

\* A limit is none, or at least two.
LEMMA LimitRange ==
  ASSUME NEW l \in Limits
  PROVE  l = 0 \/ (l \in Nat /\ l >= 2)
OBVIOUS

\* No more is dropped than there is, and a window that reaches its limit
\* falls below it.
LEMMA DroppedBound ==
  ASSUME limit \in Limits, NEW k \in Nat \ {0}
  PROVE  /\ Dropped(k) \in 0 .. k
         /\ limit > 0 /\ k <= limit => k - Dropped(k) < limit
<1>1. limit = 0 \/ (limit \in Nat /\ limit >= 2)
  OBVIOUS
<1>2. CASE limit = 0
  BY <1>2 DEF Dropped
<1>3. CASE limit \in Nat /\ limit >= 2
  <2> DEFINE half == limit \div 2
  <2>1. half \in Nat /\ half >= 1 /\ half < limit
    BY <1>3
  <2>2. k < limit => k % limit = k
    BY <1>3
  <2>3. limit % limit = 0
    BY <1>3
  <2>4. Dropped(k) = IF k % limit = 0 THEN half ELSE 0
    BY <1>3 DEF Dropped
  <2> HIDE DEF half
  <2>5. CASE k < limit
    BY <1>3, <2>2, <2>4, <2>5
  <2>6. CASE k = limit
    BY <1>3, <2>1, <2>3, <2>4, <2>6
  <2>7. CASE k > limit
    BY <1>3, <2>1, <2>4, <2>7
  <2> QED
    BY <1>3, <2>5, <2>6, <2>7
<1> QED
  BY <1>1, <1>2, <1>3

-------------------------------------------------------------------------------
(* Operations. *)

\* The constants of an array.
LEMMA ArrayShape ==
  ASSUME ArrayInv
  PROVE  /\ bucket \in Nat \ {0} /\ limit \in Limits
         /\ data \in Seq(Cell) /\ Capacity \in Nat \ {0} /\ Capacity >= bucket
         /\ Size \in Nat /\ Stocked(data, Size)
BY DEF ArrayInv, TypeOK, Capacity, Size

\* An operation keeps the invariant if the rows it leaves are in order.
LEMMA ArrayKept ==
  ASSUME ArrayInv, UNCHANGED <<bucket, limit, usage>>,
         data' \in Seq(Cell), Len(data') >= bucket, index' \in Int, index' >= -1,
         Stocked(data', index' + 1),
         bucket > 1 => index' + 1 <= Len(data'),
         limit > 0 /\ index' + 1 <= Len(data') /\ "appendMultiple" \notin usage
           => index' + 1 < limit
  PROVE  ArrayInv'
<1>1. Len(data') \in Nat /\ bucket \in Nat \ {0}
  BY DEF ArrayInv, TypeOK
<1>2. TypeOK'
  BY <1>1 DEF ArrayInv, TypeOK, Capacity
<1>3. IndexInside' /\ WindowKept'
  BY DEF IndexInside, WindowKept, Sound, Size, Capacity
<1>4. Stocked(data, Size)'
  BY DEF Stocked, Size
<1> QED
  BY <1>2, <1>3, <1>4 DEF ArrayInv, Capacity

LEMMA AppendRowStep ==
  ASSUME ArrayInv, NEW v \in Values, AppendRow(v)
  PROVE  ArrayInv'
<1> DEFINE k == Size + 1
           wide == (3 * Capacity) \div 2
           grown == IF Size < Capacity THEN data ELSE Resized(data, Size, GrownByHalf)
<1>1. /\ bucket \in Nat \ {0} /\ limit \in Limits /\ data \in Seq(Cell)
      /\ Capacity \in Nat \ {0} /\ Capacity >= bucket
      /\ Size \in Nat /\ Stocked(data, Size) /\ Size <= Capacity
  BY ArrayShape DEF AppendRow, Sound
<1>2. wide \in Nat /\ wide >= Capacity /\ (Capacity >= 2 => wide > Capacity)
  BY <1>1
<1>3. GrownByHalf \in Nat /\ GrownByHalf >= Capacity /\ (Capacity >= 2 => GrownByHalf > Capacity)
  BY <1>1, <1>2 DEF GrownByHalf, Larger
<1>4. /\ grown \in Seq(Cell) /\ Len(grown) \in Nat /\ Len(grown) >= Capacity
      /\ Stocked(grown, Size)
      /\ Capacity >= 2 => Len(grown) >= k
  <2>1. CASE Size < Capacity
    BY <1>1, <2>1 DEF Capacity
  <2>2. CASE ~ (Size < Capacity)
    BY <1>1, <1>3, <2>2, ResizedRows DEF Capacity
  <2> QED
    BY <2>1, <2>2
<1>5. /\ UNCHANGED <<bucket, limit, usage>>
      /\ \/ k > Len(grown) /\ data' = grown /\ index' = index + 1
         \/ /\ ~ (k > Len(grown)) /\ data' = Shifted([grown EXCEPT ![k] = v], k, Dropped(k))
            /\ index' = index + 1 - Dropped(k)
  BY DEF AppendRow
<1>6. k \in Nat \ {0} /\ k = index + 2 /\ index \in Int
  BY <1>1 DEF Size, ArrayInv, TypeOK
<1>7. limit > 0 /\ "appendMultiple" \notin usage => k <= limit
  <2>1. limit \in Nat
    BY <1>1
  <2> QED
    BY <1>1, <2>1, <1>6 DEF ArrayInv, WindowKept, Sound
<1> HIDE DEF grown, k
<1>8. CASE k > Len(grown) /\ data' = grown /\ index' = index + 1
  <2>1. Stocked(data', k) /\ index' + 1 = k
    BY <1>1, <1>4, <1>6, <1>8 DEF Stocked, k
  <2>2. ~ (bucket > 1)
    BY <1>1, <1>4, <1>6, <1>8
  <2> QED
    BY <1>1, <1>4, <1>5, <1>6, <1>8, <2>1, <2>2, ArrayKept
<1>9. CASE /\ ~ (k > Len(grown)) /\ data' = Shifted([grown EXCEPT ![k] = v], k, Dropped(k))
           /\ index' = index + 1 - Dropped(k)
  <2> DEFINE full == [grown EXCEPT ![k] = v]
             n == Dropped(k)
  <2>1. /\ full \in Seq(Cell) /\ Len(full) = Len(grown) /\ Stocked(full, k)
        /\ full = [grown EXCEPT ![k] = v]
    <3>1. k \in 1 .. Len(grown) /\ v \in Cell
      BY <1>4, <1>6, <1>9 DEF Cell
    <3>2. /\ full \in Seq(Cell) /\ Len(full) = Len(grown)
          /\ \A i \in 1 .. Len(grown) : full[i] = IF i = k THEN v ELSE grown[i]
      BY <1>4, <3>1
    <3> HIDE DEF full
    <3>3. Stocked(full, k)
      <4> SUFFICES ASSUME NEW i \in 1 .. Len(grown)
                   PROVE  /\ i <= k => full[i] \in Values
                          /\ i > k => full[i] = Zero \/ (full[i] = Junk /\ "deleteRow" \in usage)
        BY <3>2 DEF Stocked
      <4>1. CASE i = k
        BY <1>6, <3>2, <4>1
      <4>2. CASE i # k
        <5>1. full[i] = grown[i] /\ (i <= k <=> i <= Size)
          BY <1>1, <3>2, <4>2 DEF k
        <5> QED
          BY <1>1, <1>4, <1>6, <5>1 DEF Stocked
      <4> QED
        BY <4>1, <4>2
    <3> QED
      BY <3>2, <3>3 DEF full
  <2>2. n \in 0 .. k /\ (limit > 0 /\ k <= limit => k - n < limit)
    BY <1>1, <1>6, DroppedBound
  <2> HIDE DEF full, n
  <2>3. data' = Shifted(full, k, n) /\ index' + 1 = k - n
    BY <1>6, <1>9, <2>2 DEF full, n
  <2>4. data' \in Seq(Cell) /\ Len(data') = Len(grown) /\ Stocked(data', k - n)
    <3>1. k \in Nat /\ k <= Len(full)
      BY <1>4, <1>6, <1>9, <2>1
    <3> QED
      BY <2>1, <2>2, <2>3, <3>1, ShiftedRows
  <2>5. index' \in Int /\ index' >= -1 /\ index' + 1 <= Len(data')
    BY <1>4, <1>6, <1>9, <2>2, <2>3, <2>4 DEF n
  <2>6. limit > 0 /\ "appendMultiple" \notin usage => index' + 1 < limit
    BY <1>7, <2>2, <2>3
  <2> QED
    <3>1. Len(data') >= bucket
      BY <1>1, <1>4, <2>4
    <3>2. Stocked(data', index' + 1)
      BY <2>3, <2>4
    <3> QED
      BY <1>5, <2>4, <2>5, <2>6, <3>1, <3>2, ArrayKept
<1> QED
  BY <1>5, <1>8, <1>9

LEMMA AppendMultipleStep ==
  ASSUME ArrayInv, NEW new \in Seq(Values), new # <<>>, AppendMultiple(new)
  PROVE  ArrayInv'
<1> DEFINE k == Size + Len(new)
           wide == (3 * Capacity) \div 2
           grown == IF k <= Capacity THEN data ELSE Resized(data, Size, Grown(k))
           full == [i \in DOMAIN grown |-> IF i \in Size + 1 .. k THEN new[i - Size] ELSE grown[i]]
           n == Dropped(k)
<1>1. /\ bucket \in Nat \ {0} /\ limit \in Limits /\ data \in Seq(Cell)
      /\ Capacity \in Nat \ {0} /\ Capacity >= bucket
      /\ Size \in Nat /\ Stocked(data, Size) /\ Size <= Capacity
  BY ArrayShape DEF AppendMultiple, Sound
<1>2. Len(new) \in Nat \ {0} /\ k \in Nat \ {0} /\ Size < k
  BY <1>1
<1>3. k = index + 1 + Len(new) /\ index \in Int
  BY DEF Size, ArrayInv, TypeOK
<1> HIDE DEF k
<1>4. wide \in Nat
  BY <1>1
<1>5. Grown(k) \in Nat /\ Grown(k) >= k
  BY <1>2, <1>4 DEF Grown, Larger
<1>6. /\ grown \in Seq(Cell) /\ Len(grown) \in Nat /\ Len(grown) >= Capacity
      /\ Stocked(grown, Size) /\ Len(grown) >= k
  <2>1. CASE k <= Capacity
    BY <1>1, <1>2, <2>1 DEF Capacity
  <2>2. CASE ~ (k <= Capacity)
    <3>1. Grown(k) >= Capacity
      BY <1>1, <1>2, <1>5, <2>2
    <3> QED
      BY <1>1, <1>2, <1>5, <2>2, <3>1, ResizedRows DEF Capacity
  <2> QED
    BY <2>1, <2>2
<1> HIDE DEF grown
<1>7. full \in Seq(Cell) /\ Len(full) = Len(grown) /\ Stocked(full, k)
  <2>1. /\ DOMAIN full = 1 .. Len(grown)
        /\ \A i \in 1 .. Len(grown) :
             full[i] = IF i \in Size + 1 .. k THEN new[i - Size] ELSE grown[i]
    BY <1>6
  <2>2. \A i \in Size + 1 .. k : new[i - Size] \in Values
    <3> SUFFICES ASSUME NEW i \in Size + 1 .. k PROVE new[i - Size] \in Values
      OBVIOUS
    <3>1. i - Size \in 1 .. Len(new)
      BY <1>1, <1>2 DEF k
    <3> QED
      BY <3>1
  <2>3. \A i \in 1 .. Len(grown) : full[i] \in Cell
    BY <1>6, <2>1, <2>2 DEF Cell
  <2>4. full \in [1 .. Len(grown) -> Cell]
    BY <2>1, <2>3
  <2> HIDE DEF full
  <2>5. full \in Seq(Cell) /\ Len(full) = Len(grown)
    BY <1>6, <2>4, RowsOf
  <2>6. Stocked(full, k)
    <3> SUFFICES ASSUME NEW i \in 1 .. Len(grown)
                 PROVE  /\ i <= k => full[i] \in Values
                        /\ i > k => full[i] = Zero \/ (full[i] = Junk /\ "deleteRow" \in usage)
      BY <2>5 DEF Stocked
    <3>1. CASE i \in Size + 1 .. k
      BY <1>2, <2>1, <2>2, <3>1
    <3>2. CASE i \notin Size + 1 .. k
      <4>1. full[i] = grown[i] /\ (i <= k <=> i <= Size)
        BY <1>1, <1>2, <2>1, <3>2
      <4> QED
        BY <1>1, <1>2, <1>6, <4>1 DEF Stocked
    <3> QED
      BY <3>1, <3>2
  <2> QED
    BY <2>5, <2>6
<1>8. n \in 0 .. k
  BY <1>1, <1>2, DroppedBound
<1>9. /\ data' = Shifted(full, k, n) /\ index' = index + Len(new) - n
      /\ UNCHANGED <<bucket, limit, usage>> /\ "appendMultiple" \in usage
  BY DEF AppendMultiple, grown, k
<1> HIDE DEF full, n
<1>10. data' \in Seq(Cell) /\ Len(data') = Len(grown) /\ Stocked(data', k - n)
  BY <1>2, <1>6, <1>7, <1>8, <1>9, ShiftedRows
<1>11. index' + 1 = k - n /\ index' \in Int /\ index' >= -1 /\ index' + 1 <= Len(data')
  BY <1>2, <1>3, <1>6, <1>8, <1>9, <1>10
<1> QED
  BY <1>1, <1>6, <1>9, <1>10, <1>11, ArrayKept

LEMMA FlushStep ==
  ASSUME ArrayInv, Flush
  PROVE  ArrayInv'
<1> DEFINE n == IF Capacity > 2 * bucket THEN bucket ELSE Capacity
<1>1. bucket \in Nat \ {0} /\ limit \in Limits /\ Capacity \in Nat \ {0} /\ Capacity >= bucket
  BY ArrayShape
<1>2. n \in Nat /\ n >= bucket
  BY <1>1
<1> HIDE DEF n
<1>3. data' = Blank(n) /\ index' = -1 /\ UNCHANGED <<bucket, limit, usage>>
  BY DEF Flush, n
<1>4. data' \in Seq(Cell) /\ Len(data') = n /\ Stocked(data', 0)
  BY <1>2, <1>3, BlankRows
<1> QED
  BY <1>1, <1>2, <1>3, <1>4, ArrayKept

\* A position is that of a row in use.
LEMMA PositionInUse ==
  ASSUME ArrayInv, NEW i \in Offsets, Position(i) # 0
  PROVE  Position(i) \in 1 .. Size
<1>1. index \in Int /\ i \in Int
  BY DEF ArrayInv, TypeOK, Offsets
<1> QED
  BY <1>1 DEF Position, Size

LEMMA DeleteRowStep ==
  ASSUME ArrayInv, NEW i \in Offsets, DeleteRow(i)
  PROVE  ArrayInv'
<1> DEFINE p == Position(i)
           d == ClosedUp(data, Size, p)
           quarter == Capacity \div 4
           half == Larger(bucket, Capacity \div 2)
           m == Len(data)
<1>1. /\ bucket \in Nat \ {0} /\ limit \in Limits /\ data \in Seq(Cell)
      /\ Capacity \in Nat \ {0} /\ Capacity >= bucket
      /\ Size \in Nat /\ Stocked(data, Size) /\ Size <= Capacity
  BY ArrayShape DEF DeleteRow, Sound
<1>2. p \in 1 .. Size
  BY PositionInUse DEF DeleteRow
<1>3. /\ data' = IF Capacity > bucket /\ index < quarter /\ half < Capacity
                 THEN ShrunkToFit(d, index, half) ELSE d
      /\ index' = index - 1 /\ "deleteRow" \in usage /\ UNCHANGED <<bucket, limit, usage>>
  BY DEF DeleteRow
<1>4. m = Capacity /\ index \in Int /\ Size = index + 1
  BY DEF Capacity, Size, ArrayInv, TypeOK
<1> HIDE DEF p
<1>5. /\ DOMAIN d = 1 .. m
      /\ \A j \in 1 .. m :
           d[j] = IF j = Size THEN Zero ELSE IF p <= j /\ j < Size THEN data[j + 1] ELSE data[j]
  BY DEF ClosedUp
<1>6. \A j \in 1 .. m : d[j] \in Cell
  <2> SUFFICES ASSUME NEW j \in 1 .. m PROVE d[j] \in Cell
    OBVIOUS
  <2>1. j < Size => j + 1 \in 1 .. m
    BY <1>1, <1>4
  <2> QED
    BY <1>1, <1>5, <2>1 DEF Cell
<1>7. d \in [1 .. m -> Cell]
  BY <1>5, <1>6 DEF ClosedUp
<1> HIDE DEF d
<1>8. d \in Seq(Cell) /\ Len(d) = m
  BY <1>1, <1>4, <1>7, RowsOf
\* Deleting leaves one row less, and the rows behind it as they were.
<1>9. Stocked(d, index)
  <2> SUFFICES ASSUME NEW j \in 1 .. m
               PROVE  /\ j <= index => d[j] \in Values
                      /\ j > index => d[j] = Zero \/ (d[j] = Junk /\ "deleteRow" \in usage)
    BY <1>8 DEF Stocked
  <2>1. CASE j <= index
    <3>1. j + 1 \in 1 .. m /\ j + 1 <= Size /\ j < Size
      BY <1>1, <1>4, <2>1
    <3>2. data[j] \in Values /\ data[j + 1] \in Values
      BY <1>1, <1>4, <3>1 DEF Stocked, m
    <3> QED
      BY <1>4, <1>5, <2>1, <3>1, <3>2
  <2>2. CASE j = Size
    BY <1>4, <1>5, <2>2
  <2>3. CASE j > Size
    BY <1>1, <1>2, <1>4, <1>5, <2>3 DEF Stocked, m
  <2> QED
    BY <1>1, <1>4, <2>1, <2>2, <2>3
<1>10. index \in Nat /\ index <= m
  BY <1>1, <1>2, <1>4
<1>11. index' \in Int /\ index' >= -1 /\ index' + 1 = index
  BY <1>3, <1>10
<1>12. limit > 0 /\ "appendMultiple" \notin usage => index' + 1 < limit
  <2>1. limit \in Nat
    BY <1>1
  <2> QED
    <3> SUFFICES ASSUME limit > 0, "appendMultiple" \notin usage PROVE index' + 1 < limit
      OBVIOUS
    <3>1. Size < limit
      BY <1>1 DEF ArrayInv, WindowKept, Sound
    <3>2. index' + 1 = index /\ Size = index + 1 /\ index \in Int
      BY <1>4, <1>11
    <3> QED
      BY <2>1, <3>1, <3>2
<1>13. CASE data' = d
  BY <1>1, <1>3, <1>4, <1>8, <1>9, <1>10, <1>11, <1>12, <1>13, ArrayKept
<1>14. CASE /\ Capacity > bucket /\ index < quarter /\ half < Capacity
            /\ data' = ShrunkToFit(d, index, half)
  <2>1. half \in Nat /\ half >= bucket /\ index <= half
    <3>1. Capacity \div 2 \in Nat /\ quarter <= Capacity \div 2 /\ quarter \in Nat
      BY <1>1
    <3> QED
      BY <1>1, <1>10, <1>14, <3>1 DEF Larger
  <2>2. half <= m
    BY <1>1, <1>4, <1>14, <2>1
  <2> HIDE DEF half
  <2>3. /\ DOMAIN data' = 1 .. half
        /\ \A j \in 1 .. half : data'[j] = IF j <= index THEN d[j] ELSE Junk
        /\ data' \in [1 .. half -> Cell]
    <3>1. data' = [j \in 1 .. half |-> IF j <= index THEN d[j] ELSE Junk]
      BY <1>14 DEF ShrunkToFit
    <3>2. \A j \in 1 .. half : j \in 1 .. m
      BY <1>1, <1>4, <2>1, <2>2
    <3> QED
      BY <1>7, <3>1, <3>2 DEF Cell
  <2>4. data' \in Seq(Cell) /\ Len(data') = half
    BY <2>1, <2>3, RowsOf
  <2>5. Stocked(data', index)
    <3>1. \A j \in 1 .. half : j \in 1 .. m
      BY <1>1, <1>4, <2>1, <2>2
    <3> QED
      BY <1>3, <1>8, <1>9, <1>10, <2>3, <2>4, <3>1 DEF Stocked
  <2> QED
    BY <1>1, <1>3, <1>11, <1>12, <2>1, <2>4, <2>5, ArrayKept
<1> QED
  BY <1>3, <1>13, <1>14

LEMMA OverwriteStep ==
  ASSUME ArrayInv, NEW i \in Offsets, NEW v \in Values, Overwrite(i, v)
  PROVE  ArrayInv'
<1> DEFINE p == Position(i)
<1>1. /\ bucket \in Nat \ {0} /\ data \in Seq(Cell) /\ Stocked(data, Size)
      /\ Capacity >= bucket /\ Capacity = Len(data) /\ Size \in Nat
  BY ArrayShape DEF Capacity
<1>2. /\ p \in 1 .. Len(data) /\ data' = [data EXCEPT ![p] = v] /\ v \in Cell
      /\ UNCHANGED <<bucket, limit, usage, index>>
  BY DEF Overwrite, Capacity, Cell
<1>3. p \in 1 .. Size
  BY <1>2, PositionInUse
<1> HIDE DEF p
<1>4. /\ data' \in Seq(Cell) /\ Len(data') = Len(data)
      /\ \A j \in 1 .. Len(data) : data'[j] = IF j = p THEN v ELSE data[j]
  BY <1>1, <1>2
<1>5. Stocked(data', Size)
  BY <1>1, <1>3, <1>4 DEF Stocked
<1>6. index' \in Int /\ index' >= -1 /\ index' + 1 = Size
  BY <1>2 DEF ArrayInv, TypeOK, Size
<1>7. /\ bucket > 1 => Size <= Len(data)
      /\ limit > 0 /\ Size <= Len(data) /\ "appendMultiple" \notin usage => Size < limit
  BY DEF ArrayInv, IndexInside, WindowKept, Sound, Capacity
<1> QED
  BY <1>1, <1>2, <1>4, <1>5, <1>6, <1>7, ArrayKept

LEMMA ArrayStart == Init => ArrayInv
<1> SUFFICES ASSUME Init PROVE ArrayInv
  OBVIOUS
<1>1. /\ bucket \in Buckets /\ limit \in Limits /\ usage \in Usages
      /\ data = Blank(bucket) /\ index = -1 /\ bucket \in Nat \ {0}
  BY DEF Init
<1>2. data \in Seq(Cell) /\ Len(data) = bucket /\ Stocked(data, 0)
  BY <1>1, BlankRows
<1>3. Size = 0 /\ limit \in Nat
  BY <1>1 DEF Size
<1> QED
  BY <1>1, <1>2, <1>3 DEF ArrayInv, TypeOK, IndexInside, WindowKept, Sound, Capacity

LEMMA ArrayStep == ArrayInv /\ [Next]_vars => ArrayInv'
<1> SUFFICES ASSUME ArrayInv, [Next]_vars PROVE ArrayInv'
  OBVIOUS
<1>1. CASE \E v \in Values : AppendRow(v)
  BY <1>1, AppendRowStep
<1>2. CASE \E v, w \in Values : AppendMultiple(<<v, w>>) \/ AppendMultiple(<<v, w, v>>)
  <2>1. \A v, w \in Values : /\ <<v, w>> \in Seq(Values) /\ <<v, w>> # <<>>
                             /\ <<v, w, v>> \in Seq(Values) /\ <<v, w, v>> # <<>>
    OBVIOUS
  <2> QED
    BY <1>2, <2>1, AppendMultipleStep
<1>3. CASE Flush
  BY <1>3, FlushStep
<1>4. CASE \E i \in Offsets : DeleteRow(i)
  BY <1>4, DeleteRowStep
<1>5. CASE \E i \in Offsets, v \in Values : Overwrite(i, v)
  BY <1>5, OverwriteStep
<1>6. CASE UNCHANGED vars
  BY <1>6 DEF vars, ArrayInv, TypeOK, Capacity, Size, IndexInside, Sound, Stocked, WindowKept
<1> QED
  BY <1>1, <1>2, <1>3, <1>4, <1>5, <1>6 DEF Next

\* After any sequence of operations on an array of any size and limit, index_
\* is inside the matrix unless the array was made for one row, the rows in use
\* are values that were stored, the others are zero unless rows are deleted,
\* and a window filled row by row is below its limit (DynamicArray.cpp).
THEOREM RowsAreSound == Spec => []RowsSound
<1>1. ArrayInv => RowsSound
  <2> SUFFICES ASSUME ArrayInv PROVE RowsSound
    OBVIOUS
  <2> DEFINE n == Smaller(Size, Capacity)
  <2>1. /\ data \in Seq(Cell) /\ Capacity \in Nat \ {0} /\ Capacity = Len(data)
        /\ Size \in Nat /\ Stocked(data, Size)
    BY ArrayShape DEF Capacity
  <2>2. n \in Nat /\ n <= Len(data) /\ n <= Size
    BY <2>1 DEF Smaller
  <2> HIDE DEF n
  <2>3. HeldAreValues
    <3>1. Held = [i \in 1 .. n |-> data[i]]
      BY <2>1, <2>2 DEF Held, n
    <3>2. \A i \in 1 .. n : data[i] \in Values
      BY <2>1, <2>2 DEF Stocked
    <3> QED
      BY <3>1, <3>2 DEF HeldAreValues
  <2>4. SpareRowsZero
    BY <2>1 DEF SpareRowsZero, Stocked
  <2> QED
    BY <2>3, <2>4 DEF RowsSound, ArrayInv
<1> QED
  BY <1>1, ArrayStart, ArrayStep, PTL DEF Spec

-------------------------------------------------------------------------------
(* The array as a store of rows.                                            *)

\* The first k rows of a matrix, as a sequence.
LEMMA FirstRows ==
  ASSUME NEW d \in Seq(Cell), NEW k \in 0 .. Len(d)
  PROVE  SubSeq(d, 1, k) = [i \in 1 .. k |-> d[i]]
OBVIOUS

\* A stretch of rows is a sequence of rows.
LEMMA Stretch ==
  ASSUME NEW s \in Seq(Cell), NEW a \in Nat \ {0}, NEW b \in 0 .. Len(s), a <= b + 1
  PROVE  /\ SubSeq(s, a, b) = [i \in 1 .. b - a + 1 |-> s[i + a - 1]]
         /\ SubSeq(s, a, b) \in Seq(Cell)
         /\ Len(SubSeq(s, a, b)) = b - a + 1
<1> DEFINE t == SubSeq(s, a, b)
           n == b - a + 1
<1>1. n \in Nat /\ \A i \in 1 .. n : i + a - 1 \in 1 .. Len(s)
  OBVIOUS
<1>2. t = [i \in 1 .. n |-> s[i + a - 1]]
  OBVIOUS
<1>3. \A i \in 1 .. n : s[i + a - 1] \in Cell
  BY <1>1
<1> HIDE DEF t, n
<1>4. t \in [1 .. n -> Cell]
  BY <1>2, <1>3
<1>5. t \in Seq(Cell) /\ Len(t) = n
  BY <1>1, <1>4, RowsOf
<1> QED
  BY <1>2, <1>5 DEF t, n

\* Of the rows of a window the newest are left.
LEMMA ShiftedNewest ==
  ASSUME NEW d \in Seq(Cell), NEW k \in 0 .. Len(d), NEW n \in 0 .. k
  PROVE  SubSeq(Shifted(d, k, n), 1, k - n) = [i \in 1 .. k - n |-> d[i + n]]
<1> DEFINE r == Shifted(d, k, n)
           m == Len(d)
<1>1. m \in Nat /\ \A i \in 1 .. m : d[i] \in Cell
  OBVIOUS
<1>2. r = [i \in 1 .. m |-> IF i <= k - n THEN d[i + n] ELSE IF i <= k THEN Zero ELSE d[i]]
  BY DEF Shifted
<1> HIDE DEF r
<1>3. \A i \in 1 .. m : i <= k - n => i + n \in 1 .. m
  BY <1>1
<1>4. r \in [1 .. m -> Cell]
  BY <1>1, <1>2, <1>3 DEF Cell
<1>5. r \in Seq(Cell) /\ Len(r) = m
  BY <1>1, <1>4, RowsOf
<1>6. SubSeq(r, 1, k - n) = [i \in 1 .. k - n |-> r[i]]
  BY <1>1, <1>5, FirstRows
<1>7. \A i \in 1 .. k - n : r[i] = d[i + n]
  BY <1>1, <1>2
<1> QED
  BY <1>6, <1>7 DEF r

\* Rows written behind those in use, and then the oldest of a full window
\* dropped: a step of the store.
LEMMA AddedToStore ==
  ASSUME ArrayInv, Sound, NEW new \in Seq(Values), NEW full \in Seq(Cell), UNCHANGED limit,
         NEW k \in Nat \ {0}, k = Size + Len(new), k <= Len(full),
         \A i \in 1 .. k : full[i] = IF i <= Size THEN data[i] ELSE new[i - Size],
         data' = Shifted(full, k, Dropped(k)), index' + 1 = k - Dropped(k)
  PROVE  Store!Add(new)
<1> DEFINE n == Dropped(k)
           all == Held \o new
<1>1. limit \in Limits /\ data \in Seq(Cell) /\ Size \in 0 .. Len(data) /\ Capacity = Len(data)
  BY ArrayShape DEF Sound, Capacity
<1>2. n \in 0 .. k
  BY <1>1, DroppedBound
<1>3. Held = [i \in 1 .. Size |-> data[i]]
  BY <1>1, FirstRows DEF Held, Smaller
<1>4. all = [i \in 1 .. k |-> full[i]]
  <2>1. Held \in Seq(Cell) /\ Len(Held) = Size
    BY <1>1, <1>3, RowsOf
  <2>2. DOMAIN all = 1 .. k
    BY <1>1, <2>1
  <2>3. \A i \in 1 .. k : all[i] = full[i]
    BY <1>1, <1>3, <2>1
  <2>4. all \in Seq(Cell \cup Values)
    BY <2>1
  <2> HIDE DEF all
  <2>5. all = [i \in 1 .. k |-> all[i]]
    BY <2>2, <2>4
  <2> QED
    BY <2>3, <2>5
<1> HIDE DEF n, all
<1>5. Held' = [i \in 1 .. k - n |-> full[i + n]]
  <2>1. data' \in Seq(Cell) /\ Len(data') = Len(full)
    BY <1>2, ShiftedShape DEF n
  <2>2. Smaller(k - n, Len(full)) = k - n
    BY <1>2 DEF Smaller
  <2>3. Held' = SubSeq(data', 1, k - n)
    BY <2>1, <2>2 DEF Held, Size, Capacity, n
  <2> QED
    BY <1>2, <2>3, ShiftedNewest DEF n
<1>6. all \in Seq(Cell) /\ Len(all) = k
  <2>1. \A i \in 1 .. k : i \in 1 .. Len(full)
    OBVIOUS
  <2>2. \A i \in 1 .. k : full[i] \in Cell
    BY <2>1
  <2>3. all \in [1 .. k -> Cell]
    BY <1>4, <2>2
  <2> QED
    BY <2>3, RowsOf
<1>7. limit = 0 \/ (limit \in Nat /\ limit >= 2)
  BY <1>1, LimitRange
<1>8. CASE limit > 0 /\ k % limit = 0
  <2>1. n = limit \div 2 /\ n \in 0 .. k
    BY <1>2, <1>8 DEF Dropped, n
  <2>2. Store!Newest(all, k - n) = SubSeq(all, n + 1, k)
    <3>1. Len(all) - (k - n) + 1 = n + 1 /\ Len(all) = k
      BY <1>6, <2>1
    <3> QED
      BY <3>1 DEF Store!Newest
  <2>3. SubSeq(all, n + 1, k) = [i \in 1 .. k - n |-> all[i + n]]
    BY <1>6, <2>1, SMTT(20)
  <2>4. \A i \in 1 .. k - n : all[i + n] = full[i + n]
    BY <1>4, <2>1
  <2>5. Held' = Store!Newest(all, k - n)
    BY <1>5, <2>2, <2>3, <2>4
  <2> QED
    BY <1>6, <1>8, <2>1, <2>5 DEF Store!Add, all
<1>9. CASE ~ (limit > 0 /\ k % limit = 0)
  <2>1. n = 0
    BY <1>9 DEF Dropped, n
  <2>2. Held' = all
    BY <1>4, <1>5, <2>1
  <2> QED
    BY <1>6, <1>9, <2>2 DEF Store!Add, all
<1> QED
  BY <1>8, <1>9

\* append adds its row to the store, or refuses and leaves the rows alone.
LEMMA AppendRowStores ==
  ASSUME ArrayInv, NEW v \in Values, AppendRow(v)
  PROVE  Store!Add(<<v>>) \/ Held' = Held
<1> DEFINE k == Size + 1
           wide == (3 * Capacity) \div 2
           grown == IF Size < Capacity THEN data ELSE Resized(data, Size, GrownByHalf)
<1>1. /\ limit \in Limits /\ data \in Seq(Cell) /\ Capacity \in Nat \ {0} /\ Capacity = Len(data)
      /\ bucket \in Nat /\ Size \in Nat /\ Stocked(data, Size) /\ Size <= Capacity
  BY ArrayShape DEF AppendRow, Sound, Capacity
<1>2. GrownByHalf \in Nat /\ GrownByHalf >= Capacity
  <2>1. wide \in Nat /\ wide >= Capacity
    BY <1>1
  <2> QED
    BY <1>1, <2>1 DEF GrownByHalf, Larger
<1>3. /\ grown \in Seq(Cell) /\ Len(grown) \in Nat /\ Len(grown) >= Capacity
      /\ \A i \in 1 .. Size : grown[i] = data[i]
  <2>1. CASE Size < Capacity
    BY <1>1, <2>1
  <2>2. CASE ~ (Size < Capacity)
    <3>1. grown \in Seq(Cell) /\ Len(grown) = GrownByHalf
      BY <1>1, <1>2, <2>2, ResizedRows
    <3>2. \A i \in 1 .. Size : Resized(data, Size, GrownByHalf)[i] = data[i]
      BY <1>1, <1>2 DEF Resized
    <3> QED
      BY <1>2, <2>2, <3>1, <3>2
  <2> QED
    BY <2>1, <2>2
<1>4. /\ limit' = limit
      /\ \/ k > Len(grown) /\ data' = grown /\ index' = index + 1
         \/ /\ ~ (k > Len(grown)) /\ data' = Shifted([grown EXCEPT ![k] = v], k, Dropped(k))
            /\ index' = index + 1 - Dropped(k)
  BY DEF AppendRow
<1>5. k \in Nat \ {0} /\ k = index + 2 /\ index \in Int
  BY <1>1 DEF Size, ArrayInv, TypeOK
<1> HIDE DEF grown
<1>6. CASE k > Len(grown) /\ data' = grown /\ index' = index + 1
  <2>1. Size = Capacity /\ Len(grown) = Size
    BY <1>1, <1>3, <1>6
  <2>2. Held = [i \in 1 .. Size |-> data[i]]
    BY <1>1, <2>1, FirstRows DEF Held, Smaller
  <2>3. Held' = SubSeq(grown, 1, Size)
    BY <1>1, <1>5, <1>6, <2>1 DEF Held, Smaller, Capacity, Size
  <2>4. SubSeq(grown, 1, Size) = [i \in 1 .. Size |-> grown[i]]
    BY <1>1, <1>3, <2>1, FirstRows
  <2> QED
    BY <1>3, <2>2, <2>3, <2>4
<1>7. CASE /\ ~ (k > Len(grown)) /\ data' = Shifted([grown EXCEPT ![k] = v], k, Dropped(k))
           /\ index' = index + 1 - Dropped(k)
  <2> DEFINE full == [grown EXCEPT ![k] = v]
             new == <<v>>
  <2>1. k \in 1 .. Len(grown) /\ v \in Cell
    BY <1>3, <1>5, <1>7 DEF Cell
  <2>2. /\ full \in Seq(Cell) /\ Len(full) = Len(grown)
        /\ \A i \in 1 .. Len(grown) : full[i] = IF i = k THEN v ELSE grown[i]
    BY <1>3, <2>1
  <2>3. new \in Seq(Values) /\ Len(new) = 1 /\ new[1] = v
    OBVIOUS
  <2> HIDE DEF full, new
  <2>4. \A i \in 1 .. k : full[i] = IF i <= Size THEN data[i] ELSE new[i - Size]
    BY <1>1, <1>3, <2>1, <2>2, <2>3
  <2>5. Dropped(k) \in 0 .. k
    BY <1>1, <1>5, DroppedBound
  <2>6. data' = Shifted(full, k, Dropped(k)) /\ index' + 1 = k - Dropped(k)
    BY <1>5, <1>7, <2>5 DEF full
  <2>7. Sound /\ k = Size + Len(new) /\ k <= Len(full)
    BY <1>1, <2>1, <2>2, <2>3 DEF Sound
  <2>8. Store!Add(new)
    BY <1>4, <1>5, <2>2, <2>3, <2>4, <2>6, <2>7, AddedToStore
  <2> QED
    BY <2>8 DEF new
<1> QED
  BY <1>4, <1>6, <1>7

\* appendMultiple adds all its rows to the store.
LEMMA AppendMultipleStores ==
  ASSUME ArrayInv, NEW new \in Seq(Values), new # <<>>, AppendMultiple(new)
  PROVE  Store!Add(new)
<1> DEFINE k == Size + Len(new)
           wide == (3 * Capacity) \div 2
           grown == IF k <= Capacity THEN data ELSE Resized(data, Size, Grown(k))
           full == [i \in DOMAIN grown |-> IF i \in Size + 1 .. k THEN new[i - Size] ELSE grown[i]]
<1>1. /\ limit \in Limits /\ data \in Seq(Cell) /\ Capacity \in Nat \ {0} /\ Capacity = Len(data)
      /\ Size \in Nat /\ Stocked(data, Size) /\ Size <= Capacity
  BY ArrayShape DEF AppendMultiple, Sound, Capacity
<1>2. Len(new) \in Nat \ {0} /\ k \in Nat \ {0} /\ Size < k
  BY <1>1
<1>3. k = index + 1 + Len(new) /\ index \in Int
  BY DEF Size, ArrayInv, TypeOK
<1>4. /\ data' = Shifted(full, k, Dropped(k)) /\ index' = index + Len(new) - Dropped(k)
      /\ limit' = limit
  BY DEF AppendMultiple
<1>5. \A i \in Size + 1 .. k : i - Size \in 1 .. Len(new) /\ new[i - Size] \in Values
  BY <1>1, <1>2
<1> HIDE DEF k
<1>6. /\ grown \in Seq(Cell) /\ Len(grown) \in Nat /\ Len(grown) >= k
      /\ \A i \in 1 .. Size : grown[i] = data[i]
  <2>1. CASE k <= Capacity
    BY <1>1, <1>2, <2>1
  <2>2. CASE ~ (k <= Capacity)
    <3>1. wide \in Nat
      BY <1>1
    <3>2. Grown(k) \in Nat /\ Grown(k) >= k
      BY <1>2, <3>1 DEF Grown, Larger
    <3>3. grown \in Seq(Cell) /\ Len(grown) = Grown(k)
      BY <1>1, <1>2, <2>2, <3>2, ResizedRows
    <3>4. \A i \in 1 .. Size : Resized(data, Size, Grown(k))[i] = data[i]
      BY <1>1, <1>2, <2>2, <3>2 DEF Resized
    <3> QED
      BY <2>2, <3>2, <3>3, <3>4
  <2> QED
    BY <2>1, <2>2
<1> HIDE DEF grown
<1>7. /\ full \in Seq(Cell) /\ Len(full) = Len(grown)
      /\ \A i \in 1 .. k : full[i] = IF i <= Size THEN data[i] ELSE new[i - Size]
  <2>1. /\ DOMAIN full = 1 .. Len(grown)
        /\ \A i \in 1 .. Len(grown) :
             full[i] = IF i \in Size + 1 .. k THEN new[i - Size] ELSE grown[i]
    BY <1>6
  <2>2. \A i \in 1 .. Len(grown) : full[i] \in Cell
    BY <1>5, <1>6, <2>1 DEF Cell
  <2>3. full \in [1 .. Len(grown) -> Cell]
    BY <2>1, <2>2
  <2> HIDE DEF full
  <2>4. full \in Seq(Cell) /\ Len(full) = Len(grown)
    BY <1>6, <2>3, RowsOf
  <2>5. ASSUME NEW i \in 1 .. k
        PROVE  full[i] = IF i <= Size THEN data[i] ELSE new[i - Size]
    <3>1. i \in 1 .. Len(grown)
      BY <1>2, <1>6
    <3>2. CASE i <= Size
      BY <1>1, <1>2, <1>6, <2>1, <3>1, <3>2
    <3>3. CASE ~ (i <= Size)
      BY <1>1, <1>2, <2>1, <3>1, <3>3
    <3> QED
      BY <3>2, <3>3
  <2> QED
    BY <2>4, <2>5
<1> HIDE DEF full
<1>8. Dropped(k) \in 0 .. k
  BY <1>1, <1>2, DroppedBound
<1>9. index' + 1 = k - Dropped(k) /\ k = Size + Len(new) /\ k <= Len(full) /\ Sound
  BY <1>1, <1>2, <1>3, <1>4, <1>6, <1>7, <1>8 DEF k, Sound
<1>10. /\ full \in Seq(Cell) /\ k \in Nat \ {0} /\ limit' = limit
       /\ data' = Shifted(full, k, Dropped(k))
  BY <1>2, <1>4, <1>7
<1>11. \A i \in 1 .. k : full[i] = IF i <= Size THEN data[i] ELSE new[i - Size]
  BY <1>7
<1> QED
  BY <1>9, <1>10, <1>11, AddedToStore

\* flush clears the store.
LEMMA FlushStores ==
  ASSUME ArrayInv, Flush
  PROVE  Store!Clear
<1>1. index' = -1 /\ Size' = 0
  BY DEF Flush, Size
<1>2. Capacity' \in Nat
  <2>1. bucket \in Nat /\ Capacity \in Nat
    BY ArrayShape
  <2> QED
    BY <2>1, BlankRows DEF Flush, Capacity
<1>3. Smaller(0, Capacity') = 0
  BY <1>2 DEF Smaller
<1>4. Held' = SubSeq(data', 1, 0)
  BY <1>1, <1>3 DEF Held
<1>5. SubSeq(data', 1, 0) = <<>>
  OBVIOUS
<1> QED
  BY <1>4, <1>5 DEF Store!Clear

\* deleteRow removes one row of the store, shrinking or not.
LEMMA DeleteRowStores ==
  ASSUME ArrayInv, NEW i \in Offsets, DeleteRow(i)
  PROVE  \E p \in DOMAIN Held : Store!Remove(p)
<1> DEFINE p == Position(i)
           d == ClosedUp(data, Size, p)
           half == Larger(bucket, Capacity \div 2)
           quarter == Capacity \div 4
           m == Len(data)
           kept == SubSeq(Held, 1, p - 1) \o SubSeq(Held, p + 1, Len(Held))
<1>1. /\ bucket \in Nat \ {0} /\ data \in Seq(Cell) /\ m = Capacity /\ m \in Nat \ {0}
      /\ Size \in 0 .. m
  BY ArrayShape DEF DeleteRow, Sound, Capacity
<1>2. p \in 1 .. Size
  BY PositionInUse DEF DeleteRow
<1>3. /\ data' = IF Capacity > bucket /\ index < quarter /\ half < Capacity
                 THEN ShrunkToFit(d, index, half) ELSE d
      /\ index' = index - 1 /\ limit' = limit
  BY DEF DeleteRow
<1>4. index \in Nat /\ Size = index + 1 /\ Size' = index
  <2>1. index \in Int /\ Size = index + 1
    BY DEF Size, ArrayInv, TypeOK
  <2> QED
    BY <1>1, <1>2, <1>3, <2>1 DEF Size
<1>5. \A j \in 1 .. m : data[j] \in Cell
  BY <1>1
<1> HIDE DEF p, kept
<1>6. Held = [j \in 1 .. Size |-> data[j]] /\ Held \in Seq(Cell) /\ Len(Held) = Size
  <2>1. Held = [j \in 1 .. Size |-> data[j]]
    BY <1>1, FirstRows DEF Held, Smaller
  <2>2. \A j \in 1 .. Size : data[j] \in Cell
    BY <1>1, <1>5
  <2> QED
    BY <1>1, <2>1, <2>2, RowsOf
<1>7. kept = [j \in 1 .. index |-> IF j < p THEN data[j] ELSE data[j + 1]]
  <2> DEFINE front == SubSeq(Held, 1, p - 1)
             back == SubSeq(Held, p + 1, Size)
  <2>0. /\ Size \in Nat /\ p \in Nat \ {0} /\ p - 1 \in 0 .. Size /\ p + 1 \in Nat \ {0}
        /\ Size - (p + 1) + 1 = Size - p /\ p - 1 - 1 + 1 = p - 1
        /\ \A j \in Int : j + 1 - 1 = j /\ j + (p + 1) - 1 = j + p
    BY <1>2, <1>4
  <2>1. /\ front = [j \in 1 .. p - 1 |-> Held[j]] /\ front \in Seq(Cell)
        /\ Len(front) = p - 1
    <3>1. /\ front = [j \in 1 .. p - 1 - 1 + 1 |-> Held[j + 1 - 1]]
          /\ front \in Seq(Cell) /\ Len(front) = p - 1 - 1 + 1
      BY <1>6, <2>0, Stretch
    <3> QED
      BY <2>0, <3>1
  <2>2. /\ back = [j \in 1 .. Size - p |-> Held[j + p]] /\ back \in Seq(Cell)
        /\ Len(back) = Size - p
    <3>1. /\ back = [j \in 1 .. Size - (p + 1) + 1 |-> Held[j + (p + 1) - 1]]
          /\ back \in Seq(Cell) /\ Len(back) = Size - (p + 1) + 1
      <4>1. p + 1 <= Size + 1 /\ Size \in 0 .. Len(Held)
        BY <1>2, <1>6, <2>0
      <4> QED
        BY <1>6, <2>0, <4>1, Stretch
    <3> QED
      BY <2>0, <3>1
  <2>3. kept = front \o back
    BY <1>6 DEF kept
  <2> HIDE DEF front, back
  <2>4. /\ kept \in Seq(Cell) /\ Len(kept) = index
        /\ \A j \in 1 .. index : kept[j] = IF j <= p - 1 THEN front[j] ELSE back[j - (p - 1)]
    BY <1>2, <1>4, <2>1, <2>2, <2>3
  <2>5. ASSUME NEW j \in 1 .. index PROVE kept[j] = IF j < p THEN data[j] ELSE data[j + 1]
    <3>1. CASE j < p
      <4>1. j <= p - 1 /\ j \in 1 .. p - 1 /\ j \in 1 .. Size
        BY <1>2, <1>4, <3>1
      <4>2. kept[j] = front[j]
        BY <2>4, <4>1
      <4>3. front[j] = Held[j] /\ Held[j] = data[j]
        BY <1>6, <2>1, <4>1
      <4> QED
        BY <3>1, <4>2, <4>3
    <3>2. CASE ~ (j < p)
      <4>1. j - (p - 1) \in 1 .. Size - p /\ j - (p - 1) + p = j + 1 /\ j + 1 \in 1 .. Size
        BY <1>2, <1>4, <3>2
      <4>2. kept[j] = Held[j + 1]
        BY <1>2, <2>2, <2>4, <3>2, <4>1
      <4> QED
        BY <1>6, <3>2, <4>1, <4>2
    <3> QED
      BY <3>1, <3>2
  <2>6. kept = [j \in 1 .. index |-> kept[j]]
    BY <1>4, <2>4
  <2> QED
    BY <2>5, <2>6
<1>8. /\ DOMAIN d = 1 .. m
      /\ \A j \in 1 .. m :
           d[j] = IF j = Size THEN Zero ELSE IF p <= j /\ j < Size THEN data[j + 1] ELSE data[j]
      /\ d \in Seq(Cell) /\ Len(d) = m
  <2>1. d = [j \in 1 .. m |-> IF j = Size THEN Zero
                              ELSE IF p <= j /\ j < Size THEN data[j + 1] ELSE data[j]]
    BY DEF ClosedUp
  <2> HIDE DEF d
  <2>2. \A j \in 1 .. m : j < Size => j + 1 \in 1 .. m
    BY <1>1
  <2>3. \A j \in 1 .. m : d[j] \in Cell
    BY <1>5, <2>1, <2>2 DEF Cell
  <2>4. d \in [1 .. m -> Cell]
    BY <2>1, <2>3
  <2>5. d \in Seq(Cell) /\ Len(d) = m
    BY <1>1, <2>4, RowsOf
  <2> QED
    BY <2>1, <2>5
<1> HIDE DEF d, m
<1>9. \A j \in 1 .. index : j \in 1 .. m /\ d[j] = IF j < p THEN data[j] ELSE data[j + 1]
  BY <1>1, <1>2, <1>4, <1>8
<1>10. /\ data' \in Seq(Cell) /\ index <= Len(data')
       /\ \A j \in 1 .. index : data'[j] = d[j]
  <2>1. CASE data' = d
    BY <1>1, <1>4, <1>8, <2>1
  <2>2. CASE /\ Capacity > bucket /\ index < quarter /\ half < Capacity
             /\ data' = ShrunkToFit(d, index, half)
    <3>1. half \in Nat /\ index <= half /\ half <= m
      <4>1. Capacity \div 2 \in Nat /\ quarter <= Capacity \div 2 /\ quarter \in Nat
        BY <1>1
      <4> QED
        BY <1>1, <1>4, <2>2, <4>1 DEF Larger
    <3> HIDE DEF half
    <3>2. data' = [j \in 1 .. half |-> IF j <= index THEN d[j] ELSE Junk]
      BY <2>2 DEF ShrunkToFit
    <3>3. \A j \in 1 .. half : j \in 1 .. m /\ d[j] \in Cell
      BY <1>1, <1>8, <3>1
    <3>4. data' \in [1 .. half -> Cell]
      BY <3>2, <3>3 DEF Cell
    <3>5. data' \in Seq(Cell) /\ Len(data') = half
      BY <3>1, <3>4, RowsOf
    <3> QED
      BY <1>4, <3>1, <3>2, <3>5
  <2> QED
    BY <1>3, <2>1, <2>2
<1>11. Held' = [j \in 1 .. index |-> data'[j]]
  <2>1. Smaller(index, Len(data')) = index
    BY <1>4, <1>10 DEF Smaller
  <2>2. Held' = SubSeq(data', 1, index)
    BY <1>4, <2>1 DEF Held, Capacity
  <2> QED
    BY <1>4, <1>10, <2>2, FirstRows
<1>12. Held' = kept
  BY <1>7, <1>9, <1>10, <1>11
<1>13. p \in DOMAIN Held
  BY <1>2, <1>6
<1> QED
  BY <1>12, <1>13 DEF Store!Remove, kept

\* Writing a row in use replaces that row of the store.
LEMMA OverwriteStores ==
  ASSUME ArrayInv, NEW i \in Offsets, NEW v \in Values, Overwrite(i, v)
  PROVE  \E p \in DOMAIN Held : Store!Replace(p, v)
<1> DEFINE p == Position(i)
           n == Smaller(Size, Capacity)
<1>1. data \in Seq(Cell) /\ Size \in Nat /\ Capacity = Len(data) /\ Capacity \in Nat
  BY ArrayShape DEF Capacity
<1>2. /\ p \in 1 .. Capacity /\ data' = [data EXCEPT ![p] = v] /\ v \in Cell
      /\ UNCHANGED <<limit, index>>
  BY DEF Overwrite, Cell
<1>3. p \in 1 .. Size
  BY <1>2, PositionInUse
<1> HIDE DEF p
<1>4. n \in 0 .. Len(data) /\ p \in 1 .. n
  BY <1>1, <1>2, <1>3 DEF Smaller
<1>5. /\ data' \in Seq(Cell) /\ Len(data') = Len(data)
      /\ \A j \in 1 .. Len(data) : data'[j] = IF j = p THEN v ELSE data[j]
  BY <1>1, <1>2
<1>6. Held' = SubSeq(data', 1, n) /\ Held = SubSeq(data, 1, n)
  BY <1>1, <1>2, <1>5 DEF Held, Size, Capacity
<1> HIDE DEF n
<1>7. Held' = [j \in 1 .. n |-> data'[j]] /\ Held = [j \in 1 .. n |-> data[j]]
  BY <1>1, <1>4, <1>5, <1>6, FirstRows
<1>8. \A j \in 1 .. n : j \in 1 .. Len(data)
  BY <1>1, <1>4
<1>9. Held' = [Held EXCEPT ![p] = v]
  BY <1>4, <1>5, <1>7, <1>8
<1>10. p \in DOMAIN Held
  BY <1>4, <1>7
<1> QED
  BY <1>9, <1>10 DEF Store!Replace

\* Every step of a sound array is a step of the store or a stutter.
LEMMA StoreStep ==
  ASSUME ArrayInv, [Next]_vars
  PROVE  [Store!Next]_<<Held, limit>>
<1>1. CASE \E v \in Values : AppendRow(v)
  BY <1>1, AppendRowStores DEF AppendRow, Store!Next
<1>2. CASE \E v, w \in Values : AppendMultiple(<<v, w>>) \/ AppendMultiple(<<v, w, v>>)
  <2>1. PICK v \in Values, w \in Values :
               AppendMultiple(<<v, w>>) \/ AppendMultiple(<<v, w, v>>)
    BY <1>2
  <2>2. /\ <<v, w>> \in Seq(Values) /\ <<v, w>> # <<>>
        /\ <<v, w, v>> \in Seq(Values) /\ <<v, w, v>> # <<>>
    OBVIOUS
  <2>3. limit' = limit
    BY <2>1 DEF AppendMultiple
  <2>4. Store!Add(<<v, w>>) \/ Store!Add(<<v, w, v>>)
    BY <2>1, <2>2, AppendMultipleStores
  <2> QED
    BY <2>3, <2>4 DEF Store!Next
<1>3. CASE Flush
  BY <1>3, FlushStores DEF Flush, Store!Next
<1>4. CASE \E i \in Offsets : DeleteRow(i)
  BY <1>4, DeleteRowStores DEF DeleteRow, Store!Next
<1>5. CASE \E i \in Offsets, v \in Values : Overwrite(i, v)
  BY <1>5, OverwriteStores DEF Overwrite, Store!Next
<1>6. CASE UNCHANGED vars
  BY <1>6 DEF vars, Held, Size, Capacity
<1> QED
  BY <1>1, <1>2, <1>3, <1>4, <1>5, <1>6 DEF Next

\* A new array is an empty store.
LEMMA StoreStart == Init => Store!Init
<1> SUFFICES ASSUME Init PROVE Store!Init
  OBVIOUS
<1>1. /\ bucket \in Nat /\ data = Blank(bucket) /\ Size = 0 /\ limit \in Limits
  BY DEF Init, Size
<1>2. Capacity \in Nat
  BY <1>1, BlankRows DEF Capacity
<1>3. Held = SubSeq(data, 1, 0)
  BY <1>1, <1>2 DEF Held, Smaller
<1>4. SubSeq(data, 1, 0) = <<>>
  OBVIOUS
<1> QED
  BY <1>1, <1>3, <1>4 DEF Store!Init

\* For every bucket, limit and use, the matrix with its index is a sequence of
\* rows: what is appended, replaced, deleted or dropped is what RowStore says,
\* through every growing, shifting and shrinking, and an append that fails
\* leaves the rows alone.
THEOREM ArrayIsAStore == Spec => StoreImplemented
<1>1. Spec => []ArrayInv
  BY ArrayStart, ArrayStep, PTL DEF Spec
<1>2. ArrayInv /\ [Next]_vars => [Store!Next]_<<Held, limit>>
  BY StoreStep
<1> QED
  BY <1>1, <1>2, StoreStart, PTL DEF Spec, StoreImplemented, Store!Spec

-------------------------------------------------------------------------------
(* Reading.                                                                 *)

\* The rows held are the first rows of the matrix: all those in use, unless
\* index_ has passed the end.
LEMMA RowsHeld ==
  ASSUME ArrayInv
  PROVE  LET n == Smaller(Size, Capacity)
         IN  /\ n \in Nat /\ n <= Size /\ n <= Capacity /\ (Sound => n = Size)
             /\ Held = [i \in 1 .. n |-> data[i]] /\ DOMAIN Held = 1 .. n /\ Len(Held) = n
<1> DEFINE n == Smaller(Size, Capacity)
<1>1. data \in Seq(Cell) /\ Capacity \in Nat /\ Capacity = Len(data) /\ Size \in Nat
  BY ArrayShape DEF Capacity
<1>2. n \in Nat /\ n <= Size /\ n <= Len(data) /\ (Sound => n = Size)
  BY <1>1 DEF Smaller, Sound
<1> HIDE DEF n
<1>3. Held = [i \in 1 .. n |-> data[i]]
  BY <1>1, <1>2, FirstRows DEF Held, n
<1>4. \A i \in 1 .. n : data[i] \in Cell
  BY <1>1, <1>2
<1>5. Held \in Seq(Cell) /\ Len(Held) = n
  BY <1>2, <1>3, <1>4, RowsOf
<1> QED
  BY <1>1, <1>2, <1>3, <1>5 DEF n

\* What find returns is a row that matches, or that there is none.
LEMMA FindMeans ==
  ASSUME ArrayInv, NEW v,
         NEW last, last = IF index = -1 THEN Capacity ELSE Smaller(Size, Capacity)
  PROVE  LET hits == {i \in 1 .. last : data[i] = v}
         IN  \/ \E i \in hits : Find(v) = <<i - 1>>
             \/ hits = {} /\ Find(v) = IF index = -1 \/ ~ Sound THEN Throws ELSE <<-1>>
<1> DEFINE hits == {i \in 1 .. last : data[i] = v}
           least == CHOOSE i \in hits : \A j \in hits : i <= j
<1>1. last \in Nat
  BY ArrayShape DEF Smaller
<1>2. Find(v) = IF hits # {} THEN <<least - 1>>
                ELSE IF index = -1 \/ ~ Sound THEN Throws ELSE <<-1>>
  BY DEF Find
<1>3. hits \in SUBSET Nat
  BY <1>1
<1> HIDE DEF hits
<1>4. CASE hits # {}
  <2>1. \E i \in hits : \A j \in hits : i <= j
    BY <1>3, <1>4, Least
  <2>2. least \in hits
    BY <2>1
  <2> QED
    BY <1>2, <1>4, <2>2 DEF hits
<1>5. CASE hits = {}
  BY <1>2, <1>5 DEF hits
<1> QED
  BY <1>4, <1>5

\* As long as no row is junk a row that is not in use matches no value.
LEMMA GoneRows ==
  ASSUME ArrayInv
  PROVE  GoneIsGone
<1> DEFINE n == Smaller(Size, Capacity)
<1> SUFFICES ASSUME \A i \in 1 .. Capacity : data[i] # Junk, NEW v \in Values
             PROVE  /\ Summed(v) = Cardinality({i \in DOMAIN Held : Held[i] = v})
                    /\ Find(v) # Throws => Find(v)[1] < Size
  BY DEF GoneIsGone
<1>1. /\ n \in Nat /\ n <= Size /\ n <= Capacity
      /\ Held = [i \in 1 .. n |-> data[i]] /\ DOMAIN Held = 1 .. n
  BY RowsHeld
<1>2. Capacity \in Nat /\ Capacity = Len(data) /\ Size \in Nat /\ Stocked(data, Size)
  BY ArrayShape DEF Capacity
<1>3. \A i \in 1 .. Capacity : data[i] = v => i <= Size
  BY <1>2, ValuesAssumption DEF Stocked
<1>4. \A i \in 1 .. Capacity : i <= Size => i <= n
  BY <1>2 DEF Smaller
<1> HIDE DEF n
<1>5. {i \in 1 .. Capacity : data[i] = v} = {i \in DOMAIN Held : Held[i] = v}
  BY <1>1, <1>2, <1>3, <1>4
<1>6. Find(v) # Throws => Find(v)[1] < Size
  <2> DEFINE last == IF index = -1 THEN Capacity ELSE Smaller(Size, Capacity)
             hits == {i \in 1 .. last : data[i] = v}
  <2>1. last \in Nat /\ last <= Capacity
    BY <1>2 DEF Smaller
  <2>2. \/ \E i \in hits : Find(v) = <<i - 1>>
        \/ Find(v) = Throws
        \/ Find(v) = <<-1>>
    BY FindMeans
  <2>3. \A i \in hits : i - 1 < Size
    BY <1>2, <1>3, <2>1
  <2> QED
    BY <1>2, <2>2, <2>3
<1> QED
  BY <1>5, <1>6 DEF Summed

\* Counted from the front, or from the end when negative.
LEMMA AtMeans ==
  ASSUME ArrayInv, Sound, NEW i \in Int
  PROVE  At(i) = IF i \in 0 .. Size - 1 THEN <<Held[i + 1]>>
                 ELSE IF -i \in 1 .. Size THEN <<Held[Size + 1 + i]>> ELSE Throws
<1>1. /\ Size \in Nat /\ Size = index + 1 /\ index \in Int /\ Capacity \in Nat
      /\ Size <= Capacity
  BY ArrayShape DEF Sound, ArrayInv, TypeOK, Size
<1>2. \A j \in 1 .. Size : Held[j] = data[j]
  BY RowsHeld
<1>3. CASE i \in 0 .. Size - 1
  <2>1. Position(i) = i + 1 /\ i + 1 \in 1 .. Size /\ i + 1 \in 1 .. Capacity
    BY <1>1, <1>3 DEF Position
  <2> QED
    BY <1>2, <1>3, <2>1 DEF At
<1>4. CASE -i \in 1 .. Size
  <2>1. /\ Position(i) = Size + 1 + i /\ Size + 1 + i \in 1 .. Size
        /\ Size + 1 + i \in 1 .. Capacity /\ i \notin 0 .. Size - 1
    BY <1>1, <1>4 DEF Position
  <2> QED
    BY <1>2, <1>4, <2>1 DEF At
<1>5. CASE i \notin 0 .. Size - 1 /\ -i \notin 1 .. Size
  <2>1. Position(i) = 0
    BY <1>1, <1>5 DEF Position
  <2> QED
    BY <1>1, <1>5, <2>1 DEF At
<1> QED
  BY <1>3, <1>4, <1>5

LEMMA PastAndLast ==
  ASSUME ArrayInv, Sound
  PROVE  /\ LastItem = At(-1)
         /\ \A k \in Nat : PastItem(k) = At(-(k + 1))
<1>1. /\ Size \in Nat /\ Size = index + 1 /\ index \in Int /\ Capacity \in Nat
      /\ Size <= Capacity
  BY ArrayShape DEF Sound, ArrayInv, TypeOK, Size
<1>2. \A j \in 1 .. Size : Held[j] = data[j]
  BY RowsHeld
<1>3. LastItem = At(-1)
  <2>1. At(-1) = IF Size >= 1 THEN <<Held[Size]>> ELSE Throws
    <3>1. PICK i \in Int : i + 1 = 0 /\ i = -1
      OBVIOUS
    <3>2. i \notin 0 .. Size - 1
      BY <1>1, <3>1
    <3>4. -i = 1
      <4>1. i + 1 = 0
        BY <3>1
      <4> QED
        BY <4>1
    <3>5. Size + 1 + i = Size
      BY <1>1, <3>1
    <3>3. At(i) = IF 1 \in 1 .. Size THEN <<Held[Size]>> ELSE Throws
      BY <3>2, <3>4, <3>5, AtMeans
    <3> QED
      BY <1>1, <3>1, <3>3
  <2> QED
    BY <1>1, <1>2, <2>1 DEF LastItem
<1>4. ASSUME NEW k \in Nat PROVE PastItem(k) = At(-(k + 1))
  <2> DEFINE i == -(k + 1)
  <2>1. /\ i \in Int /\ i \notin 0 .. Size - 1 /\ -i = k + 1 /\ Size + 1 + i = Size - k
    BY <1>1
  <2> HIDE DEF i
  <2>2. At(i) = IF k + 1 \in 1 .. Size THEN <<Held[Size - k]>> ELSE Throws
    BY <2>1, AtMeans
  <2>3. CASE k + 1 \in 1 .. Size
    <3>1. Size - k \in 1 .. Size /\ index # -1 /\ k <= index /\ Size - k <= Capacity
      BY <1>1, <2>3
    <3> QED
      BY <1>2, <2>2, <2>3, <3>1 DEF PastItem, i
  <2>4. CASE k + 1 \notin 1 .. Size
    <3>1. ~ (k <= index)
      BY <1>1, <2>4
    <3> QED
      BY <2>2, <2>4, <3>1 DEF PastItem, i
  <2> QED
    BY <2>3, <2>4
<1> QED
  BY <1>3, <1>4

\* The rows between two offsets are those of an interval, which a slice
\* returns in their order.
LEMMA SliceMeans ==
  ASSUME ArrayInv, Sound, NEW start \in Int, NEW stop \in Int
  PROVE  LET picked == PickedFrom(Held, start, stop)
         IN  IF picked = {} THEN Slice(start, stop) = Throws
             ELSE /\ Len(Slice(start, stop)) = Cardinality(picked)
                  /\ \A p \in picked :
                       Slice(start, stop)[1 + Cardinality({q \in picked : q < p})] = Held[p]
<1> DEFINE picked == PickedFrom(Held, start, stop)
           first == IF start < 0 THEN Size + start ELSE start
           end == IF stop = 0 THEN Size ELSE IF stop < 0 THEN Size + stop ELSE stop
           from == Larger(0, first)
           upto == Smaller(Size, end)
           found == Slice(start, stop)
           inOrder == /\ Len(found) = Cardinality(picked)
                      /\ \A p \in picked :
                           found[1 + Cardinality({q \in picked : q < p})] = Held[p]
<1> SUFFICES (picked = {} => found = Throws) /\ (picked # {} => inOrder)
  OBVIOUS
<1>1. /\ Size \in Nat /\ Size = index + 1 /\ index \in Int /\ Capacity \in Nat
      /\ Size <= Capacity /\ Capacity = Len(data) /\ data \in Seq(Cell)
  BY ArrayShape DEF Sound, ArrayInv, TypeOK, Size, Capacity
<1>2. DOMAIN Held = 1 .. Size /\ Len(Held) = Size /\ \A j \in 1 .. Size : Held[j] = data[j]
  BY RowsHeld
<1>3. /\ first \in Int /\ end \in Int
      /\ end = IF stop > 0 THEN stop ELSE Size + stop
  BY <1>1
<1>4. found = IF index = -1 \/ from >= upto \/ upto > Capacity THEN Throws
              ELSE SubSeq(data, from + 1, upto)
  BY DEF Slice
<1>5. picked = {i \in 1 .. Size : i > first /\ i <= end}
  BY <1>2, <1>3 DEF PickedFrom
<1> HIDE DEF first, end, picked, found
<1>6. /\ from \in Nat /\ upto \in Int /\ upto <= Size
      /\ \A i \in 1 .. Size : (i > first <=> i > from) /\ (i <= end <=> i <= upto)
  BY <1>1, <1>3 DEF Larger, Smaller
<1> HIDE DEF from, upto
<1>7. picked = from + 1 .. upto
  <2>1. picked = {i \in 1 .. Size : i > from /\ i <= upto}
    BY <1>5, <1>6
  <2> QED
    BY <1>1, <1>6, <2>1
<1>8. CASE from >= upto
  <2>1. picked = {} /\ found = Throws
    BY <1>4, <1>6, <1>7, <1>8
  <2> QED
    BY <2>1
<1>9. CASE from < upto
  <2>1. upto \in 1 .. Len(data) /\ index # -1 /\ ~ (upto > Capacity)
    BY <1>1, <1>6, <1>9
  <2>2. found = SubSeq(data, from + 1, upto)
    BY <1>4, <1>6, <1>9, <2>1
  <2>3. /\ found = [i \in 1 .. upto - (from + 1) + 1 |-> data[i + (from + 1) - 1]]
        /\ Len(found) = upto - (from + 1) + 1
    <3>1. from + 1 \in Nat \ {0} /\ upto \in 0 .. Len(data) /\ from + 1 <= upto + 1
      BY <1>6, <1>9, <2>1
    <3> QED
      BY <1>1, <2>2, <3>1, Stretch
  <2>4. upto - (from + 1) + 1 = upto - from /\ upto - from \in Nat
    BY <1>6, <1>9
  <2>5. Cardinality(picked) = upto - from
    <3>1. Cardinality(from + 1 .. upto) = IF from + 1 > upto THEN 0 ELSE upto - (from + 1) + 1
      BY <1>6, FS_Interval
    <3> QED
      BY <1>6, <1>7, <1>9, <2>4, <3>1
  <2>6. ASSUME NEW p \in picked
        PROVE  found[1 + Cardinality({q \in picked : q < p})] = Held[p]
    <3>1. p \in 1 .. Size /\ p \in Int /\ p > from /\ p <= upto
      BY <1>1, <1>6, <1>7
    <3>5. {q \in picked : q < p} = from + 1 .. p - 1
      <4>1. \A q : q \in picked /\ q < p <=> q \in from + 1 .. p - 1
        BY <1>6, <1>7, <3>1
      <4> QED
        BY <4>1
    <3>2. Cardinality(from + 1 .. p - 1) = p - 1 - from
      <4>1. /\ from + 1 \in Int /\ p - 1 \in Int
            /\ from + 1 > p - 1 => p - 1 - from = 0
            /\ p - 1 - (from + 1) + 1 = p - 1 - from
        BY <1>6, <3>1
      <4>2. Cardinality(from + 1 .. p - 1)
              = IF from + 1 > p - 1 THEN 0 ELSE p - 1 - (from + 1) + 1
        BY <4>1, FS_Interval
      <4> QED
        BY <4>1, <4>2
    <3>3. 1 + (p - 1 - from) = p - from /\ p - from \in 1 .. upto - from
      BY <1>6, <3>1
    <3>4. found[p - from] = data[p]
      <4>1. p - from + (from + 1) - 1 = p
        BY <1>6, <3>1
      <4> QED
        BY <2>3, <2>4, <3>3, <4>1
    <3> QED
      BY <1>2, <3>1, <3>2, <3>3, <3>4, <3>5
  <2>7. picked # {}
    BY <1>6, <1>7, <1>9
  <2> QED
    BY <2>3, <2>4, <2>5, <2>6, <2>7
<1> HIDE DEF inOrder
<1> QED
  BY <1>6, <1>8, <1>9

\* f gathers, up to row i, the rows of a matrix that match v.
Gathers(f, n, v) ==
  f = [i \in 0 .. n |->
        IF i = 0 THEN <<>> ELSE IF data[i] = v THEN Append(f[i - 1], data[i]) ELSE f[i - 1]]

\* There is one, for every number of rows.
LEMMA GathererExists ==
  ASSUME NEW v, NEW n \in Nat
  PROVE  \E f : Gathers(f, n, v)
<1> DEFINE T == {k \in Nat : \E f : Gathers(f, k, v)}
<1>1. 0 \in T
  <2> DEFINE f == [i \in 0 .. 0 |-> <<>>]
  <2>1. Gathers(f, 0, v)
    BY DEF Gathers
  <2> QED
    BY <2>1
<1>2. ASSUME NEW k \in T PROVE k + 1 \in T
  <2>1. k \in Nat
    OBVIOUS
  <2>2. PICK f : Gathers(f, k, v)
    OBVIOUS
  <2> DEFINE next == IF data[k + 1] = v THEN Append(f[k], data[k + 1]) ELSE f[k]
             g == [i \in 0 .. k + 1 |-> IF i <= k THEN f[i] ELSE next]
  <2>3. /\ \A i \in 0 .. k : g[i] = f[i]
        /\ g[k + 1] = next
    BY <2>1
  <2>4. ASSUME NEW i \in 0 .. k + 1
        PROVE  g[i] = IF i = 0 THEN <<>>
                      ELSE IF data[i] = v THEN Append(g[i - 1], data[i]) ELSE g[i - 1]
    <3>1. CASE i <= k
      <4>1. i \in 0 .. k /\ (i # 0 => i - 1 \in 0 .. k)
        BY <2>1, <3>1
      <4>2. g[i] = f[i] /\ (i # 0 => g[i - 1] = f[i - 1])
        BY <2>3, <4>1
      <4> HIDE DEF g
      <4> QED
        BY <2>2, <4>1, <4>2 DEF Gathers
    <3>2. CASE i = k + 1
      <4>1. i # 0 /\ i - 1 = k /\ k \in 0 .. k
        BY <2>1, <3>2
      <4>2. g[i - 1] = f[k]
        BY <2>3, <4>1
      <4> HIDE DEF g
      <4> QED
        BY <2>3, <3>2, <4>1, <4>2
    <3> QED
      BY <2>1, <3>1, <3>2
  <2>5. Gathers(g, k + 1, v)
    <3>1. g = [i \in 0 .. k + 1 |-> g[i]]
      OBVIOUS
    <3> HIDE DEF g
    <3> QED
      BY <2>4, <3>1 DEF Gathers
  <2> QED
    BY <2>1, <2>5
<1> HIDE DEF T
<1>3. T = Nat
  <2>1. T \in SUBSET Nat
    BY DEF T
  <2> QED
    BY <1>1, <1>2, <2>1, Counting
<1> QED
  BY <1>3 DEF T

\* The rows that match, among the first i, and a sequence that counts them.
Hits(i, v) == {j \in 1 .. i : data[j] = v}
Counts(s, i, v) ==
  s \in Seq({v}) /\ IsFiniteSet(Hits(i, v)) /\ Len(s) = Cardinality(Hits(i, v))

\* One row more.
LEMMA CountsNext ==
  ASSUME NEW v, NEW i \in Nat, NEW s, Counts(s, i, v)
  PROVE  Counts(IF data[i + 1] = v THEN Append(s, data[i + 1]) ELSE s, i + 1, v)
<1>1. s \in Seq({v}) /\ IsFiniteSet(Hits(i, v)) /\ Len(s) = Cardinality(Hits(i, v))
  BY DEF Counts
<1>2. CASE data[i + 1] = v
  <2>1. Hits(i + 1, v) = Hits(i, v) \cup {i + 1} /\ i + 1 \notin Hits(i, v)
    BY <1>2 DEF Hits
  <2>2. /\ IsFiniteSet(Hits(i, v) \cup {i + 1})
        /\ Cardinality(Hits(i, v) \cup {i + 1}) = Cardinality(Hits(i, v)) + 1
    BY <1>1, <2>1, FS_AddElement
  <2>3. Append(s, v) \in Seq({v}) /\ Len(Append(s, v)) = Len(s) + 1
    BY <1>1
  <2> QED
    BY <1>1, <1>2, <2>1, <2>2, <2>3 DEF Counts
<1>3. CASE data[i + 1] # v
  <2>1. Hits(i + 1, v) = Hits(i, v)
    BY <1>3 DEF Hits
  <2> QED
    BY <1>1, <1>3, <2>1 DEF Counts
<1> QED
  BY <1>2, <1>3

\* It has gathered as many rows as match.
LEMMA GatheredCount ==
  ASSUME NEW v, NEW n \in Nat, NEW f, Gathers(f, n, v)
  PROVE  Counts(f[n], n, v)
<1> DEFINE T == {i \in Nat : i <= n => Counts(f[i], i, v)}
<1>1. 0 \in T
  <2>1. f[0] = <<>>
    <3>1. 0 \in 0 .. n
      OBVIOUS
    <3> QED
      BY <3>1 DEF Gathers
  <2>2. Hits(0, v) = {}
    BY DEF Hits
  <2>3. IsFiniteSet({}) /\ Cardinality({}) = 0
    BY FS_EmptySet
  <2>4. <<>> \in Seq({v}) /\ Len(<<>>) = 0
    OBVIOUS
  <2>5. Counts(f[0], 0, v)
    BY <2>1, <2>2, <2>3, <2>4 DEF Counts
  <2> QED
    BY <2>5
<1>2. ASSUME NEW i \in T PROVE i + 1 \in T
  <2>1. i \in Nat
    OBVIOUS
  <2>2. ASSUME i + 1 <= n PROVE Counts(f[i + 1], i + 1, v)
    <3>1. i <= n /\ i + 1 \in 0 .. n /\ i + 1 # 0 /\ i + 1 - 1 = i
      BY <2>1, <2>2
    <3>2. Counts(f[i], i, v)
      BY <3>1
    <3>3. \A k \in 0 .. n : k # 0 =>
             f[k] = IF data[k] = v THEN Append(f[k - 1], data[k]) ELSE f[k - 1]
      BY DEF Gathers
    <3>4. f[i + 1] = IF data[i + 1] = v THEN Append(f[i], data[i + 1]) ELSE f[i]
      BY <3>1, <3>3
    <3> HIDE DEF T
    <3> QED
      BY <2>1, <3>2, <3>4, CountsNext
  <2> QED
    BY <2>1, <2>2
<1> HIDE DEF T
<1>3. T = Nat
  <2>1. T \in SUBSET Nat
    BY DEF T
  <2> QED
    BY <1>1, <1>2, <2>1, Counting
<1>4. n \in T
  BY <1>3
<1> QED
  BY <1>4 DEF T

\* filter returns as many rows as match, and find reports none exactly when
\* there is none.
LEMMA FilterMeans ==
  ASSUME ArrayInv, Sound, NEW v \in Values
  PROVE  /\ Len(Filter(v)) = Cardinality({i \in 1 .. Size : Held[i] = v})
         /\ Size > 0 => (Find(v) = <<-1>> <=> Filter(v) = <<>>)
<1> DEFINE hits == {i \in 1 .. Size : data[i] = v}
           chosen == CHOOSE f : Gathers(f, Size, v)
<1>1. /\ Size \in Nat /\ Size = index + 1 /\ index \in Int /\ Capacity \in Nat
      /\ Size <= Capacity
  BY ArrayShape DEF Sound, ArrayInv, TypeOK, Size
<1>2. \A j \in 1 .. Size : Held[j] = data[j]
  BY RowsHeld
<1>3. {i \in 1 .. Size : Held[i] = v} = hits
  BY <1>2
<1>4. Gathers(chosen, Size, v)
  BY <1>1, GathererExists
<1>5. Filter(v) = IF index = -1 \/ ~ Sound THEN <<>> ELSE chosen[Size]
  BY DEF Filter, Gathers
<1> HIDE DEF chosen
<1>6. chosen[Size] \in Seq({v}) /\ Len(chosen[Size]) = Cardinality(hits)
  <2>1. Counts(chosen[Size], Size, v)
    BY <1>1, <1>4, GatheredCount
  <2> QED
    BY <2>1 DEF Counts, Hits
<1>7. IsFiniteSet(hits)
  <2>1. IsFiniteSet(1 .. Size) /\ hits \in SUBSET (1 .. Size)
    BY <1>1, FS_Interval
  <2> HIDE DEF hits
  <2> QED
    BY <2>1, FS_Subset
<1>8. Cardinality(hits) = 0 <=> hits = {}
  BY <1>7, FS_EmptySet
<1>9. CASE index = -1
  <2>1. Filter(v) = <<>> /\ Size = 0 /\ hits = {}
    BY <1>1, <1>5, <1>9
  <2> QED
    BY <1>3, <1>8, <2>1
<1>10. CASE index # -1
  <2>1. Filter(v) = chosen[Size]
    BY <1>5, <1>10
  <2>2. Filter(v) = <<>> <=> hits = {}
    BY <1>6, <1>8, <2>1
  <2>3. Smaller(Size, Capacity) = Size
    BY <1>1 DEF Smaller
  <2>4. \/ \E i \in hits : Find(v) = <<i - 1>>
        \/ hits = {} /\ Find(v) = <<-1>>
    BY <1>10, <2>3, FindMeans
  <2>5. \A i \in hits : <<i - 1>> # <<-1>>
    BY <1>1
  <2>6. Find(v) = <<-1>> <=> hits = {}
    BY <2>4, <2>5
  <2> QED
    BY <1>3, <1>6, <2>1, <2>2, <2>6
<1> QED
  BY <1>9, <1>10

\* In every state an array can be in, each way of reading it agrees with the
\* rows it holds: one row by its offset from either end, a slice between two
\* offsets, the search and the filter; and as long as no deletion has shrunk
\* the matrix, what is gone is neither summed nor found.
THEOREM ReadingAgrees == Spec => []ReadsAgree
<1>1. ArrayInv => ReadsAgree
  <2> SUFFICES ASSUME ArrayInv PROVE ReadsAgree
    OBVIOUS
  <2>1. GoneIsGone
    BY GoneRows
  <2>2. ASSUME Sound
        PROVE  LET n == Len(Held) IN
               /\ \A i \in Offsets :
                    /\ At(i) = IF i \in 0 .. n - 1 THEN <<Held[i + 1]>>
                               ELSE IF -i \in 1 .. n THEN <<Held[n + 1 + i]>> ELSE Throws
                    /\ i >= 0 => PastItem(i) = At(-(i + 1))
               /\ LastItem = At(-1)
               /\ \A i, j \in Offsets :
                    LET picked == PickedFrom(Held, i, j)
                    IN  IF picked = {} THEN Slice(i, j) = Throws
                        ELSE /\ Len(Slice(i, j)) = Cardinality(picked)
                             /\ \A p \in picked :
                                  Slice(i, j)[1 + Cardinality({q \in picked : q < p})] = Held[p]
               /\ \A v \in Values :
                    /\ Len(Filter(v)) = Cardinality({i \in 1 .. n : Held[i] = v})
                    /\ n > 0 => (Find(v) = <<-1>> <=> Filter(v) = <<>>)
    <3>1. Len(Held) = Size
      BY <2>2, RowsHeld
    <3>2. \A i \in Offsets : i \in Int /\ (i >= 0 => i \in Nat)
      BY DEF Offsets
    <3>3. ASSUME NEW i \in Offsets
          PROVE  /\ At(i) = IF i \in 0 .. Size - 1 THEN <<Held[i + 1]>>
                            ELSE IF -i \in 1 .. Size THEN <<Held[Size + 1 + i]>> ELSE Throws
                 /\ i >= 0 => PastItem(i) = At(-(i + 1))
      BY <2>2, <3>2, AtMeans, PastAndLast
    <3>4. LastItem = At(-1)
      BY <2>2, PastAndLast
    <3>5. ASSUME NEW i \in Offsets, NEW j \in Offsets
          PROVE  LET picked == PickedFrom(Held, i, j)
                 IN  IF picked = {} THEN Slice(i, j) = Throws
                     ELSE /\ Len(Slice(i, j)) = Cardinality(picked)
                          /\ \A p \in picked :
                               Slice(i, j)[1 + Cardinality({q \in picked : q < p})] = Held[p]
      BY <2>2, <3>2, SliceMeans
    <3>6. ASSUME NEW v \in Values
          PROVE  /\ Len(Filter(v)) = Cardinality({i \in 1 .. Size : Held[i] = v})
                 /\ Size > 0 => (Find(v) = <<-1>> <=> Filter(v) = <<>>)
      BY <2>2, FilterMeans
    <3> QED
      BY <3>1, <3>3, <3>4, <3>5, <3>6
  <2> QED
    BY <2>1, <2>2 DEF ReadsAgree
<1> QED
  BY <1>1, ArrayStart, ArrayStep, PTL DEF Spec

=============================================================================
