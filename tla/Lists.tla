------------------------------- MODULE Lists -------------------------------
(***************************************************************************)
(* Searching, inserting and aligning (src/src/Helper.cpp).  Indexes count  *)
(* from 0 as in the code, a matrix is the sequence of its rows.            *)
(***************************************************************************)
EXTENDS Integers, Sequences, SequencesExt

NaN == -99          \* the missing cell
Refused == <<>>     \* thrown, by a function that returns <<its result>>

BinarySearch(arr, item) ==
  LET find[w \in (0..Len(arr)) \X (-1..Len(arr) - 1)] ==
        LET mid == w[1] + (w[2] - w[1]) \div 2
        IN  IF w[1] > w[2] THEN -1
            ELSE IF arr[mid + 1] = item THEN mid
            ELSE IF arr[mid + 1] < item THEN find[<<mid + 1, w[2]>>]
            ELSE find[<<w[1], mid - 1>>]
  IN  find[<<0, Len(arr) - 1>>]

\* Mutant: a level behind the last one looked at is put before it.
InsertionIndexBefore(arr, target, ascending) ==
  LET find[w \in (0..Len(arr)) \X (0..Len(arr))] ==
        LET mid == w[1] + (w[2] - w[1]) \div 2
            beyond == IF ascending THEN target > arr[mid + 1] ELSE target < arr[mid + 1]
        IN  IF w[1] >= w[2] THEN [found |-> FALSE, at |-> w[1]]
            ELSE IF target = arr[mid + 1] THEN [found |-> TRUE, at |-> mid]
            ELSE IF w[1] = mid THEN [found |-> FALSE, at |-> w[1]]
            ELSE IF beyond THEN find[<<mid, w[2]>>] ELSE find[<<w[1], mid>>]
  IN  find[<<0, Len(arr)>>]
\* findOrderbookInsertionIndex, over the prices of a book
InsertionIndex(arr, target, ascending) ==
  LET find[w \in (0..Len(arr)) \X (0..Len(arr))] ==
        LET mid == w[1] + (w[2] - w[1]) \div 2
            beyond == IF ascending THEN target > arr[mid + 1] ELSE target < arr[mid + 1]
        IN  IF w[1] >= w[2] THEN [found |-> FALSE, at |-> w[1]]
            ELSE IF target = arr[mid + 1] THEN [found |-> TRUE, at |-> mid]
            ELSE IF w[1] = mid
                 THEN [found |-> FALSE, at |-> IF beyond THEN w[1] + 1 ELSE w[1]]
            ELSE IF beyond THEN find[<<mid, w[2]>>] ELSE find[<<w[1], mid>>]
  IN  find[<<0, Len(arr)>>]

\* Index -1 appends.
InsertList(index, item, arr) ==
  IF index = -1 THEN <<Append(arr, item)>>
  ELSE IF index > Len(arr) THEN Refused
  ELSE <<SubSeq(arr, 1, index) \o <<item>> \o SubSeq(arr, index + 1, Len(arr))>>

\* Levels of an order book: price and quantity, and what else is in them.
CleanOrderbookList(levels) ==
  IF \E i \in DOMAIN levels : Len(levels[i]) < 2 THEN Refused
  ELSE <<[i \in DOMAIN levels |-> <<levels[i][1], levels[i][2]>>]>>

\* The last candles, as many as the indicators need to warm up.
SliceCandles(candles, warmup, sequential) ==
  IF ~ sequential /\ Len(candles) > warmup
  THEN SubSeq(candles, Len(candles) - warmup + 1, Len(candles)) ELSE candles

\* A column from top to bottom: a missing cell takes what is above it, a
\* leading one stays.
FillDown(column) ==
  LET filled[i \in DOMAIN column] ==
        IF column[i] = NaN /\ i > 1 THEN filled[i - 1] ELSE column[i]
  IN  filled
\* Along axis 1 the code reads cell (j, i) where it means (i, j): on a square
\* matrix it fills the same way as along axis 0, and off one it leaves the
\* matrix (not modelled).
ForwardFill(m, axis) ==
  LET columns == [j \in DOMAIN m[1] |-> FillDown([i \in DOMAIN m |-> m[i][j]])]
  IN  [i \in DOMAIN m |-> [j \in DOMAIN m[1] |-> columns[j][i]]]

ShiftVector(v, k, fill) ==
  [i \in DOMAIN v |-> IF i - k \in DOMAIN v THEN v[i - k] ELSE fill]
\* Of a matrix, whole rows move; a shift by more rows than there are throws.
ShiftMatrix(m, k, fill) ==
  IF k > Len(m) \/ - k > Len(m) THEN Refused
  ELSE <<[i \in DOMAIN m |->
            IF i - k \in DOMAIN m THEN m[i - k] ELSE [j \in DOMAIN m[1] |-> fill]]>>

\* Mutant: the missing rows come after it.
SameLengthBehind(bigger, shorter) ==
  [i \in DOMAIN bigger |->
     IF i > Len(shorter) THEN [j \in DOMAIN bigger[1] |-> NaN] ELSE shorter[i]]
\* The shorter matrix, with missing rows before it.
SameLength(bigger, shorter) ==
  LET diff == Len(bigger) - Len(shorter)
  IN  [i \in DOMAIN bigger |->
         IF i <= diff THEN [j \in DOMAIN bigger[1] |-> NaN] ELSE shorter[i - diff]]

\* A missing cell differs by no amount from a number.
MatricesEqualWithTolerance(a, b, tolerance) ==
  LET apart(x, y) == x # NaN /\ y # NaN /\ (x - y > tolerance \/ y - x > tolerance)
  IN  /\ Len(a) = Len(b) /\ (a # <<>> => Len(a[1]) = Len(b[1]))
      /\ \A i \in DOMAIN a : \A j \in DOMAIN a[i] : ~ apart(a[i][j], b[i][j])

\* Mutant: the first has the last word on an inner key.
MergeMapsFirst(d1, d2) ==
  [k \in DOMAIN d1 \cup DOMAIN d2 |->
     IF k \notin DOMAIN d2 THEN d1[k]
     ELSE IF k \notin DOMAIN d1 THEN d2[k]
     ELSE [i \in DOMAIN d1[k] \cup DOMAIN d2[k] |->
             IF i \in DOMAIN d1[k] THEN d1[k][i] ELSE d2[k][i]]]
\* mergeMaps of maps whose values are maps: the second has the last word.
MergeMaps(d1, d2) ==
  [k \in DOMAIN d1 \cup DOMAIN d2 |->
     IF k \notin DOMAIN d2 THEN d1[k]
     ELSE IF k \notin DOMAIN d1 THEN d2[k]
     ELSE [i \in DOMAIN d1[k] \cup DOMAIN d2[k] |->
             IF i \in DOMAIN d2[k] THEN d2[k][i] ELSE d1[k][i]]]
=============================================================================
