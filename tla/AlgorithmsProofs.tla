---------------------------- MODULE AlgorithmsProofs ----------------------------
(***************************************************************************)
(* What the functions of Lists, Candles and Markets return, for every      *)
(* argument, and that the invariants of Algorithms about them hold         *)
(* whatever values they are called with.                                   *)
(***************************************************************************)
EXTENDS Algorithms, FunctionProofs

-------------------------------------------------------------------------------
(* The bisection of an order book (findOrderbookInsertionIndex).            *)

\* The windows of a book of n prices, and the middle of one.
Windows(n) == (0 .. n) \X (0 .. n)
Middle(w) == w[1] + (w[2] - w[1]) \div 2

\* What the bisection says of a window, if f says it of the smaller ones.
Look(f, w, arr, target, ascending) ==
  LET mid == Middle(w)
      beyond == IF ascending THEN target > arr[mid + 1] ELSE target < arr[mid + 1]
  IN  IF w[1] >= w[2] THEN [found |-> FALSE, at |-> w[1]]
      ELSE IF target = arr[mid + 1] THEN [found |-> TRUE, at |-> mid]
      ELSE IF w[1] = mid
           THEN [found |-> FALSE, at |-> IF beyond THEN w[1] + 1 ELSE w[1]]
      ELSE IF beyond THEN f[<<mid, w[2]>>] ELSE f[<<w[1], mid>>]
Bisects(f, D, arr, target, ascending) == f = [w \in D |-> Look(f, w, arr, target, ascending)]

\* The bisection is the value, for the whole book, of a function that does.
LEMMA BisectionChosen ==
  ASSUME NEW arr, NEW target, NEW ascending
  PROVE  InsertionIndex(arr, target, ascending) =
           (CHOOSE f : Bisects(f, Windows(Len(arr)), arr, target, ascending))[<<0, Len(arr)>>]
BY DEF InsertionIndex, Bisects, Look, Windows, Middle

\* The middle of a window that is not decided at once splits it.
LEMMA Halved ==
  ASSUME NEW n \in Nat, NEW w \in Windows(n), w[1] < w[2]
  PROVE  /\ Middle(w) \in w[1] .. w[2] - 1 /\ Middle(w) + 1 \in 1 .. n
         /\ Middle(w) = w[1] => w[2] = w[1] + 1
         /\ Middle(w) # w[1] =>
              /\ <<Middle(w), w[2]>> \in Windows(n) /\ w[2] - Middle(w) < w[2] - w[1]
              /\ <<w[1], Middle(w)>> \in Windows(n) /\ Middle(w) - w[1] < w[2] - w[1]
<1>1. w[1] \in 0 .. n /\ w[2] \in 0 .. n
  BY DEF Windows
<1>2. PICK a \in 0 .. n, b \in 0 .. n : a = w[1] /\ b = w[2]
  BY <1>1
<1>3. PICK d \in Nat : d = b - a /\ d > 0 /\ b = a + d
  BY <1>2
<1>4. PICK h \in Nat : h = d \div 2 /\ h < d /\ (h = 0 => d = 1)
  BY <1>3
<1>5. PICK m \in Nat : m = a + h /\ m = Middle(w)
  <2>1. w[2] - w[1] = d /\ w[1] = a
    BY <1>2, <1>3
  <2>2. Middle(w) = a + h
    BY <1>4, <2>1 DEF Middle
  <2> QED
    BY <2>2
<1>6. a <= m /\ m < b /\ b <= n /\ (m = a => b = a + 1)
  <2>1. a \in Nat /\ b \in Nat /\ b <= n
    BY <1>2
  <2>2. m = a + h /\ b = a + d /\ h < d /\ (h = 0 => d = 1)
    BY <1>3, <1>4, <1>5
  <2> QED
    BY ONLY <2>1, <2>2, h \in Nat, d \in Nat, m \in Nat
<1>7. m \in 0 .. n /\ a \in 0 .. n /\ b \in 0 .. n
  BY <1>2, <1>6
<1>8. m \in a .. b - 1 /\ m + 1 \in 1 .. n
  BY <1>2, <1>6
<1>9. m # a => b - m < b - a /\ m - a < b - a
  BY <1>2, <1>6
<1>10. <<m, b>> \in Windows(n) /\ <<a, m>> \in Windows(n)
  BY <1>7 DEF Windows
<1> QED
  BY <1>2, <1>5, <1>6, <1>8, <1>9, <1>10

\* It looks only at smaller windows.
LEMMA LookSame ==
  ASSUME NEW arr, NEW target, NEW ascending, NEW n \in Nat, NEW w \in Windows(n), NEW f, NEW g,
         \A u \in Windows(n) : u[2] - u[1] < w[2] - w[1] => f[u] = g[u]
  PROVE  Look(f, w, arr, target, ascending) = Look(g, w, arr, target, ascending)
<1>1. CASE w[1] >= w[2]
  BY <1>1 DEF Look
<1>2. CASE w[1] < w[2] /\ Middle(w) = w[1]
  BY <1>2 DEF Look
<1>3. CASE w[1] < w[2] /\ Middle(w) # w[1]
  <2>1. f[<<Middle(w), w[2]>>] = g[<<Middle(w), w[2]>>]
    <3>1. PICK u \in Windows(n) : u = <<Middle(w), w[2]>> /\ u[2] - u[1] < w[2] - w[1]
      BY <1>3, Halved
    <3> QED
      BY <3>1
  <2>2. f[<<w[1], Middle(w)>>] = g[<<w[1], Middle(w)>>]
    <3>1. PICK u \in Windows(n) : u = <<w[1], Middle(w)>> /\ u[2] - u[1] < w[2] - w[1]
      BY <1>3, Halved
    <3> QED
      BY <3>1
  <2> QED
    BY <2>1, <2>2 DEF Look
<1>4. w[1] \in Nat /\ w[2] \in Nat
  BY DEF Windows
<1> QED
  BY <1>1, <1>2, <1>3, <1>4

\* There is one for every book: by induction over the width of the windows.
LEMMA BisectorExists ==
  ASSUME NEW arr, NEW target, NEW ascending, NEW n \in Nat
  PROVE  \E f : Bisects(f, Windows(n), arr, target, ascending)
<1> DEFINE D(k) == {w \in Windows(n) : w[2] - w[1] <= k}
           T == {k \in Nat : \E f : Bisects(f, D(k), arr, target, ascending)}
<1>0. \A w \in Windows(n) : w[1] \in 0 .. n /\ w[2] \in 0 .. n
  BY DEF Windows
<1>1. 0 \in T
  <2> DEFINE f == [w \in D(0) |-> [found |-> FALSE, at |-> w[1]]]
  <2>1. \A w \in D(0) : w[1] >= w[2]
    BY <1>0
  <2>2. \A w \in D(0) : Look(f, w, arr, target, ascending) = [found |-> FALSE, at |-> w[1]]
    BY <2>1 DEF Look
  <2>3. Bisects(f, D(0), arr, target, ascending)
    BY <2>2 DEF Bisects
  <2> QED
    BY <2>3
<1>2. ASSUME NEW k \in T PROVE k + 1 \in T
  <2>1. k \in Nat
    OBVIOUS
  <2>2. PICK f : Bisects(f, D(k), arr, target, ascending)
    OBVIOUS
  <2> DEFINE g == [w \in D(k + 1) |-> Look(f, w, arr, target, ascending)]
  <2>3. \A u \in D(k) : u \in D(k + 1) /\ f[u] = Look(f, u, arr, target, ascending)
    BY <1>0, <2>1, <2>2 DEF Bisects
  <2>4. \A u \in D(k) : g[u] = f[u]
    BY <2>3
  <2>5. ASSUME NEW w \in D(k + 1)
        PROVE  Look(f, w, arr, target, ascending) = Look(g, w, arr, target, ascending)
    <3>1. \A u \in Windows(n) : u[2] - u[1] < w[2] - w[1] => f[u] = g[u]
      <4> SUFFICES ASSUME NEW u \in Windows(n), u[2] - u[1] < w[2] - w[1] PROVE u \in D(k)
        BY <2>4
      <4> QED
        BY <1>0, <2>1
    <3>2. w \in Windows(n)
      OBVIOUS
    <3> HIDE DEF g
    <3> QED
      BY <3>1, <3>2, LookSame
  <2>6. Bisects(g, D(k + 1), arr, target, ascending)
    BY <2>5 DEF Bisects
  <2>7. \E h : Bisects(h, D(k + 1), arr, target, ascending)
    BY <2>6
  <2>8. k + 1 \in Nat
    BY <2>1
  <2> QED
    BY <2>7, <2>8
<1> HIDE DEF T
<1>3. n \in T
  <2>1. T \in SUBSET Nat
    BY DEF T
  <2> QED
    BY <1>1, <1>2, <2>1, Counting
<1>4. D(n) = Windows(n)
  BY <1>0
<1> QED
  BY <1>3, <1>4 DEF T

\* Where a window of a sorted book is: the prices in front of it come before
\* the target, those behind it after.
Encloses(w, arr, target, ascending) ==
  /\ w[1] <= w[2]
  /\ \A i \in 1 .. Len(arr) : i <= w[1] => Before(arr[i], target, ascending)
  /\ \A i \in 1 .. Len(arr) : i > w[2] => Before(target, arr[i], ascending)

\* The place of the target: that of a price equal to it, or the one between
\* the prices before it and the prices after it.
Placed(r, arr, target, ascending) ==
  \/ r.found /\ r.at \in 0 .. Len(arr) - 1 /\ arr[r.at + 1] = target
  \/ /\ ~ r.found /\ r.at \in 0 .. Len(arr)
     /\ \A i \in 1 .. Len(arr) : i <= r.at => Before(arr[i], target, ascending)
     /\ \A i \in 1 .. Len(arr) : i > r.at => Before(target, arr[i], ascending)

\* Before and behind one price of a sorted book.
LEMMA BesideLevel ==
  ASSUME NEW arr \in Seq(Int), NEW target \in Int, NEW ascending \in BOOLEAN,
         Sorted(arr, ascending), NEW k \in 1 .. Len(arr), NEW i \in 1 .. Len(arr)
  PROVE  /\ Before(arr[k], target, ascending) /\ i <= k => Before(arr[i], target, ascending)
         /\ Before(target, arr[k], ascending) /\ i >= k => Before(target, arr[i], ascending)
<1>1. arr[i] \in Int /\ arr[k] \in Int
  OBVIOUS
<1>2. i = k \/ (i < k /\ Before(arr[i], arr[k], ascending))
            \/ (i > k /\ Before(arr[k], arr[i], ascending))
  BY DEF Sorted
<1> QED
  BY <1>1, <1>2 DEF Before

\* If the smaller windows are answered rightly, so is this one.
LEMMA LookPlaces ==
  ASSUME NEW arr \in Seq(Int), NEW target \in Int, NEW ascending \in BOOLEAN,
         Sorted(arr, ascending), NEW w \in Windows(Len(arr)),
         Encloses(w, arr, target, ascending), NEW f,
         \A u \in Windows(Len(arr)) :
           u[2] - u[1] < w[2] - w[1] /\ Encloses(u, arr, target, ascending)
             => Placed(f[u], arr, target, ascending)
  PROVE  Placed(Look(f, w, arr, target, ascending), arr, target, ascending)
<1>1. PICK n \in Nat : n = Len(arr)
  OBVIOUS
<1>2. PICK a \in 0 .. n, b \in 0 .. n : a = w[1] /\ b = w[2]
  BY <1>1 DEF Windows
<1>3. /\ a <= b
      /\ \A i \in 1 .. n : i <= a => Before(arr[i], target, ascending)
      /\ \A i \in 1 .. n : i > b => Before(target, arr[i], ascending)
  BY <1>1, <1>2 DEF Encloses
<1>4. CASE a = b
  <2>1. Look(f, w, arr, target, ascending) = [found |-> FALSE, at |-> a]
    BY <1>2, <1>4 DEF Look
  <2>2. PICK r : r = Look(f, w, arr, target, ascending) /\ ~ r.found /\ r.at = a
    BY <2>1
  <2>3. Placed(r, arr, target, ascending)
    BY <1>1, <1>3, <1>4, <2>2 DEF Placed
  <2> QED
    BY <2>2, <2>3
<1>5. CASE a < b
  <2>1. PICK m \in a .. b - 1 :
          /\ m = Middle(w) /\ m + 1 \in 1 .. n
          /\ m = a => b = a + 1
          /\ m # a =>
               /\ <<m, b>> \in Windows(n) /\ b - m < b - a
               /\ <<a, m>> \in Windows(n) /\ m - a < b - a
    BY <1>1, <1>2, <1>5, Halved
  <2>2. PICK p \in Int : p = arr[m + 1]
    BY <1>1, <2>1
  <2>3. ~ (w[1] >= w[2])
    BY <1>2, <1>5
  <2>4. m \in 0 .. n /\ m \in 0 .. n - 1 /\ m + 1 \in 0 .. n
    <3>1. m \in Int /\ a <= m /\ m < b /\ 0 <= a /\ b <= n
      BY <1>2, <2>1
    <3> QED
      BY <3>1
  <2>5. CASE target = p
    <3>1. Look(f, w, arr, target, ascending) = [found |-> TRUE, at |-> m]
      BY <2>1, <2>2, <2>3, <2>5 DEF Look
    <3>2. PICK r : r = Look(f, w, arr, target, ascending) /\ r.found /\ r.at = m
      BY <3>1
    <3>3. Placed(r, arr, target, ascending)
      BY <1>1, <2>2, <2>4, <2>5, <3>2 DEF Placed
    <3> QED
      BY <3>2, <3>3
  <2>6. CASE Before(p, target, ascending)
    <3>1. target # p /\ (IF ascending THEN target > p ELSE target < p)
      BY <2>2, <2>6 DEF Before
    <3>2. \A i \in 1 .. n : i <= m + 1 => Before(arr[i], target, ascending)
      BY <1>1, <2>1, <2>2, <2>6, BesideLevel
    <3>3. CASE m = a
      <4>1. Look(f, w, arr, target, ascending) = [found |-> FALSE, at |-> a + 1]
        BY <1>2, <2>1, <2>2, <2>3, <3>1, <3>3 DEF Look
      <4>2. PICK r : r = Look(f, w, arr, target, ascending) /\ ~ r.found /\ r.at = m + 1
        BY <3>3, <4>1
      <4>3. b = m + 1
        BY <2>1, <3>3
      <4>4. Placed(r, arr, target, ascending)
        BY <1>1, <1>3, <2>4, <3>2, <4>2, <4>3 DEF Placed
      <4> QED
        BY <4>2, <4>4
    <3>4. CASE m # a
      <4>1. Look(f, w, arr, target, ascending) = f[<<m, b>>]
        BY <1>2, <2>1, <2>2, <2>3, <3>1, <3>4 DEF Look
      <4>2. PICK u \in Windows(n) :
              u = <<m, b>> /\ u[1] = m /\ u[2] = b /\ u[2] - u[1] < w[2] - w[1]
        BY <1>2, <2>1, <3>4
      <4>3. \A i \in 1 .. n : i <= m => Before(arr[i], target, ascending)
        BY <3>2, <2>4
      <4>4. m <= b
        BY <1>2, <2>1
      <4>5. Encloses(u, arr, target, ascending)
        BY <1>1, <1>3, <4>2, <4>3, <4>4 DEF Encloses
      <4>6. Placed(f[u], arr, target, ascending)
        BY <1>1, <4>2, <4>5
      <4> QED
        BY <4>1, <4>2, <4>6
    <3> QED
      BY <3>3, <3>4
  <2>7. CASE Before(target, p, ascending)
    <3>1. target # p /\ ~ (IF ascending THEN target > p ELSE target < p)
      BY <2>2, <2>7 DEF Before
    <3>2. \A i \in 1 .. n : i >= m + 1 => Before(target, arr[i], ascending)
      BY <1>1, <2>1, <2>2, <2>7, BesideLevel
    <3>3. \A i \in 1 .. n : i > m => i >= m + 1
      BY <2>4
    <3>4. CASE m = a
      <4>1. Look(f, w, arr, target, ascending) = [found |-> FALSE, at |-> a]
        BY <1>2, <2>1, <2>2, <2>3, <3>1, <3>4 DEF Look
      <4>2. PICK r : r = Look(f, w, arr, target, ascending) /\ ~ r.found /\ r.at = m
        BY <3>4, <4>1
      <4>3. \A i \in 1 .. n : i <= m => Before(arr[i], target, ascending)
        BY <1>3, <3>4
      <4>4. Placed(r, arr, target, ascending)
        BY <1>1, <2>4, <3>2, <3>3, <4>2, <4>3 DEF Placed
      <4> QED
        BY <4>2, <4>4
    <3>5. CASE m # a
      <4>1. Look(f, w, arr, target, ascending) = f[<<a, m>>]
        BY <1>2, <2>1, <2>2, <2>3, <3>1, <3>5 DEF Look
      <4>2. PICK u \in Windows(n) :
              u = <<a, m>> /\ u[1] = a /\ u[2] = m /\ u[2] - u[1] < w[2] - w[1]
        BY <1>2, <2>1, <3>5
      <4>3. a <= m
        BY <1>2, <2>1
      <4>4. Encloses(u, arr, target, ascending)
        BY <1>1, <1>3, <3>2, <3>3, <4>2, <4>3 DEF Encloses
      <4>5. Placed(f[u], arr, target, ascending)
        BY <1>1, <4>2, <4>4
      <4> QED
        BY <4>1, <4>2, <4>5
    <3> QED
      BY <3>4, <3>5
  <2> QED
    BY <2>2, <2>5, <2>6, <2>7 DEF Before
<1> QED
  BY <1>2, <1>3, <1>4, <1>5

\* The bisection of a sorted book finds the place of every price, whichever
\* side the book is of (findOrderbookInsertionIndex, Helper.cpp 1770-1830).
THEOREM BisectionPlaces ==
  ASSUME NEW arr \in Seq(Int), NEW target \in Int, NEW ascending \in BOOLEAN,
         Sorted(arr, ascending)
  PROVE  Placed(InsertionIndex(arr, target, ascending), arr, target, ascending)
<1>1. PICK n \in Nat : n = Len(arr)
  OBVIOUS
<1>2. PICK f : /\ Bisects(f, Windows(n), arr, target, ascending)
               /\ InsertionIndex(arr, target, ascending) = f[<<0, n>>]
  BY <1>1, BisectorExists, BisectionChosen
<1>3. \A w \in Windows(n) : w[1] \in 0 .. n /\ w[2] \in 0 .. n
  BY DEF Windows
<1> DEFINE Right(u) == Encloses(u, arr, target, ascending) => Placed(f[u], arr, target, ascending)
           T == {k \in Nat : \A u \in Windows(n) : u[2] - u[1] < k => Right(u)}
<1>4. 0 \in T
  BY <1>3 DEF Encloses
<1>5. ASSUME NEW k \in T PROVE k + 1 \in T
  <2>1. \A u \in Windows(n) : u[2] - u[1] < k => Right(u)
    OBVIOUS
  <2>2. ASSUME NEW w \in Windows(n), w[2] - w[1] < k + 1, Encloses(w, arr, target, ascending)
        PROVE  Placed(f[w], arr, target, ascending)
    <3>1. \A u \in Windows(n) :
            u[2] - u[1] < w[2] - w[1] /\ Encloses(u, arr, target, ascending)
              => Placed(f[u], arr, target, ascending)
      <4> SUFFICES ASSUME NEW u \in Windows(n), u[2] - u[1] < w[2] - w[1] PROVE u[2] - u[1] < k
        BY <2>1
      <4> QED
        BY <1>3, <2>2
    <3>2. Placed(Look(f, w, arr, target, ascending), arr, target, ascending)
      BY <1>1, <2>2, <3>1, LookPlaces
    <3>3. f[w] = Look(f, w, arr, target, ascending)
      BY <1>2 DEF Bisects
    <3> QED
      BY <3>2, <3>3
  <2>3. k + 1 \in Nat
    OBVIOUS
  <2> QED
    BY <2>2, <2>3
<1>6. T = Nat
  <2>1. T \in SUBSET Nat
    OBVIOUS
  <2> HIDE DEF T
  <2> QED
    BY <1>4, <1>5, <2>1, Counting
<1>7. PICK w \in Windows(n) : w = <<0, n>> /\ w[1] = 0 /\ w[2] = n
  <2>1. <<0, n>> \in Windows(n)
    BY <1>1 DEF Windows
  <2> QED
    BY <2>1
<1>8. Encloses(w, arr, target, ascending)
  BY <1>1, <1>7 DEF Encloses
<1>9. n + 1 \in Nat /\ w[2] - w[1] < n + 1
  BY <1>1, <1>7
<1>10. Right(w)
  <2>1. n + 1 \in T
    BY <1>6, <1>9
  <2> QED
    BY <1>9, <2>1
<1> QED
  BY <1>2, <1>7, <1>8, <1>10

\* The list with an item after the first k: what was behind them has moved by
\* one.
WithItem(s, k, item, arr) ==
  /\ Len(s) = Len(arr) + 1
  /\ \A i \in 1 .. k : s[i] = arr[i]
  /\ s[k + 1] = item
  /\ \A i \in k + 1 .. Len(arr) : s[i + 1] = arr[i]

\* The sorted list of the same prices and the item.
Joins(s, item, arr, ascending) ==
  Sorted(s, ascending) /\ Range(s) = Range(arr) \cup {item}

\* insertList puts it there.
LEMMA Inserted ==
  ASSUME NEW arr \in Seq(Int), NEW item \in Int, NEW n \in Nat, n = Len(arr),
         NEW k \in Nat, k <= n
  PROVE  \E s \in Seq(Int) : InsertList(k, item, arr) = <<s>> /\ WithItem(s, k, item, arr)
<1> DEFINE front == SubSeq(arr, 1, k)
           back == SubSeq(arr, k + 1, n)
           head == front \o <<item>>
           s == head \o back
<1>0. \A i \in 1 .. n : arr[i] \in Int
  OBVIOUS
<1>1. front \in Seq(Int) /\ Len(front) = k /\ \A i \in 1 .. k : front[i] = arr[i]
  <2>1. \A i \in 1 .. k : arr[i] \in Int
    BY <1>0
  <2>2. /\ front \in Seq(Int)
        /\ Len(front) = IF 1 <= k THEN k - 1 + 1 ELSE 0
        /\ \A i \in 1 .. k - 1 + 1 : front[i] = arr[1 + i - 1]
    BY <2>1, SubSeqProperties
  <2> HIDE DEF front
  <2> QED
    BY <2>2
<1>2. back \in Seq(Int) /\ Len(back) = n - k /\ \A i \in 1 .. n - k : back[i] = arr[k + i]
  <2>1. \A i \in k + 1 .. n : arr[i] \in Int
    BY <1>0
  <2>2. /\ back \in Seq(Int)
        /\ Len(back) = IF k + 1 <= n THEN n - (k + 1) + 1 ELSE 0
        /\ \A i \in 1 .. n - (k + 1) + 1 : back[i] = arr[k + 1 + i - 1]
    BY <2>1, SubSeqProperties
  <2> HIDE DEF back
  <2>3. Len(back) = n - k /\ n - (k + 1) + 1 = n - k
    BY <2>2
  <2>4. ASSUME NEW i \in 1 .. n - k PROVE back[i] = arr[k + i]
    <3>1. back[i] = arr[k + 1 + i - 1]
      BY <2>2, <2>3
    <3>2. k + 1 + i - 1 = k + i
      OBVIOUS
    <3> QED
      BY <3>1, <3>2
  <2> QED
    BY <2>2, <2>3, <2>4
<1>3. /\ head \in Seq(Int) /\ Len(head) = k + 1
      /\ \A i \in 1 .. k : head[i] = arr[i]
      /\ head[k + 1] = item
  <2> HIDE DEF front
  <2>1. <<item>> \in Seq(Int) /\ Len(<<item>>) = 1 /\ <<item>>[1] = item
    OBVIOUS
  <2>2. /\ head \in Seq(Int) /\ Len(head) = Len(front) + Len(<<item>>)
        /\ \A i \in 1 .. Len(front) + Len(<<item>>) :
             head[i] = IF i <= Len(front) THEN front[i] ELSE <<item>>[i - Len(front)]
    BY <1>1, <2>1, ConcatProperties
  <2> HIDE DEF head
  <2>3. k + 1 \in 1 .. k + 1 /\ ~ (k + 1 <= k) /\ k + 1 - k = 1
    OBVIOUS
  <2>4. head[k + 1] = item
    BY <1>1, <2>1, <2>2, <2>3
  <2>5. ASSUME NEW i \in 1 .. k PROVE head[i] = arr[i]
    BY <1>1, <2>1, <2>2
  <2> QED
    BY <1>1, <2>1, <2>2, <2>4, <2>5
<1>4. /\ s \in Seq(Int) /\ Len(s) = n + 1
      /\ \A i \in 1 .. k + 1 : s[i] = head[i]
      /\ \A i \in 1 .. n - k : s[k + 1 + i] = back[i]
  <2> HIDE DEF head, back
  <2>1. /\ s \in Seq(Int) /\ Len(s) = Len(head) + Len(back)
        /\ \A i \in 1 .. Len(head) + Len(back) :
             s[i] = IF i <= Len(head) THEN head[i] ELSE back[i - Len(head)]
    BY <1>2, <1>3, ConcatProperties
  <2> HIDE DEF s
  <2>2. Len(s) = n + 1 /\ Len(head) + Len(back) = n + 1
    BY <1>2, <1>3, <2>1
  <2>3. ASSUME NEW i \in 1 .. k + 1 PROVE s[i] = head[i]
    BY <1>3, <2>1, <2>2
  <2>4. ASSUME NEW i \in 1 .. n - k PROVE s[k + 1 + i] = back[i]
    <3>1. PICK h \in 1 .. n + 1 : h = k + 1 + i
      OBVIOUS
    <3>2. ~ (h <= k + 1) /\ h - (k + 1) = i
      BY <3>1
    <3>3. s[h] = back[h - (k + 1)]
      BY <1>3, <2>1, <2>2, <3>2
    <3> QED
      BY <3>1, <3>2, <3>3
  <2> QED
    BY <2>1, <2>2, <2>3, <2>4
<1>5. InsertList(k, item, arr) = <<s>>
  <2>1. k # -1 /\ ~ (k > Len(arr))
    OBVIOUS
  <2>2. s = SubSeq(arr, 1, k) \o <<item>> \o SubSeq(arr, k + 1, Len(arr))
    OBVIOUS
  <2> HIDE DEF s
  <2> QED
    BY <2>1, <2>2 DEF InsertList
<1> HIDE DEF front, back, head, s
<1>6. ASSUME NEW i \in k + 1 .. n PROVE s[i + 1] = arr[i]
  <2>1. PICK h \in 1 .. n - k : h = i - k
    OBVIOUS
  <2>2. s[k + 1 + h] = back[h] /\ back[h] = arr[k + h]
    BY <1>2, <1>4
  <2>3. k + 1 + h = i + 1 /\ k + h = i
    BY <2>1
  <2> QED
    BY <2>2, <2>3
<1>7. (\A i \in 1 .. k : s[i] = arr[i]) /\ s[k + 1] = item
  BY <1>3, <1>4
<1>8. WithItem(s, k, item, arr)
  BY <1>4, <1>6, <1>7 DEF WithItem
<1> QED
  BY <1>4, <1>5, <1>8

\* What a caller of the bisection relies on: it finds a price exactly if the
\* book has it, and one that it does not find can be inserted at the place it
\* names: the book stays sorted, without a price twice, and loses none
\* (findOrderbookInsertionIndex, insertList, Helper.cpp 1770-1830 and 1254-1278).
THEOREM BooksStaySorted ==
  ASSUME NEW arr \in Seq(Int), NEW target \in Int, NEW ascending \in BOOLEAN,
         Sorted(arr, ascending),
         NEW r, r = InsertionIndex(arr, target, ascending)
  PROVE  /\ r.found <=> \E i \in 1 .. Len(arr) : arr[i] = target
         /\ r.found => arr[r.at + 1] = target
         /\ ~ r.found =>
              \E s \in Seq(Int) :
                InsertList(r.at, target, arr) = <<s>> /\ Joins(s, target, arr, ascending)
<1>1. Placed(r, arr, target, ascending)
  BY BisectionPlaces
<1>2. PICK n \in Nat : n = Len(arr) /\ \A i \in 1 .. n : arr[i] \in Int
  OBVIOUS
<1>3. CASE r.found
  <2>1. r.at \in 0 .. n - 1 /\ arr[r.at + 1] = target
    BY <1>1, <1>2, <1>3 DEF Placed
  <2>2. r.at + 1 \in 1 .. n
    BY <1>2, <2>1
  <2> QED
    BY <1>2, <1>3, <2>1, <2>2
<1>4. CASE ~ r.found
  <2>1. /\ r.at \in 0 .. n
        /\ \A i \in 1 .. n : i <= r.at => Before(arr[i], target, ascending)
        /\ \A i \in 1 .. n : i > r.at => Before(target, arr[i], ascending)
    BY <1>1, <1>2, <1>4 DEF Placed
  <2>2. PICK k \in Nat : k = r.at /\ k <= n
    BY <1>2, <2>1
  <2>3. PICK s \in Seq(Int) :
           InsertList(k, target, arr) = <<s>> /\ WithItem(s, k, target, arr)
    BY <1>2, <2>2, Inserted
  <2>4. /\ Len(s) = n + 1
        /\ \A i \in 1 .. k : s[i] = arr[i]
        /\ s[k + 1] = target
        /\ \A i \in k + 1 .. n : s[i + 1] = arr[i]
    BY <1>2, <2>3 DEF WithItem
  <2>5. \A i \in 1 .. n : arr[i] # target
    <3> SUFFICES ASSUME NEW i \in 1 .. n PROVE arr[i] # target
      OBVIOUS
    <3>1. Before(arr[i], target, ascending) \/ Before(target, arr[i], ascending)
      BY <1>2, <2>1
    <3> QED
      BY <1>2, <3>1 DEF Before
  <2>6. ASSUME NEW i \in 1 .. n + 1
        PROVE  \/ i <= k /\ i \in 1 .. n /\ s[i] = arr[i]
               \/ i = k + 1 /\ s[i] = target
               \/ \E h \in 1 .. n : h > k /\ i = h + 1 /\ s[i] = arr[h]
    <3>1. CASE i <= k
      <4>1. i \in 1 .. k /\ i \in 1 .. n
        BY <2>2, <3>1
      <4> QED
        BY <2>4, <3>1, <4>1
    <3>2. CASE i = k + 1
      BY <2>4, <3>2
    <3>3. CASE i > k + 1
      <4>1. PICK h \in Nat : i = h + 1 /\ h > k /\ h <= n
        <5>1. i \in Nat /\ i > k + 1 /\ i <= n + 1 /\ k \in Nat
          BY <2>2, <3>3
        <5>2. i - 1 \in Nat /\ i = (i - 1) + 1 /\ i - 1 > k /\ i - 1 <= n
          BY ONLY <5>1, n \in Nat
        <5> QED
          BY <5>2
      <4>2. h \in k + 1 .. n /\ h \in 1 .. n
        BY <2>2, <4>1
      <4>3. s[i] = arr[h]
        BY <2>4, <4>1, <4>2
      <4> QED
        BY <4>1, <4>2, <4>3
    <3> QED
      BY <2>2, <3>1, <3>2, <3>3
  <2>7. Sorted(s, ascending)
    <3> SUFFICES ASSUME NEW i \in 1 .. n + 1, NEW j \in 1 .. n + 1, i < j
                 PROVE  Before(s[i], s[j], ascending)
      BY <2>4 DEF Sorted
    <3>1. \A g, h \in 1 .. n : g < h => Before(arr[g], arr[h], ascending)
      BY <1>2 DEF Sorted
    <3>2. CASE i <= k /\ i \in 1 .. n /\ s[i] = arr[i]
      <4>1. CASE j <= k /\ j \in 1 .. n /\ s[j] = arr[j]
        BY ONLY <3>1, <3>2, <4>1, i < j
      <4>2. CASE j = k + 1 /\ s[j] = target
        BY <2>1, <2>2, <3>2, <4>2
      <4>3. ASSUME NEW h \in 1 .. n, h > k, j = h + 1, s[j] = arr[h]
            PROVE  Before(s[i], s[j], ascending)
        <5>1. i < h
          BY <2>2, <3>2, <4>3
        <5> QED
          BY <3>1, <3>2, <4>3, <5>1
      <4> QED
        BY <2>6, <4>1, <4>2, <4>3
    <3>3. CASE i = k + 1 /\ s[i] = target
      <4>1. ASSUME NEW h \in 1 .. n, h > k, j = h + 1, s[j] = arr[h]
            PROVE  Before(s[i], s[j], ascending)
        BY <2>1, <2>2, <3>3, <4>1
      <4>2. ~ (j <= k) /\ j # k + 1
        <5>1. i \in Int /\ j \in Int /\ k \in Nat /\ i < j /\ i > k
          BY <2>2, <3>3
        <5> QED
          BY ONLY <5>1
      <4> QED
        BY <2>6, <4>1, <4>2
    <3>4. ASSUME NEW g \in 1 .. n, g > k, i = g + 1, s[i] = arr[g]
          PROVE  Before(s[i], s[j], ascending)
      <4>1. ASSUME NEW h \in 1 .. n, h > k, j = h + 1, s[j] = arr[h]
            PROVE  Before(s[i], s[j], ascending)
        <5>1. g < h
          BY <3>4, <4>1
        <5> QED
          BY <3>1, <3>4, <4>1, <5>1
      <4>2. ~ (j <= k) /\ j # k + 1
        <5>1. i = g + 1 /\ g > k /\ g \in Nat /\ k \in Nat /\ j \in Nat /\ i < j
          BY <2>2, <3>4
        <5> QED
          BY ONLY <5>1
      <4> QED
        BY <2>6, <4>1, <4>2
    <3> QED
      BY <2>6, <3>2, <3>3, <3>4
  <2>8. ASSUME NEW i \in 1 .. n + 1 PROVE s[i] \in {arr[j] : j \in 1 .. n} \cup {target}
    BY <2>6
  <2>9. ASSUME NEW j \in 1 .. n PROVE \E i \in 1 .. n + 1 : s[i] = arr[j]
    <3>1. CASE j <= k
      <4>1. j \in 1 .. k /\ j \in 1 .. n + 1
        BY <2>2, <3>1
      <4> QED
        BY <2>4, <4>1
    <3>2. CASE j > k
      <4>1. j \in k + 1 .. n /\ j + 1 \in 1 .. n + 1
        BY <2>2, <3>2
      <4> QED
        BY <2>4, <4>1
    <3> QED
      BY <2>2, <3>1, <3>2
  <2>10. k + 1 \in 1 .. n + 1
    BY <2>2
  <2>11. {s[i] : i \in 1 .. n + 1} = {arr[i] : i \in 1 .. n} \cup {target}
    <3> DEFINE kept == {s[i] : i \in 1 .. n + 1}
               there == {arr[i] : i \in 1 .. n}
    <3>1. kept \subseteq there \cup {target}
      BY <2>8
    <3>2. there \subseteq kept
      BY <2>9
    <3>3. target \in kept
      BY <2>4, <2>10
    <3> QED
      BY <3>1, <3>2, <3>3
  <2>12. DOMAIN s = 1 .. n + 1 /\ DOMAIN arr = 1 .. n
    BY <1>2, <2>4
  <2>13. Range(s) = Range(arr) \cup {target}
    BY <2>11, <2>12 DEF Range
  <2> QED
    BY <1>2, <1>4, <2>2, <2>3, <2>5, <2>7, <2>13 DEF Joins
<1> QED
  BY <1>3, <1>4

-------------------------------------------------------------------------------
(* What a side of a book is trimmed to (OrderbooksState::trim).             *)

\* The price of the bucket a level opens, and the step over a level.
Bound(p, up, unit) == TrimPrice(p, up, unit)[1]
TrimStep(acc, a, up, limit, unit) ==
  IF Len(acc.out) = limit THEN acc
  ELSE LET closes == IF up THEN a[1] > acc.price ELSE a[1] < acc.price
       IN  [out |-> IF closes THEN Append(acc.out, <<acc.price, acc.qty>>) ELSE acc.out,
            price |-> IF closes THEN Bound(a[1], up, unit) ELSE acc.price,
            qty |-> (IF closes THEN a[2] ELSE acc.qty) + a[2]]
TrimStart(levels, up, unit) == [out |-> <<>>, price |-> Bound(levels[1][1], up, unit), qty |-> 0]
Trims(g, levels, up, limit, unit) ==
  g = [s \in SUBSET DOMAIN levels |->
         IF s = {} THEN TrimStart(levels, up, unit)
         ELSE TrimStep(g[s \ {TopIndex(s)}], levels[TopIndex(s)], up, limit, unit)]

\* trim is the value, for all levels, of a function that follows this step.
LEMMA TrimChosen ==
  ASSUME NEW levels, levels # <<>>, NEW up, NEW limit, NEW unit
  PROVE  TrimLevels(levels, up, limit, unit) =
           (CHOOSE g : Trims(g, levels, up, limit, unit))[DOMAIN levels].out
BY DEF TrimLevels, FoldLeft, MapThenFoldSet, Max,
       Trims, TrimStep, TrimStart, TopIndex, Bound

\* The price of a bucket is a multiple of the unit, and the level that opens it
\* is not beyond it.
LEMMA BoundFound ==
  ASSUME NEW p \in Int, NEW up \in BOOLEAN, NEW unit \in Nat \ {0}
  PROVE  /\ Bound(p, up, unit) \in Int
         /\ \E m \in Int : Bound(p, up, unit) = m * unit
         /\ ~ Before(Bound(p, up, unit), p, up)
<1>1. PICK q \in Int : q = (- p) \div unit /\ q * unit <= - p /\ - p < q * unit + unit
  OBVIOUS
<1>2. PICK t \in Int : t = - (q * unit) /\ t = (- q) * unit /\ t - unit = (- q - 1) * unit
  OBVIOUS
<1>8. (\E m \in Int : t = m * unit) /\ \E m \in Int : t - unit = m * unit
  <2>1. - q \in Int /\ - q - 1 \in Int
    OBVIOUS
  <2> QED
    BY <1>2, <2>1
<1>3. p <= t /\ t - unit < p
  BY <1>1, <1>2
<1>4. TrimPrice(p, up, unit) =
        IF up THEN <<t>> ELSE IF t - unit = p - unit THEN <<p>> ELSE <<t - unit>>
  <2>1. - ((- p) \div unit) * unit = t
    BY <1>1, <1>2
  <2>2. ~ (unit <= 0)
    OBVIOUS
  <2> QED
    BY <2>1, <2>2 DEF TrimPrice
<1>5. CASE up
  <2>1. Bound(p, up, unit) = t
    BY <1>4, <1>5 DEF Bound
  <2>2. ~ (t < p)
    BY <1>3
  <2>3. ~ Before(t, p, up)
    BY <1>5, <2>2 DEF Before
  <2> QED
    BY <1>8, <2>1, <2>3
<1>6. CASE ~ up /\ t = p
  <2>1. Bound(p, up, unit) = p
    BY <1>4, <1>6 DEF Bound
  <2> QED
    BY <1>6, <1>8, <2>1 DEF Before
<1>7. CASE ~ up /\ t # p
  <2>1. Bound(p, up, unit) = t - unit
    BY <1>4, <1>7 DEF Bound
  <2> QED
    BY <1>3, <1>7, <1>8, <2>1 DEF Before
<1> QED
  BY <1>5, <1>6, <1>7

\* The levels of the first k that a bucket of price t stands for, behind the
\* bucket of the price in front, if there is one.
Bucket(levels, k, front, t, up) ==
  {j \in 1 .. k : /\ ~ Before(t, levels[j][1], up)
                  /\ front # <<>> => Before(front[1], levels[j][1], up)}
LevelQtys(levels) == [j \in 1 .. Len(levels) |-> levels[j][2]]

\* The bucket shows what they hold, and the one that opened it twice unless it
\* is the first; it has a price that is a multiple of the unit.
Holds(levels, b, front, qty) ==
  \E j \in b :
    /\ \A h \in b : j <= h
    /\ qty = SumFunctionOnSet(LevelQtys(levels), b) + (IF front = <<>> THEN 0 ELSE levels[j][2])
Shows(levels, k, front, t, qty, up, unit) ==
  /\ \E m \in Int : t = m * unit
  /\ front # <<>> => Before(front[1], t, up)
  /\ Holds(levels, Bucket(levels, k, front, t, up), front, qty)

\* The price in front of a bucket.
FrontPrice(out, i) == IF i = 1 THEN <<>> ELSE <<out[i - 1][1]>>

\* What is trimmed so far, and the bucket that is filled.
Accs == [out : Seq(Int \X Int), price : Int, qty : Int]

\* After the first k levels.
Trimmed(acc, levels, k, up, limit, unit) ==
  /\ acc \in Accs /\ Len(acc.out) <= limit
  /\ \A i \in 1 .. Len(acc.out) :
       /\ Before(acc.out[i][1], levels[k][1], up)
       /\ Shows(levels, k, FrontPrice(acc.out, i), acc.out[i][1], acc.out[i][2], up, unit)
  /\ Len(acc.out) < limit =>
       /\ Shows(levels, k, FrontPrice(acc.out, Len(acc.out) + 1), acc.price, acc.qty, up, unit)
       /\ ~ Before(acc.price, levels[k][1], up)

\* A level beyond the price of a bucket does not change it.
LEMMA ShowsStill ==
  ASSUME NEW levels, NEW k \in Nat, NEW front, NEW t, NEW qty, NEW up, NEW unit,
         Shows(levels, k, front, t, qty, up, unit), Before(t, levels[k + 1][1], up)
  PROVE  Shows(levels, k + 1, front, t, qty, up, unit)
<1>1. \A j \in 1 .. k + 1 : j \in 1 .. k \/ j = k + 1
  OBVIOUS
<1>2. 1 .. k \subseteq 1 .. k + 1
  OBVIOUS
<1>3. Bucket(levels, k + 1, front, t, up) = Bucket(levels, k, front, t, up)
  BY <1>1, <1>2 DEF Bucket
<1> QED
  BY <1>3 DEF Shows

\* The quantities of levels sum to a number.
LEMMA QtysSum ==
  ASSUME NEW levels \in Seq(Int \X Int), NEW k \in 0 .. Len(levels), NEW front, NEW t, NEW up
  PROVE  LET b == Bucket(levels, k, front, t, up) IN
         /\ b \in SUBSET (1 .. k) /\ IsFiniteSet(b)
         /\ \A j \in b : LevelQtys(levels)[j] \in Int
         /\ SumFunctionOnSet(LevelQtys(levels), b) \in Int
<1> DEFINE b == Bucket(levels, k, front, t, up)
<1>1. b \in SUBSET (1 .. k)
  BY DEF Bucket
<1>2. IsFiniteSet(b)
  <2>1. IsFiniteSet(1 .. k)
    BY FS_Interval
  <2> QED
    BY <1>1, <2>1, FS_Subset
<1>3. \A j \in 1 .. Len(levels) : levels[j] \in Int \X Int
  OBVIOUS
<1>4. \A j \in b : LevelQtys(levels)[j] \in Int
  <2>1. \A j \in b : j \in 1 .. Len(levels)
    BY <1>1
  <2> QED
    BY <1>3, <2>1 DEF LevelQtys
<1> HIDE DEF b
<1>5. SumFunctionOnSet(LevelQtys(levels), b) \in Int
  BY <1>2, <1>4, SumIsInt
<1> QED
  BY <1>1, <1>2, <1>4, <1>5 DEF b

\* A level within it is added to it.
LEMMA ShowsMore ==
  ASSUME NEW up \in BOOLEAN, NEW levels, IsSide(levels, up), NEW k \in Nat, k + 1 <= Len(levels),
         NEW front, NEW t, NEW qty, NEW unit,
         Shows(levels, k, front, t, qty, up, unit),
         ~ Before(t, levels[k + 1][1], up),
         front # <<>> => Before(front[1], levels[k + 1][1], up)
  PROVE  Shows(levels, k + 1, front, t, qty + levels[k + 1][2], up, unit)
<1> DEFINE b == Bucket(levels, k, front, t, up)
           q == LevelQtys(levels)
<1>1. levels \in Seq(Int \X Int) /\ Len(levels) \in Nat
  BY DEF IsSide
<1>2. /\ b \in SUBSET (1 .. k) /\ IsFiniteSet(b)
      /\ \A j \in b : q[j] \in Int
      /\ SumFunctionOnSet(q, b) \in Int
  <2>1. k \in 0 .. Len(levels)
    BY <1>1
  <2> QED
    BY <1>1, <2>1, QtysSum
<1>3. Bucket(levels, k + 1, front, t, up) = b \cup {k + 1}
  <2>1. 1 .. k + 1 = (1 .. k) \cup {k + 1}
    OBVIOUS
  <2> QED
    BY <2>1 DEF Bucket
<1>4. k + 1 \notin b
  BY <1>2
<1>5. q[k + 1] = levels[k + 1][2] /\ levels[k + 1][2] \in Int
  <2>1. k + 1 \in 1 .. Len(levels)
    BY <1>1
  <2>2. levels[k + 1] \in Int \X Int
    BY <1>1, <2>1
  <2> QED
    BY <2>1, <2>2 DEF LevelQtys
<1>6. PICK j \in b : /\ \A h \in b : j <= h
                     /\ qty = SumFunctionOnSet(q, b) + (IF front = <<>> THEN 0 ELSE levels[j][2])
  BY DEF Shows, Holds
<1>7. levels[j][2] \in Int
  <2>1. j \in 1 .. Len(levels)
    BY <1>1, <1>2, <1>6
  <2>2. levels[j] \in Int \X Int
    BY <1>1, <2>1
  <2> QED
    BY <2>2
<1> HIDE DEF b, q
<1>8. SumFunctionOnSet(q, b \cup {k + 1}) = SumFunctionOnSet(q, b) + q[k + 1]
  <2>1. \A x \in b \cup {k + 1} : q[x] \in Int
    BY <1>2, <1>5
  <2> QED
    BY <1>2, <1>4, <2>1, SumMore, ZenonT(60)
<1>9. \A h \in b \cup {k + 1} : j <= h
  BY <1>2, <1>6
<1>10. qty + levels[k + 1][2] = SumFunctionOnSet(q, b \cup {k + 1})
                                + (IF front = <<>> THEN 0 ELSE levels[j][2])
  <2>1. PICK x \in Int : x = SumFunctionOnSet(q, b)
    BY <1>2
  <2>2. PICK y \in Int : y = IF front = <<>> THEN 0 ELSE levels[j][2]
    BY <1>7
  <2>3. PICK z \in Int : z = levels[k + 1][2]
    BY <1>5
  <2>4. qty = x + y /\ SumFunctionOnSet(q, b \cup {k + 1}) = x + z
    BY <1>5, <1>6, <1>8, <2>1, <2>2, <2>3
  <2>5. x + y + z = x + z + y
    OBVIOUS
  <2> QED
    BY <2>2, <2>3, <2>4, <2>5
<1>11. (\E m \in Int : t = m * unit) /\ (front # <<>> => Before(front[1], t, up))
  BY DEF Shows
<1>12. Holds(levels, b \cup {k + 1}, front, qty + levels[k + 1][2])
  BY <1>6, <1>9, <1>10 DEF Holds, q
<1> QED
  BY <1>3, <1>11, <1>12 DEF Shows

\* One that no level in front of it is within is opened by a level: the last.
LEMMA ShowsOpened ==
  ASSUME NEW up \in BOOLEAN, NEW levels, IsSide(levels, up), NEW k \in Nat, k + 1 <= Len(levels),
         NEW front, NEW unit \in Nat \ {0}, NEW t, t = Bound(levels[k + 1][1], up, unit),
         front = <<>> => k = 0,
         front # <<>> =>
           /\ front[1] \in Int /\ Before(front[1], levels[k + 1][1], up)
           /\ \A j \in 1 .. k : ~ Before(front[1], levels[j][1], up)
  PROVE  /\ Shows(levels, k + 1, front, t,
                  levels[k + 1][2] + (IF front = <<>> THEN 0 ELSE levels[k + 1][2]), up, unit)
         /\ ~ Before(t, levels[k + 1][1], up)
<1> DEFINE q == LevelQtys(levels)
<1>1. levels \in Seq(Int \X Int) /\ k + 1 \in 1 .. Len(levels)
  BY DEF IsSide
<1>2. levels[k + 1] \in Int \X Int
  BY <1>1
<1>3. PICK p \in Int : p = levels[k + 1][1]
  BY <1>2
<1>4. q[k + 1] = levels[k + 1][2] /\ levels[k + 1][2] \in Int
  BY <1>1, <1>2 DEF LevelQtys
<1>5. t \in Int /\ (\E m \in Int : t = m * unit) /\ ~ Before(t, p, up)
  BY <1>3, BoundFound
<1>6. Bucket(levels, k + 1, front, t, up) = {k + 1}
  <2>1. \A j \in 1 .. k + 1 : j \in 1 .. k \/ j = k + 1
    OBVIOUS
  <2>2. front = <<>> => 1 .. k = {}
    OBVIOUS
  <2>3. k + 1 \in 1 .. k + 1
    OBVIOUS
  <2> QED
    BY <1>3, <1>5, <2>1, <2>2, <2>3 DEF Bucket
<1>7. front # <<>> => Before(front[1], t, up)
  BY <1>3, <1>5 DEF Before
<1>8. SumFunctionOnSet(q, {k + 1}) = levels[k + 1][2]
  <2>0. IsFiniteSet({}) /\ k + 1 \notin {} /\ q[k + 1] \in Int
    BY <1>4, FS_EmptySet
  <2>1. SumFunctionOnSet(q, {} \cup {k + 1}) = SumFunctionOnSet(q, {}) + q[k + 1]
    BY <2>0, SumMore, ZenonT(60)
  <2>2. {} \cup {k + 1} = {k + 1}
    OBVIOUS
  <2> HIDE DEF q
  <2> QED
    BY <1>4, <2>1, <2>2, SumEmpty
<1>9. Holds(levels, {k + 1}, front,
              levels[k + 1][2] + (IF front = <<>> THEN 0 ELSE levels[k + 1][2]))
  BY <1>1, <1>8 DEF Holds
<1> QED
  BY <1>3, <1>5, <1>6, <1>7, <1>9 DEF Shows

\* The types of the accumulator and of the step.
LEMMA TrimTypes ==
  ASSUME NEW up \in BOOLEAN, NEW unit \in Nat \ {0}, NEW limit \in Nat,
         NEW acc \in Accs, NEW a \in Int \X Int
  PROVE  /\ TrimStep(acc, a, up, limit, unit) \in Accs
         /\ Append(acc.out, <<acc.price, acc.qty>>) \in Seq(Int \X Int)
<1>1. /\ acc.out \in Seq(Int \X Int) /\ acc.price \in Int /\ acc.qty \in Int
      /\ a[1] \in Int /\ a[2] \in Int
  BY DEF Accs
<1>2. <<acc.price, acc.qty>> \in Int \X Int
  BY <1>1
<1>3. Append(acc.out, <<acc.price, acc.qty>>) \in Seq(Int \X Int)
  BY <1>1, <1>2
<1>4. Bound(a[1], up, unit) \in Int
  BY <1>1, BoundFound
<1> DEFINE c == IF up THEN a[1] > acc.price ELSE a[1] < acc.price
<1>6. (IF c THEN a[2] ELSE acc.qty) + a[2] \in Int
  BY <1>1
<1>7. (IF c THEN Append(acc.out, <<acc.price, acc.qty>>) ELSE acc.out) \in Seq(Int \X Int)
  BY <1>1, <1>3
<1>8. (IF c THEN Bound(a[1], up, unit) ELSE acc.price) \in Int
  BY <1>1, <1>4
<1>9. TrimStep(acc, a, up, limit, unit) =
        IF Len(acc.out) = limit THEN acc
        ELSE [out |-> IF c THEN Append(acc.out, <<acc.price, acc.qty>>) ELSE acc.out,
              price |-> IF c THEN Bound(a[1], up, unit) ELSE acc.price,
              qty |-> (IF c THEN a[2] ELSE acc.qty) + a[2]]
  BY DEF TrimStep
<1> HIDE DEF c
<1> QED
  BY <1>3, <1>6, <1>7, <1>8, <1>9 DEF Accs

\* So there is a function that follows it.
LEMMA TrimmerExists ==
  ASSUME NEW up \in BOOLEAN, NEW unit \in Nat \ {0}, NEW limit \in Nat,
         NEW levels \in Seq(Int \X Int), levels # <<>>
  PROVE  \E g \in [SUBSET DOMAIN levels -> Accs] : Trims(g, levels, up, limit, unit)
<1> DEFINE n == Len(levels)
           start == TrimStart(levels, up, unit)
           op == [p \in Accs \X (Int \X Int) |-> TrimStep(p[1], p[2], up, limit, unit)]
<1>1. n \in Nat /\ n > 0 /\ DOMAIN levels = 1 .. n /\ \A i \in 1 .. n : levels[i] \in Int \X Int
  OBVIOUS
<1>2. start \in Accs
  <2>1. levels[1] \in Int \X Int
    BY <1>1
  <2>2. Bound(levels[1][1], up, unit) \in Int
    BY <2>1, BoundFound
  <2>3. <<>> \in Seq(Int \X Int)
    OBVIOUS
  <2> QED
    BY <2>2, <2>3 DEF Accs, TrimStart
<1>3. op \in [Accs \X (Int \X Int) -> Accs]
  BY TrimTypes
<1> HIDE DEF start, op
<1>4. PICK g \in [SUBSET (1 .. n) -> Accs] : Follows(g, SUBSET (1 .. n), start, op, levels)
  BY <1>1, <1>2, <1>3, FoldExists
<1>5. ASSUME NEW s \in SUBSET (1 .. n), s # {}
      PROVE  op[<<g[s \ {TopIndex(s)}], levels[TopIndex(s)]>>]
               = TrimStep(g[s \ {TopIndex(s)}], levels[TopIndex(s)], up, limit, unit)
  <2>1. TopIndex(s) \in 1 .. n
    BY <1>1, <1>5, TopIn
  <2>2. PICK acc \in Accs : acc = g[s \ {TopIndex(s)}]
    BY <1>4
  <2>3. PICK a \in Int \X Int : a = levels[TopIndex(s)]
    BY <1>1, <2>1
  <2> QED
    BY <2>2, <2>3 DEF op
<1>6. g = [s \in SUBSET (1 .. n) |->
             IF s = {} THEN start
             ELSE TrimStep(g[s \ {TopIndex(s)}], levels[TopIndex(s)], up, limit, unit)]
  BY <1>4, <1>5 DEF Follows
<1> QED
  BY <1>1, <1>4, <1>6 DEF Trims, start

\* After the first level.
LEMMA TrimFirst ==
  ASSUME NEW up \in BOOLEAN, NEW levels, IsSide(levels, up), levels # <<>>,
         NEW unit \in Nat \ {0}, NEW limit \in Nat
  PROVE  Trimmed(TrimStep(TrimStart(levels, up, unit), levels[1], up, limit, unit),
                 levels, 1, up, limit, unit)
<1>1. levels \in Seq(Int \X Int) /\ Len(levels) >= 1 /\ levels[1] \in Int \X Int
  BY DEF IsSide
<1>2. PICK t \in Int : t = Bound(levels[1][1], up, unit) /\ ~ Before(t, levels[1][1], up)
  BY <1>1, BoundFound
<1>3. PICK start \in Accs : /\ start = TrimStart(levels, up, unit)
                            /\ start.out = <<>> /\ start.price = t /\ start.qty = 0
  <2>1. <<>> \in Seq(Int \X Int)
    OBVIOUS
  <2>2. TrimStart(levels, up, unit) = [out |-> <<>>, price |-> t, qty |-> 0]
    BY <1>2 DEF TrimStart
  <2>3. [out |-> <<>>, price |-> t, qty |-> 0] \in Accs
    BY <1>2, <2>1 DEF Accs
  <2> QED
    BY <2>2, <2>3
<1>4. PICK acc \in Accs : acc = TrimStep(start, levels[1], up, limit, unit)
  BY <1>1, TrimTypes
<1>5. CASE limit = 0
  <2>1. acc = start
    BY <1>3, <1>4, <1>5 DEF TrimStep
  <2>2. Len(acc.out) = 0 /\ 1 .. 0 = {}
    BY <1>3, <2>1
  <2> QED
    BY <1>3, <1>4, <1>5, <2>2 DEF Trimmed
<1>6. CASE limit # 0
  <2>1. ~ (IF up THEN levels[1][1] > t ELSE levels[1][1] < t)
    BY <1>1, <1>2 DEF Before
  <2>2. acc = [out |-> <<>>, price |-> t, qty |-> 0 + levels[1][2]]
    BY <1>3, <1>4, <1>6, <2>1 DEF TrimStep
  <2>3. acc.out = <<>> /\ acc.price = t /\ acc.qty = levels[1][2]
    BY <1>1, <2>2
  <2>4. Shows(levels, 1, <<>>, t, levels[1][2] + 0, up, unit)
    <3>1. 0 \in Nat /\ 0 + 1 = 1 /\ 0 + 1 <= Len(levels)
      BY <1>1
    <3>2. Shows(levels, 0 + 1, <<>>, t,
                levels[0 + 1][2] + (IF <<>> = <<>> THEN 0 ELSE levels[0 + 1][2]), up, unit)
      BY <1>2, <3>1, ShowsOpened
    <3> QED
      BY <3>1, <3>2
  <2>5. levels[1][2] + 0 = levels[1][2]
    BY <1>1
  <2>6. Len(acc.out) = 0 /\ 1 .. 0 = {} /\ 0 + 1 = 1 /\ FrontPrice(acc.out, 1) = <<>>
    BY <2>3 DEF FrontPrice
  <2> QED
    BY <1>2, <1>3, <1>4, <2>3, <2>4, <2>5, <2>6 DEF Trimmed
<1> QED
  BY <1>5, <1>6

\* What is appended is behind the others and in front of no bucket but its own.
LEMMA FrontsKept ==
  ASSUME NEW out \in Seq(Int \X Int), NEW e \in Int \X Int
  PROVE  LET longer == Append(out, e) IN
         /\ Len(longer) = Len(out) + 1 /\ longer[Len(out) + 1] = e
         /\ \A i \in 1 .. Len(out) : longer[i] = out[i]
         /\ \A i \in 1 .. Len(out) + 1 : FrontPrice(longer, i) = FrontPrice(out, i)
         /\ FrontPrice(longer, Len(out) + 2) = <<e[1]>>
<1>1. PICK n \in Nat : n = Len(out)
  OBVIOUS
<1>2. PICK longer \in Seq(Int \X Int) :
        /\ longer = Append(out, e) /\ Len(longer) = n + 1 /\ longer[n + 1] = e
        /\ \A i \in 1 .. n : longer[i] = out[i]
  <2>1. Append(out, e) \in Seq(Int \X Int)
    OBVIOUS
  <2>2. Len(Append(out, e)) = n + 1 /\ Append(out, e)[n + 1] = e
    BY <1>1
  <2>3. \A i \in 1 .. n : Append(out, e)[i] = out[i]
    BY <1>1
  <2> QED
    BY <2>1, <2>2, <2>3
<1>3. ASSUME NEW i \in 1 .. n + 1 PROVE FrontPrice(longer, i) = FrontPrice(out, i)
  <2>1. i # 1 => i - 1 \in 1 .. n
    BY <1>1
  <2> QED
    BY <1>2, <2>1 DEF FrontPrice
<1>4. n + 2 # 1 /\ n + 2 - 1 = n + 1
  BY <1>1
<1>5. FrontPrice(longer, n + 2) = <<e[1]>>
  BY <1>2, <1>4 DEF FrontPrice
<1> QED
  BY <1>1, <1>2, <1>3, <1>5

\* The levels of a side.
LEMMA SideLevels ==
  ASSUME NEW up \in BOOLEAN, NEW levels, IsSide(levels, up), NEW j \in 1 .. Len(levels)
  PROVE  levels[j] \in Int \X Int /\ levels[j][1] \in Int /\ levels[j][2] \in Int
<1>1. levels \in Seq(Int \X Int)
  BY DEF IsSide
<1> QED
  BY <1>1

\* A step that closes a bucket.
LEMMA StepCloses ==
  ASSUME NEW acc, NEW a, NEW up, NEW limit, NEW unit, Len(acc.out) # limit,
         IF up THEN a[1] > acc.price ELSE a[1] < acc.price
  PROVE  TrimStep(acc, a, up, limit, unit) =
           [out |-> Append(acc.out, <<acc.price, acc.qty>>), price |-> Bound(a[1], up, unit),
            qty |-> a[2] + a[2]]
BY DEF TrimStep

\* Prices are in one order.
LEMMA BeforeBoth ==
  ASSUME NEW up \in BOOLEAN, NEW a \in Int, NEW b \in Int, NEW c \in Int,
         Before(a, b, up), Before(b, c, up)
  PROVE  Before(a, c, up)
BY DEF Before

\* The step over one more level.
LEMMA TrimNext ==
  ASSUME NEW up \in BOOLEAN, NEW levels, IsSide(levels, up), NEW k \in Nat, k >= 1,
         k + 1 <= Len(levels), NEW unit \in Nat \ {0}, NEW limit \in Nat,
         NEW acc, Trimmed(acc, levels, k, up, limit, unit)
  PROVE  Trimmed(TrimStep(acc, levels[k + 1], up, limit, unit), levels, k + 1, up, limit, unit)
<1>1. /\ levels \in Seq(Int \X Int)
      /\ \A j \in 1 .. Len(levels) : levels[j][1] \in Int /\ levels[j][2] \in Int
      /\ \A j \in 1 .. k + 1 : j \in 1 .. Len(levels)
      /\ k + 1 \in 1 .. Len(levels)
  <2>1. levels \in Seq(Int \X Int) /\ Len(levels) \in Nat
    BY DEF IsSide
  <2>2. \A j \in 1 .. Len(levels) : levels[j][1] \in Int /\ levels[j][2] \in Int
    BY SideLevels
  <2>3. (\A j \in 1 .. k + 1 : j \in 1 .. Len(levels)) /\ k + 1 \in 1 .. Len(levels)
    BY <2>1
  <2> QED
    BY <2>1, <2>2, <2>3
<1>2. PICK p \in Int, v \in Int : p = levels[k + 1][1] /\ v = levels[k + 1][2]
  BY <1>1
<1>3. acc \in Accs /\ Len(acc.out) <= limit
  BY DEF Trimmed
<1>4. PICK out \in Seq(Int \X Int), price \in Int, qty \in Int :
        out = acc.out /\ price = acc.price /\ qty = acc.qty
  BY <1>3 DEF Accs
<1>5. PICK n \in Nat : n = Len(out) /\ n <= limit
  BY <1>3, <1>4
<1>6. Before(levels[k][1], p, up) /\ levels[k][1] \in Int /\ k \in 1 .. Len(levels)
  <2>1. k \in 1 .. k + 1 /\ k < k + 1
    OBVIOUS
  <2>2. k \in 1 .. Len(levels)
    BY <1>1, <2>1
  <2> QED
    BY <1>1, <1>2, <2>1, <2>2 DEF IsSide
<1>7. \A i \in 1 .. n : out[i] \in Int \X Int
  BY <1>5
<1>8. ASSUME NEW i \in 1 .. n
      PROVE  /\ Before(out[i][1], p, up)
             /\ Shows(levels, k + 1, FrontPrice(out, i), out[i][1], out[i][2], up, unit)
  <2>1. /\ Before(out[i][1], levels[k][1], up)
        /\ Shows(levels, k, FrontPrice(out, i), out[i][1], out[i][2], up, unit)
    BY <1>4, <1>5 DEF Trimmed
  <2>2. out[i][1] \in Int
    BY <1>7
  <2>3. Before(out[i][1], p, up)
    BY <1>6, <2>1, <2>2, BeforeBoth
  <2> QED
    BY <1>2, <2>1, <2>3, ShowsStill
<1>9. PICK next \in Accs : next = TrimStep(acc, levels[k + 1], up, limit, unit)
  <2>1. levels[k + 1] \in Int \X Int
    BY <1>1
  <2> QED
    BY <1>3, <2>1, TrimTypes
<1>10. CASE n = limit
  <2>1. next = acc
    BY <1>4, <1>5, <1>9, <1>10 DEF TrimStep
  <2>2. next.out = out /\ Len(next.out) = limit /\ ~ (Len(next.out) < limit)
    <3>1. next.out = out
      BY <1>4, <2>1
    <3>2. Len(next.out) = limit
      BY <1>5, <1>10, <3>1
    <3> QED
      BY <3>1, <3>2
  <2>3. Trimmed(next, levels, k + 1, up, limit, unit)
    BY <1>2, <1>5, <1>8, <1>10, <2>2 DEF Trimmed
  <2> QED
    BY <1>9, <2>3
<1>11. CASE n < limit /\ ~ Before(price, p, up)
  <2>1. ~ (IF up THEN levels[k + 1][1] > acc.price ELSE levels[k + 1][1] < acc.price)
    BY <1>2, <1>4, <1>11 DEF Before
  <2>2. next = [out |-> out, price |-> price, qty |-> qty + v]
    BY <1>2, <1>4, <1>5, <1>9, <1>11, <2>1 DEF TrimStep
  <2>3. next.out = out /\ next.price = price /\ next.qty = qty + v
    BY <2>2
  <2>4. Shows(levels, k, FrontPrice(out, n + 1), price, qty, up, unit)
    BY <1>4, <1>5, <1>11 DEF Trimmed
  <2>5. FrontPrice(out, n + 1) # <<>> => Before(FrontPrice(out, n + 1)[1], p, up)
    <3>1. CASE n = 0
      BY <3>1 DEF FrontPrice
    <3>2. CASE n > 0
      <4>1. n \in 1 .. n /\ n + 1 # 1 /\ n + 1 - 1 = n
        BY <3>2
      <4>2. FrontPrice(out, n + 1) = <<out[n][1]>>
        BY <4>1 DEF FrontPrice
      <4>3. Before(out[n][1], p, up)
        BY <1>8, <4>1
      <4> QED
        BY <4>2, <4>3
    <3> QED
      BY <3>1, <3>2
  <2>6. Shows(levels, k + 1, FrontPrice(out, n + 1), price, qty + v, up, unit)
    BY <1>2, <1>11, <2>4, <2>5, ShowsMore
  <2> QED
    BY <1>2, <1>5, <1>8, <1>9, <1>11, <2>3, <2>6 DEF Trimmed
<1>12. CASE n < limit /\ Before(price, p, up)
  <2>1. IF up THEN levels[k + 1][1] > acc.price ELSE levels[k + 1][1] < acc.price
    BY <1>2, <1>4, <1>12 DEF Before
  <2>2. PICK e \in Int \X Int : e = <<price, qty>>
    OBVIOUS
  <2>3. PICK longer \in Seq(Int \X Int) :
          /\ longer = Append(out, e) /\ Len(longer) = n + 1 /\ longer[n + 1] = e
          /\ \A i \in 1 .. n : longer[i] = out[i]
          /\ \A i \in 1 .. n + 1 : FrontPrice(longer, i) = FrontPrice(out, i)
          /\ FrontPrice(longer, n + 2) = <<price>>
    <3>1. Append(out, e) \in Seq(Int \X Int)
      OBVIOUS
    <3>2. e[1] = price
      BY <2>2
    <3> QED
      BY <1>5, <3>1, <3>2, FrontsKept
  <2>4. PICK t \in Int : t = Bound(p, up, unit)
    BY BoundFound
  <2>5. next = [out |-> longer, price |-> t, qty |-> v + v]
    <3>1. Len(acc.out) # limit
      BY <1>4, <1>5, <1>12
    <3>2. next = [out |-> Append(acc.out, <<acc.price, acc.qty>>),
                  price |-> Bound(levels[k + 1][1], up, unit),
                  qty |-> levels[k + 1][2] + levels[k + 1][2]]
      BY <1>9, <2>1, <3>1, StepCloses
    <3> QED
      BY <1>2, <1>4, <2>2, <2>3, <2>4, <3>2
  <2>6. next.out = longer /\ next.price = t /\ next.qty = v + v
    BY <2>5
  <2>7. /\ Shows(levels, k, FrontPrice(out, n + 1), price, qty, up, unit)
        /\ ~ Before(price, levels[k][1], up)
    BY <1>4, <1>5, <1>12 DEF Trimmed
  <2>8. Shows(levels, k + 1, FrontPrice(out, n + 1), price, qty, up, unit)
    BY <1>2, <1>12, <2>7, ShowsStill
  <2>9. ASSUME NEW i \in 1 .. n + 1
        PROVE  /\ Before(longer[i][1], p, up)
               /\ Shows(levels, k + 1, FrontPrice(longer, i), longer[i][1], longer[i][2], up, unit)
    <3>1. CASE i = n + 1
      <4>1. longer[i][1] = price /\ longer[i][2] = qty
        BY <2>2, <2>3, <3>1
      <4> QED
        BY <1>12, <2>3, <2>8, <3>1, <4>1
    <3>2. CASE i # n + 1
      <4>1. i \in 1 .. n
        BY <1>5, <3>2
      <4> QED
        BY <1>8, <2>3, <4>1
    <3> QED
      BY <3>1, <3>2
  <2>10. \A j \in 1 .. k : ~ Before(price, levels[j][1], up)
    <3> SUFFICES ASSUME NEW j \in 1 .. k PROVE ~ Before(price, levels[j][1], up)
      OBVIOUS
    <3>0. j \in 1 .. k + 1
      OBVIOUS
    <3>1. j \in 1 .. Len(levels) /\ levels[j][1] \in Int
      BY <1>1, <3>0
    <3>2. j = k \/ Before(levels[j][1], levels[k][1], up)
      <4>1. j = k \/ j < k
        OBVIOUS
      <4> QED
        BY <1>6, <3>1, <4>1 DEF IsSide
    <3>3. PICK x \in Int, y \in Int : x = levels[j][1] /\ y = levels[k][1]
      BY <1>6, <3>1
    <3>4. ~ Before(price, y, up) /\ (x = y \/ Before(x, y, up))
      BY <2>7, <3>2, <3>3
    <3>5. ~ Before(price, x, up)
      BY <3>4 DEF Before
    <3> QED
      BY <3>3, <3>5
  <2>11. /\ Shows(levels, k + 1, <<price>>, t, v + v, up, unit)
         /\ ~ Before(t, p, up)
    <3>1. <<price>> # <<>> /\ <<price>>[1] = price
      OBVIOUS
    <3> QED
      BY <1>2, <1>12, <2>4, <2>10, <3>1, ShowsOpened
  <2>12. Len(next.out) <= limit /\ Len(next.out) + 1 = n + 2
    BY <1>5, <1>12, <2>3, <2>6
  <2> QED
    BY <1>2, <1>9, <2>3, <2>6, <2>9, <2>11, <2>12 DEF Trimmed
<1>13. n < limit \/ n = limit
  BY <1>5
<1> QED
  BY <1>10, <1>11, <1>12, <1>13

\* What a side of a book is trimmed to is a side of a book again, whatever its
\* length, the limit and the unit: no longer than allowed, strictly in order,
\* on multiples of the unit, and each level shows what the levels it stands for
\* hold and, but for the first, the one that opened it twice
\* (OrderbooksState::trim, Orderbook.cpp 162-228).
THEOREM TrimmedIsASide ==
  ASSUME NEW up \in BOOLEAN, NEW levels, IsSide(levels, up), levels # <<>>,
         NEW unit \in Nat \ {0}, NEW limit \in Nat,
         NEW out, out = TrimLevels(levels, up, limit, unit)
  PROVE  /\ out \in Seq(Int \X Int) /\ Len(out) <= limit
         /\ \A i \in 1 .. Len(out) :
              Shows(levels, Len(levels), FrontPrice(out, i), out[i][1], out[i][2], up, unit)
<1>1. PICK n \in Nat : n = Len(levels) /\ n >= 1 /\ levels \in Seq(Int \X Int)
                       /\ DOMAIN levels = 1 .. n
  BY DEF IsSide
<1>2. PICK g : Trims(g, levels, up, limit, unit) /\ out = g[1 .. n].out
  <2>1. \E g : Trims(g, levels, up, limit, unit)
    BY <1>1, TrimmerExists
  <2> QED
    BY <1>1, <2>1, TrimChosen
<1>3. /\ g[1 .. 0] = TrimStart(levels, up, unit)
      /\ \A k \in 0 .. n - 1 :
           g[1 .. k + 1] = TrimStep(g[1 .. k], levels[k + 1], up, limit, unit)
  <2>1. 1 .. 0 = {} /\ 1 .. 0 \in SUBSET (1 .. n)
    OBVIOUS
  <2>2. ASSUME NEW k \in 0 .. n - 1
        PROVE  g[1 .. k + 1] = TrimStep(g[1 .. k], levels[k + 1], up, limit, unit)
    <3>0. k \in Nat /\ k + 1 <= n
      BY <1>1
    <3>1. 1 .. k + 1 \in SUBSET (1 .. n) /\ 1 .. k + 1 # {}
      <4>1. k + 1 \in 1 .. k + 1
        BY <3>0
      <4>2. \A i \in 1 .. k + 1 : i \in 1 .. n
        BY <3>0
      <4> QED
        BY <4>1, <4>2
    <3>2. TopIndex(1 .. k + 1) = k + 1 /\ (1 .. k + 1) \ {k + 1} = 1 .. k
      BY <3>0, TopFirst
    <3> QED
      BY <1>1, <1>2, <3>1, <3>2 DEF Trims
  <2> QED
    BY <1>1, <1>2, <2>1, <2>2 DEF Trims
<1> DEFINE T == {k \in Nat : k + 1 <= n => Trimmed(g[1 .. k + 1], levels, k + 1, up, limit, unit)}
<1>4. 0 \in T
  <2>1. g[1 .. 0 + 1] = TrimStep(TrimStart(levels, up, unit), levels[1], up, limit, unit)
    <3>1. 0 \in 0 .. n - 1 /\ 0 + 1 = 1
      BY <1>1
    <3>2. g[1 .. 0 + 1] = TrimStep(g[1 .. 0], levels[0 + 1], up, limit, unit)
      BY <1>3, <3>1
    <3> QED
      BY <1>3, <3>1, <3>2
  <2> QED
    BY <2>1, TrimFirst
<1>5. ASSUME NEW k \in T PROVE k + 1 \in T
  <2>1. k \in Nat /\ k + 1 \in Nat
    OBVIOUS
  <2>2. CASE k + 1 + 1 <= n
    <3>1. Trimmed(g[1 .. k + 1], levels, k + 1, up, limit, unit)
      BY <1>1, <2>1, <2>2
    <3>2. g[1 .. k + 1 + 1] = TrimStep(g[1 .. k + 1], levels[k + 1 + 1], up, limit, unit)
      <4>1. k + 1 \in 0 .. n - 1
        BY <1>1, <2>1, <2>2
      <4> QED
        BY <1>3, <4>1
    <3>3. k + 1 >= 1 /\ k + 1 + 1 <= Len(levels)
      BY <1>1, <2>1, <2>2
    <3>4. Trimmed(g[1 .. k + 1 + 1], levels, k + 1 + 1, up, limit, unit)
      BY <2>1, <3>1, <3>2, <3>3, TrimNext
    <3> QED
      BY <2>1, <3>4
  <2> QED
    BY <2>1, <2>2
<1>6. T = Nat
  <2>1. T \in SUBSET Nat
    OBVIOUS
  <2> HIDE DEF T
  <2> QED
    BY <1>4, <1>5, <2>1, Counting
<1>7. Trimmed(g[1 .. n], levels, n, up, limit, unit)
  <2>1. PICK k \in Nat : k + 1 = n
    <3>1. n - 1 \in Nat /\ n - 1 + 1 = n
      BY <1>1
    <3> QED
      BY <3>1
  <2>2. k \in T
    BY <1>6
  <2> QED
    BY <1>1, <2>1, <2>2
<1> QED
  BY <1>1, <1>2, <1>7 DEF Trimmed, Accs

-------------------------------------------------------------------------------
(* Merging maps (mergeMaps).                                                *)

\* A merge has what the second map has.
LEMMA MergedLast ==
  ASSUME NEW a, NEW b
  PROVE  \A k \in DOMAIN b : \A i \in DOMAIN b[k] : MergeMaps(a, b)[k][i] = b[k][i]
<1> DEFINE ab == MergeMaps(a, b)
<1>1. /\ \A k \in DOMAIN b \ DOMAIN a : ab[k] = b[k]
      /\ \A k \in DOMAIN a \cap DOMAIN b :
           ab[k] = [i \in DOMAIN a[k] \cup DOMAIN b[k] |->
                      IF i \in DOMAIN b[k] THEN b[k][i] ELSE a[k][i]]
  <2>1. ab = [k \in DOMAIN a \cup DOMAIN b |->
                IF k \notin DOMAIN b THEN a[k]
                ELSE IF k \notin DOMAIN a THEN b[k]
                ELSE [i \in DOMAIN a[k] \cup DOMAIN b[k] |->
                        IF i \in DOMAIN b[k] THEN b[k][i] ELSE a[k][i]]]
    BY DEF MergeMaps
  <2> QED
    BY <2>1
<1> HIDE DEF ab
<1> QED
  BY <1>1 DEF ab

\* It has every key of both, and every key under a key.
LEMMA MergedAt ==
  ASSUME NEW a, NEW b
  PROVE  /\ DOMAIN MergeMaps(a, b) = DOMAIN a \cup DOMAIN b
         /\ \A k \in DOMAIN a : DOMAIN a[k] \subseteq DOMAIN MergeMaps(a, b)[k]
         /\ \A k \in DOMAIN b : DOMAIN b[k] \subseteq DOMAIN MergeMaps(a, b)[k]
<1> DEFINE ab == MergeMaps(a, b)
<1>1. /\ DOMAIN ab = DOMAIN a \cup DOMAIN b
      /\ \A k \in DOMAIN a \ DOMAIN b : ab[k] = a[k]
      /\ \A k \in DOMAIN b \ DOMAIN a : ab[k] = b[k]
      /\ \A k \in DOMAIN a \cap DOMAIN b :
           ab[k] = [i \in DOMAIN a[k] \cup DOMAIN b[k] |->
                      IF i \in DOMAIN b[k] THEN b[k][i] ELSE a[k][i]]
  BY DEF MergeMaps
<1> HIDE DEF ab
<1>2. ASSUME NEW k \in DOMAIN a \cap DOMAIN b PROVE DOMAIN ab[k] = DOMAIN a[k] \cup DOMAIN b[k]
  <2>1. ab[k] = [i \in DOMAIN a[k] \cup DOMAIN b[k] |->
                   IF i \in DOMAIN b[k] THEN b[k][i] ELSE a[k][i]]
    BY ONLY k \in DOMAIN a \cap DOMAIN b, <1>1, Zenon
  <2> QED
    BY ONLY <2>1
<1> QED
  BY <1>1, <1>2 DEF ab

\* It makes no difference how three maps are grouped that are merged.
LEMMA MergesGroup ==
  ASSUME NEW a, NEW b, NEW c
  PROVE  MergeMaps(MergeMaps(a, b), c) = MergeMaps(a, MergeMaps(b, c))
<1> DEFINE ab == MergeMaps(a, b)
           bc == MergeMaps(b, c)
           keys == DOMAIN a \cup DOMAIN b \cup DOMAIN c
           value(d1, d2, k) ==
             IF k \notin DOMAIN d2 THEN d1[k]
             ELSE IF k \notin DOMAIN d1 THEN d2[k]
             ELSE [i \in DOMAIN d1[k] \cup DOMAIN d2[k] |->
                     IF i \in DOMAIN d2[k] THEN d2[k][i] ELSE d1[k][i]]
<1>1. DOMAIN ab = DOMAIN a \cup DOMAIN b /\ DOMAIN bc = DOMAIN b \cup DOMAIN c
  BY DEF MergeMaps
<1>2. /\ MergeMaps(ab, c) = [k \in DOMAIN ab \cup DOMAIN c |-> value(ab, c, k)]
      /\ MergeMaps(a, bc) = [k \in DOMAIN a \cup DOMAIN bc |-> value(a, bc, k)]
  BY DEF MergeMaps
<1>3. /\ \A k \in DOMAIN ab : ab[k] = value(a, b, k)
      /\ \A k \in DOMAIN bc : bc[k] = value(b, c, k)
  BY DEF MergeMaps
<1> HIDE DEF ab, bc
<1>4. DOMAIN ab \cup DOMAIN c = keys /\ DOMAIN a \cup DOMAIN bc = keys
  BY <1>1
<1>5. ASSUME NEW k \in keys PROVE value(ab, c, k) = value(a, bc, k)
  <2>1. CASE k \in DOMAIN a /\ k \in DOMAIN b /\ k \in DOMAIN c
    <3>1. /\ ab[k] = [i \in DOMAIN a[k] \cup DOMAIN b[k] |->
                        IF i \in DOMAIN b[k] THEN b[k][i] ELSE a[k][i]]
          /\ bc[k] = [i \in DOMAIN b[k] \cup DOMAIN c[k] |->
                        IF i \in DOMAIN c[k] THEN c[k][i] ELSE b[k][i]]
      BY <1>1, <1>3, <2>1
    <3>2. /\ value(ab, c, k) = [i \in DOMAIN ab[k] \cup DOMAIN c[k] |->
                                  IF i \in DOMAIN c[k] THEN c[k][i] ELSE ab[k][i]]
          /\ value(a, bc, k) = [i \in DOMAIN a[k] \cup DOMAIN bc[k] |->
                                  IF i \in DOMAIN bc[k] THEN bc[k][i] ELSE a[k][i]]
      BY <1>1, <2>1
    <3> HIDE DEF value
    <3>4. /\ DOMAIN ab[k] = DOMAIN a[k] \cup DOMAIN b[k]
          /\ DOMAIN bc[k] = DOMAIN b[k] \cup DOMAIN c[k]
      BY <3>1
    <3>5. /\ \A i \in DOMAIN ab[k] : ab[k][i] = IF i \in DOMAIN b[k] THEN b[k][i] ELSE a[k][i]
          /\ \A i \in DOMAIN bc[k] : bc[k][i] = IF i \in DOMAIN c[k] THEN c[k][i] ELSE b[k][i]
      BY <3>1
    <3>3. /\ DOMAIN ab[k] \cup DOMAIN c[k] = DOMAIN a[k] \cup DOMAIN bc[k]
          /\ \A i \in DOMAIN ab[k] \cup DOMAIN c[k] :
               (IF i \in DOMAIN c[k] THEN c[k][i] ELSE ab[k][i]) =
               (IF i \in DOMAIN bc[k] THEN bc[k][i] ELSE a[k][i])
      BY <3>4, <3>5
    <3> DEFINE all == DOMAIN ab[k] \cup DOMAIN c[k]
               left(i) == IF i \in DOMAIN c[k] THEN c[k][i] ELSE ab[k][i]
               right(i) == IF i \in DOMAIN bc[k] THEN bc[k][i] ELSE a[k][i]
    <3>6. value(ab, c, k) = [i \in all |-> left(i)] /\ value(a, bc, k) = [i \in all |-> right(i)]
      BY <3>2, <3>3
    <3>7. \A i \in all : left(i) = right(i)
      BY <3>3
    <3> HIDE DEF all, left, right
    <3> QED
      BY <3>6, <3>7
  <2>2. CASE k \notin DOMAIN a \/ k \notin DOMAIN b \/ k \notin DOMAIN c
    <3>1. CASE k \notin DOMAIN c
      <4>1. value(ab, c, k) = ab[k]
        BY <3>1
      <4>2. k \in DOMAIN ab
        BY <1>1, <3>1
      <4>3. CASE k \notin DOMAIN b
        BY <1>1, <1>3, <3>1, <4>1, <4>2, <4>3
      <4>4. CASE k \in DOMAIN b
        <5>1. k \in DOMAIN bc /\ bc[k] = b[k]
          BY <1>1, <1>3, <3>1, <4>4
        <5>2. value(a, bc, k) = value(a, b, k)
          BY <4>4, <5>1
        <5>3. ab[k] = value(a, b, k)
          BY <1>3, <4>2
        <5> HIDE DEF value
        <5> QED
          BY <4>1, <5>2, <5>3
      <4> QED
        BY <4>3, <4>4
    <3>2. CASE k \in DOMAIN c /\ k \notin DOMAIN a
      <4>1. k \in DOMAIN bc /\ value(a, bc, k) = value(b, c, k)
        BY <1>1, <1>3, <3>2
      <4>2. CASE k \in DOMAIN b
        <5>1. k \in DOMAIN ab /\ ab[k] = b[k]
          BY <1>1, <1>3, <3>2, <4>2
        <5> QED
          BY <3>2, <4>1, <4>2, <5>1
      <4>3. CASE k \notin DOMAIN b
        BY <1>1, <3>2, <4>1, <4>3
      <4> QED
        BY <4>2, <4>3
    <3>3. CASE k \in DOMAIN c /\ k \in DOMAIN a /\ k \notin DOMAIN b
      <4>1. k \in DOMAIN ab /\ ab[k] = a[k] /\ k \in DOMAIN bc /\ bc[k] = c[k]
        BY <1>1, <1>3, <3>3
      <4> QED
        BY <3>3, <4>1
    <3> QED
      BY <2>2, <3>1, <3>2, <3>3
  <2> QED
    BY <2>1, <2>2
<1> DEFINE left == [k \in keys |-> value(ab, c, k)]
           right == [k \in keys |-> value(a, bc, k)]
<1>6. MergeMaps(MergeMaps(a, b), c) = left
  BY <1>2, <1>4 DEF ab
<1>7. MergeMaps(a, MergeMaps(b, c)) = right
  BY <1>2, <1>4 DEF bc
<1> HIDE DEF value, keys
<1>8. left = right
  BY <1>5
<1> QED
  BY <1>6, <1>7, <1>8

\* What LastWord says of three maps.
MergedRight(a, b, c, r) ==
  /\ r = MergeMaps(a, MergeMaps(b, c))
  /\ \A d \in {a, b, c} : \A k \in DOMAIN d : DOMAIN d[k] \subseteq DOMAIN r[k]
  /\ \A k \in DOMAIN c : \A i \in DOMAIN c[k] : r[k][i] = c[k][i]

\* Whatever three maps are merged, it makes no difference how they are grouped,
\* the last one has the last word on every key under a key, and none is lost
\* (mergeMaps, Helper.cpp).
THEOREM MergesCompose ==
  ASSUME NEW a, NEW b, NEW c
  PROVE  MergedRight(a, b, c, MergeMaps(MergeMaps(a, b), c))
<1> DEFINE r == MergeMaps(MergeMaps(a, b), c)
<1>0. r = MergeMaps(a, MergeMaps(b, c))
  BY MergesGroup
<1>1. PICK ab : ab = MergeMaps(a, b) /\ r = MergeMaps(ab, c)
  OBVIOUS
<1>2. /\ DOMAIN ab = DOMAIN a \cup DOMAIN b
      /\ \A k \in DOMAIN a : DOMAIN a[k] \subseteq DOMAIN ab[k]
      /\ \A k \in DOMAIN b : DOMAIN b[k] \subseteq DOMAIN ab[k]
  BY <1>1, MergedAt
<1>3. /\ \A k \in DOMAIN ab : DOMAIN ab[k] \subseteq DOMAIN r[k]
      /\ \A k \in DOMAIN c : DOMAIN c[k] \subseteq DOMAIN r[k]
      /\ \A k \in DOMAIN c : \A i \in DOMAIN c[k] : r[k][i] = c[k][i]
  <2>1. PICK m : m = MergeMaps(ab, c)
    OBVIOUS
  <2>2. /\ \A k \in DOMAIN ab : DOMAIN ab[k] \subseteq DOMAIN m[k]
        /\ \A k \in DOMAIN c : DOMAIN c[k] \subseteq DOMAIN m[k]
        /\ \A k \in DOMAIN c : \A i \in DOMAIN c[k] : m[k][i] = c[k][i]
    <3>1. \A k \in DOMAIN ab : DOMAIN ab[k] \subseteq DOMAIN m[k]
      BY <2>1, MergedAt
    <3>2. \A k \in DOMAIN c : DOMAIN c[k] \subseteq DOMAIN m[k]
      BY <2>1, MergedAt
    <3>3. \A k \in DOMAIN c : \A i \in DOMAIN c[k] : m[k][i] = c[k][i]
      BY <2>1, MergedLast
    <3> QED
      BY <3>1, <3>2, <3>3
  <2> QED
    BY <1>1, <2>1, <2>2
<1>4. \A k \in DOMAIN a : k \in DOMAIN ab /\ DOMAIN a[k] \subseteq DOMAIN r[k]
  BY <1>2, <1>3
<1>5. \A k \in DOMAIN b : k \in DOMAIN ab /\ DOMAIN b[k] \subseteq DOMAIN r[k]
  BY <1>2, <1>3
<1> HIDE DEF r
<1>6. \A d \in {a, b, c} : \A k \in DOMAIN d : DOMAIN d[k] \subseteq DOMAIN r[k]
  BY <1>3, <1>4, <1>5
<1>7. MergedRight(a, b, c, r)
  BY <1>0, <1>3, <1>6 DEF MergedRight
<1> QED
  BY <1>7 DEF r

\* What a call leaves behind.
LEMMA Called ==
  ASSUME NEW op, NEW args, NEW answer, Calls(op, args, answer)
  PROVE  call'.op = op /\ call'.args = args /\ result' = answer
BY DEF Calls

\* mergeMaps.
LEMMA MergeAgrees ==
  ASSUME Merge
  PROVE  LastWord'
<1>1. PICK a \in Maps, b \in Maps, c \in Maps :
        Calls("merge", [first |-> a, second |-> b, third |-> c], MergeMaps(MergeMaps(a, b), c))
  BY DEF Merge
<1>2. /\ call'.args = [first |-> a, second |-> b, third |-> c]
      /\ result' = MergeMaps(MergeMaps(a, b), c)
  BY <1>1, Called
<1>3. call'.args.first = a /\ call'.args.second = b /\ call'.args.third = c
  BY <1>2
<1>4. MergedRight(call'.args.first, call'.args.second, call'.args.third, result')
  BY <1>2, <1>3, MergesCompose
<1> QED
  BY <1>4 DEF LastWord, MergedRight

-------------------------------------------------------------------------------
(* The other bisection (binarySearch).                                      *)

\* The windows it may come to, and what it says of one if f says it of others.
Spans(n) == (0 .. n) \X (-1 .. n - 1)
Probe(f, w, arr, item) ==
  LET mid == Middle(w)
  IN  IF w[1] > w[2] THEN -1
      ELSE IF arr[mid + 1] = item THEN mid
      ELSE IF arr[mid + 1] < item THEN f[<<mid + 1, w[2]>>]
      ELSE f[<<w[1], mid - 1>>]
Probes(f, D, arr, item) == f = [w \in D |-> Probe(f, w, arr, item)]

\* It is the value, for the whole sequence, of a function that does.
LEMMA SearchChosen ==
  ASSUME NEW arr, NEW item
  PROVE  BinarySearch(arr, item) =
           (CHOOSE f : Probes(f, Spans(Len(arr)), arr, item))[<<0, Len(arr) - 1>>]
BY DEF BinarySearch, Probes, Probe, Spans, Middle

\* The middle of a window that is not empty splits it.
LEMMA Split ==
  ASSUME NEW n \in Nat, NEW w \in Spans(n), w[1] <= w[2]
  PROVE  /\ Middle(w) \in w[1] .. w[2] /\ Middle(w) + 1 \in 1 .. n
         /\ <<Middle(w) + 1, w[2]>> \in Spans(n) /\ w[2] - (Middle(w) + 1) < w[2] - w[1]
         /\ <<w[1], Middle(w) - 1>> \in Spans(n) /\ Middle(w) - 1 - w[1] < w[2] - w[1]
<1>1. PICK a \in 0 .. n, b \in -1 .. n - 1 : a = w[1] /\ b = w[2]
  BY DEF Spans
<1>2. PICK d \in Nat : d = b - a /\ b = a + d
  BY <1>1
<1>3. PICK h \in Nat : h = d \div 2 /\ h <= d
  BY <1>2
<1>4. PICK m \in Nat : m = a + h /\ m = Middle(w)
  <2>1. w[1] = a /\ w[2] - w[1] = d
    BY <1>1, <1>2
  <2>2. Middle(w) = a + h
    BY <1>3, <2>1 DEF Middle
  <2> QED
    BY <2>2
<1>5. a <= m /\ m <= b /\ b <= n - 1
  BY <1>1, <1>2, <1>3, <1>4
<1>6. /\ m \in a .. b /\ m + 1 \in 1 .. n /\ m + 1 \in 0 .. n /\ m - 1 \in -1 .. n - 1
      /\ b - (m + 1) < b - a /\ m - 1 - a < b - a
  BY <1>1, <1>5
<1>7. <<m + 1, b>> \in Spans(n) /\ <<a, m - 1>> \in Spans(n)
  BY <1>1, <1>6 DEF Spans
<1> QED
  BY <1>1, <1>4, <1>6, <1>7

\* It looks only at smaller windows.
LEMMA ProbeSame ==
  ASSUME NEW arr, NEW item, NEW n \in Nat, NEW w \in Spans(n), NEW f, NEW g,
         \A u \in Spans(n) : u[2] - u[1] < w[2] - w[1] => f[u] = g[u]
  PROVE  Probe(f, w, arr, item) = Probe(g, w, arr, item)
<1>1. CASE w[1] > w[2]
  BY <1>1 DEF Probe
<1>2. CASE w[1] <= w[2]
  <2>1. f[<<Middle(w) + 1, w[2]>>] = g[<<Middle(w) + 1, w[2]>>]
    <3>1. PICK u \in Spans(n) : u = <<Middle(w) + 1, w[2]>> /\ u[2] - u[1] < w[2] - w[1]
      BY <1>2, Split
    <3> QED
      BY <3>1
  <2>2. f[<<w[1], Middle(w) - 1>>] = g[<<w[1], Middle(w) - 1>>]
    <3>1. PICK u \in Spans(n) : u = <<w[1], Middle(w) - 1>> /\ u[2] - u[1] < w[2] - w[1]
      BY <1>2, Split
    <3> QED
      BY <3>1
  <2> QED
    BY <2>1, <2>2 DEF Probe
<1>3. w[1] \in Int /\ w[2] \in Int
  BY DEF Spans
<1> QED
  BY <1>1, <1>2, <1>3

\* There is one for every sequence: by induction over the width of the windows.
LEMMA ProberExists ==
  ASSUME NEW arr, NEW item, NEW n \in Nat
  PROVE  \E f : Probes(f, Spans(n), arr, item)
<1> DEFINE D(k) == {w \in Spans(n) : w[2] - w[1] + 1 <= k}
           T == {k \in Nat : \E f : Probes(f, D(k), arr, item)}
<1>0. \A w \in Spans(n) : w[1] \in 0 .. n /\ w[2] \in -1 .. n - 1
  BY DEF Spans
<1>1. 0 \in T
  <2> DEFINE f == [w \in D(0) |-> -1]
  <2>1. \A w \in D(0) : w[1] > w[2]
    BY <1>0
  <2>2. \A w \in D(0) : Probe(f, w, arr, item) = -1
    BY <2>1 DEF Probe
  <2>3. Probes(f, D(0), arr, item)
    BY <2>2 DEF Probes
  <2> QED
    BY <2>3
<1>2. ASSUME NEW k \in T PROVE k + 1 \in T
  <2>1. k \in Nat
    OBVIOUS
  <2>2. PICK f : Probes(f, D(k), arr, item)
    OBVIOUS
  <2> DEFINE g == [w \in D(k + 1) |-> Probe(f, w, arr, item)]
  <2>3. \A u \in D(k) : u \in D(k + 1) /\ f[u] = Probe(f, u, arr, item)
    BY <1>0, <2>1, <2>2 DEF Probes
  <2>4. \A u \in D(k) : g[u] = f[u]
    BY <2>3
  <2>5. ASSUME NEW w \in D(k + 1)
        PROVE  Probe(f, w, arr, item) = Probe(g, w, arr, item)
    <3>1. \A u \in Spans(n) : u[2] - u[1] < w[2] - w[1] => f[u] = g[u]
      <4> SUFFICES ASSUME NEW u \in Spans(n), u[2] - u[1] < w[2] - w[1] PROVE u \in D(k)
        BY <2>4
      <4> QED
        BY <1>0, <2>1
    <3>2. w \in Spans(n)
      OBVIOUS
    <3> HIDE DEF g
    <3> QED
      BY <3>1, <3>2, ProbeSame
  <2>6. Probes(g, D(k + 1), arr, item)
    BY <2>5 DEF Probes
  <2>7. \E h : Probes(h, D(k + 1), arr, item)
    BY <2>6
  <2>8. k + 1 \in Nat
    BY <2>1
  <2> QED
    BY <2>7, <2>8
<1> HIDE DEF T
<1>3. n \in T
  <2>1. T \in SUBSET Nat
    BY DEF T
  <2> QED
    BY <1>1, <1>2, <2>1, Counting
<1>4. D(n) = Spans(n)
  BY <1>0
<1> QED
  BY <1>3, <1>4 DEF T

\* What the search relies on in a window, and what it finds.
Spanned(w, arr, item) ==
  \A i \in 1 .. Len(arr) : (i <= w[1] => arr[i] < item) /\ (i > w[2] + 1 => arr[i] > item)
Sought(r, arr, item) ==
  \/ r \in 0 .. Len(arr) - 1 /\ arr[r + 1] = item
  \/ r = -1 /\ \A i \in 1 .. Len(arr) : arr[i] # item

\* If the smaller windows are answered rightly, so is this one.
LEMMA ProbeFinds ==
  ASSUME NEW arr \in Seq(Int), NEW item \in Int, Sorted(arr, TRUE),
         NEW w \in Spans(Len(arr)), Spanned(w, arr, item), NEW f,
         \A u \in Spans(Len(arr)) :
           u[2] - u[1] < w[2] - w[1] /\ Spanned(u, arr, item) => Sought(f[u], arr, item)
  PROVE  Sought(Probe(f, w, arr, item), arr, item)
<1>1. PICK n \in Nat : n = Len(arr) /\ \A i \in 1 .. n : arr[i] \in Int
  OBVIOUS
<1>2. PICK a \in 0 .. n, b \in -1 .. n - 1 : a = w[1] /\ b = w[2]
  BY <1>1 DEF Spans
<1>3. \A i \in 1 .. n : (i <= a => arr[i] < item) /\ (i > b + 1 => arr[i] > item)
  BY <1>1, <1>2 DEF Spanned
<1>4. \A i, j \in 1 .. n : i < j => arr[i] < arr[j]
  BY <1>1 DEF Sorted, Before
<1>5. CASE a > b
  <2>1. Probe(f, w, arr, item) = -1
    BY <1>2, <1>5 DEF Probe
  <2>2. ASSUME NEW i \in 1 .. n PROVE arr[i] # item
    <3>1. i <= a \/ i > b + 1
      BY <1>2, <1>5
    <3> QED
      BY <1>1, <1>3, <3>1
  <2> QED
    BY <1>1, <2>1, <2>2 DEF Sought
<1>6. CASE a <= b
  <2>1. PICK m \in a .. b :
          /\ m = Middle(w) /\ m + 1 \in 1 .. n
          /\ <<m + 1, b>> \in Spans(n) /\ b - (m + 1) < b - a
          /\ <<a, m - 1>> \in Spans(n) /\ m - 1 - a < b - a
    BY <1>1, <1>2, <1>6, Split
  <2>7. m \in Nat /\ m + 1 \in Nat /\ m \in 0 .. n - 1 /\ m - 1 + 1 = m
    <3>1. a \in Nat /\ m \in Int /\ a <= m /\ m + 1 <= n
      BY <1>2, <2>1
    <3> QED
      BY ONLY <3>1, n \in Nat
  <2>2. PICK p \in Int : p = arr[m + 1]
    BY <1>1, <2>1
  <2>3. ~ (w[1] > w[2])
    BY <1>2, <1>6
  <2>4. CASE p = item
    <3>1. Probe(f, w, arr, item) = m
      BY <2>1, <2>2, <2>3, <2>4 DEF Probe
    <3> QED
      BY <1>1, <2>2, <2>4, <2>7, <3>1 DEF Sought
  <2>5. CASE p < item
    <3>1. Probe(f, w, arr, item) = f[<<m + 1, b>>]
      BY <1>2, <2>1, <2>2, <2>3, <2>5 DEF Probe
    <3>2. PICK u \in Spans(n) : u = <<m + 1, b>> /\ u[1] = m + 1 /\ u[2] = b
      BY <2>1
    <3>3. ASSUME NEW i \in 1 .. n, i <= m + 1 PROVE arr[i] < item
      <4>1. i = m + 1 \/ arr[i] < p
        <5>1. i = m + 1 \/ i < m + 1
          BY ONLY <2>7, <3>3, i \in 1 .. n
        <5> QED
          BY <1>4, <2>1, <2>2, <5>1
      <4>2. PICK q \in Int : q = arr[i]
        BY <1>1
      <4>3. q = p \/ q < p
        BY <2>2, <4>1, <4>2
      <4> QED
        BY <2>5, <4>2, <4>3
    <3>4. Spanned(u, arr, item)
      BY <1>1, <1>3, <3>2, <3>3 DEF Spanned
    <3>5. u[2] - u[1] < w[2] - w[1]
      BY <1>2, <2>1, <3>2
    <3>6. Sought(f[u], arr, item)
      BY <1>1, <3>4, <3>5
    <3> QED
      BY <3>1, <3>2, <3>6
  <2>6. CASE p > item
    <3>1. Probe(f, w, arr, item) = f[<<a, m - 1>>]
      <4>1. arr[m + 1] # item /\ ~ (arr[m + 1] < item)
        BY <2>2, <2>6
      <4> QED
        BY <1>2, <2>1, <2>3, <4>1 DEF Probe
    <3>2. PICK u \in Spans(n) : u = <<a, m - 1>> /\ u[1] = a /\ u[2] = m - 1
      BY <2>1
    <3>3. ASSUME NEW i \in 1 .. n, i > m - 1 + 1 PROVE arr[i] > item
      <4>1. i = m + 1 \/ arr[i] > p
        <5>1. i = m + 1 \/ m + 1 < i
          BY ONLY <2>7, <3>3, i \in 1 .. n
        <5> QED
          BY <1>4, <2>1, <2>2, <5>1
      <4>2. PICK q \in Int : q = arr[i]
        BY <1>1
      <4>3. q = p \/ q > p
        BY <2>2, <4>1, <4>2
      <4> QED
        BY <2>6, <4>2, <4>3
    <3>4. Spanned(u, arr, item)
      BY <1>1, <1>3, <3>2, <3>3 DEF Spanned
    <3>5. u[2] - u[1] < w[2] - w[1]
      BY <1>2, <2>1, <3>2
    <3>6. Sought(f[u], arr, item)
      BY <1>1, <3>4, <3>5
    <3> QED
      BY <3>1, <3>2, <3>6
  <2> QED
    BY <2>2, <2>4, <2>5, <2>6
<1> QED
  BY <1>2, <1>5, <1>6

\* On an ascending sequence the search finds the item's place exactly if it has
\* one (binarySearch, Helper.cpp).
THEOREM SearchFinds ==
  ASSUME NEW arr \in Seq(Int), NEW item \in Int, Sorted(arr, TRUE)
  PROVE  Sought(BinarySearch(arr, item), arr, item)
<1>1. PICK n \in Nat : n = Len(arr)
  OBVIOUS
<1>2. PICK f : /\ Probes(f, Spans(n), arr, item)
               /\ BinarySearch(arr, item) = f[<<0, n - 1>>]
  BY <1>1, ProberExists, SearchChosen
<1>3. \A w \in Spans(n) : w[1] \in 0 .. n /\ w[2] \in -1 .. n - 1
  BY DEF Spans
<1> DEFINE Right(u) == Spanned(u, arr, item) => Sought(f[u], arr, item)
           T == {k \in Nat : \A u \in Spans(n) : u[2] - u[1] + 1 < k => Right(u)}
<1>4. 0 \in T
  <2>1. ASSUME NEW w \in Spans(n), w[2] - w[1] + 1 < 0, Spanned(w, arr, item)
        PROVE  Sought(f[w], arr, item)
    <3>1. w[1] > w[2]
      BY <1>3, <2>1
    <3>2. f[w] = -1
      BY <1>2, <3>1 DEF Probes, Probe
    <3>3. ASSUME NEW i \in 1 .. n PROVE arr[i] # item
      <4>1. i <= w[1] \/ i > w[2] + 1
        BY <1>3, <2>1
      <4> QED
        BY <1>1, <2>1, <4>1 DEF Spanned
    <3> QED
      BY <1>1, <3>2, <3>3 DEF Sought
  <2> QED
    BY <2>1
<1>5. ASSUME NEW k \in T PROVE k + 1 \in T
  <2>1. \A u \in Spans(n) : u[2] - u[1] + 1 < k => Right(u)
    OBVIOUS
  <2>2. ASSUME NEW w \in Spans(n), w[2] - w[1] + 1 < k + 1, Spanned(w, arr, item)
        PROVE  Sought(f[w], arr, item)
    <3>1. \A u \in Spans(n) :
            u[2] - u[1] < w[2] - w[1] /\ Spanned(u, arr, item) => Sought(f[u], arr, item)
      <4> SUFFICES ASSUME NEW u \in Spans(n), u[2] - u[1] < w[2] - w[1] PROVE u[2] - u[1] + 1 < k
        BY <2>1
      <4>1. u[1] \in Int /\ u[2] \in Int /\ w[1] \in Int /\ w[2] \in Int /\ k \in Nat
        BY <1>3
      <4> QED
        BY ONLY <2>2, <4>1, u[2] - u[1] < w[2] - w[1]
    <3>2. Sought(Probe(f, w, arr, item), arr, item)
      BY <1>1, <2>2, <3>1, ProbeFinds
    <3>3. f[w] = Probe(f, w, arr, item)
      BY <1>2 DEF Probes
    <3> QED
      BY <3>2, <3>3
  <2>3. k + 1 \in Nat
    OBVIOUS
  <2> QED
    BY <2>2, <2>3
<1>6. T = Nat
  <2>1. T \in SUBSET Nat
    OBVIOUS
  <2> HIDE DEF T
  <2> QED
    BY <1>4, <1>5, <2>1, Counting
<1>7. PICK w \in Spans(n) : w = <<0, n - 1>> /\ w[1] = 0 /\ w[2] = n - 1
  <2>1. <<0, n - 1>> \in Spans(n)
    BY <1>1 DEF Spans
  <2> QED
    BY <2>1
<1>8. Spanned(w, arr, item)
  BY <1>1, <1>7 DEF Spanned
<1>9. n + 1 \in Nat /\ w[2] - w[1] + 1 < n + 1
  BY <1>1, <1>7
<1>10. Right(w)
  <2>1. n + 1 \in T
    BY <1>6, <1>9
  <2> QED
    BY <1>9, <2>1
<1> QED
  BY <1>2, <1>7, <1>8, <1>10

\* What BookStaysSorted says of a book and a price.
Found(prices, x, up, r) ==
  LET inserted == InsertList(r.at, x, prices)
  IN  /\ r.found <=> \E i \in DOMAIN prices : prices[i] = x
      /\ r.found => prices[r.at + 1] = x
      /\ ~ r.found =>
           /\ inserted # <<>> /\ Range(inserted[1]) = Range(prices) \cup {x}
           /\ Sorted(inserted[1], up)
      /\ up => (BinarySearch(prices, x) = IF r.found THEN r.at ELSE -1)
      /\ CleanOrderbookList([i \in DOMAIN prices |-> <<prices[i], 1, "id">>]) =
           <<[i \in DOMAIN prices |-> <<prices[i], 1>>]>>

\* It is so of every sorted book.
LEMMA BookFound ==
  ASSUME NEW arr \in Seq(Int), NEW x \in Int, NEW up \in BOOLEAN, Sorted(arr, up),
         NEW r, r = InsertionIndex(arr, x, up)
  PROVE  Found(arr, x, up, r)
<1>1. PICK n \in Nat : n = Len(arr) /\ DOMAIN arr = 1 .. n
  OBVIOUS
<1>2. Placed(r, arr, x, up)
  BY BisectionPlaces
<1>3. /\ r.found <=> \E i \in DOMAIN arr : arr[i] = x
      /\ r.found => arr[r.at + 1] = x
  BY <1>1, BooksStaySorted
<1>4. ASSUME ~ r.found
      PROVE  LET inserted == InsertList(r.at, x, arr)
             IN  /\ inserted # <<>> /\ Range(inserted[1]) = Range(arr) \cup {x}
                 /\ Sorted(inserted[1], up)
  <2>1. PICK s \in Seq(Int) : InsertList(r.at, x, arr) = <<s>> /\ Joins(s, x, arr, up)
    BY <1>4, BooksStaySorted
  <2>4. <<s>> # <<>> /\ <<s>>[1] = s
    OBVIOUS
  <2> QED
    BY <2>1, <2>4 DEF Joins
<1>5. up => (BinarySearch(arr, x) = IF r.found THEN r.at ELSE -1)
  <2> SUFFICES ASSUME up PROVE BinarySearch(arr, x) = IF r.found THEN r.at ELSE -1
    OBVIOUS
  <2>1. Sorted(arr, TRUE)
    OBVIOUS
  <2>2. PICK b : b = BinarySearch(arr, x) /\ Sought(b, arr, x)
    BY <2>1, SearchFinds
  <2>3. CASE ~ r.found
    <3>1. ~ (b \in 0 .. n - 1 /\ arr[b + 1] = x)
      <4>1. b \in 0 .. n - 1 => b + 1 \in 1 .. n
        BY <1>1
      <4> QED
        BY <1>1, <1>3, <2>3, <4>1
    <3>2. b = -1
      BY <1>1, <2>2, <3>1 DEF Sought
    <3> QED
      BY <2>2, <2>3, <3>2
  <2>4. CASE r.found
    <3>1. PICK k \in 0 .. n - 1 : k = r.at /\ arr[k + 1] = x
      BY <1>1, <1>2, <2>4 DEF Placed
    <3>2. k + 1 \in 1 .. n
      BY <1>1
    <3>3. b \in 0 .. n - 1 /\ arr[b + 1] = x
      BY <1>1, <2>2, <3>1, <3>2 DEF Sought
    <3>4. b + 1 \in 1 .. n
      BY <1>1, <3>3
    <3>5. b + 1 = k + 1
      <4>1. \A i, j \in 1 .. n : i < j => arr[i] < arr[j]
        BY <1>1, <2>1 DEF Sorted, Before
      <4>2. ~ (b + 1 < k + 1) /\ ~ (k + 1 < b + 1)
        <5>1. ~ (x < x)
          OBVIOUS
        <5> QED
          BY <3>1, <3>2, <3>3, <3>4, <4>1, <5>1
      <4> QED
        BY ONLY <4>2, <3>3, k \in 0 .. n - 1, n \in Nat
    <3>6. b = k
      BY ONLY <3>5, <3>3, k \in 0 .. n - 1, n \in Nat
    <3> QED
      BY <2>2, <2>4, <3>1, <3>6
  <2> QED
    BY <2>3, <2>4
<1>6. CleanOrderbookList([i \in DOMAIN arr |-> <<arr[i], 1, "id">>]) =
        <<[i \in DOMAIN arr |-> <<arr[i], 1>>]>>
  <2> DEFINE levels == [i \in DOMAIN arr |-> <<arr[i], 1, "id">>]
  <2>1. /\ DOMAIN levels = DOMAIN arr
        /\ \A i \in DOMAIN arr : Len(levels[i]) = 3 /\ levels[i][1] = arr[i] /\ levels[i][2] = 1
    OBVIOUS
  <2> HIDE DEF levels
  <2>2. ~ \E i \in DOMAIN levels : Len(levels[i]) < 2
    BY <2>1
  <2>3. [i \in DOMAIN levels |-> <<levels[i][1], levels[i][2]>>]
          = [i \in DOMAIN arr |-> <<arr[i], 1>>]
    BY <2>1
  <2>4. CleanOrderbookList(levels) = <<[i \in DOMAIN levels |-> <<levels[i][1], levels[i][2]>>]>>
    BY <2>2 DEF CleanOrderbookList
  <2>5. CleanOrderbookList(levels) = <<[i \in DOMAIN arr |-> <<arr[i], 1>>]>>
    BY <2>3, <2>4
  <2> QED
    BY <2>5 DEF levels
<1> QED
  BY <1>3, <1>4, <1>5, <1>6 DEF Found

\* Sequences of up to n members of a set.
LEMMA UpTo ==
  ASSUME NEW U, NEW S \in SUBSET U, NEW n \in Nat, NEW s \in SeqsUpTo(S, n)
  PROVE  s \in Seq(U) /\ s # <<>> /\ Len(s) \in 1 .. n
<1>1. PICK k \in 1 .. n : s \in [1 .. k -> S]
  BY DEF SeqsUpTo
<1>2. s \in [1 .. k -> U]
  BY <1>1
<1>3. s \in Seq(U) /\ Len(s) = k
  BY <1>2
<1> QED
  BY <1>3

\* A call of the bisections.
LEMMA SearchAgrees ==
  ASSUME Search
  PROVE  BookStaysSorted'
<1>0. PICK up \in BOOLEAN, x \in Cells : \E s \in SortedBooks(up) :
        Calls("search", [prices |-> s, target |-> x, ascending |-> up], InsertionIndex(s, x, up))
  BY DEF Search
<1>1. PICK s \in SortedBooks(up) :
        Calls("search", [prices |-> s, target |-> x, ascending |-> up], InsertionIndex(s, x, up))
  BY <1>0
<1>2. s \in Seq(Int) /\ x \in Int /\ Sorted(s, up)
  <2>1. s \in SeqsUpTo(Cells, MaxLevels) /\ Sorted(s, up)
    BY DEF SortedBooks
  <2>2. Cells \in SUBSET Int /\ MaxLevels \in Nat
    BY NumbersAssumption
  <2>3. s \in Seq(Int)
    BY <2>1, <2>2, UpTo
  <2> QED
    BY <2>1, <2>2, <2>3
<1>3. Found(s, x, up, InsertionIndex(s, x, up))
  BY <1>2, BookFound
<1>4. /\ call'.args = [prices |-> s, target |-> x, ascending |-> up]
      /\ result' = InsertionIndex(s, x, up)
  BY <1>1, Called
<1>5. call'.args.prices = s /\ call'.args.target = x /\ call'.args.ascending = up
  BY <1>4
<1>6. Found(call'.args.prices, call'.args.target, call'.args.ascending, result')
  BY <1>3, <1>4, <1>5
<1> QED
  BY <1>6 DEF BookStaysSorted, Found

-------------------------------------------------------------------------------
(* Columns filled down, shifted, cut and lengthened.                        *)

\* f fills the column, and what it is where the cells above are known.
Fills(f, column) ==
  f = [i \in DOMAIN column |-> IF column[i] = NaN /\ i > 1 THEN f[i - 1] ELSE column[i]]

\* forwardFill is such a function, if there is one.
LEMMA FillChosen ==
  ASSUME NEW column
  PROVE  FillDown(column) = CHOOSE f : Fills(f, column)
BY DEF FillDown, Fills

\* The last of some numbers.
LEMMA Latest ==
  ASSUME NEW n \in Nat, NEW s \in SUBSET (1 .. n), s # {}
  PROVE  \E k \in s : /\ \A h \in s : h <= k
                      /\ k = CHOOSE h \in s : \A g \in s : g <= h
<1>1. TopIndex(s) \in s /\ \A y \in s : TopIndex(s) >= y
  BY TopIn
<1>2. PICK k \in s : \A h \in s : h <= k
  BY <1>1
<1>3. PICK l : l = CHOOSE h \in s : \A g \in s : g <= h
  OBVIOUS
<1>4. l \in s /\ \A g \in s : g <= l
  BY <1>2, <1>3
<1> QED
  BY <1>3, <1>4

\* The cells of a column at or above i that are not missing, and the last of them.
Valid(column, i) == {h \in 1 .. i : column[h] # NaN}
Lasting(column, i) ==
  IF Valid(column, i) = {} THEN NaN
  ELSE column[CHOOSE h \in Valid(column, i) : \A g \in Valid(column, i) : g <= h]

\* Its recursion.
LEMMA LastingNext ==
  ASSUME NEW column, NEW n \in Nat, DOMAIN column = 1 .. n, NEW i \in 1 .. n
  PROVE  Lasting(column, i) =
           IF column[i] = NaN /\ i > 1 THEN Lasting(column, i - 1) ELSE column[i]
<1>1. CASE column[i] # NaN
  <2>1. i \in Valid(column, i) /\ Valid(column, i) \in SUBSET (1 .. n)
    BY <1>1 DEF Valid
  <2>2. PICK k \in Valid(column, i) :
          /\ \A h \in Valid(column, i) : h <= k
          /\ k = CHOOSE h \in Valid(column, i) : \A g \in Valid(column, i) : g <= h
    BY <2>1, Latest
  <2>3. k = i
    <3>1. i <= k /\ k \in 1 .. i
      BY <2>1, <2>2 DEF Valid
    <3> QED
      BY <3>1
  <2>4. Lasting(column, i) = column[k]
    BY <2>1, <2>2 DEF Lasting
  <2> QED
    BY <1>1, <2>3, <2>4
<1>2. CASE column[i] = NaN /\ i > 1
  <2>1. \A h \in 1 .. i : h = i \/ h \in 1 .. i - 1
    OBVIOUS
  <2>2. \A h \in 1 .. i - 1 : h \in 1 .. i /\ h # i
    OBVIOUS
  <2>3. Valid(column, i) = Valid(column, i - 1)
    BY <1>2, <2>1, <2>2 DEF Valid
  <2>4. Lasting(column, i) = Lasting(column, i - 1)
    BY <2>3 DEF Lasting
  <2> QED
    BY <1>2, <2>4
<1>3. CASE column[i] = NaN /\ ~ (i > 1)
  <2>1. i = 1 /\ 1 .. 1 = {1}
    BY <1>3
  <2>2. Valid(column, i) = {}
    BY <1>3, <2>1 DEF Valid
  <2> QED
    BY <1>3, <2>2 DEF Lasting
<1> QED
  BY <1>1, <1>2, <1>3

\* A column filled down has in each place the last value down to there
\* (forwardFill, Helper.cpp).
THEOREM FilledIsLasting ==
  ASSUME NEW column, NEW n \in Nat, DOMAIN column = 1 .. n
  PROVE  FillDown(column) = [i \in 1 .. n |-> Lasting(column, i)]
<1> DEFINE f == [i \in 1 .. n |-> Lasting(column, i)]
<1>1. Fills(f, column)
  <2>1. ASSUME NEW i \in 1 .. n
        PROVE  f[i] = IF column[i] = NaN /\ i > 1 THEN f[i - 1] ELSE column[i]
    <3>1. i > 1 => i - 1 \in 1 .. n
      OBVIOUS
    <3>2. Lasting(column, i) = IF column[i] = NaN /\ i > 1 THEN Lasting(column, i - 1)
                               ELSE column[i]
      BY LastingNext
    <3> QED
      BY <3>1, <3>2
  <2>2. f = [i \in 1 .. n |-> f[i]]
    OBVIOUS
  <2> HIDE DEF f
  <2>3. f = [i \in 1 .. n |-> IF column[i] = NaN /\ i > 1 THEN f[i - 1] ELSE column[i]]
    BY <2>1, <2>2
  <2> QED
    BY <2>3 DEF Fills
<1> HIDE DEF f
<1>2. ASSUME NEW g, Fills(g, column) PROVE g = f
  <2>1. /\ g = [i \in 1 .. n |-> g[i]]
        /\ \A i \in 1 .. n : g[i] = IF column[i] = NaN /\ i > 1 THEN g[i - 1] ELSE column[i]
    BY <1>2 DEF Fills
  <2>2. /\ f = [i \in 1 .. n |-> f[i]]
        /\ \A i \in 1 .. n : f[i] = IF column[i] = NaN /\ i > 1 THEN f[i - 1] ELSE column[i]
    BY <1>1 DEF Fills
  <2> DEFINE T == {k \in Nat : k + 1 <= n => g[k + 1] = f[k + 1]}
  <2>3. 0 \in T
    <3>1. 0 + 1 = 1 /\ ~ (1 > 1) /\ (0 + 1 <= n => 1 \in 1 .. n)
      OBVIOUS
    <3> QED
      BY <2>1, <2>2, <3>1
  <2>4. ASSUME NEW k \in T PROVE k + 1 \in T
    <3>1. k \in Nat /\ k + 1 \in Nat /\ k + 1 + 1 - 1 = k + 1
      OBVIOUS
    <3>2. CASE k + 1 + 1 <= n
      <4>1. g[k + 1] = f[k + 1] /\ k + 1 + 1 \in 1 .. n
        BY <3>1, <3>2
      <4>2. g[k + 1 + 1] = f[k + 1 + 1]
        <5>1. PICK h \in 1 .. n : h = k + 1 + 1 /\ h - 1 = k + 1
          BY <3>1, <4>1
        <5>2. g[h] = f[h]
          BY <2>1, <2>2, <4>1, <5>1
        <5> QED
          BY <5>1, <5>2
      <4> QED
        BY <3>1, <4>2
    <3> QED
      BY <3>1, <3>2
  <2>5. T = Nat
    <3>1. T \in SUBSET Nat
      OBVIOUS
    <3> HIDE DEF T
    <3> QED
      BY <2>3, <2>4, <3>1, Counting
  <2>6. ASSUME NEW i \in 1 .. n PROVE g[i] = f[i]
    <3>1. PICK k \in Nat : k + 1 = i
      <4>1. i - 1 \in Nat /\ i - 1 + 1 = i
        OBVIOUS
      <4> QED
        BY <4>1
    <3>2. k + 1 <= n
      BY <3>1
    <3>3. k \in T
      BY <2>5
    <3> QED
      BY <3>1, <3>2, <3>3
  <2> QED
    BY <2>1, <2>2, <2>6
<1>3. FillDown(column) = f
  BY <1>1, <1>2, FillChosen
<1> QED
  BY <1>3 DEF f

\* What RowsAligned says of a matrix and a shift.
Aligned(m, k, r) ==
  LET column(n, j) == [i \in DOMAIN n |-> n[i][j]]
  IN  /\ r = <<>> <=> k > Len(m) \/ - k > Len(m)
      /\ r # <<>> => \A j \in DOMAIN m[1] :
           /\ column(r[1], j) = ShiftVector(column(m, j), k, NaN)
           /\ ShiftVector(column(r[1], j), - k, NaN) =
                [i \in DOMAIN m |-> IF i + k \in DOMAIN m THEN m[i][j] ELSE NaN]
FilledRight(m) ==
  \A i \in DOMAIN m, j \in DOMAIN m[1] :
    LET above == {h \in 1..i : m[h][j] # NaN}
    IN  ForwardFill(m, 0)[i][j] =
          IF above = {} THEN NaN ELSE m[CHOOSE h \in above : \A g \in above : g <= h][j]
PaddedRight(m) ==
  LET cut == SliceCandles(m, 2, FALSE)
      padded == SameLength(m, cut)
  IN  /\ Len(padded) = Len(m) /\ MatricesEqualWithTolerance(padded, m, 0)
      /\ \A i \in DOMAIN m : i > Len(m) - 2 => padded[i] = m[i]

\* The shape of a sequence.
LEMMA SeqShape ==
  ASSUME NEW S, NEW s \in Seq(S)
  PROVE  /\ Len(s) \in Nat /\ DOMAIN s = 1 .. Len(s) /\ s = [i \in 1 .. Len(s) |-> s[i]]
         /\ \A i \in 1 .. Len(s) : s[i] \in S
         /\ s # <<>> => Len(s) > 0
OBVIOUS

\* The cells of a matrix.
LEMMA MatrixCells ==
  ASSUME NEW m, IsMatrix(m)
  PROVE  \E n \in Nat, c \in Nat :
           /\ n > 0 /\ c > 0 /\ n = Len(m) /\ DOMAIN m = 1 .. n /\ DOMAIN m[1] = 1 .. c
           /\ m = [i \in 1 .. n |-> m[i]]
           /\ \A i \in 1 .. n : DOMAIN m[i] = 1 .. c /\ Len(m[i]) = c
           /\ \A i \in 1 .. n : \A j \in 1 .. c : m[i][j] \in Int
<1>1. m \in Seq(Seq(Int)) /\ m # <<>> /\ m[1] # <<>> /\ \A i \in DOMAIN m : Len(m[i]) = Len(m[1])
  BY DEF IsMatrix
<1>0. /\ Len(m) \in Nat /\ DOMAIN m = 1 .. Len(m) /\ m = [i \in 1 .. Len(m) |-> m[i]]
      /\ \A i \in 1 .. Len(m) : m[i] \in Seq(Int)
      /\ m # <<>> => Len(m) > 0
  BY <1>1, SeqShape
<1>2. PICK n \in Nat : n = Len(m) /\ n > 0 /\ DOMAIN m = 1 .. n /\ m = [i \in 1 .. n |-> m[i]]
  BY ONLY <1>0, <1>1
<1>3. \A i \in 1 .. n : m[i] \in Seq(Int)
  BY <1>0, <1>2
<1>4. 1 \in 1 .. n
  BY <1>2
<1>5. m[1] \in Seq(Int)
  BY <1>3, <1>4
<1>6. PICK c \in Nat : c = Len(m[1]) /\ c > 0
  BY <1>1, <1>5
<1>7. ASSUME NEW i \in 1 .. n
      PROVE  DOMAIN m[i] = 1 .. c /\ Len(m[i]) = c /\ \A j \in 1 .. c : m[i][j] \in Int
  <2>1. PICK row \in Seq(Int) : row = m[i] /\ Len(row) = c
    BY <1>1, <1>2, <1>3, <1>6
  <2>2. DOMAIN row = 1 .. c /\ \A j \in 1 .. c : row[j] \in Int
    BY <2>1
  <2> QED
    BY <2>1, <2>2
<1>8. DOMAIN m[1] = 1 .. c
  BY <1>4, <1>7
<1> QED
  BY <1>2, <1>6, <1>7, <1>8

\* Columns are filled down.
LEMMA MatrixFilled ==
  ASSUME NEW m, IsMatrix(m)
  PROVE  FilledRight(m)
<1>1. PICK n \in Nat, c \in Nat : DOMAIN m = 1 .. n /\ DOMAIN m[1] = 1 .. c
  BY MatrixCells
<1> DEFINE column(j) == [i \in DOMAIN m |-> m[i][j]]
<1>2. ASSUME NEW i \in DOMAIN m, NEW j \in DOMAIN m[1]
      PROVE  ForwardFill(m, 0)[i][j] = Lasting(column(j), i)
  <2> DEFINE columns == [h \in DOMAIN m[1] |-> FillDown(column(h))]
  <2>1. ForwardFill(m, 0) = [h \in DOMAIN m |-> [g \in DOMAIN m[1] |-> columns[g][h]]]
    BY DEF ForwardFill
  <2>2. columns[j] = FillDown(column(j))
    OBVIOUS
  <2>3. DOMAIN column(j) = 1 .. n
    BY <1>1
  <2> HIDE DEF columns, column
  <2>4. ForwardFill(m, 0)[i][j] = columns[j][i]
    BY <2>1
  <2>5. FillDown(column(j)) = [h \in 1 .. n |-> Lasting(column(j), h)]
    BY <2>3, FilledIsLasting
  <2> QED
    BY <1>1, <2>2, <2>4, <2>5
<1>3. ASSUME NEW i \in DOMAIN m, NEW j \in DOMAIN m[1]
      PROVE  LET above == {h \in 1..i : m[h][j] # NaN}
             IN  Lasting(column(j), i) =
                   IF above = {} THEN NaN
                   ELSE m[CHOOSE h \in above : \A g \in above : g <= h][j]
  <2> DEFINE above == {h \in 1..i : m[h][j] # NaN}
  <2>1. \A h \in 1 .. i : h \in DOMAIN m
    BY <1>1
  <2>2. \A h \in 1 .. i : column(j)[h] = m[h][j]
    BY <2>1
  <2>3. Valid(column(j), i) = above
    BY <2>2 DEF Valid
  <2> HIDE DEF column
  <2>4. Lasting(column(j), i) =
          IF above = {} THEN NaN ELSE column(j)[CHOOSE h \in above : \A g \in above : g <= h]
    BY <2>3 DEF Lasting
  <2>5. ASSUME above # {}
        PROVE  column(j)[CHOOSE h \in above : \A g \in above : g <= h]
                 = m[CHOOSE h \in above : \A g \in above : g <= h][j]
    <3>1. above \in SUBSET (1 .. i) /\ i \in Nat
      BY <1>1
    <3> HIDE DEF above
    <3>2. PICK k \in above : k = CHOOSE h \in above : \A g \in above : g <= h
      BY <2>5, <3>1, Latest
    <3>3. column(j)[k] = m[k][j]
      BY <2>2, <3>1
    <3> QED
      BY <3>2, <3>3
  <2> QED
    BY <2>4, <2>5
<1> HIDE DEF column
<1> QED
  BY <1>2, <1>3 DEF FilledRight

\* Rows are shifted, and back.
LEMMA MatrixShifted ==
  ASSUME NEW m, IsMatrix(m), NEW k \in Int
  PROVE  Aligned(m, k, ShiftMatrix(m, k, NaN))
<1>1. PICK n \in Nat, c \in Nat :
        /\ n > 0 /\ n = Len(m) /\ DOMAIN m = 1 .. n /\ DOMAIN m[1] = 1 .. c
        /\ \A i \in 1 .. n : DOMAIN m[i] = 1 .. c
  BY MatrixCells
<1>2. PICK r : r = ShiftMatrix(m, k, NaN)
  OBVIOUS
<1>3. CASE k > n \/ - k > n
  <2>1. r = <<>>
    BY <1>1, <1>2, <1>3 DEF ShiftMatrix, Refused
  <2> QED
    BY <1>1, <1>2, <1>3, <2>1 DEF Aligned
<1>4. CASE ~ (k > n \/ - k > n)
  <2> DEFINE s == [i \in 1 .. n |-> IF i - k \in 1 .. n THEN m[i - k] ELSE [j \in 1 .. c |-> NaN]]
             column(a, j) == [i \in DOMAIN a |-> a[i][j]]
  <2>1. r = <<s>>
    BY <1>1, <1>2, <1>4 DEF ShiftMatrix
  <2>2. r # <<>> /\ r[1] = s
    <3> HIDE DEF s
    <3> QED
      BY <2>1
  <2>3. ASSUME NEW j \in 1 .. c, NEW i \in 1 .. n
        PROVE  s[i][j] = IF i - k \in 1 .. n THEN m[i - k][j] ELSE NaN
    OBVIOUS
  <2>4. DOMAIN s = 1 .. n
    OBVIOUS
  <2> HIDE DEF s
  <2>5. ASSUME NEW j \in 1 .. c
        PROVE  column(s, j) = ShiftVector(column(m, j), k, NaN)
    <3>1. ShiftVector(column(m, j), k, NaN) =
            [i \in 1 .. n |-> IF i - k \in 1 .. n THEN m[i - k][j] ELSE NaN]
      BY <1>1 DEF ShiftVector
    <3>2. column(s, j) = [i \in 1 .. n |-> IF i - k \in 1 .. n THEN m[i - k][j] ELSE NaN]
      BY <2>3, <2>4
    <3> QED
      BY <3>1, <3>2
  <2>6. ASSUME NEW j \in 1 .. c
        PROVE  ShiftVector(column(s, j), - k, NaN) =
                 [i \in DOMAIN m |-> IF i + k \in DOMAIN m THEN m[i][j] ELSE NaN]
    <3> DEFINE left(i) == IF i - (- k) \in 1 .. n THEN column(s, j)[i - (- k)] ELSE NaN
               right(i) == IF i + k \in 1 .. n THEN m[i][j] ELSE NaN
    <3>1. ShiftVector(column(s, j), - k, NaN) = [i \in 1 .. n |-> left(i)]
      BY <2>4 DEF ShiftVector
    <3>2. [i \in DOMAIN m |-> IF i + k \in DOMAIN m THEN m[i][j] ELSE NaN]
            = [i \in 1 .. n |-> right(i)]
      BY <1>1
    <3>3. ASSUME NEW i \in 1 .. n PROVE left(i) = right(i)
      <4>1. i - (- k) = i + k
        OBVIOUS
      <4>2. CASE i + k \in 1 .. n
        <5>1. PICK h \in 1 .. n : h = i + k /\ h - k = i
          BY <4>2
        <5>2. s[h][j] = m[i][j]
          BY <2>3, <5>1
        <5> QED
          BY <2>4, <4>1, <5>1, <5>2
      <4>3. CASE i + k \notin 1 .. n
        BY <4>1, <4>3
      <4> QED
        BY <4>2, <4>3
    <3> HIDE DEF left, right, column
    <3> QED
      BY <3>1, <3>2, <3>3
  <2>7. Aligned(m, k, r)
    BY <1>1, <1>4, <2>2, <2>5, <2>6 DEF Aligned
  <2> QED
    BY <1>2, <2>7
<1> QED
  BY <1>3, <1>4

\* What is cut off the front comes back as missing rows.
LEMMA MatrixPadded ==
  ASSUME NEW m, IsMatrix(m)
  PROVE  PaddedRight(m)
<1>1. PICK n \in Nat, c \in Nat :
        /\ n > 0 /\ c > 0 /\ n = Len(m) /\ DOMAIN m = 1 .. n /\ DOMAIN m[1] = 1 .. c
        /\ m = [i \in 1 .. n |-> m[i]]
        /\ \A i \in 1 .. n : DOMAIN m[i] = 1 .. c /\ Len(m[i]) = c
        /\ \A i \in 1 .. n : \A j \in 1 .. c : m[i][j] \in Int
  BY MatrixCells
<1>2. PICK cut : cut = SliceCandles(m, 2, FALSE)
  OBVIOUS
<1>3. PICK d \in Nat :
        /\ d = Len(m) - Len(cut) /\ d <= n /\ d = IF n > 2 THEN n - 2 ELSE 0
        /\ \A i \in 1 .. n : i > d => cut[i - d] = m[i]
  <2>1. CASE n > 2
    <3>1. PICK k \in Nat : k = n - 2 /\ n = k + 2
      BY <2>1
    <3>2. cut = SubSeq(m, k + 1, n)
      BY <1>1, <1>2, <2>1, <3>1 DEF SliceCandles
    <3>3. /\ Len(SubSeq(m, k + 1, n)) = IF k + 1 <= n THEN n - (k + 1) + 1 ELSE 0
          /\ \A i \in 1 .. n - (k + 1) + 1 : SubSeq(m, k + 1, n)[i] = m[k + 1 + i - 1]
      <4>1. \A i \in 1 .. n : m[i] \in Seq(Int)
        BY <1>1, SeqShape DEF IsMatrix
      <4>2. \A i \in k + 1 .. n : m[i] \in Seq(Int)
        BY <4>1
      <4>3. k + 1 \in Int /\ n \in Int
        OBVIOUS
      <4>4. /\ SubSeq(m, k + 1, n) \in Seq(Seq(Int))
            /\ Len(SubSeq(m, k + 1, n)) = IF k + 1 <= n THEN n - (k + 1) + 1 ELSE 0
            /\ \A i \in 1 .. n - (k + 1) + 1 : SubSeq(m, k + 1, n)[i] = m[k + 1 + i - 1]
        BY <4>2, <4>3, SubSeqProperties
      <4> QED
        BY <4>4
    <3>4. Len(cut) = 2 /\ n - (k + 1) + 1 = 2
      BY <3>1, <3>2, <3>3
    <3>5. ASSUME NEW i \in 1 .. n, i > k PROVE cut[i - k] = m[i]
      <4>1. PICK h \in 1 .. 2 : h = i - k
        BY <3>1, <3>5
      <4>2. k + 1 + h - 1 = i
        BY <4>1
      <4>3. cut[h] = m[k + 1 + h - 1]
        BY <3>2, <3>3, <3>4
      <4> QED
        BY <4>1, <4>2, <4>3
    <3>6. k = Len(m) - Len(cut) /\ k <= n
      BY <1>1, <3>1, <3>4
    <3> QED
      BY <2>1, <3>1, <3>5, <3>6
  <2>2. CASE ~ (n > 2)
    <3>1. cut = m
      BY <1>1, <1>2, <2>2 DEF SliceCandles
    <3>2. 0 = Len(m) - Len(cut) /\ \A i \in 1 .. n : cut[i - 0] = m[i]
      BY <1>1, <3>1
    <3> QED
      BY <2>2, <3>2
  <2> QED
    BY <2>1, <2>2
<1>4. PICK padded :
        /\ padded = SameLength(m, cut)
        /\ padded = [i \in 1 .. n |-> IF i <= d THEN [j \in 1 .. c |-> NaN] ELSE cut[i - d]]
  <2>1. SameLength(m, cut) =
          [i \in 1 .. n |-> IF i <= d THEN [j \in 1 .. c |-> NaN] ELSE cut[i - d]]
    BY <1>1, <1>3 DEF SameLength
  <2> QED
    BY <2>1
<1>5. /\ \A i \in 1 .. n : i <= d => padded[i] = [j \in 1 .. c |-> NaN]
      /\ \A i \in 1 .. n : i > d => padded[i] = m[i]
      /\ DOMAIN padded = 1 .. n /\ Len(padded) = n
  <2>1. ASSUME NEW i \in 1 .. n, i > d PROVE padded[i] = m[i]
    <3>1. ~ (i <= d)
      BY <2>1
    <3> QED
      BY <1>3, <1>4, <2>1, <3>1
  <2> QED
    BY <1>4, <2>1
<1>6. ASSUME NEW i \in 1 .. n
      PROVE  Len(padded[i]) = c /\ DOMAIN padded[i] = 1 .. c
  <2>1. i <= d \/ i > d
    OBVIOUS
  <2>2. PICK row : row = [j \in 1 .. c |-> NaN]
    OBVIOUS
  <2>3. row \in [1 .. c -> {NaN}]
    BY <2>2
  <2>4. Len(row) = c /\ DOMAIN row = 1 .. c
    BY <2>3
  <2> QED
    BY <1>1, <1>5, <2>1, <2>2, <2>4
<1>7. ASSUME NEW i \in 1 .. n, NEW j \in 1 .. c
      PROVE  padded[i][j] = NaN \/ padded[i][j] = m[i][j]
  <2>1. i <= d \/ i > d
    OBVIOUS
  <2> QED
    BY <1>5, <2>1
<1>8. MatricesEqualWithTolerance(padded, m, 0)
  <2> DEFINE apart(x, y) == x # NaN /\ y # NaN /\ (x - y > 0 \/ y - x > 0)
  <2>1. ASSUME NEW i \in 1 .. n, NEW j \in 1 .. c
        PROVE  ~ apart(padded[i][j], m[i][j])
    <3>1. PICK x \in Int : x = m[i][j]
      BY <1>1
    <3>2. ~ apart(x, x) /\ ~ apart(NaN, x)
      OBVIOUS
    <3> HIDE DEF apart
    <3> QED
      BY <1>7, <3>1, <3>2
  <2>2. Len(padded) = Len(m) /\ Len(padded[1]) = Len(m[1])
    <3>1. 1 \in 1 .. n
      BY <1>1
    <3> QED
      BY <1>1, <1>5, <1>6, <3>1
  <2>3. \A i \in DOMAIN padded : \A j \in DOMAIN padded[i] : ~ apart(padded[i][j], m[i][j])
    <3> HIDE DEF apart
    <3> QED
      BY <1>5, <1>6, <2>1
  <2> QED
    BY <2>2, <2>3 DEF MatricesEqualWithTolerance
<1>9. ASSUME NEW i \in 1 .. n, i > n - 2 PROVE padded[i] = m[i]
  <2>1. i > d
    BY <1>3, <1>9
  <2> QED
    BY <1>5, <2>1
<1>10. Len(padded) = Len(m)
  BY <1>1, <1>5
<1> QED
  BY <1>1, <1>2, <1>4, <1>8, <1>9, <1>10 DEF PaddedRight

\* A call of shift.
LEMMA ShiftAgrees ==
  ASSUME Shift
  PROVE  RowsAligned'
<1>1. PICK m \in Matrices, k \in Shifts :
        Calls("shift", [matrix |-> m, by |-> k], ShiftMatrix(m, k, NaN))
  BY DEF Shift
<1>2. IsMatrix(m) /\ k \in Int
  BY MatricesAssumption, NumbersAssumption
<1>3. call'.args = [matrix |-> m, by |-> k] /\ result' = ShiftMatrix(m, k, NaN)
  BY <1>1, Called
<1>4. call'.args.matrix = m /\ call'.args.by = k
  BY <1>3
<1>5. Aligned(m, k, result')
  BY <1>2, <1>3, MatrixShifted
<1>6. FilledRight(m) /\ PaddedRight(m)
  BY <1>2, MatrixFilled, MatrixPadded
<1>7. /\ Aligned(call'.args.matrix, call'.args.by, result')
      /\ FilledRight(call'.args.matrix) /\ PaddedRight(call'.args.matrix)
  BY <1>4, <1>5, <1>6
<1> QED
  BY <1>7 DEF RowsAligned, Aligned, FilledRight, PaddedRight

-------------------------------------------------------------------------------
(* What a side is trimmed to, by the unit of its first price.                *)

\* What TrimmedIsABook says of a side and what it was trimmed to.
IsTrimmed(levels, up, limit, out) ==
  LET held(i) == {j \in DOMAIN levels :
                    /\ ~ Before(out[i][1], levels[j][1], up)
                    /\ i > 1 => Before(out[i - 1][1], levels[j][1], up)}
  IN  /\ Len(out) <= limit
      /\ \A i \in DOMAIN out :
           /\ out[i][1] % PriceUnit(levels[1][1]) = 0
           /\ i > 1 => Before(out[i - 1][1], out[i][1], up)
           /\ held(i) # {}
      /\ Len(FixLen(out, 5)) = 5

\* The units, and their multiples.
LEMMA UnitDivides ==
  ASSUME NEW price, NEW m \in Int
  PROVE  PriceUnit(price) \in Nat \ {0} /\ (m * PriceUnit(price)) % PriceUnit(price) = 0
<1>1. PriceUnit(price) \in {1, 10, 100, 1000, 10000, 100000, 1000000}
  BY DEF PriceUnit
<1>2. /\ (m * 1) % 1 = 0 /\ (m * 10) % 10 = 0 /\ (m * 100) % 100 = 0 /\ (m * 1000) % 1000 = 0
      /\ (m * 10000) % 10000 = 0 /\ (m * 100000) % 100000 = 0 /\ (m * 1000000) % 1000000 = 0
  OBVIOUS
<1> QED
  BY <1>1, <1>2

\* A side of a book is trimmed to one, on prices at or behind the levels they
\* stand for (OrderbooksState::trim, Orderbook.cpp 162-228).
THEOREM TrimmedStaysABook ==
  ASSUME NEW up \in BOOLEAN, NEW levels, IsSide(levels, up), levels # <<>>, NEW limit \in Nat
  PROVE  IsTrimmed(levels, up, limit, TrimLevels(levels, up, limit, PriceUnit(levels[1][1])))
<1>1. PICK unit \in Nat \ {0} : unit = PriceUnit(levels[1][1])
  <2>1. 0 \in Int
    OBVIOUS
  <2> QED
    BY <2>1, UnitDivides
<1>2. PICK out : out = TrimLevels(levels, up, limit, unit)
  OBVIOUS
<1>3. out \in Seq(Int \X Int) /\ Len(out) <= limit
  BY <1>2, TrimmedIsASide
<1>4. \A i \in 1 .. Len(out) :
        Shows(levels, Len(levels), FrontPrice(out, i), out[i][1], out[i][2], up, unit)
  BY <1>2, TrimmedIsASide
<1>5. PICK n \in Nat, k \in Nat :
        /\ levels \in Seq(Int \X Int) /\ n = Len(levels) /\ DOMAIN levels = 1 .. n
        /\ k = Len(out) /\ DOMAIN out = 1 .. k
        /\ \A i \in 1 .. k : out[i][1] \in Int /\ out[i][2] \in Int
  <2>1. levels \in Seq(Int \X Int)
    BY DEF IsSide
  <2>2. /\ Len(levels) \in Nat /\ DOMAIN levels = 1 .. Len(levels)
        /\ Len(out) \in Nat /\ DOMAIN out = 1 .. Len(out)
        /\ \A i \in 1 .. Len(out) : out[i] \in Int \X Int
    BY <1>3, <2>1, SeqShape
  <2> QED
    BY <2>1, <2>2
<1> DEFINE held(i) == {j \in DOMAIN levels :
                         /\ ~ Before(out[i][1], levels[j][1], up)
                         /\ i > 1 => Before(out[i - 1][1], levels[j][1], up)}
<1>6. ASSUME NEW i \in 1 .. k
      PROVE  /\ out[i][1] % unit = 0
             /\ i > 1 => Before(out[i - 1][1], out[i][1], up)
             /\ held(i) # {}
  <2> DEFINE front == FrontPrice(out, i)
             b == Bucket(levels, n, front, out[i][1], up)
  <2>1. /\ \E m \in Int : out[i][1] = m * unit
        /\ front # <<>> => Before(front[1], out[i][1], up)
        /\ Holds(levels, b, front, out[i][2])
    BY <1>4, <1>5 DEF Shows
  <2>2. /\ i = 1 => front = <<>>
        /\ i > 1 => front # <<>> /\ front[1] = out[i - 1][1]
    <3>1. i > 1 => i # 1
      OBVIOUS
    <3> QED
      BY <3>1 DEF FrontPrice
  <2>3. b = held(i)
    <3>1. i = 1 \/ i > 1
      OBVIOUS
    <3>2. i = 1 => ~ (i > 1)
      OBVIOUS
    <3> HIDE DEF front
    <3> QED
      BY <1>5, <2>2, <3>1, <3>2 DEF Bucket
  <2>4. out[i][1] % unit = 0
    <3>1. PICK m \in Int : out[i][1] = m * PriceUnit(levels[1][1])
      BY <1>1, <2>1
    <3> QED
      BY <1>1, <3>1, UnitDivides
  <2>5. b # {}
    BY <2>1 DEF Holds
  <2> HIDE DEF front, b, held
  <2> QED
    BY <2>1, <2>2, <2>3, <2>4, <2>5
<1>7. Len(FixLen(out, 5)) = 5
  <2> DEFINE f == [i \in 1 .. 5 |-> IF i <= Len(out) THEN out[i] ELSE <<>>]
  <2>1. f \in [1 .. 5 -> {f[i] : i \in 1 .. 5}]
    OBVIOUS
  <2> HIDE DEF f
  <2>2. Len(f) = 5
    BY <2>1
  <2> QED
    BY <2>2 DEF FixLen, f
<1>8. IsTrimmed(levels, up, limit, out)
  <2>1. \A i \in DOMAIN out :
          /\ out[i][1] % PriceUnit(levels[1][1]) = 0
          /\ i > 1 => Before(out[i - 1][1], out[i][1], up)
          /\ held(i) # {}
    <3> HIDE DEF held
    <3> QED
      BY <1>1, <1>5, <1>6
  <2> QED
    BY <1>3, <1>7, <2>1 DEF IsTrimmed
<1> QED
  BY <1>1, <1>2, <1>8

\* A call of trim.
LEMMA TrimAgrees ==
  ASSUME Trim
  PROVE  TrimmedIsABook'
<1>0. PICK up \in BOOLEAN, limit \in Limits : \E levels \in IF up THEN Asks ELSE Bids :
        Calls("trim", [levels |-> levels, ascending |-> up, limit |-> limit],
              TrimLevels(levels, up, limit, PriceUnit(levels[1][1])))
  BY DEF Trim
<1>1. PICK levels \in IF up THEN Asks ELSE Bids :
        Calls("trim", [levels |-> levels, ascending |-> up, limit |-> limit],
              TrimLevels(levels, up, limit, PriceUnit(levels[1][1])))
  BY <1>0
<1>2. limit \in Nat
  BY NumbersAssumption
<1>3. levels # <<>> /\ IsSide(levels, up)
  BY SidesAssumption
<1>4. /\ call'.args = [levels |-> levels, ascending |-> up, limit |-> limit]
      /\ result' = TrimLevels(levels, up, limit, PriceUnit(levels[1][1]))
  BY <1>1, Called
<1>5. call'.args.levels = levels /\ call'.args.ascending = up /\ call'.args.limit = limit
  BY <1>4
<1>6. IsTrimmed(levels, up, limit, result')
  BY <1>2, <1>3, <1>4, TrimmedStaysABook
<1>7. IsTrimmed(call'.args.levels, call'.args.ascending, call'.args.limit, result')
  BY <1>5, <1>6
<1> QED
  BY <1>7 DEF TrimmedIsABook, IsTrimmed

-------------------------------------------------------------------------------
(* The candle of several minutes (generateCandleFromOneMinutes).            *)

\* Candles, and their volumes.
CandleSet == [time : Int, open : Int, close : Int, high : Int, low : Int, volume : Int]
Volumes(cs) == [i \in DOMAIN cs |-> cs[i].volume]

\* The candle that is made.
Joint(cs) ==
  [time |-> Head(cs).time, open |-> Head(cs).open, close |-> Last(cs).close,
   high |-> Max({cs[i].high : i \in DOMAIN cs}), low |-> Min({cs[i].low : i \in DOMAIN cs}),
   volume |-> SumFunction(Volumes(cs))]

\* A candle that says of n candles what there is to say.
Covers(r, cs, n) ==
  /\ r \in CandleSet
  /\ r.time = cs[1].time /\ r.open = cs[1].open /\ r.close = cs[n].close
  /\ \A i \in 1 .. n : cs[i].high <= r.high /\ r.low <= cs[i].low
  /\ \E i \in 1 .. n : cs[i].high = r.high
  /\ \E i \in 1 .. n : cs[i].low = r.low
  /\ r.volume = SumFunctionOnSet(Volumes(cs), 1 .. n)

\* Some numbers have a greatest one and a smallest one.
LEMMA Extreme ==
  ASSUME NEW n \in Nat, n > 0, NEW f, \A i \in 1 .. n : f[i] \in Int
  PROVE  /\ \E i \in 1 .. n : \A j \in 1 .. n : f[j] <= f[i]
         /\ \E i \in 1 .. n : \A j \in 1 .. n : f[i] <= f[j]
<1> DEFINE T == {k \in Nat : k + 1 <= n =>
                   /\ \E i \in 1 .. k + 1 : \A j \in 1 .. k + 1 : f[j] <= f[i]
                   /\ \E i \in 1 .. k + 1 : \A j \in 1 .. k + 1 : f[i] <= f[j]}
<1>1. 0 \in T
  <2>1. 0 + 1 = 1 /\ 1 .. 1 = {1} /\ 1 \in 1 .. n
    OBVIOUS
  <2>2. f[1] <= f[1]
    BY <2>1
  <2> QED
    BY <2>1, <2>2
<1>2. ASSUME NEW k \in T PROVE k + 1 \in T
  <2>1. k \in Nat /\ k + 1 \in Nat
    OBVIOUS
  <2>2. CASE k + 1 + 1 <= n
    <3>1. PICK h \in 1 .. k + 1, l \in 1 .. k + 1 :
            \A j \in 1 .. k + 1 : f[j] <= f[h] /\ f[l] <= f[j]
      BY <2>1, <2>2
    <3>2. PICK m \in 1 .. n : m = k + 1 + 1 /\ m \in 1 .. k + 1 + 1
      BY <2>1, <2>2
    <3>3. \A j \in 1 .. k + 1 + 1 : j \in 1 .. k + 1 \/ j = m
      BY <2>1, <3>2
    <3>4. \A j \in 1 .. k + 1 : j \in 1 .. k + 1 + 1 /\ j \in 1 .. n
      BY <2>1, <2>2
    <3>5. f[m] \in Int /\ f[h] \in Int /\ f[l] \in Int /\ \A j \in 1 .. k + 1 : f[j] \in Int
      BY <3>2, <3>4
    <3>6. \E i \in 1 .. k + 1 + 1 : \A j \in 1 .. k + 1 + 1 : f[j] <= f[i]
      <4>1. CASE f[m] <= f[h]
        <5>1. \A j \in 1 .. k + 1 + 1 : f[j] <= f[h]
          BY <3>1, <3>3, <4>1
        <5> QED
          BY <3>4, <5>1
      <4>2. CASE f[h] <= f[m]
        <5>1. \A j \in 1 .. k + 1 : f[j] <= f[m]
          BY <3>1, <3>5, <4>2
        <5>2. f[m] <= f[m]
          BY <3>5
        <5>3. \A j \in 1 .. k + 1 + 1 : f[j] <= f[m]
          BY <3>3, <5>1, <5>2
        <5> QED
          BY <3>2, <5>3
      <4> QED
        BY <3>5, <4>1, <4>2
    <3>7. \E i \in 1 .. k + 1 + 1 : \A j \in 1 .. k + 1 + 1 : f[i] <= f[j]
      <4>1. CASE f[l] <= f[m]
        <5>1. \A j \in 1 .. k + 1 + 1 : f[l] <= f[j]
          BY <3>1, <3>3, <4>1
        <5> QED
          BY <3>4, <5>1
      <4>2. CASE f[m] <= f[l]
        <5>1. \A j \in 1 .. k + 1 : f[m] <= f[j]
          BY <3>1, <3>5, <4>2
        <5>2. f[m] <= f[m]
          BY <3>5
        <5>3. \A j \in 1 .. k + 1 + 1 : f[m] <= f[j]
          BY <3>3, <5>1, <5>2
        <5> QED
          BY <3>2, <5>3
      <4> QED
        BY <3>5, <4>1, <4>2
    <3> QED
      BY <2>1, <3>6, <3>7
  <2> QED
    BY <2>1, <2>2
<1>3. T = Nat
  <2>1. T \in SUBSET Nat
    OBVIOUS
  <2> HIDE DEF T
  <2> QED
    BY <1>1, <1>2, <2>1, Counting
<1>4. PICK k \in Nat : k + 1 = n
  <2>1. n - 1 \in Nat /\ n - 1 + 1 = n
    OBVIOUS
  <2> QED
    BY <2>1
<1>5. k \in T
  BY <1>3
<1> QED
  BY <1>4, <1>5

\* They are what Max and Min of them return.
LEMMA MaxMin ==
  ASSUME NEW n \in Nat, n > 0, NEW f, \A i \in 1 .. n : f[i] \in Int,
         NEW S, S = {f[j] : j \in 1 .. n}
  PROVE  /\ \E i \in 1 .. n : f[i] = Max(S)
         /\ \A i \in 1 .. n : f[i] <= Max(S)
         /\ \E i \in 1 .. n : f[i] = Min(S)
         /\ \A i \in 1 .. n : Min(S) <= f[i]
<1>2. PICK h \in 1 .. n, l \in 1 .. n : \A j \in 1 .. n : f[j] <= f[h] /\ f[l] <= f[j]
  BY Extreme
<1>3. \A i \in 1 .. n : f[i] \in S
  OBVIOUS
<1>4. \A x \in S : \E i \in 1 .. n : f[i] = x
  OBVIOUS
<1>5. \E x \in S : \A y \in S : x >= y
  <2>1. \A y \in S : f[h] >= y
    BY <1>2, <1>4
  <2> QED
    BY <1>3, <2>1
<1>6. \E x \in S : \A y \in S : x <= y
  <2>1. \A y \in S : f[l] <= y
    BY <1>2, <1>4
  <2> QED
    BY <1>3, <2>1
<1>7. Max(S) \in S /\ \A y \in S : Max(S) >= y
  BY <1>5 DEF Max
<1>8. Min(S) \in S /\ \A y \in S : Min(S) <= y
  BY <1>6 DEF Min
<1>9. Max(S) \in Int /\ Min(S) \in Int
  BY <1>4, <1>7, <1>8
<1>10. \A i \in 1 .. n : f[i] <= Max(S) /\ Min(S) <= f[i]
  BY <1>3, <1>7, <1>8, <1>9
<1>11. (\E i \in 1 .. n : f[i] = Max(S)) /\ \E i \in 1 .. n : f[i] = Min(S)
  BY <1>4, <1>7, <1>8
<1> QED
  BY <1>10, <1>11

\* The sum over the first indices takes the next one in.
LEMMA SumNext ==
  ASSUME NEW a \in Nat, NEW f, \A i \in 1 .. a + 1 : f[i] \in Int
  PROVE  /\ SumFunctionOnSet(f, 1 .. a) \in Int /\ SumFunctionOnSet(f, 1 .. a + 1) \in Int
         /\ SumFunctionOnSet(f, 1 .. a + 1) = SumFunctionOnSet(f, 1 .. a) + f[a + 1]
<1>1. PICK S : S = 1 .. a
  OBVIOUS
<1>2. PICK y \in Nat : y = a + 1
  OBVIOUS
<1>3. 1 .. a + 1 = S \cup {y} /\ y \notin S
  BY <1>1, <1>2
<1>4. IsFiniteSet(S) /\ IsFiniteSet(1 .. a + 1)
  BY <1>1, FS_Interval
<1>5. \A i \in S \cup {y} : f[i] \in Int
  BY <1>3
<1>6. SumFunctionOnSet(f, S \cup {y}) = SumFunctionOnSet(f, S) + f[y]
  BY <1>3, <1>4, <1>5, SumMore, ZenonT(60)
<1>7. SumFunctionOnSet(f, S) \in Int /\ f[y] \in Int
  BY <1>4, <1>5, SumIsInt
<1>8. SumFunctionOnSet(f, 1 .. a + 1) = SumFunctionOnSet(f, 1 .. a) + f[a + 1]
  BY <1>1, <1>2, <1>3, <1>6
<1> QED
  BY <1>1, <1>3, <1>6, <1>7, <1>8

\* A sum over the first indices goes on behind k.
LEMMA SumBehind ==
  ASSUME NEW k \in Nat, NEW m \in Nat, NEW f, \A i \in 1 .. k + m : f[i] \in Int,
         NEW g, \A i \in 1 .. m : g[i] = f[k + i]
  PROVE  /\ SumFunctionOnSet(f, 1 .. k) \in Int /\ SumFunctionOnSet(g, 1 .. m) \in Int
         /\ SumFunctionOnSet(f, 1 .. k + m) =
              SumFunctionOnSet(f, 1 .. k) + SumFunctionOnSet(g, 1 .. m)
<1> DEFINE F(j) == SumFunctionOnSet(f, 1 .. j)
           G(j) == SumFunctionOnSet(g, 1 .. j)
           T == {j \in Nat : j <= m => G(j) \in Int /\ F(k + j) = F(k) + G(j)}
<1>1. F(k) \in Int
  <2>1. IsFiniteSet(1 .. k) /\ \A i \in 1 .. k : f[i] \in Int
    BY FS_Interval
  <2> QED
    BY <2>1, SumIsInt
<1>2. 0 \in T
  <2>1. 1 .. 0 = {} /\ k + 0 = k
    OBVIOUS
  <2>2. G(0) = 0
    BY <2>1, SumEmpty
  <2> HIDE DEF F, G
  <2> QED
    BY <1>1, <2>1, <2>2
<1>3. ASSUME NEW j \in T PROVE j + 1 \in T
  <2>1. j \in Nat /\ j + 1 \in Nat
    OBVIOUS
  <2>2. CASE j + 1 <= m
    <3>1. G(j) \in Int /\ F(k + j) = F(k) + G(j)
      BY <2>1, <2>2
    <3>2. \A h, a \in Nat : a + 1 <= h => /\ 1 .. a + 1 = (1 .. a) \cup {a + 1}
                                          /\ a + 1 \notin 1 .. a /\ a + 1 \in 1 .. h
      OBVIOUS
    <3>3. G(j + 1) = G(j) + g[j + 1] /\ g[j + 1] = f[k + j + 1] /\ f[k + j + 1] \in Int
      <4>1. g[j + 1] = f[k + (j + 1)] /\ k + (j + 1) = k + j + 1 /\ k + j + 1 \in 1 .. k + m
        BY <2>1, <2>2
      <4>2. \A i \in (1 .. j) \cup {j + 1} : g[i] \in Int
        <5>1. \A i \in 1 .. m : k + i \in 1 .. k + m
          OBVIOUS
        <5>2. \A i \in (1 .. j) \cup {j + 1} : i \in 1 .. m
          BY <2>1, <2>2
        <5> QED
          BY <5>1, <5>2
      <4>3. SumFunctionOnSet(g, 1 .. j + 1) = SumFunctionOnSet(g, 1 .. j) + g[j + 1]
        <5>1. \A i \in 1 .. j + 1 : g[i] \in Int
          BY <2>1, <4>2
        <5> QED
          BY <2>1, <5>1, SumNext
      <4> QED
        BY <4>1, <4>3
    <3>4. F(k + j + 1) = F(k + j) + f[k + j + 1]
      <4>1. PICK a \in Nat : a = k + j
        BY <2>1
      <4>2. \A i \in 1 .. a + 1 : f[i] \in Int
        BY <2>1, <2>2, <4>1
      <4>3. SumFunctionOnSet(f, 1 .. a + 1) = SumFunctionOnSet(f, 1 .. a) + f[a + 1]
        BY <4>2, SumNext
      <4> QED
        BY <4>1, <4>3
    <3> HIDE DEF F, G
    <3>5. G(j + 1) \in Int /\ F(k + j + 1) = F(k) + G(j + 1)
      <4>1. PICK x \in Int, y \in Int, z \in Int : x = F(k) /\ y = G(j) /\ z = f[k + j + 1]
        BY <1>1, <3>1, <3>3
      <4>2. G(j + 1) = y + z /\ F(k + j + 1) = x + y + z
        BY <3>1, <3>3, <3>4, <4>1
      <4>3. x + y + z = x + (y + z)
        OBVIOUS
      <4> QED
        BY <4>1, <4>2, <4>3
    <3>6. k + (j + 1) = k + j + 1
      BY <2>1
    <3> QED
      BY <2>1, <3>5, <3>6
  <2> QED
    BY <2>1, <2>2
<1>4. T = Nat
  <2>1. T \in SUBSET Nat
    OBVIOUS
  <2> HIDE DEF T
  <2> QED
    BY <1>2, <1>3, <2>1, Counting
<1>5. m \in T
  BY <1>4
<1> QED
  BY <1>1, <1>5

\* The candle that is made says it.
LEMMA JointCovers ==
  ASSUME NEW cs \in Seq(CandleSet), NEW n \in Nat, n = Len(cs), n > 0
  PROVE  Covers(Joint(cs), cs, n)
<1>1. DOMAIN cs = 1 .. n /\ \A i \in 1 .. n : cs[i] \in CandleSet
  BY SeqShape
<1>2. 1 \in 1 .. n /\ n \in 1 .. n
  OBVIOUS
<1>3. Head(cs) = cs[1] /\ Last(cs) = cs[n]
  BY <1>1, <1>2 DEF Last
<1>4. \A i \in 1 .. n : /\ cs[i].time \in Int /\ cs[i].open \in Int /\ cs[i].close \in Int
                        /\ cs[i].high \in Int /\ cs[i].low \in Int /\ cs[i].volume \in Int
  BY <1>1 DEF CandleSet
<1> DEFINE highs == [i \in 1 .. n |-> cs[i].high]
           lows == [i \in 1 .. n |-> cs[i].low]
<1>5. PICK h \in Int :
        /\ h = Max({cs[i].high : i \in DOMAIN cs})
        /\ \E i \in 1 .. n : cs[i].high = h
        /\ \A i \in 1 .. n : cs[i].high <= h
  <2>1. \A i \in 1 .. n : highs[i] \in Int /\ highs[i] = cs[i].high
    BY <1>4
  <2>2. PICK S : S = {cs[i].high : i \in DOMAIN cs}
    OBVIOUS
  <2>3. S = {highs[j] : j \in 1 .. n}
    BY <1>1, <2>1, <2>2
  <2> HIDE DEF highs
  <2>4. (\E i \in 1 .. n : highs[i] = Max(S)) /\ \A i \in 1 .. n : highs[i] <= Max(S)
    <3>1. PICK f : f = highs
      OBVIOUS
    <3>2. \A i \in 1 .. n : f[i] \in Int
      BY <2>1, <3>1
    <3>3. S = {f[j] : j \in 1 .. n}
      BY <2>3, <3>1
    <3>4. (\E i \in 1 .. n : f[i] = Max(S)) /\ \A i \in 1 .. n : f[i] <= Max(S)
      BY ONLY n \in Nat, n > 0, <3>2, <3>3, MaxMin, ZenonT(60)
    <3> QED
      BY <3>1, <3>4
  <2> QED
    BY <2>1, <2>2, <2>4
<1>6. PICK l \in Int :
        /\ l = Min({cs[i].low : i \in DOMAIN cs})
        /\ \E i \in 1 .. n : cs[i].low = l
        /\ \A i \in 1 .. n : l <= cs[i].low
  <2>1. \A i \in 1 .. n : lows[i] \in Int /\ lows[i] = cs[i].low
    BY <1>4
  <2>2. PICK S : S = {cs[i].low : i \in DOMAIN cs}
    OBVIOUS
  <2>3. S = {lows[j] : j \in 1 .. n}
    BY <1>1, <2>1, <2>2
  <2> HIDE DEF lows
  <2>4. (\E i \in 1 .. n : lows[i] = Min(S)) /\ \A i \in 1 .. n : Min(S) <= lows[i]
    <3>1. PICK f : f = lows
      OBVIOUS
    <3>2. \A i \in 1 .. n : f[i] \in Int
      BY <2>1, <3>1
    <3>3. S = {f[j] : j \in 1 .. n}
      BY <2>3, <3>1
    <3>4. (\E i \in 1 .. n : f[i] = Min(S)) /\ \A i \in 1 .. n : Min(S) <= f[i]
      BY ONLY n \in Nat, n > 0, <3>2, <3>3, MaxMin, ZenonT(60)
    <3> QED
      BY <3>1, <3>4
  <2> QED
    BY <2>1, <2>2, <2>4
<1>7. PICK v \in Int : v = SumFunction(Volumes(cs)) /\ v = SumFunctionOnSet(Volumes(cs), 1 .. n)
  <2>1. DOMAIN Volumes(cs) = 1 .. n /\ \A i \in 1 .. n : Volumes(cs)[i] \in Int
    BY <1>1, <1>4 DEF Volumes
  <2>2. SumFunction(Volumes(cs)) = SumFunctionOnSet(Volumes(cs), 1 .. n)
    BY <2>1 DEF SumFunction
  <2>3. IsFiniteSet(1 .. n)
    BY FS_Interval
  <2>4. SumFunctionOnSet(Volumes(cs), 1 .. n) \in Int
    BY <2>1, <2>3, SumIsInt
  <2> QED
    BY <2>2, <2>4
<1>8. PICK r : /\ r = Joint(cs)
               /\ r = [time |-> cs[1].time, open |-> cs[1].open, close |-> cs[n].close,
                       high |-> h, low |-> l, volume |-> v]
  BY <1>3, <1>5, <1>6, <1>7 DEF Joint
<1>9. r \in CandleSet
  BY <1>2, <1>4, <1>8 DEF CandleSet
<1>10. r.time = cs[1].time /\ r.open = cs[1].open /\ r.close = cs[n].close
  BY <1>8
<1>11. r.high = h /\ r.low = l /\ r.volume = v
  BY <1>8
<1>12. \A i \in 1 .. n : cs[i].high <= r.high /\ r.low <= cs[i].low
  BY <1>5, <1>6, <1>11
<1>13. (\E i \in 1 .. n : cs[i].high = r.high) /\ (\E i \in 1 .. n : cs[i].low = r.low)
  BY <1>5, <1>6, <1>11
<1>14. Covers(r, cs, n)
  BY <1>7, <1>9, <1>10, <1>11, <1>12, <1>13 DEF Covers
<1> QED
  BY <1>8, <1>14

\* There is only one candle that does.
LEMMA CoversOnce ==
  ASSUME NEW cs \in Seq(CandleSet), NEW n \in Nat, n = Len(cs), NEW r, NEW s,
         Covers(r, cs, n), Covers(s, cs, n)
  PROVE  r = s
<1>1. r \in CandleSet /\ s \in CandleSet
  BY DEF Covers
<1>2. \A i \in 1 .. n : cs[i] \in CandleSet
  BY SeqShape
<1>3. r.time = s.time /\ r.open = s.open /\ r.close = s.close /\ r.volume = s.volume
  BY DEF Covers
<1>4. r.high = s.high
  <2>1. PICK i \in 1 .. n, j \in 1 .. n : cs[i].high = r.high /\ cs[j].high = s.high
    BY DEF Covers
  <2>2. r.high <= s.high /\ s.high <= r.high
    BY <2>1 DEF Covers
  <2>3. r.high \in Int /\ s.high \in Int
    BY <1>1 DEF CandleSet
  <2> QED
    BY <2>2, <2>3
<1>5. r.low = s.low
  <2>1. PICK i \in 1 .. n, j \in 1 .. n : cs[i].low = r.low /\ cs[j].low = s.low
    BY DEF Covers
  <2>2. r.low <= s.low /\ s.low <= r.low
    BY <2>1 DEF Covers
  <2>3. r.low \in Int /\ s.low \in Int
    BY <1>1 DEF CandleSet
  <2> QED
    BY <2>2, <2>3
<1> QED
  BY <1>1, <1>3, <1>4, <1>5 DEF CandleSet

\* What two candles say of two parts, one candle of both says of the whole.
LEMMA CoversParts ==
  ASSUME NEW k \in Nat, NEW m \in Nat, k > 0, m > 0,
         NEW cs, \A i \in 1 .. k + m : cs[i] \in CandleSet, DOMAIN cs = 1 .. k + m,
         NEW a, DOMAIN a = 1 .. k, \A i \in 1 .. k : a[i] = cs[i],
         NEW b, DOMAIN b = 1 .. m, \A i \in 1 .. m : b[i] = cs[k + i],
         NEW p, NEW q, NEW r, Covers(p, a, k), Covers(q, b, m), Covers(r, <<p, q>>, 2)
  PROVE  Covers(r, cs, k + m)
<1>1. PICK n \in Nat : n = k + m
  OBVIOUS
<1>2. p \in CandleSet /\ q \in CandleSet /\ r \in CandleSet
  BY DEF Covers
<1>3. /\ p.high \in Int /\ p.low \in Int /\ p.volume \in Int
      /\ q.high \in Int /\ q.low \in Int /\ q.volume \in Int
      /\ r.high \in Int /\ r.low \in Int
      /\ \A i \in 1 .. n : cs[i].high \in Int /\ cs[i].low \in Int /\ cs[i].volume \in Int
  BY <1>1, <1>2 DEF CandleSet
<1>4. PICK w : w = <<p, q>> /\ w[1] = p /\ w[2] = q /\ DOMAIN w = 1 .. 2
  OBVIOUS
<1>5. Covers(r, w, 2) /\ 1 \in 1 .. 2 /\ 2 \in 1 .. 2 /\ \A i \in 1 .. 2 : i = 1 \/ i = 2
  BY <1>4
<1>6. /\ \A i \in 1 .. n : i \in 1 .. k \/ \E j \in 1 .. m : i = k + j
      /\ \A i \in 1 .. k : i \in 1 .. n
      /\ \A j \in 1 .. m : k + j \in 1 .. n
      /\ 1 \in 1 .. k /\ m \in 1 .. m
  <2>1. ASSUME NEW i \in 1 .. n, i \notin 1 .. k PROVE \E j \in 1 .. m : i = k + j
    <3>1. i - k \in 1 .. m /\ i = k + (i - k)
      BY <1>1, <2>1
    <3> QED
      BY <3>1
  <2>2. \A i \in 1 .. k : i \in 1 .. n
    BY <1>1
  <2>3. \A j \in 1 .. m : k + j \in 1 .. n
    BY <1>1
  <2> QED
    BY <2>1, <2>2, <2>3
<1>7. r.time = cs[1].time /\ r.open = cs[1].open /\ r.close = cs[n].close
  <2>1. r.time = p.time /\ r.open = p.open /\ r.close = q.close
    BY <1>4, <1>5 DEF Covers
  <2>2. p.time = a[1].time /\ p.open = a[1].open /\ q.close = b[m].close
    BY DEF Covers
  <2>3. a[1] = cs[1] /\ b[m] = cs[n]
    BY <1>1, <1>6
  <2> QED
    BY <2>1, <2>2, <2>3
<1>8. p.high <= r.high /\ q.high <= r.high /\ r.low <= p.low /\ r.low <= q.low
  BY <1>4, <1>5 DEF Covers
<1>9. \A i \in 1 .. n : cs[i].high <= r.high /\ r.low <= cs[i].low
  <2>1. SUFFICES ASSUME NEW i \in 1 .. n PROVE cs[i].high <= r.high /\ r.low <= cs[i].low
    OBVIOUS
  <2>2. CASE i \in 1 .. k
    <3>1. cs[i].high <= p.high /\ p.low <= cs[i].low
      BY <2>2 DEF Covers
    <3>2. PICK x \in Int, y \in Int, z \in Int :
            x = cs[i].high /\ y = p.high /\ z = r.high
      BY <1>3
    <3>3. PICK u \in Int, v \in Int, t \in Int :
            u = cs[i].low /\ v = p.low /\ t = r.low
      BY <1>3
    <3>4. x <= y /\ y <= z /\ t <= v /\ v <= u
      BY <1>8, <3>1, <3>2, <3>3
    <3>5. x <= z /\ t <= u
      BY ONLY <3>4, x \in Int, y \in Int, z \in Int, u \in Int, v \in Int, t \in Int
    <3> QED
      BY <3>2, <3>3, <3>5
  <2>3. CASE \E j \in 1 .. m : i = k + j
    <3>1. cs[i].high <= q.high /\ q.low <= cs[i].low
      BY <2>3 DEF Covers
    <3>2. PICK x \in Int, y \in Int, z \in Int :
            x = cs[i].high /\ y = q.high /\ z = r.high
      BY <1>3
    <3>3. PICK u \in Int, v \in Int, t \in Int :
            u = cs[i].low /\ v = q.low /\ t = r.low
      BY <1>3
    <3>4. x <= y /\ y <= z /\ t <= v /\ v <= u
      BY <1>8, <3>1, <3>2, <3>3
    <3>5. x <= z /\ t <= u
      BY ONLY <3>4, x \in Int, y \in Int, z \in Int, u \in Int, v \in Int, t \in Int
    <3> QED
      BY <3>2, <3>3, <3>5
  <2> QED
    BY <1>6, <2>2, <2>3
<1>10. \E i \in 1 .. n : cs[i].high = r.high
  <2>1. r.high = p.high \/ r.high = q.high
    BY <1>4, <1>5 DEF Covers
  <2>2. PICK i \in 1 .. k, j \in 1 .. m : cs[i].high = p.high /\ cs[k + j].high = q.high
    BY DEF Covers
  <2> QED
    BY <1>6, <2>1, <2>2
<1>11. \E i \in 1 .. n : cs[i].low = r.low
  <2>1. r.low = p.low \/ r.low = q.low
    BY <1>4, <1>5 DEF Covers
  <2>2. PICK i \in 1 .. k, j \in 1 .. m : cs[i].low = p.low /\ cs[k + j].low = q.low
    BY DEF Covers
  <2> QED
    BY <1>6, <2>1, <2>2
<1>12. r.volume = SumFunctionOnSet(Volumes(cs), 1 .. n)
  <2>1. PICK f : f = Volumes(cs) /\ \A i \in 1 .. n : f[i] = cs[i].volume
    <3>1. \A i \in 1 .. n : Volumes(cs)[i] = cs[i].volume
      BY <1>1 DEF Volumes
    <3> QED
      BY <3>1
  <2>2. PICK g : g = Volumes(b) /\ \A i \in 1 .. m : g[i] = f[k + i]
    <3>1. \A i \in 1 .. m : Volumes(b)[i] = b[i].volume
      BY DEF Volumes
    <3>2. ASSUME NEW i \in 1 .. m PROVE Volumes(b)[i] = f[k + i]
      <4>1. PICK j \in 1 .. n : j = k + i
        BY <1>6
      <4>2. f[j] = cs[j].volume /\ b[i] = cs[j]
        BY <2>1, <4>1
      <4> QED
        BY <3>1, <4>1, <4>2
    <3> QED
      BY <3>2
  <2>3. SumFunctionOnSet(Volumes(a), 1 .. k) = SumFunctionOnSet(f, 1 .. k)
    <3>1. \A i \in 1 .. k : Volumes(a)[i] = f[i]
      BY <1>6, <2>1 DEF Volumes
    <3>2. IsFiniteSet(1 .. k)
      BY FS_Interval
    <3> QED
      BY <3>1, <3>2, SumSame
  <2>4. \A i \in 1 .. k + m : f[i] \in Int
    BY <1>1, <1>3, <2>1
  <2>5. SumFunctionOnSet(f, 1 .. k + m) =
          SumFunctionOnSet(f, 1 .. k) + SumFunctionOnSet(g, 1 .. m)
    BY ONLY k \in Nat, m \in Nat, <2>2, <2>4, SumBehind
  <2>6. PICK v : /\ v = Volumes(w) /\ v[1] = p.volume /\ v[2] = q.volume
                 /\ r.volume = SumFunctionOnSet(v, 1 .. 2)
    BY <1>4, <1>5 DEF Volumes, Covers
  <2>7. SumFunctionOnSet(v, 1 .. 2) = p.volume + q.volume
    <3>1. \A i \in 1 .. 1 + 1 : v[i] \in Int
      BY <1>3, <2>6
    <3>2. \A i \in 1 .. 0 + 1 : v[i] \in Int
      BY <1>3, <2>6
    <3>3. SumFunctionOnSet(v, 1 .. 1 + 1) = SumFunctionOnSet(v, 1 .. 1) + v[1 + 1]
      BY <3>1, SumNext
    <3>4. SumFunctionOnSet(v, 1 .. 0 + 1) = SumFunctionOnSet(v, 1 .. 0) + v[0 + 1]
      BY <3>2, SumNext
    <3>5. 1 .. 0 = {} /\ 1 + 1 = 2 /\ 0 + 1 = 1
      OBVIOUS
    <3>6. SumFunctionOnSet(v, 1 .. 0) = 0
      BY <3>5, SumEmpty
    <3> QED
      BY <1>3, <2>6, <3>3, <3>4, <3>5, <3>6
  <2>8. /\ p.volume = SumFunctionOnSet(Volumes(a), 1 .. k)
        /\ q.volume = SumFunctionOnSet(g, 1 .. m)
    BY <2>2 DEF Covers
  <2> QED
    BY <1>1, <2>1, <2>3, <2>5, <2>6, <2>7, <2>8
<1>13. Covers(r, cs, n)
  BY <1>2, <1>7, <1>9, <1>10, <1>11, <1>12 DEF Covers
<1> QED
  BY <1>1, <1>13

\* A minute without trades behind them says nothing new.
LEMMA CoversIdle ==
  ASSUME NEW n \in Nat, n > 0, NEW cs, DOMAIN cs = 1 .. n,
         \A i \in 1 .. n : cs[i] \in CandleSet, Shaped(cs[n]),
         NEW e, DOMAIN e = 1 .. n + 1, \A i \in 1 .. n : e[i] = cs[i],
         e[n + 1] = EmptyCandleFromPreviousCandle(cs[n], 1),
         NEW r, Covers(r, cs, n)
  PROVE  Covers(r, e, n + 1)
<1>1. PICK m \in Nat : m = n + 1
  OBVIOUS
<1>2. 1 \in 1 .. n /\ n \in 1 .. n /\ (\A i \in 1 .. m : i \in 1 .. n \/ i = m)
      /\ m \in 1 .. m /\ \A i \in 1 .. n : i \in 1 .. m
  BY <1>1
<1>3. PICK c : c = cs[n] /\ c \in CandleSet /\ Shaped(c)
  BY <1>2
<1>4. e[m].close = c.close /\ e[m].high = c.close /\ e[m].low = c.close /\ e[m].volume = 0
  BY <1>1, <1>3 DEF EmptyCandleFromPreviousCandle
<1>5. /\ r \in CandleSet /\ r.high \in Int /\ r.low \in Int
      /\ c.high \in Int /\ c.low \in Int /\ c.close \in Int
  BY <1>3 DEF Covers, CandleSet
<1>6. c.high <= r.high /\ r.low <= c.low /\ c.low <= c.close /\ c.close <= c.high
  BY <1>2, <1>3 DEF Covers, Shaped
<1>7. r.time = e[1].time /\ r.open = e[1].open /\ r.close = e[m].close
  BY <1>2, <1>3, <1>4 DEF Covers
<1>8. \A i \in 1 .. m : e[i].high <= r.high /\ r.low <= e[i].low
  <2>1. \A i \in 1 .. n : e[i].high <= r.high /\ r.low <= e[i].low
    BY DEF Covers
  <2>2. e[m].high <= r.high /\ r.low <= e[m].low
    BY <1>4, <1>5, <1>6
  <2> QED
    BY <1>2, <2>1, <2>2
<1>9. (\E i \in 1 .. m : e[i].high = r.high) /\ \E i \in 1 .. m : e[i].low = r.low
  BY <1>2 DEF Covers
<1>10. r.volume = SumFunctionOnSet(Volumes(e), 1 .. m)
  <2>1. PICK f : f = Volumes(e) /\ \A i \in 1 .. m : f[i] = e[i].volume
    <3>1. \A i \in 1 .. m : Volumes(e)[i] = e[i].volume
      BY <1>1 DEF Volumes
    <3> QED
      BY <3>1
  <2>2. \A i \in 1 .. n : f[i] = Volumes(cs)[i] /\ f[i] \in Int
    BY <1>2, <2>1 DEF Volumes, CandleSet
  <2>3. f[m] = 0
    BY <1>2, <1>4, <2>1
  <2>4. IsFiniteSet(1 .. n)
    BY FS_Interval
  <2>5. SumFunctionOnSet(f, 1 .. n) = SumFunctionOnSet(Volumes(cs), 1 .. n)
    BY <2>2, <2>4, SumSame
  <2>6. \A i \in 1 .. n + 1 : f[i] \in Int
    BY <1>1, <1>2, <2>2, <2>3
  <2>7. /\ SumFunctionOnSet(f, 1 .. n) \in Int
        /\ SumFunctionOnSet(f, 1 .. n + 1) = SumFunctionOnSet(f, 1 .. n) + f[n + 1]
    BY <2>6, SumNext
  <2>8. SumFunctionOnSet(f, 1 .. m) = SumFunctionOnSet(f, 1 .. n)
    BY <1>1, <2>3, <2>7
  <2> QED
    BY <2>1, <2>5, <2>8 DEF Covers
<1>11. Covers(r, e, m)
  BY <1>5, <1>7, <1>8, <1>9, <1>10 DEF Covers
<1> QED
  BY <1>1, <1>11

\* The candle of shaped candles is shaped.
LEMMA CoversShaped ==
  ASSUME NEW n \in Nat, n > 0, NEW cs, \A i \in 1 .. n : cs[i] \in CandleSet /\ Shaped(cs[i]),
         NEW r, Covers(r, cs, n)
  PROVE  Shaped(r)
<1>1. 1 \in 1 .. n /\ n \in 1 .. n
  OBVIOUS
<1>2. PICK a, z : a = cs[1] /\ z = cs[n]
  OBVIOUS
<1>3. /\ a.open \in Int /\ a.high \in Int /\ a.low \in Int
      /\ z.close \in Int /\ z.high \in Int /\ z.low \in Int
      /\ r.high \in Int /\ r.low \in Int
  BY <1>1, <1>2 DEF CandleSet, Covers
<1>4. r.open = a.open /\ r.close = z.close
  BY <1>2 DEF Covers
<1>5. a.high <= r.high /\ r.low <= a.low /\ z.high <= r.high /\ r.low <= z.low
  BY <1>1, <1>2 DEF Covers
<1>6. a.low <= a.open /\ a.open <= a.high /\ z.low <= z.close /\ z.close <= z.high
  BY <1>1, <1>2 DEF Shaped
<1> QED
  BY <1>3, <1>4, <1>5, <1>6 DEF Shaped

\* The generator starts with numbers.
LEMMA ResetsTyped ==
  ASSUME NEW g \in Resets
  PROVE  g \in [time : Int, open : Int, close : Int, high : Int, low : Int]
<1> DEFINE R(o, c, h) == [time |-> Start, open |-> o, close |-> c, high |-> h, low |-> Lower(o, c)]
<1>1. CASE g = [time |-> Start, open |-> 40, close |-> 40, high |-> 40, low |-> 40]
  BY <1>1 DEF Start
<1>2. CASE \E o \in RandInt(40, 100), c \in {110, 30} :
             g \in {R(o, c, h) : h \in {Higher(o, c), Higher(o, c) + 10}}
  <2>1. PICK o \in RandInt(40, 100), c \in {110, 30} :
          g \in {R(o, c, h) : h \in {Higher(o, c), Higher(o, c) + 10}}
    BY <1>2
  <2>2. PICK h \in {Higher(o, c), Higher(o, c) + 10} : g = R(o, c, h)
    BY <2>1
  <2>3. o \in Int /\ c \in Int /\ h \in Int /\ Lower(o, c) \in Int /\ Start \in Int
    BY DEF RandInt, Higher, Lower, Start
  <2> QED
    BY <2>2, <2>3
<1>3. g = [time |-> Start, open |-> 40, close |-> 40, high |-> 40, low |-> 40]
        \/ \E o \in RandInt(40, 100), c \in {110, 30} :
             g \in {R(o, c, h) : h \in {Higher(o, c), Higher(o, c) + 10}}
  <2> DEFINE A(o, c) == {R(o, c, h) : h \in {Higher(o, c), Higher(o, c) + 10}}
             F == {A(o, c) : o \in RandInt(40, 100), c \in {110, 30}}
  <2>1. Resets =
          (UNION F) \cup {[time |-> Start, open |-> 40, close |-> 40, high |-> 40, low |-> 40]}
    BY DEF Resets
  <2>2. \A X \in F : \E o \in RandInt(40, 100), c \in {110, 30} : X = A(o, c)
    OBVIOUS
  <2> HIDE DEF A, F
  <2>3. CASE g \in UNION F
    <3>1. PICK X \in F : g \in X
      BY <2>3
    <3>2. \E o \in RandInt(40, 100), c \in {110, 30} : g \in A(o, c)
      BY <2>2, <3>1
    <3> QED
      BY <3>2 DEF A
  <2>4. g \in UNION F \/ g = [time |-> Start, open |-> 40, close |-> 40, high |-> 40, low |-> 40]
    <3> DEFINE z == [time |-> Start, open |-> 40, close |-> 40, high |-> 40, low |-> 40]
    <3>1. Resets = (UNION F) \cup {z}
      BY <2>1
    <3> HIDE DEF z
    <3>2. g \in UNION F \/ g = z
      BY <3>1
    <3> QED
      BY <3>2 DEF z
  <2> QED
    BY <2>3, <2>4
<1> QED
  BY <1>1, <1>2, <1>3

\* Candles made of close prices are candles.
LEMMA CloseCandles ==
  ASSUME NEW g, g.time \in Int, NEW n \in Nat, NEW prices \in [1 .. n -> Int],
         NEW volumes \in [1 .. n -> Int]
  PROVE  /\ CandlesFromClosePrices(g, prices, volumes) \in [1 .. n -> CandleSet]
         /\ \A i \in 1 .. n : Shaped(CandlesFromClosePrices(g, prices, volumes)[i])
<1> DEFINE open(i) == IF i = 1 THEN prices[1] - 1 ELSE prices[i - 1]
           cs == CandlesFromClosePrices(g, prices, volumes)
<1>1. cs = [i \in 1 .. n |->
         [time |-> g.time + i, open |-> open(i), close |-> prices[i],
          high |-> Higher(open(i), prices[i]), low |-> Lower(open(i), prices[i]),
          volume |-> volumes[i]]]
  BY DEF CandlesFromClosePrices
<1>2. ASSUME NEW i \in 1 .. n PROVE cs[i] \in CandleSet /\ Shaped(cs[i])
  <2>1. open(i) \in Int
    <3>1. CASE i = 1
      BY <3>1
    <3>2. CASE i # 1
      <4>1. i - 1 \in 1 .. n
        BY <3>2
      <4> QED
        BY <3>2, <4>1
    <3> QED
      BY <3>1, <3>2
  <2>2. PICK o \in Int, p \in Int, v \in Int : o = open(i) /\ p = prices[i] /\ v = volumes[i]
    BY <2>1
  <2>3. cs[i] = [time |-> g.time + i, open |-> o, close |-> p, high |-> Higher(o, p),
                 low |-> Lower(o, p), volume |-> v]
    BY <1>1, <2>2
  <2>4. g.time + i \in Int /\ Higher(o, p) \in Int /\ Lower(o, p) \in Int
    BY DEF Higher, Lower
  <2>5. Lower(o, p) <= o /\ Lower(o, p) <= p /\ o <= Higher(o, p) /\ p <= Higher(o, p)
    BY DEF Higher, Lower
  <2> HIDE DEF cs
  <2> QED
    BY <2>3, <2>4, <2>5 DEF CandleSet, Shaped
<1>3. DOMAIN cs = 1 .. n /\ cs = [i \in 1 .. n |-> cs[i]]
  BY <1>1
<1> HIDE DEF cs
<1>4. cs \in [1 .. n -> CandleSet]
  BY <1>2, <1>3
<1>5. \A i \in 1 .. n : Shaped(cs[i])
  BY <1>2
<1> QED
  BY <1>4, <1>5 DEF cs

\* What AggregationComposes says of the candle that is made.
Aggregated(candles, r) ==
  LET n == Len(candles)
      part(a, b) == CandleFromOneMinutes(b - a + 1, SubSeq(candles, a, b), FALSE)[1]
      idle == EmptyCandleFromPreviousCandle(Last(candles), 1)
  IN  /\ Shaped(r[1]) /\ \A i \in DOMAIN candles : Shaped(candles[i])
      /\ \A k \in 1 .. n - 1 :
           r = CandleFromOneMinutes(2, <<part(1, k), part(k + 1, n)>>, FALSE)
      /\ CandleFromOneMinutes(n + 1, Append(candles, idle), FALSE) = r
      /\ CandleFromOneMinutes(n + 1, candles, FALSE) = <<>>
      /\ CandleFromOneMinutes(n + 1, candles, TRUE) = r

\* generateCandleFromOneMinutes returns it, unless candles are missing.
LEMMA FromOneMinutes ==
  ASSUME NEW cs, NEW minutes, NEW forming, forming \/ Len(cs) = minutes
  PROVE  CandleFromOneMinutes(minutes, cs, forming) = <<Joint(cs)>>
BY DEF CandleFromOneMinutes, Joint, Volumes

\* The candle of several minutes is the same whether it is made of the minutes or
\* of the candles of two parts, also if no trades follow for a minute, and too
\* few candles are refused unless the candle may be forming
\* (generateCandleFromOneMinutes).
THEOREM CandlesCompose ==
  ASSUME NEW cs \in Seq(CandleSet), cs # <<>>, \A i \in DOMAIN cs : Shaped(cs[i])
  PROVE  Aggregated(cs, CandleFromOneMinutes(Len(cs), cs, FALSE))
<1>1. PICK n \in Nat : n = Len(cs) /\ n > 0 /\ DOMAIN cs = 1 .. n
  <2>1. Len(cs) \in Nat /\ Len(cs) > 0 /\ DOMAIN cs = 1 .. Len(cs)
    OBVIOUS
  <2> QED
    BY <2>1
<1>2. \A i \in 1 .. n : cs[i] \in CandleSet /\ Shaped(cs[i])
  BY <1>1, SeqShape
<1>3. PICK j : j = Joint(cs) /\ Covers(j, cs, n)
  BY <1>1, JointCovers
<1>4. PICK r : r = <<j>> /\ r = CandleFromOneMinutes(n, cs, FALSE) /\ r[1] = j
  <2>1. CandleFromOneMinutes(n, cs, FALSE) = <<j>>
    BY <1>1, <1>3, FromOneMinutes
  <2>2. <<j>> = CandleFromOneMinutes(n, cs, FALSE) /\ <<j>>[1] = j
    BY <2>1
  <2> QED
    BY <2>2
<1>5. Shaped(r[1])
  BY <1>1, <1>2, <1>3, <1>4, CoversShaped
<1>6. ASSUME NEW k \in 1 .. n - 1
      PROVE  r = CandleFromOneMinutes(2,
                   <<CandleFromOneMinutes(k - 1 + 1, SubSeq(cs, 1, k), FALSE)[1],
                     CandleFromOneMinutes(n - (k + 1) + 1, SubSeq(cs, k + 1, n), FALSE)[1]>>,
                   FALSE)
  <2>1. PICK m \in Nat : m = n - k /\ m > 0 /\ k + m = n
    <3>1. n - k \in Nat /\ n - k > 0 /\ k + (n - k) = n
      BY <1>1
    <3> QED
      BY <3>1
  <2>2. k \in Nat /\ k > 0 /\ k - 1 + 1 = k /\ n - (k + 1) + 1 = m
    BY <1>1, <2>1
  <2>3. PICK a : /\ a = SubSeq(cs, 1, k) /\ a \in Seq(CandleSet) /\ Len(a) = k
                 /\ \A i \in 1 .. k : a[i] = cs[i]
    <3>1. 1 \in 1 .. n + 1 /\ k \in 0 .. n /\ 1 \in Int /\ k \in Int
      BY <1>1, <2>2
    <3>2. /\ SubSeq(cs, 1, k) \in Seq(CandleSet) /\ Len(SubSeq(cs, 1, k)) = k
          /\ \A i \in 1 .. k : SubSeq(cs, 1, k)[i] = cs[i]
      BY <1>1, <2>2, <3>1
    <3> QED
      BY <3>2
  <2>4. PICK b : /\ b = SubSeq(cs, k + 1, n) /\ b \in Seq(CandleSet) /\ Len(b) = m
                 /\ \A i \in 1 .. m : b[i] = cs[k + i]
    <3>1. /\ SubSeq(cs, k + 1, n) \in Seq(CandleSet) /\ Len(SubSeq(cs, k + 1, n)) = m
          /\ \A i \in 1 .. m : SubSeq(cs, k + 1, n)[i] = cs[k + i]
      BY <1>1, <2>1, <2>2
    <3> QED
      BY <3>1
  <2>5. PICK p : p = CandleFromOneMinutes(k, a, FALSE)[1] /\ Covers(p, a, k)
    <3>1. CandleFromOneMinutes(k, a, FALSE) = <<Joint(a)>>
      BY <2>3, FromOneMinutes
    <3>2. Covers(Joint(a), a, k)
      BY <2>2, <2>3, JointCovers
    <3>3. <<Joint(a)>>[1] = Joint(a)
      OBVIOUS
    <3> QED
      BY ONLY <3>1, <3>2, <3>3
  <2>6. PICK q : q = CandleFromOneMinutes(m, b, FALSE)[1] /\ Covers(q, b, m)
    <3>1. CandleFromOneMinutes(m, b, FALSE) = <<Joint(b)>>
      BY <2>4, FromOneMinutes
    <3>2. Covers(Joint(b), b, m)
      BY <2>1, <2>4, JointCovers
    <3>3. <<Joint(b)>>[1] = Joint(b)
      OBVIOUS
    <3> QED
      BY ONLY <3>1, <3>2, <3>3
  <2>7. PICK w : w = <<p, q>> /\ w \in Seq(CandleSet) /\ Len(w) = 2
    <3>1. p \in CandleSet /\ q \in CandleSet
      BY <2>5, <2>6 DEF Covers
    <3>2. <<p, q>> \in Seq(CandleSet) /\ Len(<<p, q>>) = 2
      BY <3>1
    <3> QED
      BY <3>2
  <2>8. PICK s : s = Joint(w) /\ Covers(s, w, 2)
    <3>1. Covers(Joint(w), w, 2)
      <4>1. 2 \in Nat /\ 2 > 0
        OBVIOUS
      <4> QED
        BY ONLY <2>7, <4>1, JointCovers
    <3> QED
      BY <3>1
  <2>9. Covers(s, cs, n)
    <3>1. DOMAIN a = 1 .. k /\ DOMAIN b = 1 .. m
      BY <2>3, <2>4
    <3>2. \A i \in 1 .. k + m : cs[i] \in CandleSet
      BY <1>2, <2>1
    <3>3. DOMAIN cs = 1 .. k + m
      BY <1>1, <2>1
    <3>4. Covers(s, cs, k + m)
      <4>1. (\A i \in 1 .. k : a[i] = cs[i]) /\ (\A i \in 1 .. m : b[i] = cs[k + i])
        BY <2>3, <2>4
      <4>2. Covers(p, a, k) /\ Covers(q, b, m) /\ Covers(s, <<p, q>>, 2)
        BY <2>5, <2>6, <2>7, <2>8
      <4>3. k \in Nat /\ m \in Nat /\ k > 0 /\ m > 0
        BY <2>1, <2>2
      <4> QED
        BY ONLY <3>1, <3>2, <3>3, <4>1, <4>2, <4>3, CoversParts
    <3> QED
      BY <2>1, <3>4
  <2>10. s = j
    BY <1>1, <1>3, <2>9, CoversOnce
  <2>11. CandleFromOneMinutes(2, w, FALSE) = <<s>>
    BY <2>7, <2>8, FromOneMinutes
  <2> QED
    BY <1>4, <2>2, <2>3, <2>4, <2>5, <2>6, <2>7, <2>10, <2>11
<1>7. CandleFromOneMinutes(n + 1, Append(cs, EmptyCandleFromPreviousCandle(Last(cs), 1)), FALSE) = r
  <2>1. Last(cs) = cs[n] /\ n \in 1 .. n
    BY <1>1 DEF Last
  <2>2. PICK idle : idle = EmptyCandleFromPreviousCandle(cs[n], 1)
    OBVIOUS
  <2>3. idle \in CandleSet
    <3>1. PICK c \in CandleSet : c = cs[n]
      BY <1>2, <2>1
    <3>2. c.time \in Int /\ c.close \in Int /\ c.time + 1 \in Int
      BY DEF CandleSet
    <3> QED
      BY <2>2, <3>1, <3>2 DEF EmptyCandleFromPreviousCandle, CandleSet
  <2>4. PICK e : /\ e = Append(cs, idle) /\ e \in Seq(CandleSet) /\ Len(e) = n + 1
                 /\ DOMAIN e = 1 .. n + 1 /\ e[n + 1] = idle /\ \A i \in 1 .. n : e[i] = cs[i]
    <3>1. /\ Append(cs, idle) \in Seq(CandleSet) /\ Len(Append(cs, idle)) = n + 1
          /\ DOMAIN Append(cs, idle) = 1 .. n + 1 /\ Append(cs, idle)[n + 1] = idle
          /\ \A i \in 1 .. n : Append(cs, idle)[i] = cs[i]
      BY <1>1, <2>3
    <3> QED
      BY <3>1
  <2>5. Covers(j, e, n + 1)
    BY <1>1, <1>2, <1>3, <2>1, <2>2, <2>4, CoversIdle
  <2>6. n + 1 \in Nat /\ n + 1 > 0
    BY <1>1
  <2>7. Covers(Joint(e), e, n + 1)
    BY <2>4, <2>6, JointCovers
  <2>8. Joint(e) = j
    BY <2>4, <2>5, <2>6, <2>7, CoversOnce
  <2>9. CandleFromOneMinutes(n + 1, e, FALSE) = <<Joint(e)>>
    BY <2>4, FromOneMinutes
  <2> QED
    BY <1>4, <2>1, <2>2, <2>4, <2>8, <2>9
<1>8. CandleFromOneMinutes(n + 1, cs, FALSE) = <<>>
  <2>1. Len(cs) # n + 1
    BY <1>1
  <2> QED
    BY <2>1 DEF CandleFromOneMinutes
<1>9. CandleFromOneMinutes(n + 1, cs, TRUE) = r
  BY <1>3, <1>4, FromOneMinutes
<1> HIDE DEF Covers
<1>10. Aggregated(cs, r)
  BY <1>1, <1>2, <1>5, <1>6, <1>7, <1>8, <1>9 DEF Aggregated
<1> QED
  BY <1>1, <1>4, <1>10

\* What is called does that.
LEMMA AggregateAgrees ==
  ASSUME Aggregate
  PROVE  AggregationComposes'
<1>0. PICK g \in Resets, prices \in SeqsUpTo(Cells, MaxCandles) :
        \E volumes \in [DOMAIN prices -> {0, 2}] :
          Calls("aggregate", CandlesFromClosePrices(g, prices, volumes),
                CandleFromOneMinutes(Len(CandlesFromClosePrices(g, prices, volumes)),
                                     CandlesFromClosePrices(g, prices, volumes), FALSE))
  BY DEF Aggregate
<1>1. PICK volumes \in [DOMAIN prices -> {0, 2}] :
        Calls("aggregate", CandlesFromClosePrices(g, prices, volumes),
              CandleFromOneMinutes(Len(CandlesFromClosePrices(g, prices, volumes)),
                                   CandlesFromClosePrices(g, prices, volumes), FALSE))
  BY <1>0
<1>2. PICK n \in 1 .. MaxCandles : prices \in [1 .. n -> Cells]
  BY <1>1 DEF SeqsUpTo
<1>3. n \in Nat /\ n > 0
  BY NumbersAssumption
<1>4. prices \in [1 .. n -> Int] /\ volumes \in [1 .. n -> Int] /\ g.time \in Int
  <2>1. g.time \in Int
    BY ResetsTyped
  <2>2. DOMAIN prices = 1 .. n /\ prices \in [1 .. n -> Int]
    BY <1>2, NumbersAssumption
  <2>3. volumes \in [1 .. n -> Int]
    BY <1>1, <2>2
  <2> QED
    BY <2>1, <2>2, <2>3
<1>5. PICK cs : /\ cs = CandlesFromClosePrices(g, prices, volumes)
                /\ cs \in [1 .. n -> CandleSet] /\ \A i \in 1 .. n : Shaped(cs[i])
  BY <1>3, <1>4, CloseCandles
<1>6. cs \in Seq(CandleSet) /\ cs # <<>> /\ \A i \in DOMAIN cs : Shaped(cs[i])
  <2>1. cs \in Seq(CandleSet) /\ DOMAIN cs = 1 .. n
    BY <1>3, <1>5
  <2>2. 1 \in DOMAIN cs /\ DOMAIN <<>> = {}
    BY <1>3, <2>1
  <2>3. cs # <<>>
    BY <2>2
  <2> QED
    BY <1>5, <2>1, <2>3
<1>7. Aggregated(cs, CandleFromOneMinutes(Len(cs), cs, FALSE))
  BY <1>6, CandlesCompose
<1>8. call'.args = cs /\ result' = CandleFromOneMinutes(Len(cs), cs, FALSE)
  BY <1>1, <1>5 DEF Calls
<1>9. Aggregated(call'.args, result')
  BY <1>7, <1>8
<1> QED
  BY <1>9 DEF AggregationComposes, Aggregated

-------------------------------------------------------------------------------
(* Candles generated one after the other (generateRangeCandles).            *)

\* The states of the generator.
GenSet == [time : Int, open : Int, close : Int, high : Int, low : Int]

\* f goes through the states of the generator.
Generates(f, g, rises, n) ==
  f = [i \in 0 .. n |-> IF i = 0 THEN g ELSE Updated(f[i - 1], rises[i])]

\* What is kept of the generator is such a function.
LEMMA RangeChosen ==
  ASSUME NEW g, NEW rises, NEW volumes
  PROVE  RangeCandles(g, rises, volumes) =
           [i \in DOMAIN rises |->
              FakeCandle(NoAttrs, (CHOOSE f : Generates(f, g, rises, Len(rises)))[i], volumes[i])]
BY DEF RangeCandles, Generates

\* An update makes a state of a state.
LEMMA UpdatedTyped ==
  ASSUME NEW g \in GenSet, NEW rise \in Int
  PROVE  Updated(g, rise) \in GenSet
<1>1. g.time \in Int /\ g.close \in Int
  BY DEF GenSet
<1> QED
  BY <1>1 DEF GenSet, Updated, Higher, Lower

\* There is one.
LEMMA GeneratorExists ==
  ASSUME NEW g \in GenSet, NEW n \in Nat, NEW rises \in [1 .. n -> Int]
  PROVE  \E f \in [0 .. n -> GenSet] : Generates(f, g, rises, n)
<1> DEFINE op == [w \in GenSet \X Int |-> Updated(w[1], w[2])]
<1>1. op \in [GenSet \X Int -> GenSet]
  BY UpdatedTyped
<1>2. \A w \in GenSet, r \in Int : op[<<w, r>>] = Updated(w, r)
  OBVIOUS
<1> HIDE DEF op
<1>3. PICK fold \in [SUBSET (1 .. n) -> GenSet] : Follows(fold, SUBSET (1 .. n), g, op, rises)
  <2>1. PICK seq : seq = rises /\ \A i \in 1 .. n : seq[i] \in Int
    OBVIOUS
  <2>2. PICK A, L : A = GenSet /\ L = Int
    OBVIOUS
  <2>3. \E fold \in [SUBSET (1 .. n) -> A] : Follows(fold, SUBSET (1 .. n), g, op, seq)
    <3>1. g \in A /\ op \in [A \X L -> A] /\ \A i \in 1 .. n : seq[i] \in L
      BY <1>1, <2>1, <2>2
    <3>2. CanFold(A, g, op, n, seq)
      BY ONLY n \in Nat, <3>1, FoldCan
    <3> QED
      BY <3>2 DEF CanFold
  <2> QED
    BY <2>1, <2>2, <2>3
<1> DEFINE f == [i \in 0 .. n |-> fold[1 .. i]]
<1>4. \A i \in 0 .. n : f[i] = fold[1 .. i] /\ f[i] \in GenSet
  <2>1. \A i \in 0 .. n : 1 .. i \in SUBSET (1 .. n)
    OBVIOUS
  <2> QED
    BY <2>1
<1>5. f = [i \in 0 .. n |-> f[i]] /\ f \in [0 .. n -> GenSet]
  BY <1>4
<1> HIDE DEF f
<1>6. f[0] = g
  <2>1. 1 .. 0 = {} /\ {} \in SUBSET (1 .. n) /\ 0 \in 0 .. n
    OBVIOUS
  <2>2. fold[{}] = g
    BY <1>3, <2>1 DEF Follows
  <2> QED
    BY <1>4, <2>1, <2>2
<1>7. ASSUME NEW i \in 1 .. n PROVE f[i] = Updated(f[i - 1], rises[i])
  <2>1. PICK k \in 0 .. n - 1 : k + 1 = i /\ k = i - 1 /\ k \in 0 .. n
    <3>1. i - 1 \in 0 .. n - 1 /\ i - 1 + 1 = i /\ i - 1 \in 0 .. n
      OBVIOUS
    <3> QED
      BY <3>1
  <2>2. fold[1 .. k + 1] = op[<<fold[1 .. k], rises[k + 1]>>]
    <3>0. k \in Nat /\ k + 1 <= n
      BY ONLY n \in Nat, i \in 1 .. n, <2>1
    <3>1. 1 .. k + 1 \in SUBSET (1 .. n) /\ 1 .. k + 1 # {}
      <4>1. k + 1 \in 1 .. k + 1
        BY ONLY <3>0
      <4>2. \A x \in 1 .. k + 1 : x \in 1 .. n
        BY ONLY n \in Nat, <3>0
      <4> QED
        BY ONLY <4>1, <4>2
    <3>2. TopIndex(1 .. k + 1) = k + 1 /\ (1 .. k + 1) \ {k + 1} = 1 .. k
      <4>1. k \in Nat
        OBVIOUS
      <4> QED
        BY <4>1, TopFirst
    <3> QED
      BY ONLY <1>3, <3>1, <3>2 DEF Follows
  <2>3. f[k] \in GenSet /\ rises[i] \in Int
    BY <1>4, <2>1
  <2>4. f[i] = op[<<f[k], rises[i]>>]
    <3>1. f[i] = fold[1 .. k + 1] /\ f[k] = fold[1 .. k]
      BY <1>4, <2>1
    <3> QED
      BY <2>1, <2>2, <3>1
  <2> QED
    BY <1>2, <2>1, <2>3, <2>4
<1>8. Generates(f, g, rises, n)
  <2>1. \A i \in 0 .. n : f[i] = IF i = 0 THEN g ELSE Updated(f[i - 1], rises[i])
    <3>1. \A i \in 0 .. n : i = 0 \/ i \in 1 .. n
      OBVIOUS
    <3> QED
      BY <1>6, <1>7, <3>1
  <2>2. f = [i \in 0 .. n |-> IF i = 0 THEN g ELSE Updated(f[i - 1], rises[i])]
    BY <1>5, <2>1
  <2> QED
    BY <2>2 DEF Generates
<1> QED
  BY <1>5, <1>8

\* All its states are.
LEMMA GeneratedTyped ==
  ASSUME NEW g \in GenSet, NEW n \in Nat, NEW rises \in [1 .. n -> Int],
         NEW f, Generates(f, g, rises, n)
  PROVE  \A i \in 0 .. n : f[i] \in GenSet
<1>1. \A i \in 0 .. n : f[i] = IF i = 0 THEN g ELSE Updated(f[i - 1], rises[i])
  BY DEF Generates
<1> DEFINE T == {k \in Nat : k <= n => f[k] \in GenSet}
<1>2. 0 \in T
  BY <1>1
<1>3. ASSUME NEW k \in T PROVE k + 1 \in T
  <2>1. CASE k + 1 <= n
    <3>1. PICK i \in 1 .. n : i = k + 1 /\ i - 1 = k /\ i # 0 /\ i \in 0 .. n
      <4>1. k + 1 \in 1 .. n /\ k + 1 - 1 = k /\ k + 1 # 0 /\ k + 1 \in 0 .. n
        BY <2>1
      <4> QED
        BY <4>1
    <3>2. f[i] = Updated(f[k], rises[i])
      BY <1>1, <3>1
    <3>3. f[k] \in GenSet
      BY <2>1
    <3>4. f[i] \in GenSet
      BY <3>2, <3>3, UpdatedTyped
    <3> QED
      BY <3>1, <3>4
  <2> QED
    BY <2>1
<1>4. T = Nat
  <2>1. T \in SUBSET Nat
    OBVIOUS
  <2> HIDE DEF T
  <2> QED
    BY <1>2, <1>3, <2>1, Counting
<1>5. \A i \in 0 .. n : i \in T /\ i <= n
  BY <1>4
<1> QED
  BY <1>5

\* A candle that is given no attributes is the state of the generator.
LEMMA FakeOf ==
  ASSUME NEW g, NEW v
  PROVE  FakeCandle(NoAttrs, g, v) =
           [time |-> g.time, open |-> g.open, close |-> g.close,
            high |-> g.high, low |-> g.low, volume |-> v]
BY DEF FakeCandle, NoAttrs

\* Candles follow each other, and prices derived from one lie between its low
\* and its high.
Chained(cs) ==
  /\ \A i \in DOMAIN cs : Shaped(cs[i])
  /\ \A i \in DOMAIN cs : i > 1 =>
       /\ cs[i].open = cs[i - 1].close
       /\ cs[i].time = NextCandleTimestamp(cs[i - 1], 1)
Derived(cs) ==
  \A s \in {"hl2", "hlc3", "ohlc4"} : \A i \in DOMAIN cs :
    CandleSource(cs, s)[i] \in 12 * cs[i].low .. 12 * cs[i].high

\* An update is shaped, and opens where the state before closed, a minute later.
LEMMA UpdatedShaped ==
  ASSUME NEW g \in GenSet, NEW rise \in Int
  PROVE  /\ Shaped(Updated(g, rise))
         /\ Updated(g, rise).open = g.close /\ Updated(g, rise).time = g.time + 1
<1>1. PICK c \in Int : c = g.close
  BY DEF GenSet
<1>2. Updated(g, rise) =
        [time |-> g.time + 1, open |-> c, close |-> c + rise,
         high |-> Higher(c, c + rise), low |-> Lower(c - 1, c + rise)]
  BY <1>1 DEF Updated
<1>3. /\ Lower(c - 1, c + rise) <= c /\ Lower(c - 1, c + rise) <= c + rise
      /\ c <= Higher(c, c + rise) /\ c + rise <= Higher(c, c + rise)
  BY DEF Lower, Higher
<1> QED
  BY <1>1, <1>2, <1>3 DEF Shaped

\* Generated candles follow each other without a gap, minute by minute, and the
\* open and the close of each lie between its low and its high
\* (generateRangeCandles, CandleGenState).
THEOREM GeneratedChain ==
  ASSUME NEW g \in GenSet, NEW n \in Nat, NEW rises \in [1 .. n -> Int],
         NEW volumes \in [1 .. n -> Int]
  PROVE  /\ RangeCandles(g, rises, volumes) \in [1 .. n -> CandleSet]
         /\ Chained(RangeCandles(g, rises, volumes))
<1>1. PICK f : f = CHOOSE h : Generates(h, g, rises, n)
  OBVIOUS
<1>2. Generates(f, g, rises, n)
  BY <1>1, GeneratorExists
<1>3. PICK cs : cs = RangeCandles(g, rises, volumes)
  OBVIOUS
<1>4. Len(rises) = n /\ DOMAIN rises = 1 .. n
  OBVIOUS
<1>5. cs = [i \in 1 .. n |-> FakeCandle(NoAttrs, f[i], volumes[i])]
  <2>1. RangeCandles(g, rises, volumes) =
          [i \in DOMAIN rises |->
             FakeCandle(NoAttrs, (CHOOSE h : Generates(h, g, rises, Len(rises)))[i], volumes[i])]
    BY RangeChosen
  <2> QED
    BY <1>1, <1>3, <1>4, <2>1
<1>6. \A i \in 0 .. n : f[i] \in GenSet
  BY <1>2, GeneratedTyped
<1>7. ASSUME NEW i \in 1 .. n
      PROVE  /\ cs[i] \in CandleSet /\ cs[i].time = f[i].time /\ cs[i].open = f[i].open
             /\ cs[i].close = f[i].close /\ cs[i].high = f[i].high /\ cs[i].low = f[i].low
  <2>1. PICK s \in GenSet : s = f[i]
    BY <1>6
  <2>2. cs[i] = [time |-> s.time, open |-> s.open, close |-> s.close,
                 high |-> s.high, low |-> s.low, volume |-> volumes[i]]
    BY <1>5, <2>1, FakeOf
  <2>3. /\ s.time \in Int /\ s.open \in Int /\ s.close \in Int /\ s.high \in Int /\ s.low \in Int
        /\ volumes[i] \in Int
    BY DEF GenSet
  <2> QED
    BY <2>1, <2>2, <2>3 DEF CandleSet
<1>8. ASSUME NEW i \in 1 .. n
      PROVE  /\ i - 1 \in 0 .. n /\ f[i - 1] \in GenSet /\ f[i] = Updated(f[i - 1], rises[i])
             /\ rises[i] \in Int
  <2>1. i - 1 \in 0 .. n /\ i \in 0 .. n /\ i # 0
    OBVIOUS
  <2>2. f[i] = Updated(f[i - 1], rises[i])
    BY <1>2, <2>1 DEF Generates
  <2> QED
    BY <1>6, <2>1, <2>2
<1>9. ASSUME NEW i \in 1 .. n PROVE Shaped(cs[i])
  <2>1. Shaped(f[i])
    BY <1>8, UpdatedShaped
  <2> QED
    BY <1>7, <2>1 DEF Shaped
<1>10. ASSUME NEW i \in 1 .. n, i > 1
       PROVE  cs[i].open = cs[i - 1].close /\ cs[i].time = NextCandleTimestamp(cs[i - 1], 1)
  <2>1. PICK h \in 1 .. n : h = i - 1
    <3>1. i - 1 \in 1 .. n
      BY <1>10
    <3> QED
      BY <3>1
  <2>2. f[i].open = f[h].close /\ f[i].time = f[h].time + 1
    BY <1>8, <2>1, UpdatedShaped
  <2>3. cs[i].open = cs[h].close /\ cs[i].time = cs[h].time + 1
    BY <1>7, <2>2
  <2> QED
    BY <2>1, <2>3 DEF NextCandleTimestamp
<1>11. DOMAIN cs = 1 .. n /\ cs \in [1 .. n -> CandleSet]
  <2>1. DOMAIN cs = 1 .. n /\ cs = [i \in 1 .. n |-> cs[i]]
    BY <1>5
  <2> QED
    BY <1>7, <2>1
<1>12. Chained(cs)
  BY <1>9, <1>10, <1>11 DEF Chained
<1> QED
  BY <1>3, <1>11, <1>12

\* Twelve times a mean of prices lies between twelve times the lowest and the
\* highest.
LEMMA SourceBetween ==
  ASSUME NEW n \in Nat, n > 0, NEW cs \in [1 .. n -> CandleSet], Chained(cs)
  PROVE  Derived(cs)
<1>1. DOMAIN cs = 1 .. n /\ cs # <<>>
  <2>1. DOMAIN cs = 1 .. n /\ 1 \in 1 .. n /\ DOMAIN <<>> = {}
    OBVIOUS
  <2> QED
    BY <2>1
<1>2. SUFFICES ASSUME NEW i \in 1 .. n, NEW s \in {"hl2", "hlc3", "ohlc4"}
               PROVE  CandleSource(cs, s)[i] \in 12 * cs[i].low .. 12 * cs[i].high
  BY <1>1 DEF Derived
<1>3. PICK c \in CandleSet : c = cs[i] /\ Shaped(c)
  BY <1>1 DEF Chained
<1>4. PICK o \in Int, z \in Int, h \in Int, l \in Int :
        o = c.open /\ z = c.close /\ h = c.high /\ l = c.low
  BY DEF CandleSet
<1>5. l <= o /\ l <= z /\ o <= h /\ z <= h
  BY <1>3, <1>4 DEF Shaped
<1>6. CandleSource(cs, s)[i] =
        [close |-> 12 * c.close, high |-> 12 * c.high, low |-> 12 * c.low,
         open |-> 12 * c.open, volume |-> 12 * c.volume, hl2 |-> 6 * (c.high + c.low),
         hlc3 |-> 4 * (c.high + c.low + c.close),
         ohlc4 |-> 3 * (c.open + c.high + c.low + c.close)][s]
  BY <1>1, <1>3 DEF CandleSource
<1>7. CandleSource(cs, s)[i] \in {6 * (h + l), 4 * (h + l + z), 3 * (o + h + l + z)}
  <2>1. CASE s = "hl2"
    BY <1>4, <1>6, <2>1
  <2>2. CASE s = "hlc3"
    BY <1>4, <1>6, <2>2
  <2>3. CASE s = "ohlc4"
    BY <1>4, <1>6, <2>3
  <2> QED
    BY <1>2, <2>1, <2>2, <2>3
<1>8. /\ 6 * (h + l) \in 12 * l .. 12 * h
      /\ 4 * (h + l + z) \in 12 * l .. 12 * h
      /\ 3 * (o + h + l + z) \in 12 * l .. 12 * h
  BY <1>5
<1>9. CandleSource(cs, s)[i] \in 12 * l .. 12 * h
  BY <1>7, <1>8
<1> QED
  BY <1>3, <1>4, <1>9

\* What is called does that.
LEMMA GenerateAgrees ==
  ASSUME Generate
  PROVE  CandlesChain'
<1>1. PICK g \in Resets, rises \in SeqsUpTo(RandInt(1, 8), MaxCandles) :
        Calls("generate", g, RangeCandles(g, rises, [i \in DOMAIN rises |-> i]))
  BY DEF Generate
<1>2. PICK n \in 1 .. MaxCandles : rises \in [1 .. n -> RandInt(1, 8)]
  BY <1>1 DEF SeqsUpTo
<1>3. n \in Nat /\ n > 0 /\ g \in GenSet
  BY NumbersAssumption, ResetsTyped DEF GenSet
<1>4. rises \in [1 .. n -> Int]
  BY <1>2 DEF RandInt
<1>5. PICK volumes : volumes = [i \in DOMAIN rises |-> i]
  OBVIOUS
<1>6. volumes \in [1 .. n -> Int]
  BY <1>4, <1>5
<1>7. PICK cs : cs = RangeCandles(g, rises, volumes) /\ cs \in [1 .. n -> CandleSet] /\ Chained(cs)
  BY <1>3, <1>4, <1>6, GeneratedChain
<1>8. Derived(cs)
  BY <1>3, <1>7, SourceBetween
<1>9. result' = cs
  BY <1>1, <1>5, <1>7 DEF Calls
<1>10. Chained(result') /\ Derived(result')
  BY <1>7, <1>8, <1>9
<1> QED
  BY <1>10 DEF CandlesChain, Chained, Derived

-------------------------------------------------------------------------------
(* An amount is turned over from level to level (getBestTurnOver).          *)

\* The states of a walk.
WalkSet == [left : Int, got : Int, next : Int, done : BOOLEAN, over : BOOLEAN]

\* A step to a level of this price that can take this size, where what is left
\* of the amount yields the rest and the size yields the whole.
WalkStep(w, price, size, rest, whole) ==
  IF w.over THEN w
  ELSE IF w.done THEN [w EXCEPT !.next = price, !.over = TRUE]
  ELSE IF w.left <= size
  THEN [w EXCEPT !.next = price, !.got = @ + rest, !.left = 0, !.done = TRUE]
  ELSE [w EXCEPT !.next = price, !.got = @ + whole, !.left = @ - size]

\* The states of w after 0 to n levels, where gain says what they yield.
Walk(w, n, prices, sizes, gain, amount) ==
  /\ w[0] = WalkStart(amount)
  /\ \A k \in 0 .. n : w[k] \in WalkSet
  /\ \A k \in 1 .. n :
       w[k] = WalkStep(w[k - 1], prices[k], sizes[k], gain[k][w[k - 1].left], gain[k][sizes[k]])

\* What the first k levels can take, and what level i is given.
Room(sizes, k) == SumFunctionOnSet(sizes, 1 .. k)
Given(sizes, amount, i) == Lower(sizes[i], Higher(0, amount - Room(sizes, i - 1)))

\* The room grows with the levels.
LEMMA RoomNext ==
  ASSUME NEW n \in Nat, NEW sizes \in [1 .. n -> Nat], NEW k \in Nat, k + 1 <= n
  PROVE  /\ Room(sizes, k) \in Nat /\ Room(sizes, k + 1) \in Nat /\ sizes[k + 1] \in Nat
         /\ Room(sizes, k + 1) = Room(sizes, k) + sizes[k + 1]
<1>1. (\A i \in 1 .. k + 1 : sizes[i] \in Nat /\ sizes[i] \in Int) /\ k + 1 \in 1 .. n
  BY DOMAIN sizes = 1 .. n
<1>2. IsFiniteSet(1 .. k) /\ IsFiniteSet(1 .. k + 1)
  BY FS_Interval
<1>3. Room(sizes, k) \in Nat /\ Room(sizes, k + 1) \in Nat
  BY <1>1, <1>2, SumIsNat DEF Room
<1>4. SumFunctionOnSet(sizes, 1 .. k + 1) = SumFunctionOnSet(sizes, 1 .. k) + sizes[k + 1]
  BY <1>1, SumNext
<1> QED
  BY <1>1, <1>3, <1>4 DEF Room

\* A sum of more numbers is no smaller.
LEMMA SumsGrow ==
  ASSUME NEW r \in Nat, NEW m \in Nat, NEW f, \A i \in 1 .. r + m : f[i] \in Nat
  PROVE  /\ SumFunctionOnSet(f, 1 .. r) \in Nat /\ SumFunctionOnSet(f, 1 .. r + m) \in Nat
         /\ SumFunctionOnSet(f, 1 .. r) <= SumFunctionOnSet(f, 1 .. r + m)
<1> DEFINE h == [i \in 1 .. m |-> f[r + i]]
<1>1. PICK g : \A i \in 1 .. m : g[i] = f[r + i]
  <2>1. \A i \in 1 .. m : h[i] = f[r + i]
    OBVIOUS
  <2> QED
    BY <2>1
<1>2. \A i \in 1 .. r + m : f[i] \in Int
  OBVIOUS
<1>3. SumFunctionOnSet(f, 1 .. r + m) = SumFunctionOnSet(f, 1 .. r) + SumFunctionOnSet(g, 1 .. m)
  BY <1>1, <1>2, SumBehind
<1>4. \A i \in 1 .. m : g[i] \in Nat
  <2>1. \A i \in 1 .. m : r + i \in 1 .. r + m
    OBVIOUS
  <2> QED
    BY <1>1, <2>1
<1>5. \A i \in 1 .. r : f[i] \in Nat
  <2>1. \A i \in 1 .. r : i \in 1 .. r + m
    OBVIOUS
  <2> QED
    BY <2>1
<1>6. SumFunctionOnSet(g, 1 .. m) \in Nat /\ SumFunctionOnSet(f, 1 .. r) \in Nat
  <2>1. IsFiniteSet(1 .. m) /\ IsFiniteSet(1 .. r)
    BY FS_Interval
  <2> QED
    BY <1>4, <1>5, <2>1, SumIsNat
<1> QED
  BY <1>3, <1>6

\* It is no smaller behind a level.
LEMMA RoomGrows ==
  ASSUME NEW n \in Nat, NEW sizes \in [1 .. n -> Nat], NEW r \in Nat, NEW k \in Nat, r <= k, k <= n
  PROVE  Room(sizes, r) \in Nat /\ Room(sizes, k) \in Nat /\ Room(sizes, r) <= Room(sizes, k)
<1>1. PICK m \in Nat : k = r + m
  <2>1. k - r \in Nat /\ k = r + (k - r)
    OBVIOUS
  <2> QED
    BY <2>1
<1>2. PICK f : f = sizes /\ \A i \in 1 .. r + m : f[i] \in Nat
  <2>1. \A i \in 1 .. r + m : sizes[i] \in Nat
    BY <1>1
  <2> QED
    BY <2>1
<1>3. /\ SumFunctionOnSet(f, 1 .. r) \in Nat /\ SumFunctionOnSet(f, 1 .. r + m) \in Nat
      /\ SumFunctionOnSet(f, 1 .. r) <= SumFunctionOnSet(f, 1 .. r + m)
  BY <1>2, SumsGrow
<1> QED
  BY <1>1, <1>2, <1>3 DEF Room

\* A level is given what is left of the amount, as far as it can take it.
GivenRight(sizes, amount, k) ==
  /\ Given(sizes, amount, k + 1) \in Nat
  /\ amount <= Room(sizes, k) => Given(sizes, amount, k + 1) = 0
  /\ Room(sizes, k) <= amount =>
       Given(sizes, amount, k + 1) = Lower(sizes[k + 1], amount - Room(sizes, k))

\* That is so.
LEMMA GivenNext ==
  ASSUME NEW n \in Nat, NEW sizes \in [1 .. n -> Nat], NEW amount \in Nat, NEW k \in Nat, k + 1 <= n
  PROVE  GivenRight(sizes, amount, k)
<1>1. PICK s \in Nat, x \in Nat : s = Room(sizes, k) /\ x = sizes[k + 1]
  BY RoomNext
<1>2. Given(sizes, amount, k + 1) = Lower(x, Higher(0, amount - s))
  <2>1. k + 1 - 1 = k
    OBVIOUS
  <2> QED
    BY <1>1, <2>1 DEF Given
<1>3. /\ Lower(x, Higher(0, amount - s)) \in Nat
      /\ amount <= s => Lower(x, Higher(0, amount - s)) = 0
      /\ s <= amount => Lower(x, Higher(0, amount - s)) = Lower(x, amount - s)
  BY DEF Lower, Higher
<1> QED
  BY <1>1, <1>2, <1>3 DEF GivenRight

\* One more level, which can take x, is given d.
Splits(amount, s, x, d) == Lower(amount, s) + d = Lower(amount, s + x)

\* It is what the levels so far leave of the amount.
LEMMA LowerSplit ==
  ASSUME NEW amount \in Nat, NEW s \in Nat, NEW x \in Nat, NEW d \in Nat,
         amount <= s => d = 0, s <= amount => d = Lower(x, amount - s)
  PROVE  Splits(amount, s, x, d)
<1>1. CASE amount <= s
  BY <1>1 DEF Lower, Splits
<1>2. CASE ~ (amount <= s)
  BY <1>2 DEF Lower, Splits
<1> QED
  BY <1>1, <1>2

\* The first k levels are given the amount, as far as they can take it.
LEMMA GivenSum ==
  ASSUME NEW n \in Nat, NEW sizes \in [1 .. n -> Nat], NEW amount \in Nat,
         NEW t \in [1 .. n -> Nat], \A i \in 1 .. n : t[i] = Given(sizes, amount, i)
  PROVE  SumFunctionOnSet(t, 1 .. n) = Lower(amount, Room(sizes, n))
<1> DEFINE T == {k \in Nat : k <= n => SumFunctionOnSet(t, 1 .. k) = Lower(amount, Room(sizes, k))}
<1>1. 0 \in T
  <2>1. 1 .. 0 = {}
    OBVIOUS
  <2>2. SumFunctionOnSet(t, 1 .. 0) = 0 /\ Room(sizes, 0) = 0
    BY <2>1, SumEmpty DEF Room
  <2> QED
    BY <2>2 DEF Lower
<1>2. ASSUME NEW k \in T PROVE k + 1 \in T
  <2>0. k \in Nat /\ k + 1 \in Nat
    OBVIOUS
  <2>1. CASE k + 1 <= n
    <3>1. SumFunctionOnSet(t, 1 .. k) = Lower(amount, Room(sizes, k))
      BY <2>0, <2>1
    <3>2. SumFunctionOnSet(t, 1 .. k + 1) = SumFunctionOnSet(t, 1 .. k) + t[k + 1]
      <4>1. \A i \in 1 .. k + 1 : t[i] \in Int
        BY <2>0, <2>1
      <4> QED
        BY <2>0, <4>1, SumNext
    <3>3. PICK s \in Nat, x \in Nat :
            s = Room(sizes, k) /\ x = sizes[k + 1] /\ Room(sizes, k + 1) = s + x
      <4>1. /\ Room(sizes, k) \in Nat /\ sizes[k + 1] \in Nat
            /\ Room(sizes, k + 1) = Room(sizes, k) + sizes[k + 1]
        BY <2>0, <2>1, RoomNext
      <4> QED
        BY <4>1
    <3>4. PICK d \in Nat : /\ d = t[k + 1]
                           /\ amount <= s => d = 0
                           /\ s <= amount => d = Lower(x, amount - s)
      <4>1. k + 1 \in 1 .. n
        BY <2>0, <2>1
      <4>2. t[k + 1] = Given(sizes, amount, k + 1)
        BY <4>1
      <4>3. GivenRight(sizes, amount, k)
        BY <2>0, <2>1, GivenNext
      <4>4. /\ Given(sizes, amount, k + 1) \in Nat
            /\ amount <= s => Given(sizes, amount, k + 1) = 0
        BY ONLY <3>3, <4>3 DEF GivenRight
      <4>5. s <= amount => Given(sizes, amount, k + 1) = Lower(x, amount - s)
        BY ONLY <3>3, <4>3 DEF GivenRight
      <4> QED
        BY ONLY <4>2, <4>4, <4>5
    <3>5. Lower(amount, s) + d = Lower(amount, s + x)
      <4>1. (amount <= s => d = 0) /\ (s <= amount => d = Lower(x, amount - s))
        BY <3>4
      <4>2. Splits(amount, s, x, d)
        BY ONLY amount \in Nat, s \in Nat, x \in Nat, d \in Nat, <4>1, LowerSplit
      <4> QED
        BY ONLY <4>2 DEF Splits
    <3> QED
      BY <2>0, <3>1, <3>2, <3>3, <3>4, <3>5
  <2> QED
    BY <2>0, <2>1
<1>3. T = Nat
  <2>1. T \in SUBSET Nat
    OBVIOUS
  <2> HIDE DEF T
  <2> QED
    BY <1>1, <1>2, <2>1, Counting
<1> QED
  BY <1>3

\* What is known after k levels.
Walked(w, k, prices, sizes, gains, amount) ==
  /\ w \in WalkSet
  /\ w.got = SumFunctionOnSet(gains, 1 .. k)
  /\ ~ w.done => w.left = amount - Room(sizes, k) /\ w.left >= 0
  /\ w.done => amount <= Room(sizes, k)
  /\ w.over => w.done /\ \E r \in 1 .. k : w.next = prices[r] /\ amount <= Room(sizes, r)
  /\ ~ w.over /\ k > 0 => w.next = prices[k]

\* What a step from w to v makes of it: a level that can take x, where the levels before it
\* can take s, is given d of the amount, which yields that much.
Known(w, v, p, x, s, amount, yield) ==
  /\ v \in WalkSet
  /\ v.got = w.got + yield
  /\ ~ v.done => v.left = amount - (s + x) /\ v.left >= 0
  /\ v.done => amount <= s + x
  /\ v.over => v.done
  /\ w.over => v.over /\ v.next = w.next
  /\ ~ w.over => v.next = p

\* It makes that of it.
LEMMA StepKnown ==
  ASSUME NEW w \in WalkSet, NEW p \in Int, NEW x \in Nat, NEW s \in Nat, NEW amount \in Nat,
         NEW d \in Nat, amount <= s => d = 0, s <= amount => d = Lower(x, amount - s),
         NEW rest \in Int, NEW whole \in Int, NEW yield \in Int,
         d = 0 => yield = 0, d = w.left => yield = rest, d = x => yield = whole,
         ~ w.done => w.left = amount - s /\ w.left >= 0, w.done => amount <= s, w.over => w.done,
         NEW v, v = WalkStep(w, p, x, rest, whole)
  PROVE  Known(w, v, p, x, s, amount, yield)
<1>1. /\ w.left \in Int /\ w.got \in Int /\ w.next \in Int
      /\ w.done \in BOOLEAN /\ w.over \in BOOLEAN
  BY DEF WalkSet
<1>2. CASE w.over
  <2>1. v = w /\ d = 0 /\ yield = 0 /\ amount <= s + x
    BY <1>2 DEF WalkStep
  <2> QED
    BY <1>1, <1>2, <2>1 DEF Known
<1>3. CASE ~ w.over /\ w.done
  <2>1. v = [w EXCEPT !.next = p, !.over = TRUE]
    BY <1>3 DEF WalkStep
  <2>2. v \in WalkSet /\ v.got = w.got /\ v.next = p /\ v.over = TRUE /\ v.done = w.done
    BY <2>1 DEF WalkSet
  <2>3. yield = 0 /\ amount <= s + x
    BY <1>3
  <2> QED
    BY <1>1, <1>3, <2>2, <2>3 DEF Known
<1>4. CASE ~ w.over /\ ~ w.done /\ w.left <= x
  <2>1. v = [w EXCEPT !.next = p, !.got = @ + rest, !.left = 0, !.done = TRUE]
    BY <1>4 DEF WalkStep
  <2>2. v \in WalkSet /\ v.got = w.got + rest /\ v.next = p /\ v.over = w.over /\ v.done = TRUE
    <3>1. PICK y \in Int : y = w.got + rest
      BY <1>1
    <3>2. v = [left |-> 0, got |-> y, next |-> p, done |-> TRUE, over |-> w.over]
      BY <2>1, <3>1 DEF WalkSet
    <3> QED
      BY <1>1, <3>1, <3>2 DEF WalkSet
  <2>3. d = w.left /\ amount <= s + x
    BY <1>1, <1>4 DEF Lower
  <2> QED
    BY <1>1, <1>4, <2>2, <2>3 DEF Known
<1>5. CASE ~ w.over /\ ~ w.done /\ ~ (w.left <= x)
  <2>1. v = [w EXCEPT !.next = p, !.got = @ + whole, !.left = @ - x]
    BY <1>5 DEF WalkStep
  <2>2. /\ v \in WalkSet /\ v.got = w.got + whole /\ v.next = p /\ v.over = w.over
        /\ v.done = w.done /\ v.left = w.left - x
    <3>1. PICK y \in Int, z \in Int : y = w.got + whole /\ z = w.left - x
      BY <1>1
    <3>2. v = [left |-> z, got |-> y, next |-> p, done |-> w.done, over |-> w.over]
      BY <2>1, <3>1 DEF WalkSet
    <3> QED
      BY <1>1, <3>1, <3>2 DEF WalkSet
  <2>3. d = x /\ v.left = amount - (s + x) /\ v.left >= 0
    BY <1>1, <1>5, <2>2 DEF Lower
  <2> QED
    BY <1>1, <1>5, <2>2, <2>3 DEF Known
<1> QED
  BY <1>2, <1>3, <1>4, <1>5

\* A step preserves it.
LEMMA WalkedNext ==
  ASSUME NEW n \in Nat, NEW prices \in [1 .. n -> Int], NEW sizes \in [1 .. n -> Nat],
         NEW gain \in [1 .. n -> [Int -> Int]], \A i \in 1 .. n : gain[i][0] = 0,
         NEW amount \in Nat,
         NEW gains \in [1 .. n -> Int],
         \A i \in 1 .. n : gains[i] = gain[i][Given(sizes, amount, i)],
         NEW k \in Nat, k + 1 <= n, NEW w, Walked(w, k, prices, sizes, gains, amount)
  PROVE  Walked(WalkStep(w, prices[k + 1], sizes[k + 1],
                         gain[k + 1][w.left], gain[k + 1][sizes[k + 1]]),
                k + 1, prices, sizes, gains, amount)
<1>0. k + 1 \in 1 .. n /\ k + 1 > 0 /\ k + 1 \in 1 .. k + 1 /\ \A r \in 1 .. k : r \in 1 .. k + 1
  OBVIOUS
<1>1. PICK s \in Nat, x \in Nat, p \in Int :
        /\ s = Room(sizes, k) /\ x = sizes[k + 1] /\ Room(sizes, k + 1) = s + x
        /\ p = prices[k + 1]
  <2>1. /\ Room(sizes, k) \in Nat /\ sizes[k + 1] \in Nat /\ prices[k + 1] \in Int
        /\ Room(sizes, k + 1) = Room(sizes, k) + sizes[k + 1]
    BY <1>0, RoomNext
  <2> QED
    BY <2>1
<1>2. PICK f : f = gain[k + 1] /\ f[0] = 0 /\ \A y \in Int : f[y] \in Int
  <2>1. gain[k + 1] \in [Int -> Int] /\ gain[k + 1][0] = 0
    BY <1>0
  <2>2. \A y \in Int : gain[k + 1][y] \in Int
    BY <2>1
  <2> QED
    BY <2>1, <2>2
<1>3. PICK d \in Nat : /\ d = Given(sizes, amount, k + 1)
                       /\ amount <= s => d = 0
                       /\ s <= amount => d = Lower(x, amount - s)
  <2>1. GivenRight(sizes, amount, k)
    BY ONLY n \in Nat, sizes \in [1 .. n -> Nat], amount \in Nat, k \in Nat, k + 1 <= n, GivenNext
  <2> QED
    BY <1>1, <2>1 DEF GivenRight
<1>4. PICK yield \in Int :
        /\ yield = f[d]
        /\ SumFunctionOnSet(gains, 1 .. k + 1) = SumFunctionOnSet(gains, 1 .. k) + yield
  <2>1. \A i \in 1 .. k + 1 : gains[i] \in Int
    <3>1. \A i \in 1 .. k + 1 : i \in 1 .. n
      OBVIOUS
    <3> QED
      BY <3>1
  <2>2. gains[k + 1] = f[d] /\ f[d] \in Int
    BY <1>0, <1>2, <1>3
  <2>3. SumFunctionOnSet(gains, 1 .. k + 1) = SumFunctionOnSet(gains, 1 .. k) + gains[k + 1]
    BY <2>1, SumNext
  <2> QED
    BY <2>2, <2>3
<1>5. /\ w \in WalkSet /\ w.got = SumFunctionOnSet(gains, 1 .. k)
      /\ ~ w.done => w.left = amount - s /\ w.left >= 0
      /\ w.done => amount <= s
      /\ w.over => w.done
  BY <1>1 DEF Walked
<1>6. w.over => \E r \in 1 .. k : w.next = prices[r] /\ amount <= Room(sizes, r)
  BY DEF Walked
<1>7. PICK rest \in Int, whole \in Int : rest = f[w.left] /\ whole = f[x]
  <2>1. PICK l \in Int : l = w.left
    BY <1>5 DEF WalkSet
  <2>2. f[l] \in Int /\ f[x] \in Int
    <3>1. l \in Int /\ x \in Int
      OBVIOUS
    <3>2. \A y \in Int : f[y] \in Int
      BY <1>2
    <3> QED
      BY ONLY <3>1, <3>2, Zenon
  <2> QED
    BY <2>1, <2>2
<1>8. PICK v : v = WalkStep(w, p, x, rest, whole)
  OBVIOUS
<1>9. (d = 0 => yield = 0) /\ (d = w.left => yield = rest) /\ (d = x => yield = whole)
  BY <1>2, <1>4, <1>7
<1>10. /\ v \in WalkSet
       /\ v.got = w.got + yield
       /\ ~ v.done => v.left = amount - (s + x) /\ v.left >= 0
       /\ v.done => amount <= s + x
       /\ v.over => v.done
       /\ w.over => v.over /\ v.next = w.next
       /\ ~ w.over => v.next = p
  <2>1. Known(w, v, p, x, s, amount, yield)
    <3>1. (amount <= s => d = 0) /\ (s <= amount => d = Lower(x, amount - s))
      BY <1>3
    <3>2. w \in WalkSet /\ (~ w.done => w.left = amount - s /\ w.left >= 0)
      BY <1>5
    <3>3. (w.done => amount <= s) /\ (w.over => w.done)
      BY <1>5
    <3> QED
      BY ONLY p \in Int, x \in Nat, s \in Nat, amount \in Nat, d \in Nat, rest \in Int,
         whole \in Int, yield \in Int, <1>8, <1>9, <3>1, <3>2, <3>3, StepKnown, ZenonT(60)
  <2> QED
    BY <2>1 DEF Known
<1>11. v.got = SumFunctionOnSet(gains, 1 .. k + 1)
  BY <1>4, <1>5, <1>10
<1>12. v.over => \E r \in 1 .. k + 1 : v.next = prices[r] /\ amount <= Room(sizes, r)
  <2>1. CASE w.over
    BY <1>0, <1>6, <1>10, <2>1
  <2>2. CASE ~ w.over
    BY <1>0, <1>1, <1>10, <2>2
  <2> QED
    BY <2>1, <2>2
<1>13. ~ v.over => v.next = prices[k + 1]
  BY <1>1, <1>10
<1>14. /\ ~ v.done => v.left = amount - Room(sizes, k + 1) /\ v.left >= 0
       /\ v.done => amount <= Room(sizes, k + 1)
  BY <1>1, <1>10
<1>15. Walked(v, k + 1, prices, sizes, gains, amount)
  BY <1>10, <1>11, <1>12, <1>13, <1>14 DEF Walked
<1> QED
  BY <1>1, <1>2, <1>7, <1>8, <1>15

\* How a walk over n levels ends.
WalkEnded(end, n, prices, sizes, gains, amount) ==
  /\ end.got = SumFunctionOnSet(gains, 1 .. n)
  /\ \E r \in 1 .. n : end.next = prices[r] /\ (amount <= Room(sizes, r) \/ r = n)

\* So it is known in the end: what was got is what the levels that were given
\* something yield, and the price named is one that reaches them.
THEOREM WalkEnds ==
  ASSUME NEW n \in Nat, n > 0, NEW prices \in [1 .. n -> Int], NEW sizes \in [1 .. n -> Nat],
         NEW gain \in [1 .. n -> [Int -> Int]], \A i \in 1 .. n : gain[i][0] = 0,
         NEW amount \in Nat,
         NEW gains \in [1 .. n -> Int],
         \A i \in 1 .. n : gains[i] = gain[i][Given(sizes, amount, i)],
         NEW w, Walk(w, n, prices, sizes, gain, amount)
  PROVE  WalkEnded(w[n], n, prices, sizes, gains, amount)
<1> DEFINE T == {k \in Nat : k <= n => Walked(w[k], k, prices, sizes, gains, amount)}
<1>1. 0 \in T
  <2>1. 1 .. 0 = {} /\ ~ (0 > 0)
    OBVIOUS
  <2>2. SumFunctionOnSet(gains, 1 .. 0) = 0 /\ Room(sizes, 0) = 0
    BY <2>1, SumEmpty DEF Room
  <2>3. w[0] = [left |-> amount, got |-> 0, next |-> -1, done |-> FALSE, over |-> FALSE]
    BY DEF Walk, WalkStart
  <2>4. Walked(w[0], 0, prices, sizes, gains, amount)
    BY <2>1, <2>2, <2>3 DEF Walked, WalkSet
  <2> QED
    BY <2>4
<1>2. ASSUME NEW k \in T PROVE k + 1 \in T
  <2>0. k \in Nat /\ k + 1 \in Nat
    OBVIOUS
  <2>1. CASE k + 1 <= n
    <3>1. Walked(w[k], k, prices, sizes, gains, amount)
      BY <2>0, <2>1
    <3>2. Walked(WalkStep(w[k], prices[k + 1], sizes[k + 1],
                          gain[k + 1][w[k].left], gain[k + 1][sizes[k + 1]]),
                 k + 1, prices, sizes, gains, amount)
      BY <2>0, <2>1, <3>1, WalkedNext
    <3>3. PICK h \in 1 .. n : h = k + 1 /\ h - 1 = k
      <4>1. k + 1 \in 1 .. n /\ k + 1 - 1 = k
        BY <2>0, <2>1
      <4> QED
        BY <4>1
    <3>4. w[h] = WalkStep(w[k], prices[h], sizes[h], gain[h][w[k].left], gain[h][sizes[h]])
      BY <3>3 DEF Walk
    <3> QED
      BY <2>0, <3>2, <3>3, <3>4
  <2> QED
    BY <2>0, <2>1
<1>3. T = Nat
  <2>1. T \in SUBSET Nat
    OBVIOUS
  <2> HIDE DEF T
  <2> QED
    BY <1>1, <1>2, <2>1, Counting
<1>4. n \in T
  BY <1>3
<1>5. Walked(w[n], n, prices, sizes, gains, amount)
  BY <1>4
<1>6. PICK v : v = w[n] /\ Walked(v, n, prices, sizes, gains, amount)
  BY <1>5
<1>7. v \in WalkSet /\ v.over \in BOOLEAN
  BY <1>6 DEF Walked, WalkSet
<1>8. n \in 1 .. n
  OBVIOUS
<1>9. v.got = SumFunctionOnSet(gains, 1 .. n)
  BY <1>6 DEF Walked
<1>10. \E r \in 1 .. n : v.next = prices[r] /\ (amount <= Room(sizes, r) \/ r = n)
  <2>1. CASE v.over
    BY <1>6, <2>1 DEF Walked
  <2>2. CASE ~ v.over
    <3>1. v.next = prices[n]
      BY <1>6, <2>2 DEF Walked
    <3> QED
      BY <1>8, <3>1
  <2> QED
    BY <2>1, <2>2
<1> QED
  BY <1>6, <1>9, <1>10 DEF WalkEnded

\* Levels that can be traded with.
LevelSet == (Nat \ {0}) \X Nat
LevelPrices(levels) == [i \in DOMAIN levels |-> levels[i][1]]

\* Buying from and selling to them: the step, what a level can take, what it yields.
TurnStep(buy, w, level) == IF buy THEN BuyStep(w, level) ELSE SellStep(w, level)
TurnSizes(buy, levels) == IF buy THEN Costs(levels) ELSE Quantities(levels)
TurnYield(buy, price, x) == IF buy THEN x \div price ELSE x * price
TurnGain(buy, levels) ==
  [i \in DOMAIN levels |-> [x \in Int |-> TurnYield(buy, levels[i][1], x)]]

\* g follows the recursion by which levels are folded.
Turns(g, buy, levels, amount) ==
  g = [s \in SUBSET DOMAIN levels |->
         IF s = {} THEN WalkStart(amount)
         ELSE TurnStep(buy, g[s \ {TopIndex(s)}], levels[TopIndex(s)])]
Sells(g, levels, amount) ==
  g = [s \in SUBSET DOMAIN levels |->
         IF s = {} THEN WalkStart(amount)
         ELSE SellStep(g[s \ {TopIndex(s)}], levels[TopIndex(s)])]
Buys(g, levels, amount) ==
  g = [s \in SUBSET DOMAIN levels |->
         IF s = {} THEN WalkStart(amount)
         ELSE BuyStep(g[s \ {TopIndex(s)}], levels[TopIndex(s)])]

\* getBestTurnOver is the value, for all levels, of functions that do.
LEMMA TurnOverChosen ==
  ASSUME NEW bids, NEW asks, NEW amount
  PROVE  GetBestTurnOver(bids, asks, amount) =
           [quote |-> (CHOOSE g : Sells(g, bids, amount))[DOMAIN bids].got,
            nxt_bid_lvl |-> (CHOOSE g : Sells(g, bids, amount))[DOMAIN bids].next,
            base |-> (CHOOSE g : Buys(g, asks, amount))[DOMAIN asks].got,
            nxt_ask_lvl |-> (CHOOSE g : Buys(g, asks, amount))[DOMAIN asks].next]
BY DEF GetBestTurnOver, FoldLeft, MapThenFoldSet, Max, Sells, Buys, TopIndex

\* The same recursion.
LEMMA TurnsAre ==
  ASSUME NEW g, NEW levels, NEW amount
  PROVE  /\ Turns(g, FALSE, levels, amount) <=> Sells(g, levels, amount)
         /\ Turns(g, TRUE, levels, amount) <=> Buys(g, levels, amount)
BY DEF Turns, Sells, Buys, TurnStep

\* A multiple of a number, divided by it.
LEMMA MultipleDivided ==
  ASSUME NEW p \in Nat \ {0}, NEW x \in Int
  PROVE  (p * x) \div p = x
<1>1. PICK d \in Int : d = (p * x) \div p
  OBVIOUS
<1>2. p * d <= p * x /\ p * x < p * d + p
  BY <1>1
<1>3. PICK e \in Int : e = x - d /\ x = d + e
  <2>1. x - d \in Int /\ x = d + (x - d)
    OBVIOUS
  <2> QED
    BY <2>1
<1>4. p * x = p * d + p * e
  BY <1>3
<1>5. PICK m \in Int : m = p * e /\ 0 <= m /\ m < p
  <2>1. p * e \in Int /\ p * d \in Int
    OBVIOUS
  <2> QED
    BY <1>2, <1>4, <2>1
<1>6. ~ (e >= 1) /\ ~ (e <= -1)
  <2>1. e >= 1 => p * e >= p
    OBVIOUS
  <2>2. e <= -1 => p * e <= - p
    OBVIOUS
  <2> QED
    BY <1>5, <2>1, <2>2
<1>7. e = 0
  BY <1>6
<1> QED
  BY <1>1, <1>3, <1>7

\* What a level can take, and what that yields, are numbers.
LEMMA TurnTyped ==
  ASSUME NEW buy \in BOOLEAN, NEW levels \in Seq(LevelSet), NEW n \in Nat, n = Len(levels)
  PROVE  /\ DOMAIN levels = 1 .. n
         /\ \A i \in 1 .. n : /\ levels[i] \in LevelSet
                              /\ levels[i][1] \in Nat \ {0} /\ levels[i][2] \in Nat
         /\ LevelPrices(levels) \in [1 .. n -> Int]
         /\ TurnSizes(buy, levels) \in [1 .. n -> Nat]
         /\ TurnGain(buy, levels) \in [1 .. n -> [Int -> Int]]
         /\ \A i \in 1 .. n : TurnGain(buy, levels)[i][0] = 0
<1>1. DOMAIN levels = 1 .. n /\ \A i \in 1 .. n : levels[i] \in LevelSet
  BY SeqShape
<1>2. \A i \in 1 .. n : levels[i][1] \in Nat \ {0} /\ levels[i][2] \in Nat
  BY <1>1 DEF LevelSet
<1>3. LevelPrices(levels) \in [1 .. n -> Int]
  BY <1>1, <1>2 DEF LevelPrices
<1>4. TurnSizes(buy, levels) \in [1 .. n -> Nat]
  <2>1. ASSUME NEW i \in 1 .. n
        PROVE  levels[i][2] * Share \in Nat /\ levels[i][1] * levels[i][2] * Share \in Nat
    <3>1. PICK p \in Nat, q \in Nat : p = levels[i][1] /\ q = levels[i][2]
      BY <1>2
    <3>2. q * 12 \in Nat /\ p * q \in Nat
      OBVIOUS
    <3>3. PICK z \in Nat : z = p * q
      BY <3>2
    <3>4. z * 12 \in Nat
      OBVIOUS
    <3> QED
      BY <3>1, <3>2, <3>3, <3>4 DEF Share
  <2>2. CASE buy
    <3>1. TurnSizes(buy, levels) = [i \in 1 .. n |-> levels[i][1] * levels[i][2] * Share]
      BY <1>1, <2>2 DEF TurnSizes, Costs
    <3> QED
      BY <2>1, <3>1
  <2>3. CASE ~ buy
    <3>1. TurnSizes(buy, levels) = [i \in 1 .. n |-> levels[i][2] * Share]
      BY <1>1, <2>3 DEF TurnSizes, Quantities
    <3> QED
      BY <2>1, <3>1
  <2> QED
    BY <2>2, <2>3
<1>5. ASSUME NEW i \in 1 .. n
      PROVE  /\ \A x \in Int : TurnYield(buy, levels[i][1], x) \in Int
             /\ TurnYield(buy, levels[i][1], 0) = 0
  <2>1. PICK p \in Nat \ {0} : p = levels[i][1]
    BY <1>2
  <2>2. \A x \in Int : x * p \in Int /\ x \div p \in Int
    OBVIOUS
  <2>3. 0 * p = 0 /\ 0 \div p = 0
    OBVIOUS
  <2> QED
    BY <2>1, <2>2, <2>3 DEF TurnYield
<1>6. TurnGain(buy, levels) = [i \in 1 .. n |-> [x \in Int |-> TurnYield(buy, levels[i][1], x)]]
  BY <1>1 DEF TurnGain
<1>7. \A i \in 1 .. n : [x \in Int |-> TurnYield(buy, levels[i][1], x)] \in [Int -> Int]
  BY ONLY <1>5
<1>8. TurnGain(buy, levels) \in [1 .. n -> [Int -> Int]]
  BY ONLY <1>6, <1>7
<1>9. \A i \in 1 .. n : TurnGain(buy, levels)[i][0] = 0
  <2>1. 0 \in Int
    OBVIOUS
  <2> QED
    BY <1>5, <1>6, <2>1
<1> QED
  BY <1>1, <1>2, <1>3, <1>4, <1>8, <1>9

\* The step is one of a walk.
LEMMA TurnIsWalk ==
  ASSUME NEW buy \in BOOLEAN, NEW levels \in Seq(LevelSet), NEW i \in 1 .. Len(levels),
         NEW w \in WalkSet
  PROVE  /\ TurnStep(buy, w, levels[i]) =
              WalkStep(w, LevelPrices(levels)[i], TurnSizes(buy, levels)[i],
                       TurnGain(buy, levels)[i][w.left],
                       TurnGain(buy, levels)[i][TurnSizes(buy, levels)[i]])
         /\ TurnStep(buy, w, levels[i]) \in WalkSet
<1>1. PICK n \in Nat : n = Len(levels)
  OBVIOUS
<1>2. /\ DOMAIN levels = 1 .. n /\ i \in 1 .. n
      /\ levels[i][1] \in Nat \ {0} /\ levels[i][2] \in Nat
      /\ TurnSizes(buy, levels) \in [1 .. n -> Nat]
      /\ TurnGain(buy, levels) \in [1 .. n -> [Int -> Int]]
  BY <1>1, TurnTyped
<1>3. PICK p \in Nat \ {0}, q \in Nat : p = levels[i][1] /\ q = levels[i][2]
  BY <1>2
<1>4. PICK x \in Nat : x = TurnSizes(buy, levels)[i]
  BY <1>2
<1>5. x = IF buy THEN p * q * Share ELSE q * Share
  BY <1>2, <1>3, <1>4 DEF TurnSizes, Costs, Quantities
<1>6. w.left \in Int /\ w.got \in Int
  BY DEF WalkSet
<1>7. PICK rest \in Int, whole \in Int :
        rest = TurnYield(buy, p, w.left) /\ whole = TurnYield(buy, p, x)
  <2>1. w.left * p \in Int /\ w.left \div p \in Int /\ x * p \in Int /\ x \div p \in Int
    BY <1>6
  <2> QED
    BY <2>1 DEF TurnYield
<1>8. /\ TurnGain(buy, levels)[i][w.left] = rest /\ TurnGain(buy, levels)[i][x] = whole
      /\ LevelPrices(levels)[i] = p
  BY <1>2, <1>3, <1>6, <1>7 DEF TurnGain, LevelPrices
<1>9. TurnStep(buy, w, levels[i]) = WalkStep(w, p, x, rest, whole)
  <2>1. CASE buy
    <3>1. x = p * q * Share /\ rest = w.left \div p /\ whole = x \div p
      BY <1>5, <1>7, <2>1 DEF TurnYield
    <3>2. whole = q * Share
      <4>1. (p * (q * 12)) \div p = q * 12
        <5>1. q * 12 \in Int
          OBVIOUS
        <5> QED
          BY <5>1, MultipleDivided
      <4>2. p * q * 12 = p * (q * 12)
        OBVIOUS
      <4> QED
        BY <3>1, <4>1, <4>2 DEF Share
    <3>3. TurnStep(buy, w, levels[i]) = BuyStep(w, levels[i])
      BY <2>1 DEF TurnStep
    <3> QED
      BY <1>3, <3>1, <3>2, <3>3 DEF BuyStep, WalkStep
  <2>2. CASE ~ buy
    <3>1. x = q * Share /\ rest = w.left * p /\ whole = x * p
      BY <1>5, <1>7, <2>2 DEF TurnYield
    <3>2. TurnStep(buy, w, levels[i]) = SellStep(w, levels[i])
      BY <2>2 DEF TurnStep
    <3> QED
      BY <1>3, <3>1, <3>2 DEF SellStep, WalkStep
  <2> QED
    BY <2>1, <2>2
<1>10. WalkStep(w, p, x, rest, whole) \in WalkSet
  <2>1. PICK y \in Int, z \in Int, l \in Int :
          y = w.got + rest /\ z = w.got + whole /\ l = w.left - x
    BY <1>6
  <2>2. p \in Int /\ 0 \in Int
    OBVIOUS
  <2>3. [w EXCEPT !.next = p, !.over = TRUE] \in WalkSet
    BY <2>2 DEF WalkSet
  <2>4. [w EXCEPT !.next = p, !.got = y, !.left = 0, !.done = TRUE] \in WalkSet
    BY <2>2 DEF WalkSet
  <2>5. [w EXCEPT !.next = p, !.got = z, !.left = l] \in WalkSet
    BY <2>2 DEF WalkSet
  <2> QED
    BY <2>1, <2>3, <2>4, <2>5 DEF WalkStep
<1> QED
  BY <1>4, <1>8, <1>9, <1>10

\* A step leads to a state of a walk.
LEMMA StepTyped ==
  ASSUME NEW buy \in BOOLEAN, NEW level \in LevelSet, NEW w \in WalkSet
  PROVE  TurnStep(buy, w, level) \in WalkSet
<1>1. PICK levels \in Seq(LevelSet) : Len(levels) = 1 /\ levels[1] = level
  <2>1. <<level>> \in Seq(LevelSet) /\ Len(<<level>>) = 1 /\ <<level>>[1] = level
    OBVIOUS
  <2> QED
    BY <2>1
<1>2. PICK i \in 1 .. Len(levels) : i = 1
  BY <1>1
<1>3. TurnStep(buy, w, levels[i]) \in WalkSet
  BY TurnIsWalk
<1> QED
  BY <1>1, <1>2, <1>3

\* The start of a walk.
LEMMA StartTyped ==
  ASSUME NEW amount \in Nat
  PROVE  WalkStart(amount) \in WalkSet
<1>1. WalkStart(amount) = [left |-> amount, got |-> 0, next |-> -1, done |-> FALSE, over |-> FALSE]
  BY DEF WalkStart
<1> QED
  BY <1>1 DEF WalkSet

\* So there is a function that follows the recursion.
LEMMA TurnsExist ==
  ASSUME NEW buy \in BOOLEAN, NEW levels \in Seq(LevelSet), NEW amount \in Nat
  PROVE  \E g : Turns(g, buy, levels, amount)
<1> DEFINE op == [v \in WalkSet \X LevelSet |-> TurnStep(buy, v[1], v[2])]
<1>1. op \in [WalkSet \X LevelSet -> WalkSet]
  BY StepTyped
<1>2. \A w \in WalkSet, l \in LevelSet : op[<<w, l>>] = TurnStep(buy, w, l)
  OBVIOUS
<1> HIDE DEF op
<1>3. PICK n \in Nat : n = Len(levels)
  OBVIOUS
<1>4. DOMAIN levels = 1 .. n /\ \A i \in 1 .. n : levels[i] \in LevelSet
  BY <1>3, TurnTyped
<1>5. PICK start \in WalkSet : start = WalkStart(amount)
  BY StartTyped
<1>6. PICK g \in [SUBSET (1 .. n) -> WalkSet] : Follows(g, SUBSET (1 .. n), start, op, levels)
  <2>1. PICK A : A = WalkSet
    OBVIOUS
  <2>2. PICK L : L = LevelSet
    OBVIOUS
  <2>3. start \in A /\ op \in [A \X L -> A] /\ \A i \in 1 .. n : levels[i] \in L
    BY <1>1, <1>4, <2>1, <2>2
  <2>4. CanFold(A, start, op, n, levels)
    BY ONLY n \in Nat, <2>3, FoldCan
  <2> QED
    BY <2>1, <2>4 DEF CanFold
<1>7. ASSUME NEW s \in SUBSET (1 .. n), s # {}
      PROVE  op[<<g[s \ {TopIndex(s)}], levels[TopIndex(s)]>>]
               = TurnStep(buy, g[s \ {TopIndex(s)}], levels[TopIndex(s)])
  <2>1. TopIndex(s) \in 1 .. n
    BY <1>3, <1>7, TopIn
  <2>2. PICK w \in WalkSet : w = g[s \ {TopIndex(s)}]
    BY <1>6
  <2>3. PICK l \in LevelSet : l = levels[TopIndex(s)]
    BY <1>4, <2>1
  <2> QED
    BY <1>2, <2>2, <2>3
<1>8. g = [s \in SUBSET (1 .. n) |->
             IF s = {} THEN start
             ELSE TurnStep(buy, g[s \ {TopIndex(s)}], levels[TopIndex(s)])]
  BY <1>6, <1>7 DEF Follows
<1> QED
  BY <1>4, <1>5, <1>8 DEF Turns

\* The states it goes through are a walk.
LEMMA TurnWalk ==
  ASSUME NEW buy \in BOOLEAN, NEW levels \in Seq(LevelSet), NEW n \in Nat, n = Len(levels),
         NEW amount \in Nat, NEW g, Turns(g, buy, levels, amount)
  PROVE  Walk([k \in 0 .. n |-> g[1 .. k]], n, LevelPrices(levels), TurnSizes(buy, levels),
              TurnGain(buy, levels), amount)
<1>1. DOMAIN levels = 1 .. n /\ \A i \in 1 .. n : levels[i] \in LevelSet
  BY TurnTyped
<1>2. g = [s \in SUBSET (1 .. n) |->
             IF s = {} THEN WalkStart(amount)
             ELSE TurnStep(buy, g[s \ {TopIndex(s)}], levels[TopIndex(s)])]
  BY <1>1 DEF Turns
<1>3. g[1 .. 0] = WalkStart(amount)
  <2>1. 1 .. 0 = {} /\ 1 .. 0 \in SUBSET (1 .. n)
    OBVIOUS
  <2> QED
    BY <1>2, <2>1
<1>4. ASSUME NEW k \in Nat, k + 1 <= n
      PROVE  g[1 .. k + 1] = TurnStep(buy, g[1 .. k], levels[k + 1])
  <2>1. 1 .. k + 1 \in SUBSET (1 .. n) /\ 1 .. k + 1 # {}
    <3>1. k + 1 \in 1 .. k + 1
      BY <1>4
    <3>2. \A i \in 1 .. k + 1 : i \in 1 .. n
      BY <1>4
    <3> QED
      BY <3>1, <3>2
  <2>2. TopIndex(1 .. k + 1) = k + 1 /\ (1 .. k + 1) \ {k + 1} = 1 .. k
    BY <1>4, TopFirst
  <2> QED
    BY <1>2, <2>1, <2>2
<1> DEFINE T == {k \in Nat : k <= n => g[1 .. k] \in WalkSet}
<1>5. 0 \in T
  BY <1>3, StartTyped
<1>6. ASSUME NEW k \in T PROVE k + 1 \in T
  <2>0. k \in Nat /\ k + 1 \in Nat
    OBVIOUS
  <2>1. CASE k + 1 <= n
    <3>1. PICK w \in WalkSet : w = g[1 .. k]
      BY <2>0, <2>1
    <3>2. PICK l \in LevelSet : l = levels[k + 1]
      <4>1. k + 1 \in 1 .. n
        BY <2>0, <2>1
      <4> QED
        BY <1>1, <4>1
    <3>3. TurnStep(buy, w, l) \in WalkSet
      BY StepTyped
    <3> QED
      BY <1>4, <2>0, <2>1, <3>1, <3>2, <3>3
  <2> QED
    BY <2>0, <2>1
<1>7. T = Nat
  <2>1. T \in SUBSET Nat
    OBVIOUS
  <2> HIDE DEF T
  <2> QED
    BY <1>5, <1>6, <2>1, Counting
<1>8. \A k \in 0 .. n : g[1 .. k] \in WalkSet
  BY <1>7
<1> HIDE DEF T
<1>9. PICK v : v = [k \in 0 .. n |-> g[1 .. k]] /\ \A k \in 0 .. n : v[k] = g[1 .. k]
  <2>1. \A k \in 0 .. n : [j \in 0 .. n |-> g[1 .. j]][k] = g[1 .. k]
    OBVIOUS
  <2> QED
    BY <2>1
<1>10. ASSUME NEW k \in 1 .. n
       PROVE  v[k] = WalkStep(v[k - 1], LevelPrices(levels)[k], TurnSizes(buy, levels)[k],
                              TurnGain(buy, levels)[k][v[k - 1].left],
                              TurnGain(buy, levels)[k][TurnSizes(buy, levels)[k]])
  <2>1. PICK j \in Nat : j = k - 1 /\ j + 1 = k /\ j + 1 <= n /\ j \in 0 .. n /\ k \in 0 .. n
    <3>1. k - 1 \in Nat /\ k - 1 + 1 = k /\ k - 1 \in 0 .. n /\ k \in 0 .. n /\ k <= n
      OBVIOUS
    <3> QED
      BY <3>1
  <2>2. PICK w \in WalkSet : w = g[1 .. j] /\ w = v[k - 1]
    BY <1>8, <1>9, <2>1
  <2>3. v[k] = TurnStep(buy, w, levels[k])
    BY <1>4, <1>9, <2>1, <2>2
  <2>4. k \in 1 .. Len(levels)
    OBVIOUS
  <2>5. TurnStep(buy, w, levels[k]) =
          WalkStep(w, LevelPrices(levels)[k], TurnSizes(buy, levels)[k],
                   TurnGain(buy, levels)[k][w.left],
                   TurnGain(buy, levels)[k][TurnSizes(buy, levels)[k]])
    BY <2>4, TurnIsWalk
  <2> QED
    BY <2>2, <2>3, <2>5
<1>11. v[0] = WalkStart(amount) /\ \A k \in 0 .. n : v[k] \in WalkSet
  BY <1>3, <1>8, <1>9
<1>12. Walk(v, n, LevelPrices(levels), TurnSizes(buy, levels), TurnGain(buy, levels), amount)
  BY <1>10, <1>11 DEF Walk
<1> QED
  BY <1>9, <1>12

\* An order that reaches the levels up to one that has enough, or all of them,
\* takes of each what it is given.
LEMMA TakenIsGiven ==
  ASSUME NEW n \in Nat, NEW sizes \in [1 .. n -> Nat], NEW amount \in Nat, NEW r \in 1 .. n,
         amount <= Room(sizes, r) \/ r = n, NEW reached, \A i \in 1 .. n : i <= r => i \in reached
  PROVE  /\ DOMAIN Taken(sizes, reached, amount) = 1 .. n
         /\ \A i \in 1 .. n : /\ Taken(sizes, reached, amount)[i] = Given(sizes, amount, i)
                              /\ Given(sizes, amount, i) \in Nat
<1>1. ASSUME NEW i \in 1 .. n
      PROVE  /\ Given(sizes, amount, i) \in Nat
             /\ i \notin reached => Given(sizes, amount, i) = 0
  <2>1. PICK k \in Nat : k + 1 = i /\ k + 1 <= n
    <3>1. i - 1 \in Nat /\ i - 1 + 1 = i /\ i <= n
      OBVIOUS
    <3> QED
      BY <3>1
  <2>2. GivenRight(sizes, amount, k)
    BY <2>1, GivenNext
  <2>3. ASSUME i \notin reached PROVE amount <= Room(sizes, k)
    <3>1. ~ (i <= r)
      BY <2>3
    <3>2. r \in Nat /\ r <= k /\ k <= n /\ r # n
      BY <2>1, <3>1
    <3>3. Room(sizes, r) \in Nat /\ Room(sizes, k) \in Nat /\ Room(sizes, r) <= Room(sizes, k)
      BY <3>2, RoomGrows
    <3> QED
      BY <3>2, <3>3
  <2> QED
    BY <2>1, <2>2, <2>3 DEF GivenRight
<1>2. Taken(sizes, reached, amount) =
        [i \in 1 .. n |-> IF i \in reached THEN Given(sizes, amount, i) ELSE 0]
  <2>1. DOMAIN sizes = 1 .. n
    OBVIOUS
  <2> QED
    BY <2>1 DEF Taken, Given, Room
<1> QED
  BY <1>1, <1>2

\* What an order that turns over the amount, limited at the price the walk
\* ended with, takes and yields.
TurnReached(buy, levels, end) ==
  {i \in DOMAIN levels : IF buy THEN levels[i][1] <= end.next ELSE levels[i][1] >= end.next}
TurnTaken(buy, levels, amount, end) ==
  Taken(TurnSizes(buy, levels), TurnReached(buy, levels, end), amount)
TurnRight(buy, levels, amount, end) ==
  /\ SumFunction(TurnTaken(buy, levels, amount, end)) =
       Lower(amount, SumFunction(TurnSizes(buy, levels)))
  /\ end.got = SumFunction([i \in DOMAIN levels |->
       TurnYield(buy, levels[i][1], TurnTaken(buy, levels, amount, end)[i])])

\* Selling to bids or buying from asks: an order limited at the price named is
\* executed as far as the whole side goes, and yields what was computed
\* (getBestTurnOver, main.cpp).
THEOREM TurnEnds ==
  ASSUME NEW buy \in BOOLEAN, NEW levels \in Seq(LevelSet), IsSide(levels, buy), levels # <<>>,
         NEW amount \in Nat, NEW g, Turns(g, buy, levels, amount)
  PROVE  TurnRight(buy, levels, amount, g[DOMAIN levels])
<1>1. PICK n \in Nat : n = Len(levels) /\ n > 0
  OBVIOUS
<1>2. /\ DOMAIN levels = 1 .. n
      /\ \A i \in 1 .. n : levels[i][1] \in Nat \ {0} /\ levels[i][2] \in Nat
  BY <1>1, TurnTyped
<1>3. PICK sizes : sizes = TurnSizes(buy, levels)
  OBVIOUS
<1>4. PICK prices : prices = LevelPrices(levels)
  OBVIOUS
<1>5. PICK gain : gain = TurnGain(buy, levels)
  OBVIOUS
<1>t. /\ sizes \in [1 .. n -> Nat] /\ prices \in [1 .. n -> Int]
      /\ gain \in [1 .. n -> [Int -> Int]] /\ \A i \in 1 .. n : gain[i][0] = 0
  <2>1. /\ TurnSizes(buy, levels) \in [1 .. n -> Nat]
        /\ LevelPrices(levels) \in [1 .. n -> Int]
        /\ TurnGain(buy, levels) \in [1 .. n -> [Int -> Int]]
    BY <1>1, TurnTyped
  <2>2. \A i \in 1 .. n : TurnGain(buy, levels)[i][0] = 0
    BY <1>1, TurnTyped
  <2> QED
    BY ONLY <1>3, <1>4, <1>5, <2>1, <2>2
<1>6. PICK w : w = [k \in 0 .. n |-> g[1 .. k]] /\ w[n] = g[DOMAIN levels]
  <2>1. n \in 0 .. n
    OBVIOUS
  <2>2. [k \in 0 .. n |-> g[1 .. k]][n] = g[1 .. n]
    BY <2>1
  <2> QED
    BY <1>2, <2>2
<1>7. Walk(w, n, prices, sizes, gain, amount)
  BY <1>1, <1>3, <1>4, <1>5, <1>6, TurnWalk
<1>8. ASSUME NEW i \in 1 .. n PROVE Given(sizes, amount, i) \in Nat
  <2>1. PICK k \in Nat : k + 1 = i /\ k + 1 <= n
    <3>1. i - 1 \in Nat /\ i - 1 + 1 = i /\ i <= n
      OBVIOUS
    <3> QED
      BY <3>1
  <2>2. GivenRight(sizes, amount, k)
    BY <1>t, <2>1, GivenNext
  <2> QED
    BY <2>1, <2>2 DEF GivenRight
<1>9. PICK gains : /\ gains \in [1 .. n -> Int]
                   /\ \A i \in 1 .. n : gains[i] = gain[i][Given(sizes, amount, i)]
  <2> DEFINE h == [i \in 1 .. n |-> gain[i][Given(sizes, amount, i)]]
  <2>1. ASSUME NEW i \in 1 .. n PROVE gain[i][Given(sizes, amount, i)] \in Int
    <3>1. PICK f \in [Int -> Int] : f = gain[i]
      BY <1>t
    <3>2. PICK d \in Int : d = Given(sizes, amount, i)
      BY <1>8
    <3> QED
      BY <3>1, <3>2
  <2>2. h \in [1 .. n -> Int]
    BY <2>1
  <2>3. \A i \in 1 .. n : h[i] = gain[i][Given(sizes, amount, i)]
    OBVIOUS
  <2> QED
    BY <2>2, <2>3
<1>10. WalkEnded(w[n], n, prices, sizes, gains, amount)
  <2>1. gains \in [1 .. n -> Int] /\ n > 0
    BY <1>1, <1>9
  <2>2. \A i \in 1 .. n : gain[i][0] = 0
    BY <1>t
  <2>3. /\ sizes \in [1 .. n -> Nat] /\ prices \in [1 .. n -> Int]
        /\ gain \in [1 .. n -> [Int -> Int]]
    BY <1>t
  <2>4. \A i \in 1 .. n : gains[i] = gain[i][Given(sizes, amount, i)]
    BY <1>9
  <2> QED
    BY ONLY n \in Nat, amount \in Nat, <1>7, <2>1, <2>2, <2>3, <2>4, WalkEnds,
       ZenonT(60)
<1>11. PICK r \in 1 .. n : w[n].next = prices[r] /\ (amount <= Room(sizes, r) \/ r = n)
  BY <1>10 DEF WalkEnded
<1>12. PICK end : end = g[DOMAIN levels] /\ end = w[n]
  BY <1>6
<1>13. end.next = levels[r][1]
  BY <1>2, <1>4, <1>11, <1>12 DEF LevelPrices
<1>14. PICK reached : reached = TurnReached(buy, levels, end)
  OBVIOUS
<1>15. ASSUME NEW i \in 1 .. n, i <= r PROVE i \in reached
  <2>1. i = r \/ Before(levels[i][1], levels[r][1], buy)
    <3>1. CASE i < r
      <4>1. i \in 1 .. Len(levels) /\ r \in 1 .. Len(levels)
        BY <1>1
      <4> QED
        BY <3>1, <4>1 DEF IsSide
    <3>2. CASE i = r
      BY <3>2
    <3> QED
      BY <1>15, <3>1, <3>2
  <2>2. PICK a \in Nat, b \in Nat : a = levels[i][1] /\ b = levels[r][1]
    BY <1>2
  <2>3. a = b \/ Before(a, b, buy)
    BY <2>1, <2>2
  <2>4. IF buy THEN a <= b ELSE a >= b
    BY <2>3 DEF Before
  <2> QED
    BY <1>2, <1>13, <1>14, <2>2, <2>4 DEF TurnReached
<1>16. PICK taken : taken = Taken(sizes, reached, amount)
  OBVIOUS
<1>17. DOMAIN taken = 1 .. n /\ \A i \in 1 .. n : taken[i] = Given(sizes, amount, i)
  <2>1. amount <= Room(sizes, r) \/ r = n
    BY <1>11
  <2>2. \A i \in 1 .. n : i <= r => i \in reached
    BY <1>15
  <2>3. /\ DOMAIN Taken(sizes, reached, amount) = 1 .. n
        /\ \A i \in 1 .. n : /\ Taken(sizes, reached, amount)[i] = Given(sizes, amount, i)
                             /\ Given(sizes, amount, i) \in Nat
    BY ONLY n \in Nat, <1>t, amount \in Nat, r \in 1 .. n,
       <2>1, <2>2, TakenIsGiven, ZenonT(60)
  <2> QED
    BY ONLY <1>16, <2>3
<1>18. PICK t : /\ t \in [1 .. n -> Nat]
                /\ \A i \in 1 .. n : t[i] = Given(sizes, amount, i)
  <2> DEFINE h == [i \in 1 .. n |-> Given(sizes, amount, i)]
  <2>1. h \in [1 .. n -> Nat] /\ \A i \in 1 .. n : h[i] = Given(sizes, amount, i)
    BY <1>8
  <2> QED
    BY <2>1
<1>19. IsFiniteSet(1 .. n)
  BY FS_Interval
<1>20. SumFunction(taken) = Lower(amount, SumFunction(sizes))
  <2>1. SumFunctionOnSet(t, 1 .. n) = Lower(amount, Room(sizes, n))
    BY <1>t, <1>18, GivenSum
  <2>2. \A i \in 1 .. n : taken[i] = t[i]
    BY <1>17, <1>18
  <2>3. SumFunctionOnSet(taken, 1 .. n) = SumFunctionOnSet(t, 1 .. n)
    BY <1>19, <2>2, SumSame
  <2>4. DOMAIN sizes = 1 .. n
    BY <1>t
  <2> QED
    BY <1>17, <2>1, <2>3, <2>4 DEF SumFunction, Room
<1>21. PICK y : y = [i \in 1 .. n |-> TurnYield(buy, levels[i][1], taken[i])]
  OBVIOUS
<1>22. end.got = SumFunction(y)
  <2>1. ASSUME NEW i \in 1 .. n PROVE y[i] = gains[i]
    <3>1. PICK d : d = taken[i] /\ d = Given(sizes, amount, i) /\ d \in Int
      <4>1. Given(sizes, amount, i) \in Nat /\ taken[i] = Given(sizes, amount, i)
        BY <1>8, <1>17
      <4> QED
        BY ONLY <4>1
    <3>2. gain[i][d] = TurnYield(buy, levels[i][1], d)
      <4>1. TurnGain(buy, levels)[i] = [x \in Int |-> TurnYield(buy, levels[i][1], x)]
        BY <1>2 DEF TurnGain
      <4>2. [x \in Int |-> TurnYield(buy, levels[i][1], x)][d]
              = TurnYield(buy, levels[i][1], d)
        BY <3>1
      <4> QED
        BY <1>5, <4>1, <4>2
    <3> QED
      BY <1>9, <1>21, <3>1, <3>2
  <2>2. SumFunctionOnSet(y, 1 .. n) = SumFunctionOnSet(gains, 1 .. n)
    BY <1>19, <2>1, SumSame
  <2>3. DOMAIN y = 1 .. n
    BY <1>21
  <2> QED
    BY <1>10, <1>12, <2>2, <2>3 DEF SumFunction, WalkEnded
<1>23. taken = TurnTaken(buy, levels, amount, end)
  BY <1>3, <1>14, <1>16 DEF TurnTaken
<1> QED
  BY <1>2, <1>3, <1>12, <1>20, <1>21, <1>22, <1>23 DEF TurnRight

\* What TurnOverReachable says of books, an amount and what was computed.
Turned(bids, asks, amount, r) ==
  LET sold == Taken(Quantities(bids), {i \in DOMAIN bids : bids[i][1] >= r.nxt_bid_lvl}, amount)
      paid == Taken(Costs(asks), {i \in DOMAIN asks : asks[i][1] <= r.nxt_ask_lvl}, amount)
  IN  /\ SumFunction(sold) = Lower(amount, SumFunction(Quantities(bids)))
      /\ r.quote = SumFunction([i \in DOMAIN bids |-> sold[i] * bids[i][1]])
      /\ SumFunction(paid) = Lower(amount, SumFunction(Costs(asks)))
      /\ r.base = SumFunction([i \in DOMAIN asks |-> paid[i] \div asks[i][1]])

\* Whatever the books and the amount: an order limited at the price that
\* getBestTurnOver names is executed as far as the whole book goes, and yields
\* what it computed (main.cpp).
THEOREM TurnOverExecuted ==
  ASSUME NEW bids \in Seq(LevelSet), IsSide(bids, FALSE), bids # <<>>,
         NEW asks \in Seq(LevelSet), IsSide(asks, TRUE), asks # <<>>, NEW amount \in Nat
  PROVE  Turned(bids, asks, amount, GetBestTurnOver(bids, asks, amount))
<1>1. PICK g : g = (CHOOSE h : Sells(h, bids, amount)) /\ Turns(g, FALSE, bids, amount)
  <2>1. \E h : Sells(h, bids, amount)
    BY TurnsExist, TurnsAre
  <2> QED
    BY <2>1, TurnsAre
<1>2. PICK f : f = (CHOOSE h : Buys(h, asks, amount)) /\ Turns(f, TRUE, asks, amount)
  <2>1. \E h : Buys(h, asks, amount)
    BY TurnsExist, TurnsAre
  <2> QED
    BY <2>1, TurnsAre
<1>3. PICK sold : sold = g[DOMAIN bids] /\ TurnRight(FALSE, bids, amount, sold)
  BY <1>1, TurnEnds
<1>4. PICK bought : bought = f[DOMAIN asks] /\ TurnRight(TRUE, asks, amount, bought)
  BY <1>2, TurnEnds
<1>5. PICK r : /\ r = GetBestTurnOver(bids, asks, amount)
               /\ r.quote = sold.got /\ r.nxt_bid_lvl = sold.next
               /\ r.base = bought.got /\ r.nxt_ask_lvl = bought.next
  <2>1. GetBestTurnOver(bids, asks, amount) =
          [quote |-> sold.got, nxt_bid_lvl |-> sold.next,
           base |-> bought.got, nxt_ask_lvl |-> bought.next]
    BY <1>1, <1>2, <1>3, <1>4, TurnOverChosen
  <2> QED
    BY <2>1
<1>6. PICK taken : taken = Taken(Quantities(bids),
                                 {i \in DOMAIN bids : bids[i][1] >= r.nxt_bid_lvl}, amount)
  OBVIOUS
<1>7. /\ SumFunction(taken) = Lower(amount, SumFunction(Quantities(bids)))
      /\ r.quote = SumFunction([i \in DOMAIN bids |-> taken[i] * bids[i][1]])
  <2>1. TurnSizes(FALSE, bids) = Quantities(bids)
    BY DEF TurnSizes
  <2>2. TurnReached(FALSE, bids, sold) = {i \in DOMAIN bids : bids[i][1] >= r.nxt_bid_lvl}
    BY <1>5 DEF TurnReached
  <2>3. TurnTaken(FALSE, bids, amount, sold) = taken
    BY <1>6, <2>1, <2>2 DEF TurnTaken
  <2>4. [i \in DOMAIN bids |-> TurnYield(FALSE, bids[i][1], taken[i])] =
          [i \in DOMAIN bids |-> taken[i] * bids[i][1]]
    BY DEF TurnYield
  <2> QED
    BY <1>3, <1>5, <2>1, <2>3, <2>4 DEF TurnRight
<1>8. PICK paid : paid = Taken(Costs(asks),
                               {i \in DOMAIN asks : asks[i][1] <= r.nxt_ask_lvl}, amount)
  OBVIOUS
<1>9. /\ SumFunction(paid) = Lower(amount, SumFunction(Costs(asks)))
      /\ r.base = SumFunction([i \in DOMAIN asks |-> paid[i] \div asks[i][1]])
  <2>1. TurnSizes(TRUE, asks) = Costs(asks)
    BY DEF TurnSizes
  <2>2. TurnReached(TRUE, asks, bought) = {i \in DOMAIN asks : asks[i][1] <= r.nxt_ask_lvl}
    BY <1>5 DEF TurnReached
  <2>3. TurnTaken(TRUE, asks, amount, bought) = paid
    BY <1>8, <2>1, <2>2 DEF TurnTaken
  <2>4. [i \in DOMAIN asks |-> TurnYield(TRUE, asks[i][1], paid[i])] =
          [i \in DOMAIN asks |-> paid[i] \div asks[i][1]]
    BY DEF TurnYield
  <2> QED
    BY <1>4, <1>5, <2>1, <2>3, <2>4 DEF TurnRight
<1>10. Turned(bids, asks, amount, r)
  BY <1>6, <1>7, <1>8, <1>9 DEF Turned
<1> QED
  BY <1>5, <1>10

\* A side at positive prices, on which nobody offers less than nothing, can be
\* traded with.
LEMMA SideTradable ==
  ASSUME NEW levels, NEW up, IsSide(levels, up),
         \A i \in DOMAIN levels : levels[i][1] > 0 /\ levels[i][2] >= 0
  PROVE  levels \in Seq(LevelSet)
<1>1. levels \in Seq(Int \X Int)
  BY DEF IsSide
<1>2. PICK n \in Nat : n = Len(levels)
  BY <1>1
<1>3. DOMAIN levels = 1 .. n /\ levels = [i \in 1 .. n |-> levels[i]]
  BY <1>1, <1>2
<1>4. ASSUME NEW i \in 1 .. n PROVE levels[i] \in LevelSet
  <2>0. i \in DOMAIN levels /\ i \in 1 .. Len(levels)
    BY <1>2, <1>3
  <2>1. levels[i] \in Int \X Int /\ levels[i][1] > 0 /\ levels[i][2] >= 0
    BY <1>1, <2>0
  <2>2. PICK p \in Int, q \in Int : levels[i] = <<p, q>>
    BY <2>1
  <2>3. p > 0 /\ q >= 0
    BY <2>1, <2>2
  <2>4. <<p, q>> \in (Nat \ {0}) \X Nat
    BY <2>3
  <2> QED
    BY <2>2, <2>4 DEF LevelSet
<1>5. levels \in [1 .. n -> LevelSet]
  BY <1>3, <1>4
<1> QED
  BY <1>2, <1>5

\* getBestTurnOver.
LEMMA TurnOverAgrees ==
  ASSUME TurnOver
  PROVE  TurnOverReachable'
<1>1. PICK offer \in Offers, a \in Amounts :
        Calls("turnover", [bids |-> offer.bids, asks |-> offer.asks, amount |-> a * Share],
              GetBestTurnOver(offer.bids, offer.asks, a * Share))
  BY DEF TurnOver
<1>2. PICK bids : bids = offer.bids
  OBVIOUS
<1>3. PICK asks : asks = offer.asks
  OBVIOUS
<1>4. PICK amount \in Nat : amount = a * Share
  <2>1. a \in Nat
    BY NumbersAssumption
  <2>2. a * Share \in Nat
    BY <2>1 DEF Share
  <2> QED
    BY <2>2
<1>5. /\ bids # <<>> /\ IsSide(bids, FALSE)
      /\ asks # <<>> /\ IsSide(asks, TRUE)
      /\ \A i \in DOMAIN bids : bids[i][1] > 0 /\ bids[i][2] >= 0
      /\ \A i \in DOMAIN asks : asks[i][1] > 0 /\ asks[i][2] >= 0
  BY <1>2, <1>3, OffersAssumption
<1>6. bids \in Seq(LevelSet) /\ asks \in Seq(LevelSet)
  BY <1>5, SideTradable
<1>7. PICK r : r = GetBestTurnOver(bids, asks, amount) /\ Turned(bids, asks, amount, r)
  BY <1>5, <1>6, TurnOverExecuted
<1>8. call'.args = [bids |-> bids, asks |-> asks, amount |-> amount] /\ result' = r
  BY <1>1, <1>2, <1>3, <1>4, <1>7, Called
<1>9. call'.args.bids = bids /\ call'.args.asks = asks /\ call'.args.amount = amount
  BY <1>8
<1>10. Turned(call'.args.bids, call'.args.asks, call'.args.amount, result')
  BY <1>7, <1>8, <1>9
<1> QED
  BY <1>10 DEF TurnOverReachable, Turned

-------------------------------------------------------------------------------
(* Every call.                                                              *)

\* The call names the function.
LEMMA CalledBy ==
  ASSUME Next
  PROVE  /\ call'.op = "search" => Search
         /\ call'.op = "shift" => Shift
         /\ call'.op = "merge" => Merge
         /\ call'.op = "generate" => Generate
         /\ call'.op = "aggregate" => Aggregate
         /\ call'.op = "trim" => Trim
         /\ call'.op = "turnover" => TurnOver
<1>1. Name => call'.op = "name"
  BY Called DEF Name
<1>2. RoundQty => call'.op = "round"
  BY Called DEF RoundQty
<1>3. Trade => call'.op = "trade"
  BY Called DEF Trade
<1>4. Dna => call'.op = "dna"
  BY Called DEF Dna
<1>5. Date => call'.op = "date"
  BY Called DEF Date
<1>6. Duration => call'.op = "duration"
  BY Called DEF Duration
<1>7. Longest => call'.op = "timeframe"
  BY Called DEF Longest
<1>8. Search => call'.op = "search"
  BY Called DEF Search
<1>9. Shift => call'.op = "shift"
  BY Called DEF Shift
<1>10. Merge => call'.op = "merge"
  BY Called DEF Merge
<1>11. Generate => call'.op = "generate"
  BY Called DEF Generate
<1>12. Aggregate => call'.op = "aggregate"
  BY Called DEF Aggregate
<1>13. Trim => call'.op = "trim"
  BY Called DEF Trim
<1>14. TurnOver => call'.op = "turnover"
  BY Called DEF TurnOver
<1>15. Return => call'.op = "none"
  BY DEF Return, Idle
<1> QED
  BY <1>1, <1>2, <1>3, <1>4, <1>5, <1>6, <1>7, <1>8, <1>9, <1>10, <1>11, <1>12, <1>13, <1>14,
     <1>15 DEF Next

\* A sorted book is searched to the right place and stays sorted when a price is
\* inserted there, whatever the book (findOrderbookInsertionIndex, insertList,
\* binarySearch, Helper.cpp).
THEOREM BooksAreSorted == Spec => []BookStaysSorted
<1>1. Init => BookStaysSorted
  BY DEF Init, Idle, BookStaysSorted
<1>2. BookStaysSorted /\ [Next]_vars => BookStaysSorted'
  <2> SUFFICES ASSUME BookStaysSorted, [Next]_vars PROVE BookStaysSorted'
    OBVIOUS
  <2>1. CASE call'.op # "search"
    BY <2>1 DEF BookStaysSorted
  <2>2. CASE Next /\ call'.op = "search"
    BY <2>2, CalledBy, SearchAgrees
  <2>3. CASE vars' = vars
    <3>1. call' = call /\ result' = result
      BY <2>3 DEF vars
    <3>2. call.op = "search" => Found(call.args.prices, call.args.target, call.args.ascending, result)
      BY DEF BookStaysSorted, Found
    <3>3. call'.op = "search" => Found(call'.args.prices, call'.args.target, call'.args.ascending, result')
      BY <3>1, <3>2
    <3> QED
      BY <3>3 DEF BookStaysSorted, Found
  <2> QED
    BY <2>1, <2>2, <2>3
<1> QED
  BY <1>1, <1>2, PTL DEF Spec

\* Rows stay in line when a matrix is shifted, filled, cut and lengthened,
\* whatever the matrix (shift, forwardFill, sliceCandles, sameLength,
\* Helper.cpp).
THEOREM RowsStayAligned == Spec => []RowsAligned
<1>1. Init => RowsAligned
  BY DEF Init, Idle, RowsAligned
<1>2. RowsAligned /\ [Next]_vars => RowsAligned'
  <2> SUFFICES ASSUME RowsAligned, [Next]_vars PROVE RowsAligned'
    OBVIOUS
  <2>1. CASE call'.op # "shift"
    BY <2>1 DEF RowsAligned
  <2>2. CASE Next /\ call'.op = "shift"
    BY <2>2, CalledBy, ShiftAgrees
  <2>3. CASE vars' = vars
    <3>1. call' = call /\ result' = result
      BY <2>3 DEF vars
    <3>2. call.op = "shift" => /\ Aligned(call.args.matrix, call.args.by, result)
                             /\ FilledRight(call.args.matrix) /\ PaddedRight(call.args.matrix)
      BY DEF RowsAligned, Aligned, FilledRight, PaddedRight
    <3>3. call'.op = "shift" => /\ Aligned(call'.args.matrix, call'.args.by, result')
                             /\ FilledRight(call'.args.matrix) /\ PaddedRight(call'.args.matrix)
      BY <3>1, <3>2
    <3> QED
      BY <3>3 DEF RowsAligned, Aligned, FilledRight, PaddedRight
  <2> QED
    BY <2>1, <2>2, <2>3
<1> QED
  BY <1>1, <1>2, PTL DEF Spec

\* The last map has the last word and no key is lost, however merges are
\* grouped, whatever the maps (mergeMaps, Helper.cpp).
THEOREM LastHasTheWord == Spec => []LastWord
<1>1. Init => LastWord
  BY DEF Init, Idle, LastWord
<1>2. LastWord /\ [Next]_vars => LastWord'
  <2> SUFFICES ASSUME LastWord, [Next]_vars PROVE LastWord'
    OBVIOUS
  <2>1. CASE call'.op # "merge"
    BY <2>1 DEF LastWord
  <2>2. CASE Next /\ call'.op = "merge"
    BY <2>2, CalledBy, MergeAgrees
  <2>3. CASE vars' = vars
    <3>1. call' = call /\ result' = result
      BY <2>3 DEF vars
    <3>2. call.op = "merge" => MergedRight(call.args.first, call.args.second, call.args.third, result)
      BY DEF LastWord, MergedRight
    <3>3. call'.op = "merge" => MergedRight(call'.args.first, call'.args.second, call'.args.third, result')
      BY <3>1, <3>2
    <3> QED
      BY <3>3 DEF LastWord, MergedRight
  <2> QED
    BY <2>1, <2>2, <2>3
<1> QED
  BY <1>1, <1>2, PTL DEF Spec

\* Generated candles chain, and their prices lie between low and high, however
\* many are generated (generateRangeCandles, getCandleSource, Candle.cpp).
THEOREM CandlesAreChained == Spec => []CandlesChain
<1>1. Init => CandlesChain
  BY DEF Init, Idle, CandlesChain
<1>2. CandlesChain /\ [Next]_vars => CandlesChain'
  <2> SUFFICES ASSUME CandlesChain, [Next]_vars PROVE CandlesChain'
    OBVIOUS
  <2>1. CASE call'.op # "generate"
    BY <2>1 DEF CandlesChain
  <2>2. CASE Next /\ call'.op = "generate"
    BY <2>2, CalledBy, GenerateAgrees
  <2>3. CASE vars' = vars
    <3>1. call' = call /\ result' = result
      BY <2>3 DEF vars
    <3>2. call.op = "generate" => Chained(result) /\ Derived(result)
      BY DEF CandlesChain, Chained, Derived
    <3>3. call'.op = "generate" => Chained(result') /\ Derived(result')
      BY <3>1, <3>2
    <3> QED
      BY <3>3 DEF CandlesChain, Chained, Derived
  <2> QED
    BY <2>1, <2>2, <2>3
<1> QED
  BY <1>1, <1>2, PTL DEF Spec

\* A candle is the same whether it is made of the minutes or of the candles of
\* two parts, for any number of minutes (generateCandleFromOneMinutes,
\* Candle.cpp).
THEOREM AggregatesCompose == Spec => []AggregationComposes
<1>1. Init => AggregationComposes
  BY DEF Init, Idle, AggregationComposes
<1>2. AggregationComposes /\ [Next]_vars => AggregationComposes'
  <2> SUFFICES ASSUME AggregationComposes, [Next]_vars PROVE AggregationComposes'
    OBVIOUS
  <2>1. CASE call'.op # "aggregate"
    BY <2>1 DEF AggregationComposes
  <2>2. CASE Next /\ call'.op = "aggregate"
    BY <2>2, CalledBy, AggregateAgrees
  <2>3. CASE vars' = vars
    <3>1. call' = call /\ result' = result
      BY <2>3 DEF vars
    <3>2. call.op = "aggregate" => Aggregated(call.args, result)
      BY DEF AggregationComposes, Aggregated
    <3>3. call'.op = "aggregate" => Aggregated(call'.args, result')
      BY <3>1, <3>2
    <3> QED
      BY <3>3 DEF AggregationComposes, Aggregated
  <2> QED
    BY <2>1, <2>2, <2>3
<1> QED
  BY <1>1, <1>2, PTL DEF Spec

\* What a book is trimmed to is a book, whatever the book and the limit
\* (OrderbooksState::trim, Orderbook.cpp).
THEOREM TrimmedBooks == Spec => []TrimmedIsABook
<1>1. Init => TrimmedIsABook
  BY DEF Init, Idle, TrimmedIsABook
<1>2. TrimmedIsABook /\ [Next]_vars => TrimmedIsABook'
  <2> SUFFICES ASSUME TrimmedIsABook, [Next]_vars PROVE TrimmedIsABook'
    OBVIOUS
  <2>1. CASE call'.op # "trim"
    BY <2>1 DEF TrimmedIsABook
  <2>2. CASE Next /\ call'.op = "trim"
    BY <2>2, CalledBy, TrimAgrees
  <2>3. CASE vars' = vars
    <3>1. call' = call /\ result' = result
      BY <2>3 DEF vars
    <3>2. call.op = "trim" => IsTrimmed(call.args.levels, call.args.ascending, call.args.limit, result)
      BY DEF TrimmedIsABook, IsTrimmed
    <3>3. call'.op = "trim" => IsTrimmed(call'.args.levels, call'.args.ascending, call'.args.limit, result')
      BY <3>1, <3>2
    <3> QED
      BY <3>3 DEF TrimmedIsABook, IsTrimmed
  <2> QED
    BY <2>1, <2>2, <2>3
<1> QED
  BY <1>1, <1>2, PTL DEF Spec

\* The turnover an order is sized by can be traded at the limit that is named,
\* whatever the books and the amount (getBestTurnOver, main.cpp).
THEOREM TurnOversReachable == Spec => []TurnOverReachable
<1>1. Init => TurnOverReachable
  BY DEF Init, Idle, TurnOverReachable
<1>2. TurnOverReachable /\ [Next]_vars => TurnOverReachable'
  <2> SUFFICES ASSUME TurnOverReachable, [Next]_vars PROVE TurnOverReachable'
    OBVIOUS
  <2>1. CASE call'.op # "turnover"
    BY <2>1 DEF TurnOverReachable
  <2>2. CASE Next /\ call'.op = "turnover"
    BY <2>2, CalledBy, TurnOverAgrees
  <2>3. CASE vars' = vars
    <3>1. call' = call /\ result' = result
      BY <2>3 DEF vars
    <3>2. call.op = "turnover" => Turned(call.args.bids, call.args.asks, call.args.amount, result)
      BY DEF TurnOverReachable, Turned
    <3>3. call'.op = "turnover" => Turned(call'.args.bids, call'.args.asks, call'.args.amount, result')
      BY <3>1, <3>2
    <3> QED
      BY <3>3 DEF TurnOverReachable, Turned
  <2> QED
    BY <2>1, <2>2, <2>3
<1> QED
  BY <1>1, <1>2, PTL DEF Spec

\* Matrices and maps keep their data in place, however long and however they are
\* grouped (shift, forwardFill, sliceCandles, sameLength, mergeMaps, Helper.cpp).
THEOREM DataStayInPlace == Spec => []DataInPlace
BY RowsStayAligned, LastHasTheWord, PTL DEF DataInPlace

\* Candles agree with what they are made of, however many are generated or
\* aggregated (generateRangeCandles, generateCandleFromOneMinutes, Candle.cpp).
THEOREM CandlesAlwaysAgree == Spec => []CandlesAgree
BY CandlesAreChained, AggregatesCompose, PTL DEF CandlesAgree
=============================================================================
