----------------------------- MODULE FunctionProofs -----------------------------
(***************************************************************************)
(* What recursion over sets and sequences comes to: the sums               *)
(* SumFunctionOnSet and SumFunction of Functions, which the ledgers are    *)
(* compared with, and sequences folded by FoldLeft of SequencesExt.  The   *)
(* induction that this takes is had from WFMin, which speaks of sets and   *)
(* not of operators: a set of numbers with 0 and every successor has no    *)
(* gap.                                                                    *)
(***************************************************************************)
EXTENDS Integers, Sequences, FiniteSets, Functions, FiniteSetTheorems, SequenceTheorems,
        WellFoundedInduction, TLAPS

\* Some numbers have a smallest one.
LEMMA Least ==
  ASSUME NEW T \in SUBSET Nat, T # {}
  PROVE  \E n \in T : \A m \in T : n <= m
<1> DEFINE R == OpToRel(<, Nat)
<1>1. \A m, n \in Nat : m < n => <<m, n>> \in R
  BY DEF OpToRel
<1>2. IsWellFoundedOn(R, Nat)
  BY NatLessThanWellFounded
<1> HIDE DEF R
<1>3. PICK n \in T : \A m \in T : ~ (<<m, n>> \in R)
  BY <1>2, WFMin
<1>4. ASSUME NEW m \in T PROVE n <= m
  <2>1. m \in Nat /\ n \in Nat /\ ~ (<<m, n>> \in R)
    BY <1>3
  <2>2. ~ (m < n)
    BY <1>1, <2>1
  <2> QED
    BY <2>1, <2>2
<1> QED
  BY <1>4

\* A set with 0 and every successor is all the numbers.
LEMMA Counting ==
  ASSUME NEW T \in SUBSET Nat, 0 \in T, \A n \in T : n + 1 \in T
  PROVE  T = Nat
<1> DEFINE U == Nat \ T
<1> SUFFICES ASSUME U # {} PROVE FALSE
  OBVIOUS
<1>1. PICK n \in U : \A m \in U : n <= m
  <2>1. U \in SUBSET Nat
    OBVIOUS
  <2> HIDE DEF U
  <2> QED
    BY <2>1, Least
<1>2. n \in Nat /\ n \notin T /\ n # 0 /\ n - 1 \in Nat /\ n - 1 < n /\ n - 1 + 1 = n
  BY <1>1
<1>3. n - 1 \in T
  BY <1>1, <1>2
<1> QED
  BY <1>2, <1>3

\* The element by which the recursion takes a set apart.
Pick(s) == CHOOSE x \in s : TRUE

\* It is one of the set.
LEMMA PickIn ==
  ASSUME NEW s, s # {}
  PROVE  Pick(s) \in s
BY DEF Pick

\* g follows, on the sets of D, the recursion by which f is summed.
Adds(g, D, f) == g = [s \in D |-> IF s = {} THEN 0 ELSE f[Pick(s)] + g[s \ {Pick(s)}]]

\* The sum is the value of any function that follows the recursion.
LEMMA SumChosen ==
  ASSUME NEW f, NEW S
  PROVE  SumFunctionOnSet(f, S) = (CHOOSE g : Adds(g, SUBSET S, f))[S]
BY DEF SumFunctionOnSet, FoldFunctionOnSet, MapThenFoldSet, Adds, Pick

\* Of the subsets of a finite set, those that hold whenever their smaller ones
\* do are all.
LEMMA SubsetInduction ==
  ASSUME NEW S, IsFiniteSet(S), NEW Q \in SUBSET SUBSET S, {} \in Q,
         \A s \in SUBSET S : s # {} /\ (\A x \in s : s \ {x} \in Q) => s \in Q
  PROVE  Q = SUBSET S
<1> DEFINE T == {k \in Nat : \A s \in SUBSET S : Cardinality(s) = k => s \in Q}
<1>1. \A s \in SUBSET S : IsFiniteSet(s) /\ Cardinality(s) \in Nat
  BY FS_Subset, FS_CardinalityType
<1>2. 0 \in T
  <2>1. \A s \in SUBSET S : Cardinality(s) = 0 => s = {}
    BY <1>1, FS_EmptySet
  <2> QED
    BY <2>1
<1>3. ASSUME NEW k \in T PROVE k + 1 \in T
  <2>1. SUFFICES ASSUME NEW s \in SUBSET S, Cardinality(s) = k + 1 PROVE s \in Q
    OBVIOUS
  <2>2. s # {}
    BY <2>1, FS_EmptySet
  <2>3. ASSUME NEW x \in s PROVE s \ {x} \in Q
    <3>1. Cardinality(s \ {x}) = k
      BY <1>1, <2>1, FS_RemoveElement
    <3> QED
      BY <3>1
  <2> QED
    BY <2>2, <2>3
<1>4. T = Nat
  <2>1. T \in SUBSET Nat
    OBVIOUS
  <2> HIDE DEF T
  <2> QED
    BY <1>2, <1>3, <2>1, Counting
<1> QED
  BY <1>1, <1>4

\* There is one: by induction over the size of the sets it is defined on.
LEMMA AdderExists ==
  ASSUME NEW f, NEW S, IsFiniteSet(S)
  PROVE  \E g : Adds(g, SUBSET S, f)
<1> DEFINE D(k) == {s \in SUBSET S : Cardinality(s) <= k}
           T == {k \in Nat : \E g : Adds(g, D(k), f)}
<1>1. \A s \in SUBSET S : IsFiniteSet(s) /\ Cardinality(s) \in Nat
  BY FS_Subset, FS_CardinalityType
<1>2. 0 \in T
  <2> DEFINE g == [s \in D(0) |-> 0]
  <2>1. \A s \in D(0) : s = {}
    BY <1>1, FS_EmptySet
  <2>2. Adds(g, D(0), f)
    BY <2>1 DEF Adds
  <2> QED
    BY <2>2
<1>3. ASSUME NEW k \in T PROVE k + 1 \in T
  <2>1. PICK g : Adds(g, D(k), f)
    OBVIOUS
  <2> DEFINE more(s) == f[Pick(s)] + g[s \ {Pick(s)}]
             h == [s \in D(k + 1) |-> IF s = {} THEN 0 ELSE more(s)]
  <2>2. k \in Nat
    OBVIOUS
  <2>3. ASSUME NEW s \in D(k + 1), s # {}
        PROVE  s \ {Pick(s)} \in D(k) /\ h[s \ {Pick(s)}] = g[s \ {Pick(s)}]
    <3> DEFINE r == s \ {Pick(s)}
    <3>1. r \in SUBSET S /\ Cardinality(r) = Cardinality(s) - 1
      BY <1>1, <2>3, FS_RemoveElement, PickIn
    <3>2. r \in D(k) /\ r \in D(k + 1)
      BY <1>1, <2>2, <3>1
    <3> HIDE DEF r, D
    <3>3. h[r] = IF r = {} THEN 0 ELSE more(r)
      BY <3>2
    <3>4. g[r] = IF r = {} THEN 0 ELSE more(r)
      BY <2>1, <3>2 DEF Adds
    <3> QED
      BY <3>2, <3>3, <3>4 DEF r
  <2> HIDE DEF D
  <2>4. Adds(h, D(k + 1), f)
    <3>1. h = [s \in D(k + 1) |-> IF s = {} THEN 0 ELSE f[Pick(s)] + h[s \ {Pick(s)}]]
      BY <2>3
    <3> QED
      BY <3>1 DEF Adds
  <2> QED
    BY <2>2, <2>4
<1>4. T = Nat
  <2>1. T \in SUBSET Nat
    OBVIOUS
  <2> HIDE DEF T
  <2> QED
    BY <1>2, <1>3, <2>1, Counting
<1>5. Cardinality(S) \in Nat /\ D(Cardinality(S)) = SUBSET S
  <2>1. \A s \in SUBSET S : Cardinality(s) <= Cardinality(S)
    BY FS_Subset
  <2> QED
    BY <1>1, <2>1
<1> QED
  BY <1>4, <1>5

\* Two that follow the recursion agree where both are defined.
LEMMA AddersAgree ==
  ASSUME NEW f, NEW h, NEW S, IsFiniteSet(S), NEW U \in SUBSET S, NEW g,
         Adds(g, SUBSET S, f), Adds(h, SUBSET U, f)
  PROVE  g[U] = h[U]
<1> DEFINE Q == {s \in SUBSET U : g[s] = h[s]}
<1>1. IsFiniteSet(U)
  BY FS_Subset
<1>2. /\ \A s \in SUBSET S : g[s] = IF s = {} THEN 0 ELSE f[Pick(s)] + g[s \ {Pick(s)}]
      /\ \A s \in SUBSET U : h[s] = IF s = {} THEN 0 ELSE f[Pick(s)] + h[s \ {Pick(s)}]
  BY DEF Adds
<1>3. {} \in Q
  BY <1>2
<1>4. ASSUME NEW s \in SUBSET U, s # {}, \A x \in s : s \ {x} \in Q PROVE s \in Q
  <2>1. s \in SUBSET S /\ Pick(s) \in s
    BY <1>4, PickIn
  <2>2. g[s \ {Pick(s)}] = h[s \ {Pick(s)}]
    BY <1>4, <2>1
  <2> QED
    BY <1>2, <1>4, <2>1, <2>2
<1>5. Q = SUBSET U
  <2>1. Q \in SUBSET SUBSET U
    OBVIOUS
  <2> HIDE DEF Q
  <2> QED
    BY <1>1, <1>3, <1>4, <2>1, SubsetInduction
<1> QED
  BY <1>5

\* So the sum itself follows the recursion.
LEMMA SumPicked ==
  ASSUME NEW f, NEW S, IsFiniteSet(S)
  PROVE  SumFunctionOnSet(f, S) =
           IF S = {} THEN 0 ELSE f[Pick(S)] + SumFunctionOnSet(f, S \ {Pick(S)})
<1> DEFINE U == S \ {Pick(S)}
           g == CHOOSE a : Adds(a, SUBSET S, f)
           h == CHOOSE a : Adds(a, SUBSET U, f)
<1>1. IsFiniteSet(U) /\ U \in SUBSET S
  BY FS_RemoveElement
<1>2. Adds(g, SUBSET S, f) /\ Adds(h, SUBSET U, f)
  BY <1>1, AdderExists
<1>3. SumFunctionOnSet(f, S) = g[S] /\ SumFunctionOnSet(f, U) = h[U]
  BY SumChosen
<1> HIDE DEF g, h
<1>4. g[S] = IF S = {} THEN 0 ELSE f[Pick(S)] + g[U]
  BY <1>2 DEF Adds
<1>5. g[U] = h[U]
  BY <1>1, <1>2, AddersAgree
<1> QED
  BY <1>3, <1>4, <1>5

\* Nothing sums to 0.
LEMMA SumEmpty ==
  ASSUME NEW f
  PROVE  SumFunctionOnSet(f, {}) = 0
BY SumPicked, FS_EmptySet

\* Integers sum to an integer.
LEMMA SumIsInt ==
  ASSUME NEW S, IsFiniteSet(S), NEW f, \A x \in S : f[x] \in Int
  PROVE  SumFunctionOnSet(f, S) \in Int
<1> DEFINE Q == {s \in SUBSET S : SumFunctionOnSet(f, s) \in Int}
<1>1. \A s \in SUBSET S : IsFiniteSet(s)
  BY FS_Subset
<1>2. {} \in Q
  BY SumEmpty
<1>3. ASSUME NEW s \in SUBSET S, s # {}, \A x \in s : s \ {x} \in Q PROVE s \in Q
  <2>1. Pick(s) \in s
    BY <1>3, PickIn
  <2>2. SumFunctionOnSet(f, s) = f[Pick(s)] + SumFunctionOnSet(f, s \ {Pick(s)})
    BY <1>1, <1>3, SumPicked
  <2>3. SumFunctionOnSet(f, s \ {Pick(s)}) \in Int /\ f[Pick(s)] \in Int
    BY <1>3, <2>1
  <2> QED
    BY <2>2, <2>3
<1>4. Q = SUBSET S
  <2>1. Q \in SUBSET SUBSET S
    OBVIOUS
  <2> HIDE DEF Q
  <2> QED
    BY <1>2, <1>3, <2>1, SubsetInduction
<1> QED
  BY <1>4

\* Natural numbers sum to a natural number.
LEMMA SumIsNat ==
  ASSUME NEW S, IsFiniteSet(S), NEW f, \A x \in S : f[x] \in Nat
  PROVE  SumFunctionOnSet(f, S) \in Nat
<1> DEFINE Q == {s \in SUBSET S : SumFunctionOnSet(f, s) \in Nat}
<1>1. \A s \in SUBSET S : IsFiniteSet(s)
  BY FS_Subset
<1>2. {} \in Q
  BY SumEmpty
<1>3. ASSUME NEW s \in SUBSET S, s # {}, \A x \in s : s \ {x} \in Q PROVE s \in Q
  <2>1. Pick(s) \in s
    BY <1>3, PickIn
  <2>2. SumFunctionOnSet(f, s) = f[Pick(s)] + SumFunctionOnSet(f, s \ {Pick(s)})
    BY <1>1, <1>3, SumPicked
  <2>3. SumFunctionOnSet(f, s \ {Pick(s)}) \in Nat /\ f[Pick(s)] \in Nat
    BY <1>3, <2>1
  <2> QED
    BY <2>2, <2>3
<1>4. Q = SUBSET S
  <2>1. Q \in SUBSET SUBSET S
    OBVIOUS
  <2> HIDE DEF Q
  <2> QED
    BY <1>2, <1>3, <2>1, SubsetInduction
<1> QED
  BY <1>4

\* A sum depends on the summands alone.
LEMMA SumSame ==
  ASSUME NEW S, IsFiniteSet(S), NEW f, NEW g, \A x \in S : f[x] = g[x]
  PROVE  SumFunctionOnSet(f, S) = SumFunctionOnSet(g, S)
<1> DEFINE Q == {s \in SUBSET S : SumFunctionOnSet(f, s) = SumFunctionOnSet(g, s)}
<1>1. \A s \in SUBSET S : IsFiniteSet(s)
  BY FS_Subset
<1>2. {} \in Q
  BY SumEmpty
<1>3. ASSUME NEW s \in SUBSET S, s # {}, \A x \in s : s \ {x} \in Q PROVE s \in Q
  <2>1. Pick(s) \in s
    BY <1>3, PickIn
  <2>2. /\ SumFunctionOnSet(f, s) = f[Pick(s)] + SumFunctionOnSet(f, s \ {Pick(s)})
        /\ SumFunctionOnSet(g, s) = g[Pick(s)] + SumFunctionOnSet(g, s \ {Pick(s)})
    BY <1>1, <1>3, SumPicked
  <2>3. /\ SumFunctionOnSet(f, s \ {Pick(s)}) = SumFunctionOnSet(g, s \ {Pick(s)})
        /\ f[Pick(s)] = g[Pick(s)]
    BY <1>3, <2>1
  <2> QED
    BY <2>2, <2>3
<1>4. Q = SUBSET S
  <2>1. Q \in SUBSET SUBSET S
    OBVIOUS
  <2> HIDE DEF Q
  <2> QED
    BY <1>2, <1>3, <2>1, SubsetInduction
<1> QED
  BY <1>4

\* Zeros sum to 0.
LEMMA SumOfZeros ==
  ASSUME NEW S, IsFiniteSet(S), NEW f, \A x \in S : f[x] = 0
  PROVE  SumFunctionOnSet(f, S) = 0
<1> DEFINE Q == {s \in SUBSET S : SumFunctionOnSet(f, s) = 0}
<1>1. \A s \in SUBSET S : IsFiniteSet(s)
  BY FS_Subset
<1>2. {} \in Q
  BY SumEmpty
<1>3. ASSUME NEW s \in SUBSET S, s # {}, \A x \in s : s \ {x} \in Q PROVE s \in Q
  <2>1. Pick(s) \in s
    BY <1>3, PickIn
  <2>2. SumFunctionOnSet(f, s) = f[Pick(s)] + SumFunctionOnSet(f, s \ {Pick(s)})
    BY <1>1, <1>3, SumPicked
  <2>3. SumFunctionOnSet(f, s \ {Pick(s)}) = 0 /\ f[Pick(s)] = 0
    BY <1>3, <2>1
  <2> QED
    BY <2>2, <2>3
<1>4. Q = SUBSET S
  <2>1. Q \in SUBSET SUBSET S
    OBVIOUS
  <2> HIDE DEF Q
  <2> QED
    BY <1>2, <1>3, <2>1, SubsetInduction
<1> QED
  BY <1>4

\* The sum does not depend on the order in which elements are picked.
LEMMA SumLess ==
  ASSUME NEW S, IsFiniteSet(S), NEW f, \A x \in S : f[x] \in Int, NEW y \in S
  PROVE  SumFunctionOnSet(f, S) = SumFunctionOnSet(f, S \ {y}) + f[y]
<1> DEFINE Sum(s) == SumFunctionOnSet(f, s)
           Q == {s \in SUBSET S : \A x \in s : Sum(s) = Sum(s \ {x}) + f[x]}
<1>1. \A s \in SUBSET S : IsFiniteSet(s) /\ Sum(s) \in Int
  BY FS_Subset, SumIsInt
<1>2. {} \in Q
  OBVIOUS
<1>3. ASSUME NEW s \in SUBSET S, s # {}, \A x \in s : s \ {x} \in Q PROVE s \in Q
  <2> DEFINE p == Pick(s)
  <2>1. p \in s
    BY <1>3, PickIn
  <2>2. Sum(s) = f[p] + Sum(s \ {p})
    BY <1>1, <1>3, SumPicked
  <2> HIDE DEF p, Sum
  <2>3. SUFFICES ASSUME NEW x \in s, x # p PROVE Sum(s) = Sum(s \ {x}) + f[x]
    <3>1. Sum(s) = Sum(s \ {p}) + f[p]
      BY <1>1, <2>1, <2>2
    <3> QED
      BY <2>3, <3>1
  <2>4. Sum(s \ {p}) = Sum((s \ {p}) \ {x}) + f[x]
    BY <1>3, <2>1, <2>3
  <2>5. Sum(s \ {x}) = Sum((s \ {x}) \ {p}) + f[p]
    BY <1>3, <2>1, <2>3
  <2>6. (s \ {p}) \ {x} = (s \ {x}) \ {p}
    OBVIOUS
  <2> DEFINE a == Sum((s \ {p}) \ {x})
  <2>7. a \in Int /\ f[x] \in Int /\ f[p] \in Int
    BY <1>1, <2>1
  <2>8. Sum(s) = f[p] + (a + f[x]) /\ Sum(s \ {x}) = a + f[p]
    BY <2>2, <2>4, <2>5, <2>6
  <2> HIDE DEF a
  <2> QED
    BY <2>7, <2>8
<1>4. Q = SUBSET S
  <2>1. Q \in SUBSET SUBSET S
    OBVIOUS
  <2> HIDE DEF Q
  <2> QED
    BY <1>2, <1>3, <2>1, SubsetInduction
<1> QED
  BY <1>4

\* An element that joins adds its summand.
LEMMA SumMore ==
  ASSUME NEW S, IsFiniteSet(S), NEW y, y \notin S, NEW f, \A x \in S \cup {y} : f[x] \in Int
  PROVE  SumFunctionOnSet(f, S \cup {y}) = SumFunctionOnSet(f, S) + f[y]
<1>1. IsFiniteSet(S \cup {y}) /\ (S \cup {y}) \ {y} = S
  BY FS_AddElement
<1> QED
  BY <1>1, SumLess

\* The same when the function changes with it, at other elements not.
LEMMA SumJoined ==
  ASSUME NEW S, IsFiniteSet(S), NEW y, y \notin S, NEW f, NEW g, g[y] \in Int,
         \A x \in S : f[x] \in Int /\ g[x] = f[x]
  PROVE  SumFunctionOnSet(g, S \cup {y}) = SumFunctionOnSet(f, S) + g[y]
<1>1. SumFunctionOnSet(g, S) = SumFunctionOnSet(f, S)
  BY SumSame
<1>2. \A x \in S \cup {y} : g[x] \in Int
  OBVIOUS
<1> QED
  BY <1>1, <1>2, SumMore, ZenonT(60)

\* An element leaves, and the function changes at others not.
LEMMA SumLeft ==
  ASSUME NEW S, IsFiniteSet(S), NEW y \in S, NEW f, NEW g, \A x \in S : f[x] \in Int,
         \A x \in S \ {y} : g[x] = f[x]
  PROVE  SumFunctionOnSet(g, S \ {y}) = SumFunctionOnSet(f, S) - f[y]
<1>1. IsFiniteSet(S \ {y})
  BY FS_RemoveElement
<1>2. SumFunctionOnSet(g, S \ {y}) = SumFunctionOnSet(f, S \ {y})
  BY <1>1, SumSame
<1>3. SumFunctionOnSet(f, S \ {y}) \in Int
  BY <1>1, SumIsInt
<1>4. SumFunctionOnSet(f, S) = SumFunctionOnSet(f, S \ {y}) + f[y]
  BY SumLess
<1> QED
  BY <1>2, <1>3, <1>4

\* An element that adds nothing may as well be left out.
LEMMA SumWithout ==
  ASSUME NEW S, IsFiniteSet(S), NEW f, \A x \in S : f[x] \in Int, NEW y, f[y] = 0
  PROVE  SumFunctionOnSet(f, S \ {y}) = SumFunctionOnSet(f, S)
<1>1. CASE y \in S
  <2>1. SumFunctionOnSet(f, S) = SumFunctionOnSet(f, S \ {y}) + f[y]
    BY <1>1, SumLess
  <2>2. SumFunctionOnSet(f, S \ {y}) \in Int
    BY FS_RemoveElement, SumIsInt
  <2> QED
    BY <2>1, <2>2
<1>2. CASE y \notin S
  <2>1. S \ {y} = S
    BY <1>2
  <2> QED
    BY <2>1
<1> QED
  BY <1>1, <1>2

\* A sum in which one summand changes.
LEMMA SumChanged ==
  ASSUME NEW S, IsFiniteSet(S), NEW y \in S, NEW f, NEW g,
         \A x \in S : f[x] \in Int /\ g[x] \in Int, \A x \in S \ {y} : f[x] = g[x]
  PROVE  SumFunctionOnSet(g, S) = SumFunctionOnSet(f, S) - f[y] + g[y]
<1>1. IsFiniteSet(S \ {y})
  BY FS_RemoveElement
<1>2. SumFunctionOnSet(g, S \ {y}) = SumFunctionOnSet(f, S \ {y})
  BY <1>1, SumSame
<1>3. SumFunctionOnSet(f, S \ {y}) \in Int
  BY <1>1, SumIsInt
<1>4. /\ SumFunctionOnSet(f, S) = SumFunctionOnSet(f, S \ {y}) + f[y]
      /\ SumFunctionOnSet(g, S) = SumFunctionOnSet(g, S \ {y}) + g[y]
  BY SumLess
<1> QED
  BY <1>2, <1>3, <1>4

\* The empty sequence sums to 0.
LEMMA SumEmptySeq == SumFunction(<<>>) = 0
BY SumEmpty DEF SumFunction

\* An appended number is added.
LEMMA SumAppended ==
  ASSUME NEW s \in Seq(Int), NEW y \in Int
  PROVE  SumFunction(s) \in Int /\ SumFunction(Append(s, y)) = SumFunction(s) + y
<1> DEFINE n == Len(s)
           t == Append(s, y)
<1>1. /\ n \in Nat /\ DOMAIN s = 1 .. n /\ DOMAIN t = 1 .. n + 1
      /\ 1 .. n + 1 = (1 .. n) \cup {n + 1} /\ n + 1 \notin 1 .. n
      /\ \A i \in 1 .. n : t[i] = s[i] /\ s[i] \in Int
      /\ t[n + 1] = y
  OBVIOUS
<1> HIDE DEF t, n
<1>2. IsFiniteSet(1 .. n)
  BY <1>1, FS_Interval
<1>3. SumFunctionOnSet(t, 1 .. n + 1) = SumFunctionOnSet(t, 1 .. n) + t[n + 1]
  <2>1. \A i \in (1 .. n) \cup {n + 1} : t[i] \in Int
    BY <1>1
  <2> QED
    BY <1>1, <1>2, <2>1, SumMore
<1>4. SumFunctionOnSet(t, 1 .. n) = SumFunctionOnSet(s, 1 .. n)
  BY <1>1, <1>2, SumSame
<1>5. SumFunctionOnSet(s, 1 .. n) \in Int
  BY <1>1, <1>2, SumIsInt
<1> QED
  BY <1>1, <1>3, <1>4, <1>5 DEF SumFunction, t

\* So is what an appended element is mapped to.
LEMMA SumMappedAppended ==
  ASSUME NEW S, NEW l \in Seq(S), NEW x \in S, NEW f \in [S -> Int]
  PROVE  /\ SumFunction([k \in DOMAIN l |-> f[l[k]]]) \in Int
         /\ SumFunction([k \in DOMAIN Append(l, x) |-> f[Append(l, x)[k]]])
              = SumFunction([k \in DOMAIN l |-> f[l[k]]]) + f[x]
<1> DEFINE m == Append(l, x)
           a == [k \in DOMAIN l |-> f[l[k]]]
           b == [k \in DOMAIN m |-> f[m[k]]]
           y == f[x]
<1>1. /\ Len(l) \in Nat /\ DOMAIN l = 1 .. Len(l) /\ DOMAIN m = 1 .. Len(l) + 1
      /\ m[Len(l) + 1] = x /\ \A k \in 1 .. Len(l) : m[k] = l[k] /\ l[k] \in S
  OBVIOUS
<1> HIDE DEF m
<1>2. a \in Seq(Int) /\ y \in Int
  BY <1>1
<1>3. b = Append(a, y)
  <2>1. /\ b \in Seq(Int) /\ Len(b) = Len(l) + 1 /\ Len(a) = Len(l)
        /\ \A k \in 1 .. Len(l) : b[k] = a[k]
        /\ b[Len(l) + 1] = y
    BY <1>1
  <2> HIDE DEF a, b, y
  <2> QED
    BY <1>1, <1>2, <2>1
<1> HIDE DEF a, b, y
<1>4. SumFunction(a) \in Int /\ SumFunction(Append(a, y)) = SumFunction(a) + y
  BY <1>2, SumAppended
<1> QED
  BY <1>3, <1>4 DEF a, b, y, m

-------------------------------------------------------------------------------
(* Sequences folded from the left (FoldLeft of SequencesExt), by a function *)
(* op of an accumulator and an element.                                     *)

\* The element by which FoldLeft takes a set of indices apart.
TopIndex(s) == CHOOSE x \in s : \A y \in s : x >= y

\* g follows, on the sets of D, the recursion by which seq is folded.
Follows(g, D, base, op, seq) ==
  g = [s \in D |-> IF s = {} THEN base ELSE op[<<g[s \ {TopIndex(s)}], seq[TopIndex(s)]>>]]

\* Indices have a last one.
LEMMA TopIn ==
  ASSUME NEW n \in Nat, NEW s \in SUBSET (1 .. n), s # {}
  PROVE  TopIndex(s) \in s /\ \A y \in s : TopIndex(s) >= y
<1> DEFINE T == {k \in Nat : \A y \in s : y <= k}
<1>1. n \in T
  OBVIOUS
<1>2. PICK k \in T : \A m \in T : k <= m
  <2>1. T \in SUBSET Nat /\ T # {}
    BY <1>1
  <2> HIDE DEF T
  <2> QED
    BY <2>1, Least
<1>3. k \in s
  <2> SUFFICES ASSUME k \notin s PROVE FALSE
    OBVIOUS
  <2>1. k \in Nat /\ \A y \in s : y \in Nat /\ y <= k /\ y # k /\ y >= 1
    BY <1>2
  <2>2. PICK y \in s : TRUE
    OBVIOUS
  <2>3. k - 1 \in Nat /\ \A z \in s : z <= k - 1
    BY <2>1, <2>2
  <2>4. k <= k - 1
    BY <1>2, <2>3
  <2> QED
    BY <2>1, <2>4
<1>4. \A y \in s : k >= y
  BY <1>2
<1> QED
  BY <1>3, <1>4 DEF TopIndex

\* The last of the first indices.
LEMMA TopFirst ==
  ASSUME NEW k \in Nat
  PROVE  TopIndex(1 .. k + 1) = k + 1 /\ (1 .. k + 1) \ {k + 1} = 1 .. k
<1>1. k + 1 \in 1 .. k + 1 /\ k + 1 \in Nat
  OBVIOUS
<1>2. PICK t \in 1 .. k + 1 : t = TopIndex(1 .. k + 1) /\ \A y \in 1 .. k + 1 : t >= y
  BY <1>1, TopIn
<1>3. t = k + 1
  BY <1>1, <1>2
<1> QED
  BY <1>2, <1>3

\* There is a function that does, of the type of op, by induction over the size
\* of the sets.
LEMMA FoldExists ==
  ASSUME NEW A, NEW L, NEW base \in A, NEW op \in [A \X L -> A], NEW n \in Nat,
         NEW seq, \A i \in 1 .. n : seq[i] \in L
  PROVE  \E g \in [SUBSET (1 .. n) -> A] : Follows(g, SUBSET (1 .. n), base, op, seq)
<1> DEFINE S == 1 .. n
           D(k) == {s \in SUBSET S : Cardinality(s) <= k}
           T == {k \in Nat : \E g \in [D(k) -> A] : Follows(g, D(k), base, op, seq)}
<1>0. IsFiniteSet(S)
  BY FS_Interval
<1>1. \A s \in SUBSET S : IsFiniteSet(s) /\ Cardinality(s) \in Nat
  BY <1>0, FS_Subset, FS_CardinalityType
<1>2. 0 \in T
  <2> DEFINE g == [s \in D(0) |-> base]
  <2>1. \A s \in D(0) : s = {}
    BY <1>1, FS_EmptySet
  <2>2. Follows(g, D(0), base, op, seq)
    BY <2>1 DEF Follows
  <2>3. g \in [D(0) -> A]
    OBVIOUS
  <2> QED
    BY <2>2, <2>3
<1>3. ASSUME NEW k \in T PROVE k + 1 \in T
  <2>1. PICK g \in [D(k) -> A] : Follows(g, D(k), base, op, seq)
    OBVIOUS
  <2> DEFINE more(s) == op[<<g[s \ {TopIndex(s)}], seq[TopIndex(s)]>>]
             h == [s \in D(k + 1) |-> IF s = {} THEN base ELSE more(s)]
  <2>2. k \in Nat
    OBVIOUS
  <2>3. ASSUME NEW s \in D(k + 1), s # {}
        PROVE  /\ s \ {TopIndex(s)} \in D(k) /\ h[s \ {TopIndex(s)}] = g[s \ {TopIndex(s)}]
               /\ TopIndex(s) \in S
    <3> DEFINE r == s \ {TopIndex(s)}
    <3>0. TopIndex(s) \in s
      BY <2>3, TopIn
    <3>1. r \in SUBSET S /\ Cardinality(r) = Cardinality(s) - 1
      BY <1>1, <3>0, FS_RemoveElement
    <3>2. r \in D(k) /\ r \in D(k + 1)
      BY <1>1, <2>2, <3>1
    <3>5. TopIndex(s) \in S
      BY <3>0
    <3> HIDE DEF r, D, S
    <3>3. h[r] = IF r = {} THEN base ELSE more(r)
      BY <3>2
    <3>4. g[r] = IF r = {} THEN base ELSE more(r)
      BY <2>1, <3>2 DEF Follows
    <3> QED
      BY <3>2, <3>3, <3>4, <3>5 DEF r
  <2>4. ASSUME NEW s \in D(k + 1) PROVE (IF s = {} THEN base ELSE more(s)) \in A
    <3> HIDE DEF D, S
    <3>1. CASE s # {}
      <4>1. g[s \ {TopIndex(s)}] \in A /\ seq[TopIndex(s)] \in L
        BY <2>3, <3>1 DEF S
      <4> QED
        BY <3>1, <4>1
    <3> QED
      BY <3>1
  <2> HIDE DEF D
  <2>5. h \in [D(k + 1) -> A]
    BY <2>4
  <2>6. Follows(h, D(k + 1), base, op, seq)
    <3>1. h = [s \in D(k + 1) |->
                 IF s = {} THEN base ELSE op[<<h[s \ {TopIndex(s)}], seq[TopIndex(s)]>>]]
      BY <2>3
    <3> QED
      BY <3>1 DEF Follows
  <2>7. \E j \in [D(k + 1) -> A] : Follows(j, D(k + 1), base, op, seq)
    BY <2>5, <2>6
  <2>8. k + 1 \in Nat
    BY <2>2
  <2> QED
    BY <2>7, <2>8
<1>4. T = Nat
  <2>1. T \in SUBSET Nat
    OBVIOUS
  <2> HIDE DEF T
  <2> QED
    BY <1>2, <1>3, <2>1, Counting
<1>5. Cardinality(S) \in Nat /\ D(Cardinality(S)) = SUBSET S
  <2>1. \A s \in SUBSET S : Cardinality(s) <= Cardinality(S)
    BY <1>0, FS_Subset
  <2> QED
    BY <1>1, <2>1
<1>6. \E g \in [D(Cardinality(S)) -> A] : Follows(g, D(Cardinality(S)), base, op, seq)
  <2>1. Cardinality(S) \in T
    BY <1>4, <1>5
  <2> HIDE DEF D
  <2> QED
    BY <2>1
<1> HIDE DEF D
<1> QED
  BY <1>5, <1>6

\* There is a function that folds seq with op, starting from base.
CanFold(A, base, op, n, seq) ==
  \E g \in [SUBSET (1 .. n) -> A] : Follows(g, SUBSET (1 .. n), base, op, seq)

\* There always is, for a step that stays in A.
LEMMA FoldCan ==
  ASSUME NEW A, NEW L, NEW base \in A, NEW op \in [A \X L -> A], NEW n \in Nat,
         NEW seq, \A i \in 1 .. n : seq[i] \in L
  PROVE  CanFold(A, base, op, n, seq)
<1>1. \E g \in [SUBSET (1 .. n) -> A] : Follows(g, SUBSET (1 .. n), base, op, seq)
  BY FoldExists
<1> QED
  BY <1>1 DEF CanFold

================================================================================
