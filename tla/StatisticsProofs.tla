--------------------------- MODULE StatisticsProofs ---------------------------
(***************************************************************************)
(* The statistics of a window, for any number of events and for the real   *)
(* percentiles: runs can only take a handful of events, for which all of   *)
(* the real ones are the maximum. The library's induction theorems cannot  *)
(* be instantiated here; induction over numbers is had from the theorem    *)
(* that strict inclusion of finite sets is well founded.                   *)
(***************************************************************************)
EXTENDS WindowStats, FiniteSetTheorems, TLAPS

-----------------------------------------------------------------------------
(* Induction.                                                              *)

LEMMA LeastNumber ==
  ASSUME NEW T \in SUBSET Nat, T # {}
  PROVE  \E x \in T : \A y \in T : x <= y
<1> DEFINE Up(x) == 1..x
           Sets == {Up(x) : x \in T}
<1>1. \A x \in T : Up(x) \in SUBSET Nat /\ IsFiniteSet(Up(x))
  BY FS_Interval
<1>2. Sets \subseteq FiniteSubsetsOf(Nat) /\ Sets # {}
  BY <1>1 DEF FiniteSubsetsOf
<1>3. \E X \in Sets : \A Y \in Sets : <<Y, X>> \notin StrictSubsetOrdering(Nat)
  <2> HIDE DEF Sets
  <2> QED
    BY <1>2, WFMin, FS_StrictSubsetOrderingWellFounded
<1>4. PICK x \in T : \A y \in T : <<Up(y), Up(x)>> \notin StrictSubsetOrdering(Nat)
  BY <1>3
<1>5. \A y \in T : y < x => x \in Up(x) /\ x \notin Up(y) /\ Up(y) \subseteq Up(x)
  OBVIOUS
<1>6. \A y \in T : ~(y < x)
  BY <1>1, <1>4, <1>5 DEF StrictSubsetOrdering
<1> QED
  BY <1>6

LEMMA Induction ==
  ASSUME NEW T, 0 \in T, \A n \in Nat : n \in T => n + 1 \in T
  PROVE  Nat \subseteq T
<1> SUFFICES ASSUME Nat \ T # {} PROVE FALSE
  OBVIOUS
<1>1. PICK x \in Nat \ T : \A y \in Nat \ T : x <= y
  BY LeastNumber
<1>2. x # 0 /\ x - 1 \in Nat /\ x - 1 \notin Nat \ T
  BY <1>1
<1> QED
  BY <1>1, <1>2, (x - 1) + 1 = x

-----------------------------------------------------------------------------
(* Total: its recursion defines a function, the partial sums.              *)

Sums(f, s) == f = [i \in 0..Len(s) |-> IF i = 0 THEN 0 ELSE f[i - 1] + s[i]]

LEMMA SumsExist ==
  ASSUME NEW s \in Seq(Int)
  PROVE  \E f : Sums(f, s) /\ f \in [0..Len(s) -> Int] /\ Total(s) = f[Len(s)]
<1> DEFINE Upto(f, n) == /\ f \in [0..n -> Int] /\ f[0] = 0
                         /\ \A i \in 1..n : f[i] = f[i - 1] + s[i]
           T == {n \in Nat : n <= Len(s) => \E f : Upto(f, n)}
<1>1. 0 \in T
  <2>1. Upto([i \in 0..0 |-> 0], 0)
    OBVIOUS
  <2> QED
    BY <2>1
<1>2. ASSUME NEW n \in Nat, n \in T PROVE n + 1 \in T
  <2> SUFFICES ASSUME n + 1 <= Len(s) PROVE \E f : Upto(f, n + 1)
    <3> HIDE DEF Upto
    <3> QED
      OBVIOUS
  <2>1. PICK f : Upto(f, n)
    <3> HIDE DEF Upto
    <3> QED
      BY <1>2
  <2> DEFINE g == [i \in 0..(n + 1) |-> IF i = n + 1 THEN f[n] + s[n + 1] ELSE f[i]]
  <2>2. s[n + 1] \in Int
    OBVIOUS
  <2>3. Upto(g, n + 1)
    BY <2>1, <2>2
  <2> QED
    BY <2>3
<1>3. Len(s) \in T
  <2> HIDE DEF T
  <2> QED
    BY <1>1, <1>2, Induction
<1>4. PICK f : Upto(f, Len(s))
  BY <1>3
<1>5. f = [i \in 0..Len(s) |-> IF i = 0 THEN 0 ELSE f[i - 1] + s[i]]
  BY <1>4
<1>6. Total(s) = (CHOOSE h : h = [i \in 0..Len(s) |-> IF i = 0 THEN 0 ELSE h[i - 1] + s[i]])[Len(s)]
  BY DEF Total
<1> DEFINE h == CHOOSE h : h = [i \in 0..Len(s) |-> IF i = 0 THEN 0 ELSE h[i - 1] + s[i]]
<1>7. h = [i \in 0..Len(s) |-> IF i = 0 THEN 0 ELSE h[i - 1] + s[i]]
  BY <1>5, Zenon
<1> HIDE DEF h
<1>8. h \in [0..Len(s) -> Int]
  <2> DEFINE H == {n \in Nat : n <= Len(s) => h[n] \in Int}
  <2>1. 0 \in H
    BY <1>7
  <2>2. ASSUME NEW n \in Nat, n \in H PROVE n + 1 \in H
    <3> SUFFICES ASSUME n + 1 <= Len(s) PROVE h[n + 1] \in Int
      OBVIOUS
    <3>1. h[n + 1] = h[n] + s[n + 1]
      BY <1>7
    <3> QED
      BY <2>2, <3>1
  <2>3. \A n \in Nat : n \in H
    <3> HIDE DEF H
    <3> QED
      BY <2>1, <2>2, Induction
  <2> QED
    BY <2>3, <1>7
<1> QED
  BY <1>6, <1>7, <1>8 DEF Sums, h

LEMMA SumsStep ==
  ASSUME NEW s \in Seq(Int), NEW f, Sums(f, s)
  PROVE  f[0] = 0 /\ \A n \in Nat : n + 1 <= Len(s) => f[n + 1] = f[n] + s[n + 1]
<1>1. f = [i \in 0..Len(s) |-> IF i = 0 THEN 0 ELSE f[i - 1] + s[i]]
  BY DEF Sums
<1>2. \A n \in Nat : n + 1 <= Len(s) => n + 1 \in 0..Len(s) /\ n + 1 # 0 /\ (n + 1) - 1 = n
  OBVIOUS
<1>3. 0 \in 0..Len(s)
  OBVIOUS
<1> QED
  BY <1>1, <1>2, <1>3

(* n values of at least lo and at most hi. *)
LEMMA TotalBounds ==
  ASSUME NEW s \in Seq(Int), NEW lo \in Int, NEW hi \in Int,
         \A i \in 1..Len(s) : lo <= s[i] /\ s[i] <= hi
  PROVE  /\ Total(s) \in Int
         /\ Len(s) * lo <= Total(s) /\ Total(s) <= Len(s) * hi
<1>1. PICK f : Sums(f, s) /\ f \in [0..Len(s) -> Int] /\ Total(s) = f[Len(s)]
  BY SumsExist
<1> DEFINE T == {n \in Nat : n <= Len(s) => n * lo <= f[n] /\ f[n] <= n * hi}
<1>2. 0 \in T
  BY <1>1, SumsStep
<1>3. ASSUME NEW n \in Nat, n \in T PROVE n + 1 \in T
  <2> SUFFICES ASSUME n + 1 <= Len(s)
               PROVE  (n + 1) * lo <= f[n + 1] /\ f[n + 1] <= (n + 1) * hi
    OBVIOUS
  <2>1. f[n + 1] = f[n] + s[n + 1]
    BY <1>1, SumsStep
  <2>2. n \in 0..Len(s) /\ n + 1 \in 1..Len(s)
    OBVIOUS
  <2>3. f[n] \in Int /\ s[n + 1] \in Int
    BY <1>1, <2>2
  <2>4. n * lo <= f[n] /\ f[n] <= n * hi
    BY <1>3
  <2>5. (n + 1) * lo = n * lo + lo /\ (n + 1) * hi = n * hi + hi
    OBVIOUS
  <2>6. n * lo \in Int /\ n * hi \in Int /\ lo <= s[n + 1] /\ s[n + 1] <= hi
    BY <2>2
  <2> QED
    BY <2>1, <2>3, <2>4, <2>5, <2>6
<1>4. Len(s) \in T
  <2> HIDE DEF T
  <2>1. Nat \subseteq T
    BY <1>2, <1>3, Induction
  <2> QED
    BY <2>1, Len(s) \in Nat
<1> QED
  BY <1>1, <1>4

(* The step of the variance: what a further value x adds to it.            *)
LEMMA Widened ==
  ASSUME NEW n \in Int, NEW q \in Int, NEW t \in Int, NEW x \in Int
  PROVE  (n + 1) * (q + x * x) - (t + x) * (t + x)
           = (n * q - t * t) + (q - 2 * (x * t) + n * (x * x))
  OBVIOUS

(* The same of the distance of the values from x, when y is added.         *)
LEMMA Further ==
  ASSUME NEW n \in Int, NEW b \in Int, NEW a \in Int, NEW x \in Int, NEW y \in Int
  PROVE  (b + y * y) - 2 * (x * (a + y)) + (n + 1) * (x * x)
           = (b - 2 * (x * a) + n * (x * x)) + (y - x) * (y - x)
  OBVIOUS

LEMMA Squared ==
  ASSUME NEW x \in Int, NEW y \in Int
  PROVE  /\ (x - y) * (x - y) \in Int /\ (x - y) * (x - y) >= 0
         /\ (x - y) * (x - y) = 0 <=> x = y
         /\ (x - y) * (x - y) = x * x - 2 * (y * x) + y * y
<1> DEFINE d == x - y
<1>1. d \in Int
  OBVIOUS
<1>2. d * d >= 0 /\ (d * d = 0 <=> d = 0)
  <2> HIDE DEF d
  <2>1. CASE d >= 0
    BY <2>1, <1>1
  <2>2. CASE d < 0
    BY <2>2, <1>1
  <2> QED
    BY <1>1, <2>1, <2>2
<1> QED
  BY <1>1, <1>2

Squares(s) == [i \in 1..Len(s) |-> s[i] * s[i]]
Distance(f, g, n, x) == g[n] - 2 * (x * f[n]) + n * (x * x)   \* the squares of s[i] - x
Spread(f, g, n) == n * g[n] - f[n] * f[n]

LEMMA SquaresAreInts ==
  ASSUME NEW s \in Seq(Int)
  PROVE  Squares(s) \in Seq(Int) /\ Len(Squares(s)) = Len(s)
<1>1. \A i \in 1..Len(s) : s[i] * s[i] \in Int
  OBVIOUS
<1> QED
  BY <1>1 DEF Squares

LEMMA SquaresStep ==
  ASSUME NEW s \in Seq(Int), NEW g, Sums(g, Squares(s))
  PROVE  g[0] = 0 /\ \A n \in Nat : n + 1 <= Len(s) => g[n + 1] = g[n] + s[n + 1] * s[n + 1]
<1> DEFINE q == Squares(s)
<1>1. q \in Seq(Int) /\ Len(q) = Len(s)
  BY SquaresAreInts
<1>2. \A n \in Nat : n + 1 <= Len(s) => q[n + 1] = s[n + 1] * s[n + 1]
  BY DEF Squares
<1>3. Sums(g, q)
  OBVIOUS
<1> HIDE DEF q
<1>4. g[0] = 0 /\ \A n \in Nat : n + 1 <= Len(q) => g[n + 1] = g[n] + q[n + 1]
  BY <1>1, <1>3, SumsStep
<1> QED
  BY <1>1, <1>2, <1>4

LEMMA DistanceCounts ==
  ASSUME NEW s \in Seq(Int), NEW f \in [0..Len(s) -> Int], NEW g \in [0..Len(s) -> Int],
         Sums(f, s), Sums(g, Squares(s)), NEW x \in Int
  PROVE  \A n \in 0..Len(s) :
           /\ Distance(f, g, n, x) \in Int /\ Distance(f, g, n, x) >= 0
           /\ Distance(f, g, n, x) = 0 <=> \A i \in 1..n : s[i] = x
<1> DEFINE T == {n \in Nat : n <= Len(s) =>
             /\ Distance(f, g, n, x) \in Int /\ Distance(f, g, n, x) >= 0
             /\ Distance(f, g, n, x) = 0 <=> \A i \in 1..n : s[i] = x}
<1>1. 0 \in T
  <2>1. f[0] = 0 /\ g[0] = 0
    BY SumsStep, SquaresStep
  <2> QED
    BY <2>1 DEF Distance
<1>2. ASSUME NEW n \in Nat, n \in T PROVE n + 1 \in T
  <2> SUFFICES ASSUME n + 1 <= Len(s)
               PROVE  /\ Distance(f, g, n + 1, x) \in Int /\ Distance(f, g, n + 1, x) >= 0
                      /\ Distance(f, g, n + 1, x) = 0 <=> \A i \in 1..(n + 1) : s[i] = x
    OBVIOUS
  <2> DEFINE y == s[n + 1]
  <2>1. y \in Int /\ f[n] \in Int /\ g[n] \in Int
    <3>1. n \in 0..Len(s) /\ n + 1 \in 1..Len(s)
      OBVIOUS
    <3> QED
      BY <3>1
  <2>2. f[n + 1] = f[n] + y /\ g[n + 1] = g[n] + y * y
    BY SumsStep, SquaresStep
  <2>3. Distance(f, g, n + 1, x) = Distance(f, g, n, x) + (y - x) * (y - x)
    <3> DEFINE a == f[n]
               b == g[n]
    <3>1. a \in Int /\ b \in Int
      BY <2>1
    <3> HIDE DEF a, b, y
    <3>2. (b + y * y) - 2 * (x * (a + y)) + (n + 1) * (x * x)
            = (b - 2 * (x * a) + n * (x * x)) + (y - x) * (y - x)
      BY <2>1, <3>1, Further
    <3> QED
      BY <2>2, <3>2 DEF Distance, a, b
  <2>4. /\ Distance(f, g, n, x) \in Int /\ Distance(f, g, n, x) >= 0
        /\ Distance(f, g, n, x) = 0 <=> \A i \in 1..n : s[i] = x
    BY <1>2
  <2>5. (y - x) * (y - x) \in Int /\ (y - x) * (y - x) >= 0 /\ ((y - x) * (y - x) = 0 <=> y = x)
    BY <2>1, Squared
  <2>6. (\A i \in 1..(n + 1) : s[i] = x) <=> (y = x /\ \A i \in 1..n : s[i] = x)
    <3>1. 1..(n + 1) = 1..n \cup {n + 1}
      OBVIOUS
    <3> QED
      BY <3>1
  <2> DEFINE d == Distance(f, g, n, x)
             e == (y - x) * (y - x)
  <2> HIDE DEF d, e, y
  <2>7. d \in Int /\ d >= 0 /\ e \in Int /\ e >= 0 /\ Distance(f, g, n + 1, x) = d + e
    BY <2>3, <2>4, <2>5 DEF d, e
  <2>8. (d = 0 <=> \A i \in 1..n : s[i] = x) /\ (e = 0 <=> y = x)
    BY <2>4, <2>5 DEF d, e
  <2>9. d + e \in Int /\ d + e >= 0 /\ (d + e = 0 <=> d = 0 /\ e = 0)
    BY <2>7
  <2> QED
    BY <2>6, <2>7, <2>8, <2>9
<1> QED
  <2>1. \A n \in Nat : n \in T
    <3> HIDE DEF T
    <3> QED
      BY <1>1, <1>2, Induction
  <2> QED
    BY <2>1

(* n times the sum of the squares is at least the square of the sum, and   *)
(* equal to it only if all values are the same: what makes sqrt(var / n)   *)
(* the standard deviation.                                                 *)
LEMMA SpreadCounts ==
  ASSUME NEW s \in Seq(Int), NEW f \in [0..Len(s) -> Int], NEW g \in [0..Len(s) -> Int],
         Sums(f, s), Sums(g, Squares(s))
  PROVE  \A n \in 0..Len(s) :
           /\ Spread(f, g, n) \in Int /\ Spread(f, g, n) >= 0
           /\ Spread(f, g, n) = 0 <=> \A i, j \in 1..n : s[i] = s[j]
<1> DEFINE T == {n \in Nat : n <= Len(s) =>
             /\ Spread(f, g, n) \in Int /\ Spread(f, g, n) >= 0
             /\ Spread(f, g, n) = 0 <=> \A i, j \in 1..n : s[i] = s[j]}
<1>0. \A x \in Int : \A n \in 0..Len(s) :
           /\ Distance(f, g, n, x) \in Int /\ Distance(f, g, n, x) >= 0
           /\ Distance(f, g, n, x) = 0 <=> \A i \in 1..n : s[i] = x
  <2> TAKE x \in Int
  <2> HIDE DEF T
  <2> QED
    BY DistanceCounts
<1>1. 0 \in T
  <2>1. f[0] = 0 /\ g[0] = 0
    BY SumsStep, SquaresStep
  <2> QED
    BY <2>1 DEF Spread
<1>2. ASSUME NEW n \in Nat, n \in T PROVE n + 1 \in T
  <2> SUFFICES ASSUME n + 1 <= Len(s)
               PROVE  /\ Spread(f, g, n + 1) \in Int /\ Spread(f, g, n + 1) >= 0
                      /\ Spread(f, g, n + 1) = 0 <=> \A i, j \in 1..(n + 1) : s[i] = s[j]
    OBVIOUS
  <2> DEFINE y == s[n + 1]
  <2>1. y \in Int /\ f[n] \in Int /\ g[n] \in Int
    <3>1. n \in 0..Len(s) /\ n + 1 \in 1..Len(s)
      OBVIOUS
    <3> QED
      BY <3>1
  <2>2. f[n + 1] = f[n] + y /\ g[n + 1] = g[n] + y * y
    BY SumsStep, SquaresStep
  <2>3. Spread(f, g, n + 1) = Spread(f, g, n) + Distance(f, g, n, y)
    <3> DEFINE a == f[n]
               b == g[n]
    <3>1. a \in Int /\ b \in Int
      BY <2>1
    <3> HIDE DEF a, b, y
    <3>2. (n + 1) * (b + y * y) - (a + y) * (a + y)
            = (n * b - a * a) + (b - 2 * (y * a) + n * (y * y))
      BY <2>1, <3>1, Widened
    <3> QED
      BY <2>2, <3>2 DEF Spread, Distance, a, b
  <2>4. /\ Spread(f, g, n) \in Int /\ Spread(f, g, n) >= 0
        /\ Spread(f, g, n) = 0 <=> \A i, j \in 1..n : s[i] = s[j]
    BY <1>2
  <2>5. /\ Distance(f, g, n, y) \in Int /\ Distance(f, g, n, y) >= 0
        /\ Distance(f, g, n, y) = 0 <=> \A i \in 1..n : s[i] = y
    <3>1. n \in 0..Len(s)
      OBVIOUS
    <3> HIDE DEF y
    <3> QED
      BY <1>0, <2>1, <3>1
  <2>6. (\A i, j \in 1..(n + 1) : s[i] = s[j])
          <=> (\A i, j \in 1..n : s[i] = s[j]) /\ (\A i \in 1..n : s[i] = y)
    <3>1. 1..(n + 1) = 1..n \cup {n + 1}
      OBVIOUS
    <3> QED
      BY <3>1
  <2> DEFINE d == Spread(f, g, n)
             e == Distance(f, g, n, y)
  <2> HIDE DEF d, e, y
  <2>7. d \in Int /\ d >= 0 /\ e \in Int /\ e >= 0 /\ Spread(f, g, n + 1) = d + e
    BY <2>3, <2>4, <2>5 DEF d, e
  <2>8. (d = 0 <=> \A i, j \in 1..n : s[i] = s[j]) /\ (e = 0 <=> \A i \in 1..n : s[i] = y)
    BY <2>4, <2>5 DEF d, e
  <2>9. d + e \in Int /\ d + e >= 0 /\ (d + e = 0 <=> d = 0 /\ e = 0)
    BY <2>7
  <2> QED
    BY <2>6, <2>7, <2>8, <2>9
<1> QED
  <2>1. \A n \in Nat : n \in T
    <3> HIDE DEF T
    <3> QED
      BY <1>1, <1>2, Induction
  <2> QED
    BY <2>1

LEMMA VarianceCounts ==
  ASSUME NEW s \in Seq(Int)
  PROVE  LET spread == Len(s) * Total(Squares(s)) - Total(s) * Total(s)
         IN  spread \in Int /\ spread >= 0 /\ (spread = 0 <=> \A i, j \in 1..Len(s) : s[i] = s[j])
<1>1. PICK f : Sums(f, s) /\ f \in [0..Len(s) -> Int] /\ Total(s) = f[Len(s)]
  BY SumsExist
<1> DEFINE q == Squares(s)
<1>2. q \in Seq(Int) /\ Len(q) = Len(s)
  BY SquaresAreInts
<1> HIDE DEF q
<1>3. PICK g : Sums(g, q) /\ g \in [0..Len(s) -> Int] /\ Total(q) = g[Len(s)]
  <2>1. \E g : Sums(g, q) /\ g \in [0..Len(q) -> Int] /\ Total(q) = g[Len(q)]
    BY <1>2, SumsExist
  <2> QED
    BY <1>2, <2>1
<1>4. \A n \in 0..Len(s) :
        /\ Spread(f, g, n) \in Int /\ Spread(f, g, n) >= 0
        /\ Spread(f, g, n) = 0 <=> \A i, j \in 1..n : s[i] = s[j]
  BY <1>1, <1>3, SpreadCounts DEF q
<1>5. Len(s) \in 0..Len(s)
  OBVIOUS
<1> QED
  BY <1>1, <1>3, <1>4, <1>5 DEF Spread, q

-----------------------------------------------------------------------------
(* The smallest and the largest member of a finite set.                    *)

LEMMA Extremes ==
  ASSUME NEW S \in SUBSET Int, IsFiniteSet(S), S # {}
  PROVE  /\ Smallest(S) \in S /\ \A x \in S : Smallest(S) <= x
         /\ Largest(S) \in S /\ \A x \in S : x <= Largest(S)
<1>1. PICK m \in Nat : ExistsBijection(1..m, S)
  BY FS_NatBijection
<1>2. PICK f \in [1..m -> S] : \A x \in S : \E i \in 1..m : f[i] = x
  BY <1>1 DEF ExistsBijection, Bijection, Surjection
<1>3. m >= 1 /\ \A i \in 1..m : f[i] \in Int
  <2>1. PICK x \in S : TRUE
    OBVIOUS
  <2>2. PICK i \in 1..m : f[i] = x
    BY <1>2, <2>1
  <2>3. \A k \in 1..m : f[k] \in S
    OBVIOUS
  <2>4. \A k \in 1..m : f[k] \in Int
    BY <2>3
  <2>5. m >= 1
    BY <2>2
  <2> QED
    BY <2>4, <2>5
<1> DEFINE T == {n \in Nat : n + 1 <= m =>
                   \E i, j \in 1..m : \A k \in 1..(n + 1) : f[i] <= f[k] /\ f[k] <= f[j]}
<1>4. 0 \in T
  BY <1>3
<1>5. ASSUME NEW n \in Nat, n \in T PROVE n + 1 \in T
  <2> SUFFICES ASSUME (n + 1) + 1 <= m
               PROVE  \E i, j \in 1..m : \A k \in 1..((n + 1) + 1) : f[i] <= f[k] /\ f[k] <= f[j]
    OBVIOUS
  <2>1. PICK i \in 1..m, j \in 1..m : \A k \in 1..(n + 1) : f[i] <= f[k] /\ f[k] <= f[j]
    BY <1>5
  <2> DEFINE l == (n + 1) + 1
             a == IF f[i] <= f[l] THEN i ELSE l
             b == IF f[l] <= f[j] THEN j ELSE l
  <2>2. l \in 1..m /\ a \in 1..m /\ b \in 1..m /\ 1..l = 1..(n + 1) \cup {l}
    OBVIOUS
  <2>3. f[i] \in Int /\ f[j] \in Int /\ f[l] \in Int
    BY <1>3, <2>2
  <2>4. f[a] <= f[l] /\ f[a] <= f[i] /\ f[l] <= f[b] /\ f[j] <= f[b] /\ f[a] \in Int /\ f[b] \in Int
    BY <2>3
  <2> HIDE DEF a, b, l
  <2>5. \A k \in 1..(n + 1) : f[k] \in Int
    BY <1>3, <2>2, 1..(n + 1) \subseteq 1..m
  <2>6. \A k \in 1..l : f[a] <= f[k] /\ f[k] <= f[b]
    <3> SUFFICES ASSUME NEW k \in 1..l PROVE f[a] <= f[k] /\ f[k] <= f[b]
      OBVIOUS
    <3>1. CASE k = l
      BY <2>4, <3>1
    <3>2. CASE k \in 1..(n + 1)
      <4>1. f[i] <= f[k] /\ f[k] <= f[j] /\ f[k] \in Int
        BY <2>1, <2>5, <3>2
      <4> QED
        BY <2>3, <2>4, <4>1
    <3> QED
      BY <2>2, <3>1, <3>2
  <2> QED
    BY <2>2, <2>6 DEF l
<1>6. PICK i \in 1..m, j \in 1..m : \A k \in 1..m : f[i] <= f[k] /\ f[k] <= f[j]
  <2>1. m - 1 \in Nat /\ (m - 1) + 1 = m
    BY <1>3
  <2>2. m - 1 \in T
    <3> HIDE DEF T
    <3>1. Nat \subseteq T
      BY <1>4, <1>5, Induction
    <3> QED
      BY <2>1, <3>1
  <2> QED
    BY <2>1, <2>2
<1>7. \A x \in S : f[i] <= x /\ x <= f[j]
  BY <1>2, <1>6
<1>8. f[i] \in S /\ f[j] \in S
  OBVIOUS
<1>9. Smallest(S) \in S /\ \A x \in S : Smallest(S) <= x
  BY <1>7, <1>8 DEF Smallest
<1>10. \E y \in S : \A x \in S : y >= x
  BY <1>7, <1>8
<1>11. Largest(S) \in S /\ \A x \in S : Largest(S) >= x
  BY <1>10 DEF Largest
<1> QED
  BY <1>9, <1>11

LEMMA ValuesFinite ==
  ASSUME NEW s \in Seq(Int)
  PROVE  /\ Values(s) \in SUBSET Int /\ IsFiniteSet(Values(s))
         /\ \A i \in 1..Len(s) : s[i] \in Values(s)
         /\ s # << >> => Values(s) # {} /\ Len(s) >= 1
<1>1. s \in Surjection(DOMAIN s, Values(s))
  BY DEF Surjection, Values
<1>2. DOMAIN s = 1..Len(s) /\ IsFiniteSet(DOMAIN s)
  BY FS_Interval
<1>3. IsFiniteSet(Values(s))
  BY <1>1, <1>2, FS_Surjection
<1> QED
  BY <1>2, <1>3 DEF Values

-----------------------------------------------------------------------------
(* The sorted array.                                                       *)

Below(s, v) == {i \in DOMAIN s : s[i] < v}
Upto(s, v)  == {i \in DOMAIN s : s[i] <= v}
Above(s, v) == {i \in DOMAIN s : s[i] > v}

LEMMA UptoSize ==
  ASSUME NEW n \in Nat
  PROVE  IsFiniteSet(1..n) /\ Cardinality(1..n) = n
<1>1. /\ IsFiniteSet(1..n)
      /\ Cardinality(1..n) = IF 1 > n THEN 0 ELSE n - 1 + 1
  BY FS_Interval
<1> QED
  BY <1>1

LEMMA Ranks ==
  ASSUME NEW s \in Seq(Int), NEW v \in Int
  PROVE  /\ IsFiniteSet(Below(s, v)) /\ IsFiniteSet(Upto(s, v)) /\ IsFiniteSet(Above(s, v))
         /\ Cardinality(Below(s, v)) \in 0..Len(s)
         /\ Cardinality(Upto(s, v)) \in 0..Len(s)
         /\ Cardinality(Above(s, v)) = Len(s) - Cardinality(Upto(s, v))
<1> DEFINE D == 1..Len(s)
<1>1. IsFiniteSet(D) /\ Cardinality(D) = Len(s) /\ D = DOMAIN s /\ Len(s) \in Nat
  <2>1. Len(s) \in Nat /\ D = DOMAIN s
    OBVIOUS
  <2> QED
    BY <2>1, UptoSize
<1>2. Below(s, v) \subseteq D /\ Upto(s, v) \subseteq D /\ Above(s, v) \subseteq D
  BY <1>1 DEF Below, Upto, Above
<1> HIDE DEF D
<1>3. \A S \in SUBSET D : IsFiniteSet(S) /\ Cardinality(S) <= Cardinality(D)
  BY <1>1, FS_Subset
<1>4. \A S \in SUBSET D : Cardinality(S) \in Nat
  BY <1>3, FS_CardinalityType
<1>5. Above(s, v) = D \ Upto(s, v) /\ Upto(s, v) = D \cap Upto(s, v)
  <2>1. \A i \in D : s[i] \in Int
    BY <1>1
  <2>2. \A i \in D : ~(s[i] <= v) <=> s[i] > v
    BY <2>1
  <2> QED
    BY <1>1, <1>2, <2>2 DEF Above, Upto
<1>6. Cardinality(D \ Upto(s, v)) = Cardinality(D) - Cardinality(D \cap Upto(s, v))
  BY <1>1, <1>2, <1>3, FS_Difference
<1>7. Cardinality(Above(s, v)) = Len(s) - Cardinality(Upto(s, v))
  BY <1>1, <1>5, <1>6
<1>8. \A S \in SUBSET D : Cardinality(S) \in 0..Len(s)
  BY <1>1, <1>3, <1>4
<1> QED
  BY <1>2, <1>3, <1>7, <1>8

LEMMA RanksGrow ==
  ASSUME NEW s \in Seq(Int), NEW v \in Int, NEW w \in Int
  PROVE  /\ v <= w => Cardinality(Upto(s, v)) <= Cardinality(Upto(s, w))
         /\ v < w => Cardinality(Upto(s, v)) <= Cardinality(Below(s, w))
<1>1. \A i \in DOMAIN s : s[i] \in Int
  OBVIOUS
<1>2. v <= w => Upto(s, v) \subseteq Upto(s, w)
  BY <1>1 DEF Upto
<1>3. v < w => Upto(s, v) \subseteq Below(s, w)
  BY <1>1 DEF Upto, Below
<1> QED
  BY <1>2, <1>3, Ranks, FS_Subset

(* The k-th value exists: the smallest one that k values are not above.    *)
LEMMA Ranked ==
  ASSUME NEW s \in Seq(Int), NEW k \in 1..Len(s)
  PROVE  /\ InOrder(s)[k] \in Values(s) /\ InOrder(s)[k] \in Int
         /\ Cardinality(Below(s, InOrder(s)[k])) < k
         /\ k <= Cardinality(Upto(s, InOrder(s)[k]))
<1>1. Values(s) \in SUBSET Int /\ IsFiniteSet(Values(s)) /\ Values(s) # {}
  BY ValuesFinite
<1> DEFINE V == {v \in Values(s) : Cardinality(Upto(s, v)) >= k}
           m == Smallest(V)
<1>2. V \in SUBSET Int /\ IsFiniteSet(V)
  BY <1>1, FS_Subset
<1>3. V # {}
  <2> DEFINE l == Largest(Values(s))
  <2>1. l \in Values(s) /\ l \in Int /\ \A x \in Values(s) : x <= l
    BY <1>1, Extremes
  <2> HIDE DEF l
  <2>2. Upto(s, l) = 1..Len(s)
    BY <2>1 DEF Upto, Values
  <2>3. Cardinality(Upto(s, l)) = Len(s)
    BY <2>2, FS_Interval
  <2> QED
    BY <2>1, <2>3
<1>4. m \in V /\ m \in Int /\ \A x \in V : m <= x
  BY <1>2, <1>3, Extremes
<1>5. Cardinality(Below(s, m)) < k
  <2> HIDE DEF m
  <2> SUFFICES ASSUME ~(Cardinality(Below(s, m)) < k) PROVE FALSE
    OBVIOUS
  <2> DEFINE W == {v \in Values(s) : v < m}
             w == Largest(W)
  <2>1. Cardinality(Below(s, m)) >= k
    BY <1>4, Ranks
  <2>2. Below(s, m) # {}
    <3>1. Cardinality({}) = 0 /\ k >= 1
      BY FS_EmptySet
    <3> HIDE DEF W
    <3>2. Below(s, m) = {} => 0 >= k
      BY <2>1, <3>1
    <3> QED
      BY <3>1, <3>2
  <2>3. W \in SUBSET Int /\ IsFiniteSet(W)
    BY <1>1, FS_Subset
  <2>4. W # {}
    BY <2>2 DEF Below, Values
  <2>5. w \in W /\ w \in Int /\ \A x \in W : x <= w
    BY <2>3, <2>4, Extremes
  <2>6. Below(s, m) \subseteq Upto(s, w)
    <3> HIDE DEF w
    <3> QED
      BY <2>5 DEF Below, Upto, Values
  <2>7. Cardinality(Below(s, m)) <= Cardinality(Upto(s, w))
    BY <2>5, <2>6, Ranks, FS_Subset
  <2>8. Cardinality(Upto(s, w)) \in Nat /\ Cardinality(Below(s, m)) \in Nat
    BY <1>4, <2>5, Ranks
  <2>9. w \in V
    BY <2>1, <2>5, <2>7, <2>8
  <2>10. w < m
    BY <2>5
  <2> HIDE DEF w, V
  <2> QED
    BY <1>4, <2>5, <2>9, <2>10
<1> DEFINE Kth(v) == /\ Cardinality({i \in DOMAIN s : Before(s[i], v)}) < k
                     /\ Cardinality({i \in DOMAIN s : ~Before(v, s[i])}) >= k
<1>6. \A v \in Values(s) : Kth(v) <=> /\ Cardinality(Below(s, v)) < k
                                      /\ Cardinality(Upto(s, v)) >= k
  <2> TAKE v \in Values(s)
  <2>1. \A i \in DOMAIN s : s[i] \in Int /\ v \in Int
    BY <1>1
  <2>2. {i \in DOMAIN s : Before(s[i], v)} = Below(s, v)
    BY DEF Before, Below
  <2>3. {i \in DOMAIN s : ~Before(v, s[i])} = Upto(s, v)
    BY <2>1 DEF Before, Upto
  <2> QED
    BY <2>2, <2>3
<1>7. \E v \in Values(s) : Kth(v)
  <2> HIDE DEF m, Kth
  <2> QED
    BY <1>4, <1>5, <1>6
<1>8. InOrder(s)[k] = CHOOSE v \in Values(s) : Kth(v)
  <2>1. k \in DOMAIN s
    OBVIOUS
  <2> QED
    BY <2>1, Zenon DEF InOrder
<1>9. InOrder(s)[k] \in Values(s) /\ Kth(InOrder(s)[k])
  <2> HIDE DEF Kth
  <2> QED
    BY <1>7, <1>8
<1>10. InOrder(s)[k] \in Int
  BY <1>1, <1>9
<1> QED
  <2> HIDE DEF Kth
  <2> QED
    BY <1>6, <1>9, <1>10, Ranks

(* collector.c:145: the k-th value is above th if and only if all but k - 1 *)
(* of the values are, so that places in the sorted array can be told from   *)
(* counters of the unsorted one.                                            *)
LEMMA PlaceAbove ==
  ASSUME NEW s \in Seq(Int), NEW k \in 1..Len(s), NEW th \in Int
  PROVE  /\ InOrder(s)[k] > th <=> Cardinality(Above(s, th)) >= Len(s) - (k - 1)
         /\ InOrder(s)[k] <= th <=> k <= Cardinality(Upto(s, th))
<1> DEFINE a == InOrder(s)[k]
<1>1. a \in Int /\ Cardinality(Below(s, a)) < k /\ k <= Cardinality(Upto(s, a))
  BY Ranked
<1> HIDE DEF a
<1>2. /\ Cardinality(Below(s, a)) \in Nat /\ Cardinality(Upto(s, a)) \in Nat
      /\ Cardinality(Upto(s, th)) \in Nat
      /\ Cardinality(Above(s, th)) = Len(s) - Cardinality(Upto(s, th))
  <2>1. /\ Cardinality(Below(s, a)) \in 0..Len(s) /\ Cardinality(Upto(s, a)) \in 0..Len(s)
        /\ Cardinality(Upto(s, th)) \in 0..Len(s)
        /\ Cardinality(Above(s, th)) = Len(s) - Cardinality(Upto(s, th))
    BY <1>1, Ranks
  <2>2. \A n \in 0..Len(s) : n \in Nat
    OBVIOUS
  <2> QED
    BY <2>1, <2>2
<1>3. a <= th => k <= Cardinality(Upto(s, th))
  <2>1. a <= th => Cardinality(Upto(s, a)) <= Cardinality(Upto(s, th))
    BY <1>1, RanksGrow
  <2> QED
    BY <1>1, <1>2, <2>1
<1>4. th < a => Cardinality(Upto(s, th)) < k
  BY <1>1, <1>2, RanksGrow
<1> QED
  BY <1>1, <1>2, <1>3, <1>4 DEF a

LEMMA Ascending ==
  ASSUME NEW s \in Seq(Int), NEW i \in 1..Len(s), NEW j \in 1..Len(s), i <= j
  PROVE  InOrder(s)[i] <= InOrder(s)[j]
<1>1. InOrder(s)[i] \in Int /\ InOrder(s)[j] \in Int /\ j <= Cardinality(Upto(s, InOrder(s)[j]))
  BY Ranked
<1>2. Cardinality(Upto(s, InOrder(s)[j])) \in Nat
  <2>1. Cardinality(Upto(s, InOrder(s)[j])) \in 0..Len(s)
    BY <1>1, Ranks
  <2> QED
    BY <2>1
<1>3. i <= Cardinality(Upto(s, InOrder(s)[j]))
  BY <1>1, <1>2
<1> QED
  BY <1>1, <1>3, PlaceAbove

(* collector.c:138-145: the array that percentile takes its value from is   *)
(* in ascending order, and a rearrangement of the window's latencies: of    *)
(* each size it has as many values as the window has.                       *)
THEOREM InOrderSorts ==
  ASSUME NEW s \in Seq(Int)
  PROVE  /\ InOrder(s) \in [1..Len(s) -> Values(s)]
         /\ \A i, j \in 1..Len(s) : i <= j => InOrder(s)[i] <= InOrder(s)[j]
         /\ \A v \in Int : Cardinality({k \in 1..Len(s) : InOrder(s)[k] <= v})
                             = Cardinality({i \in 1..Len(s) : s[i] <= v})
<1>1. InOrder(s) \in [1..Len(s) -> Values(s)]
  <2>1. \A k \in 1..Len(s) : InOrder(s)[k] \in Values(s)
    BY Ranked
  <2>2. InOrder(s) = [k \in 1..Len(s) |-> InOrder(s)[k]]
    <3> DEFINE e(k) == CHOOSE v \in Values(s) :
                         /\ Cardinality({i \in DOMAIN s : Before(s[i], v)}) < k
                         /\ Cardinality({i \in DOMAIN s : ~Before(v, s[i])}) >= k
    <3>1. InOrder(s) = [k \in DOMAIN s |-> e(k)]
      BY DEF InOrder
    <3> HIDE DEF e
    <3>2. InOrder(s) = [k \in DOMAIN s |-> InOrder(s)[k]]
      BY <3>1
    <3> QED
      BY <3>2
  <2> QED
    BY <2>1, <2>2
<1>2. ASSUME NEW v \in Int
      PROVE  Cardinality({k \in 1..Len(s) : InOrder(s)[k] <= v})
               = Cardinality({i \in 1..Len(s) : s[i] <= v})
  <2> DEFINE c == Cardinality(Upto(s, v))
  <2>1. c \in 0..Len(s)
    BY Ranks
  <2>2. \A k \in 1..Len(s) : InOrder(s)[k] <= v <=> k <= c
    BY PlaceAbove
  <2> HIDE DEF c
  <2>3. {k \in 1..Len(s) : InOrder(s)[k] <= v} = 1..c
    BY <2>1, <2>2
  <2>4. Cardinality(1..c) = c
    BY <2>1, FS_Interval
  <2>5. Upto(s, v) = {i \in 1..Len(s) : s[i] <= v}
    BY DEF Upto
  <2> QED
    BY <2>3, <2>4, <2>5 DEF c
<1> QED
  BY <1>1, <1>2, Ascending

-----------------------------------------------------------------------------
(* The places of the percentiles.                                          *)

LEMMA Divided ==
  ASSUME NEW a \in Nat, NEW d \in Nat \ {0}
  PROVE  /\ a \div d \in Nat /\ a % d \in 0..(d - 1)
         /\ a = d * (a \div d) + (a % d)
  OBVIOUS

LEMMA Hundreds ==
  ASSUME NEW m \in Nat
  PROVE  /\ m \div 100 \in Nat /\ m % 100 \in 0..99
         /\ m = 100 * (m \div 100) + (m % 100)
         /\ \A q \in Int : 100 * q <= m <=> q <= m \div 100
  OBVIOUS

LEMMA Parts ==
  ASSUME NEW n \in Nat, NEW p \in 0..99, NEW q \in p..99
  PROVE  p * n \in Nat /\ p * n <= q * n /\ q * n <= 99 * n
<1> DEFINE d == q - p
           e == 99 - q
<1>1. d \in Nat /\ e \in Nat /\ q = p + d /\ 99 = q + e
  OBVIOUS
<1>2. d * n \in Nat /\ e * n \in Nat /\ p * n \in Nat
  BY <1>1
<1> HIDE DEF d, e
<1>3. q * n = p * n + d * n /\ 99 * n = q * n + e * n
  BY <1>1
<1>4. q * n \in Nat
  OBVIOUS
<1> QED
  BY <1>2, <1>3, <1>4

(* collector.c:146-147: the index is one of the array's, and the test that  *)
(* keeps it below n is never needed, for 95 and 99 and every other percent. *)
THEOREM IndexInRange ==
  ASSUME NEW n \in Nat \ {0}, NEW percent \in 0..99
  PROVE  Index(n, percent) = (percent * n) \div 100 /\ Index(n, percent) \in 0..(n - 1)
<1> DEFINE m == percent * n
<1>1. m \in Nat /\ m <= 99 * n
  BY Parts
<1> HIDE DEF m
<1>2. m \div 100 \in Nat /\ m \div 100 <= n - 1
  BY <1>1, Hundreds
<1> QED
  BY <1>2 DEF Index, m

(* collector.c:314-315: p95 is taken from a place before that of p99, or    *)
(* from the same one, so that in the sorted array it is not above it.       *)
THEOREM IndicesOrdered ==
  ASSUME NEW n \in Nat \ {0}, NEW p \in 0..99, NEW q \in p..99
  PROVE  Index(n, p) <= Index(n, q)
<1> DEFINE a == p * n
           b == q * n
<1>1. a \in Nat /\ b \in Nat /\ a <= b
  BY Parts
<1> HIDE DEF a, b
<1>2. a \div 100 <= b \div 100
  BY <1>1, Hundreds
<1>3. Index(n, p) = a \div 100 /\ Index(n, q) = b \div 100
  <2>1. p \in 0..99 /\ q \in 0..99
    OBVIOUS
  <2> QED
    BY <2>1, IndexInRange DEF a, b
<1> QED
  BY <1>2, <1>3

(* tui.py:413-418 interpolates between two places of the sorted values; the *)
(* upper one is not above the place that collector.c:146 takes, if 100 is a *)
(* multiple of what the percentile leaves above, as it is of 5 and of 1.    *)
(* (It is not of 40: of 8 values, the dashboard's 60th percentile is above  *)
(* the fifth, which is that of the collector.)                              *)
THEOREM SummaryIndexNotAbove ==
  ASSUME NEW n \in Nat \ {0}, NEW percent \in 0..99, 100 % (100 - percent) = 0
  PROVE  (Position(n, percent) + 99) \div 100 <= Index(n, percent)
<1> DEFINE pos == percent * (n - 1)
           b == pos \div 100
           r == pos % 100
           d == 100 - percent
           e == 100 \div d
<1>1. pos \in Nat /\ percent * n = pos + percent
  OBVIOUS
<1>2. b \in Nat /\ r \in 0..99 /\ pos = 100 * b + r
  BY <1>1
<1>3. d \in 1..100 /\ e \in Nat /\ 100 = d * e
  <2>1. d \in Nat \ {0} /\ 100 \in Nat /\ 100 % d = 0
    OBVIOUS
  <2> HIDE DEF d
  <2>2. 100 = d * (100 \div d) + (100 % d) /\ 100 \div d \in Nat
    BY <2>1, Divided
  <2>3. d * (100 \div d) \in Nat
    BY <2>1, <2>2
  <2>4. d \in 1..100
    BY DEF d
  <2> QED
    BY <2>1, <2>2, <2>3, <2>4
<1>4. r # 0 => r >= d
  <2> DEFINE k == e * (n - 1) - (n - 1) - e * b
  <2>1. k \in Int
    BY <1>2, <1>3
  <2>2. pos = 100 * (n - 1) - d * (n - 1)
    OBVIOUS
  <2> HIDE DEF d, e, b, r, pos
  <2>3. r = d * k
    <3>1. 100 * (n - 1) = d * (e * (n - 1)) /\ 100 * b = d * (e * b)
      BY <1>2, <1>3
    <3>2. d * k = d * (e * (n - 1)) - d * (n - 1) - d * (e * b)
      BY <1>2, <1>3
    <3>3. d * (e * (n - 1)) \in Int /\ d * (n - 1) \in Int /\ d * (e * b) \in Int
      BY <1>2, <1>3
    <3> HIDE DEF k
    <3> QED
      BY <1>1, <1>2, <2>2, <3>1, <3>2, <3>3
  <2> HIDE DEF k
  <2>4. k >= 1 => d * k >= d
    BY <1>3, <2>1
  <2>5. k <= 0 => d * k <= 0
    BY <1>3, <2>1
  <2> QED
    BY <1>2, <2>1, <2>3, <2>4, <2>5
<1>5. (pos + 99) \div 100 <= (pos + percent) \div 100
  <2> HIDE DEF pos, b, r
  <2>1. CASE r = 0
    BY <1>1, <1>2, <2>1
  <2>2. CASE r # 0
    BY <1>1, <1>2, <1>4, <2>2
  <2> QED
    BY <2>1, <2>2
<1> QED
  BY <1>1, <1>5, IndexInRange DEF Position

-----------------------------------------------------------------------------
(* The buckets of a chart.                                                 *)

LEMMA ExactCuts ==
  ASSUME NEW n \in Nat, NEW width \in Nat \ {0}, n > width
  PROVE  /\ \A i \in 0..width : Exact(i, n, width) \in Nat
         /\ Exact(0, n, width) = 0 /\ Exact(width, n, width) = n
         /\ \A i \in 0..(width - 1) : /\ Exact(i, n, width) < Exact(i + 1, n, width)
                                      /\ Exact(i, n, width) < n
<1> DEFINE E(i) == (i * n) \div width
<1>1. \A i \in 0..width : /\ i * n \in Nat /\ E(i) \in Nat
                          /\ width * E(i) <= i * n /\ i * n < width * E(i) + width
  <2> TAKE i \in 0..width
  <2> DEFINE a == i * n
  <2>1. a \in Nat
    OBVIOUS
  <2> HIDE DEF a
  <2>2. a \div width \in Nat /\ a % width \in 0..(width - 1) /\ a = width * (a \div width) + (a % width)
    BY <2>1, Divided
  <2>3. width * (a \div width) \in Nat
    BY <2>2
  <2> QED
    BY <2>1, <2>2, <2>3 DEF a
<1>2. E(0) = 0
  BY Divided
<1>3. E(width) = n
  <2> DEFINE q == E(width)
  <2>1. q \in Nat /\ width * q <= width * n /\ width * n < width * q + width
    BY <1>1
  <2> HIDE DEF q
  <2>2. q > n => width * q >= width * (n + 1)
    BY <2>1
  <2>3. q < n => width * (q + 1) <= width * n
    BY <2>1
  <2>4. width * (n + 1) = width * n + width /\ width * (q + 1) = width * q + width
    BY <2>1
  <2>5. width * n \in Nat /\ width * q \in Nat
    BY <2>1
  <2> QED
    BY <2>1, <2>2, <2>3, <2>4, <2>5 DEF q
<1>4. ASSUME NEW i \in 0..(width - 1) PROVE E(i) < E(i + 1)
  <2> DEFINE q == E(i)
             r == E(i + 1)
  <2>1. i \in 0..width /\ i + 1 \in 0..width
    OBVIOUS
  <2>2. q \in Nat /\ r \in Nat /\ width * q <= i * n /\ (i + 1) * n < width * r + width
    BY <1>1, <2>1
  <2> HIDE DEF q, r
  <2>3. (i + 1) * n = i * n + n /\ i * n \in Nat /\ width * q \in Nat /\ width * r \in Nat
    BY <2>2
  <2>4. width * q < width * r
    BY <2>2, <2>3
  <2>5. r <= q => width * r <= width * q
    BY <2>2
  <2> QED
    BY <2>2, <2>3, <2>4, <2>5 DEF q, r
<1>5. ASSUME NEW i \in 0..(width - 1) PROVE E(i) < n
  <2> DEFINE q == E(i)
             j == width - 1 - i
  <2>1. q \in Nat /\ width * q <= i * n /\ j \in Nat /\ width = i + 1 + j
    BY <1>1, i \in 0..width
  <2> HIDE DEF q, j
  <2>2. width * n = i * n + n + j * n /\ i * n \in Nat /\ j * n \in Nat /\ width * q \in Nat
    BY <2>1
  <2>3. q >= n => width * q >= width * n
    BY <2>1
  <2> QED
    BY <2>1, <2>2, <2>3 DEF q
<1> QED
  BY <1>1, <1>2, <1>3, <1>4, <1>5 DEF Exact

LEMMA CutsOrdered ==
  ASSUME NEW n \in Nat, NEW width \in Nat \ {0}, n > width, NEW cut \in Cuts(n, width)
  PROVE  /\ \A i \in 0..width : cut[i] \in Nat
         /\ cut[0] = 0 /\ cut[width] >= n - 1
         /\ \A i \in 0..(width - 1) : cut[i] < n /\ cut[i] <= cut[i + 1]
<1>0. \A i \in 0..width :
        \/ cut[i] = Exact(i, n, width)
        \/ /\ i > 0 /\ n % width # 0 /\ (i * n) % width = 0
           /\ cut[i] = Exact(i, n, width) - 1
  BY Zenon DEF Cuts
<1> DEFINE E(i) == Exact(i, n, width)
<1>1. \A i \in 0..width : E(i) \in Nat
  BY ExactCuts
<1>2. E(0) = 0 /\ E(width) = n
  BY ExactCuts
<1>3. \A i \in 0..(width - 1) : E(i) < E(i + 1) /\ E(i) < n
  BY ExactCuts
<1>4. \A i \in 0..width : cut[i] = E(i) \/ (i > 0 /\ cut[i] = E(i) - 1)
  BY <1>0
<1> HIDE DEF E
<1>5. \A i \in 0..width : i > 0 => E(i) >= 1
  <2> TAKE i \in 0..width
  <2> HAVE i > 0
  <2>1. i - 1 \in 0..(width - 1) /\ i - 1 \in 0..width /\ (i - 1) + 1 = i
    OBVIOUS
  <2>2. E(i - 1) < E(i)
    BY <1>3, <2>1
  <2> QED
    BY <1>1, <2>1, <2>2
<1>6. \A i \in 0..width : cut[i] \in Nat /\ E(i) - 1 <= cut[i] /\ cut[i] <= E(i)
  BY <1>1, <1>4, <1>5
<1>7. 0 \in 0..width /\ width \in 0..width
  OBVIOUS
<1>8. cut[0] = 0 /\ cut[width] >= n - 1
  BY <1>2, <1>4, <1>7
<1>9. ASSUME NEW i \in 0..(width - 1) PROVE cut[i] < n /\ cut[i] <= cut[i + 1]
  <2>1. i \in 0..width /\ i + 1 \in 0..width
    OBVIOUS
  <2> QED
    BY <1>1, <1>3, <1>6, <2>1
<1> QED
  BY <1>6, <1>8, <1>9

LEMMA ChartCovers ==
  ASSUME NEW s \in Seq(Int), NEW width \in Nat \ {0}, NEW cut \in Cuts(Len(s), width)
  PROVE  LET samples == Reduced(s, cut, width)
         IN  /\ Len(samples) <= width
             /\ Values(samples) \subseteq Values(s)
             /\ \A k \in 1..(Len(s) - 1) : \E i \in DOMAIN samples : samples[i] >= s[k]
<1>1. CASE Len(s) <= width
  <2>1. Reduced(s, cut, width) = s
    BY <1>1 DEF Reduced
  <2>2. \A k \in 1..(Len(s) - 1) : k \in DOMAIN s /\ s[k] >= s[k]
    OBVIOUS
  <2> QED
    BY <1>1, <2>1, <2>2
<1>2. CASE Len(s) > width
  <2> DEFINE n == Len(s)
             H(i) == {s[k] : k \in Bucket(cut, n, i - 1)}
             samples == [i \in 1..width |-> Largest(H(i))]
  <2>1. Reduced(s, cut, width) = samples
    <3>1. ~(Len(s) <= width)
      BY <1>2
    <3> QED
      BY <3>1 DEF Reduced
  <2>2. /\ \A i \in 0..width : cut[i] \in Nat
        /\ cut[0] = 0 /\ cut[width] >= n - 1
        /\ \A i \in 0..(width - 1) : cut[i] < n /\ cut[i] <= cut[i + 1]
    BY <1>2, CutsOrdered
  <2>3. ASSUME NEW i \in 1..width
        PROVE  /\ Largest(H(i)) \in Values(s)
               /\ \A k \in 1..n : cut[i - 1] < k /\ k <= cut[i] => Largest(H(i)) >= s[k]
    <3> DEFINE B == Bucket(cut, n, i - 1)
               l == Largest(H(i))
    <3>1. i - 1 \in 0..(width - 1) /\ i - 1 \in 0..width /\ i \in 0..width /\ (i - 1) + 1 = i
      OBVIOUS
    <3>2. cut[i - 1] \in Nat /\ cut[i] \in Nat /\ cut[i - 1] < n
      BY <2>2, <3>1
    <3>3. B \subseteq 1..n
      BY <3>1, <3>2 DEF Bucket
    <3>4. cut[i - 1] + 1 \in B
      BY <3>1, <3>2 DEF Bucket
    <3>5. \A k \in 1..n : cut[i - 1] < k /\ k <= cut[i] => k \in B
      BY <3>1, <3>2 DEF Bucket
    <3> HIDE DEF B
    <3>6. H(i) \subseteq Values(s) /\ H(i) # {}
      BY <3>3, <3>4 DEF Values, B
    <3>7. H(i) \in SUBSET Int /\ IsFiniteSet(H(i))
      BY <3>6, ValuesFinite, FS_Subset
    <3>8. l \in H(i) /\ \A x \in H(i) : x <= l
      BY <3>6, <3>7, Extremes
    <3>9. \A k \in B : s[k] \in H(i)
      BY DEF B
    <3>10. l \in Int /\ \A k \in 1..n : s[k] \in Int
      BY <3>7, <3>8
    <3> HIDE DEF l, H
    <3>11. \A k \in 1..n : k \in B => l >= s[k]
      BY <3>8, <3>9, <3>10
    <3> QED
      BY <3>5, <3>6, <3>8, <3>11 DEF l
  <2>4. DOMAIN samples = 1..width /\ \A i \in 1..width : samples[i] = Largest(H(i))
    OBVIOUS
  <2>5. samples \in [1..width -> Values(s)]
    BY <2>3
  <2>6. Len(samples) = width
    <3> HIDE DEF samples
    <3> QED
      BY <2>5
  <2>7. Values(samples) \subseteq Values(s)
    <3> HIDE DEF samples
    <3> QED
      BY <2>5 DEF Values
  <2>8. ASSUME NEW k \in 1..(n - 1)
        PROVE  \E i \in 1..width : samples[i] >= s[k]
    <3> DEFINE T == {i \in 0..width : cut[i] >= k}
    <3>1. width \in T
      BY <2>2
    <3>2. PICK i \in T : \A j \in T : i <= j
      <4> HIDE DEF T
      <4>1. T \in SUBSET Nat
        BY DEF T
      <4> QED
        BY <3>1, <4>1, LeastNumber
    <3>3. i \in 1..width /\ k \in 1..n /\ i - 1 \in 0..width
      BY <2>2, <3>2
    <3>4. i - 1 \notin T
      BY <3>2, <3>3
    <3>5. cut[i - 1] < k /\ k <= cut[i]
      BY <2>2, <3>2, <3>3, <3>4
    <3> HIDE DEF T, H, samples
    <3>6. Largest(H(i)) >= s[k]
      BY <2>3, <3>3, <3>5
    <3> QED
      BY <2>4, <3>3, <3>6
  <2>9. \A k \in 1..(n - 1) : \E i \in DOMAIN samples : samples[i] >= s[k]
    BY <2>4, <2>8
  <2> HIDE DEF samples
  <2>10. Len(samples) <= width
    BY <2>6
  <2> QED
    BY <2>1, <2>7, <2>9, <2>10
<1> QED
  BY <1>1, <1>2

-----------------------------------------------------------------------------
(* The window of the collector.                                            *)

(* What the arrays and the counters hold, in terms of all the events since  *)
(* the window began: of the latencies the first MAX_EVENTS, and of those    *)
(* over a threshold and of all of them the number.                          *)
WindowInv ==
  /\ seen \in Seq(Latencies) /\ latencies \in Seq(Latencies) /\ priorities \in Seq(Priorities)
  /\ Len(latencies) = IF Len(seen) < MaxEvents THEN Len(seen) ELSE MaxEvents
  /\ Len(priorities) = Len(latencies)
  /\ \A i \in 1..Len(latencies) : latencies[i] = seen[i]
  /\ switch_count = Len(seen)
  /\ over = [th \in Thresholds |-> Cardinality(Above(seen, th))]

(* What the row that was just written says of its window.                  *)
RowInv == RowOrdered /\ RowOfWindow /\ OverAgrees /\ SummaryNotAbove

LEMMA SeqsOfInts ==
  /\ \A s \in Seq(Latencies) : s \in Seq(Int)
  /\ \A s \in Seq(Priorities) : s \in Seq(Int)
  /\ \A th \in Thresholds : th \in Int
<1>1. Latencies \subseteq Int /\ Priorities \subseteq Int /\ Thresholds \subseteq Int
  BY StatsAssumption
<1>2. ASSUME NEW S \in SUBSET Int, NEW s \in Seq(S) PROVE s \in Seq(Int)
  <2>1. Len(s) \in Nat /\ s \in [1..Len(s) -> S]
    OBVIOUS
  <2>2. s \in [1..Len(s) -> Int]
    BY <2>1
  <2> QED
    BY <2>1, <2>2
<1> QED
  BY <1>1, <1>2

LEMMA InitWindow ==
  Init => WindowInv /\ RowInv
<1> SUFFICES ASSUME Init PROVE WindowInv /\ RowInv
  OBVIOUS
<1>1. \A th \in Thresholds : Cardinality(Above(seen, th)) = 0
  <2>1. \A th \in Thresholds : Above(seen, th) = {}
    BY DEF Init, Above
  <2> QED
    BY <2>1, FS_EmptySet
<1>2. over = [th \in Thresholds |-> Cardinality(Above(seen, th))]
  BY <1>1 DEF Init
<1>3. WindowInv
  BY <1>2, StatsAssumption DEF Init, WindowInv
<1>4. RowInv
  BY DEF Init, RowInv, RowOrdered, RowOfWindow, OverAgrees, SummaryNotAbove, Complete, Written
<1> QED
  BY <1>3, <1>4

LEMMA HandleEventKeepsWindow ==
  ASSUME WindowInv, NEW lat \in Latencies, NEW prio \in Priorities, HandleEvent(lat, prio)
  PROVE  WindowInv' /\ RowInv'
<1>1. /\ seen \in Seq(Latencies) /\ latencies \in Seq(Latencies) /\ priorities \in Seq(Priorities)
      /\ MaxEvents \in Nat \ {0} /\ Len(seen) \in Nat /\ Len(latencies) \in Nat
  BY StatsAssumption DEF WindowInv
<1>2. /\ seen' = Append(seen, lat) /\ seen' \in Seq(Latencies) /\ Len(seen') = Len(seen) + 1
      /\ \A i \in 1..Len(seen) : seen'[i] = seen[i]
      /\ seen'[Len(seen) + 1] = lat
  BY <1>1 DEF HandleEvent
<1>3. /\ latencies' \in Seq(Latencies) /\ priorities' \in Seq(Priorities)
      /\ Len(latencies') = IF Len(seen') < MaxEvents THEN Len(seen') ELSE MaxEvents
      /\ Len(priorities') = Len(latencies')
      /\ \A i \in 1..Len(latencies') : latencies'[i] = seen'[i]
  <2>1. CASE Len(latencies) < MaxEvents
    <3>1. latencies' = Append(latencies, lat) /\ priorities' = Append(priorities, prio)
      BY <2>1 DEF HandleEvent
    <3>2. Len(latencies) = Len(seen) /\ Len(priorities) = Len(latencies)
      BY <1>1, <2>1 DEF WindowInv
    <3>3. /\ latencies' \in Seq(Latencies) /\ priorities' \in Seq(Priorities)
          /\ Len(latencies') = Len(latencies) + 1 /\ Len(priorities') = Len(priorities) + 1
      BY <1>1, <3>1
    <3>4. \A i \in 1..Len(latencies) : latencies'[i] = latencies[i] /\ latencies[i] = seen[i]
      BY <1>1, <3>1 DEF WindowInv
    <3>5. latencies'[Len(latencies) + 1] = lat
      BY <1>1, <3>1
    <3>6. \A i \in 1..Len(latencies') : i \in 1..Len(latencies) \/ i = Len(latencies) + 1
      BY <1>1, <3>3
    <3>7. \A i \in 1..Len(latencies') : latencies'[i] = seen'[i]
      BY <1>2, <3>2, <3>4, <3>5, <3>6
    <3> QED
      BY <1>1, <1>2, <2>1, <3>2, <3>3, <3>7
  <2>2. CASE ~(Len(latencies) < MaxEvents)
    <3>1. latencies' = latencies /\ priorities' = priorities
      BY <2>2 DEF HandleEvent
    <3>2. Len(latencies) = MaxEvents /\ MaxEvents <= Len(seen)
      BY <1>1, <2>2 DEF WindowInv
    <3>3. \A i \in 1..Len(latencies) : latencies[i] = seen[i] /\ seen'[i] = seen[i]
      BY <1>1, <1>2, <3>2 DEF WindowInv
    <3> QED
      BY <1>1, <1>2, <3>1, <3>2, <3>3 DEF WindowInv
  <2> QED
    BY <2>1, <2>2
<1>4. \A th \in Thresholds :
        Cardinality(Above(seen', th)) = Cardinality(Above(seen, th)) + IF lat > th THEN 1 ELSE 0
  <2> TAKE th \in Thresholds
  <2>1. th \in Int /\ seen \in Seq(Int)
    BY <1>1, SeqsOfInts
  <2>2. IsFiniteSet(Above(seen, th)) /\ Cardinality(Above(seen, th)) \in Nat
    BY <2>1, Ranks, FS_CardinalityType
  <2>3. DOMAIN seen = 1..Len(seen) /\ DOMAIN seen' = 1..Len(seen) \cup {Len(seen) + 1}
    BY <1>1, <1>2
  <2>4. Above(seen', th) = Above(seen, th) \cup {i \in {Len(seen) + 1} : lat > th}
    BY <1>2, <2>3 DEF Above
  <2>5. Len(seen) + 1 \notin Above(seen, th)
    BY <1>1 DEF Above
  <2>6. CASE lat > th
    <3>1. Above(seen', th) = Above(seen, th) \cup {Len(seen) + 1}
      BY <2>4, <2>6
    <3>2. Cardinality(Above(seen, th) \cup {Len(seen) + 1}) = Cardinality(Above(seen, th)) + 1
      BY <2>2, <2>5, FS_AddElement
    <3> QED
      BY <2>6, <3>1, <3>2
  <2>7. CASE ~(lat > th)
    <3>1. Above(seen', th) = Above(seen, th)
      BY <2>4, <2>7
    <3> QED
      BY <2>2, <2>7, <3>1
  <2> QED
    BY <2>6, <2>7
<1>5. over' = [th \in Thresholds |-> Cardinality(Above(seen', th))]
  <2>1. \A th \in Thresholds : over[th] = Cardinality(Above(seen, th))
    BY DEF WindowInv
  <2>2. over' = [th \in Thresholds |-> over[th] + IF lat > th THEN 1 ELSE 0]
    BY DEF HandleEvent, Over
  <2> QED
    BY <1>4, <2>1, <2>2
<1>6. switch_count' = Len(seen')
  BY <1>2 DEF HandleEvent, WindowInv
<1>7. WindowInv'
  BY <1>2, <1>3, <1>5, <1>6 DEF WindowInv
<1>8. RowInv'
  <2>1. row' = NoRow
    BY DEF HandleEvent
  <2> QED
    BY <2>1 DEF RowInv, RowOrdered, RowOfWindow, OverAgrees, SummaryNotAbove, Complete, Written
<1> QED
  BY <1>7, <1>8

(* Percentile returns one of the values, that of its place in the sorted    *)
(* array.                                                                   *)
LEMMA PercentileIs ==
  ASSUME NEW s \in Seq(Int), s # << >>, NEW p \in 0..99
  PROVE  /\ Index(Len(s), p) + 1 \in 1..Len(s)
         /\ Percentile(s, p) = InOrder(s)[Index(Len(s), p) + 1]
         /\ Percentile(s, p) \in Values(s) /\ Percentile(s, p) \in Int
<1>1. Len(s) \in Nat \ {0}
  OBVIOUS
<1>2. Index(Len(s), p) \in 0..(Len(s) - 1)
  BY <1>1, IndexInRange
<1>3. Index(Len(s), p) + 1 \in 1..Len(s)
  BY <1>1, <1>2
<1>4. Percentile(s, p) = InOrder(s)[Index(Len(s), p) + 1]
  BY DEF Percentile
<1> QED
  BY <1>3, <1>4, Ranked

LEMMA RowIsOrdered ==
  ASSUME WindowInv, latencies # << >>, row' = Row
  PROVE  RowOrdered'
<1> DEFINE s == latencies
           n == Len(s)
           p == priorities
<1>1. s \in Seq(Int) /\ p \in Seq(Int) /\ n \in Nat /\ n >= 1 /\ Len(p) = n /\ s # << >>
  BY SeqsOfInts DEF WindowInv
<1>2. P95 \in 0..99 /\ P99 \in 0..99 /\ P99 \in P95..99
  BY StatsAssumption
<1>3. /\ row'.min = Smallest(Values(s)) /\ row'.max = Largest(Values(s))
      /\ row'.p95 = Percentile(s, P95) /\ row'.p99 = Percentile(s, P99)
      /\ row'.n = n /\ row'.sum = Total(s) /\ row'.sum_prio = Total(p)
      /\ row'.spread = n * Total(Squares(s)) - Total(s) * Total(s)
      /\ row'.highest_prio = Smallest({140} \cup Values(p))
  BY DEF Row, Squares
<1> HIDE DEF s, n, p
<1> DEFINE min == Smallest(Values(s))
           max == Largest(Values(s))
<1>4. /\ min \in Values(s) /\ max \in Values(s)
      /\ \A x \in Values(s) : x \in Int /\ min <= x /\ x <= max
  BY <1>1, ValuesFinite, Extremes
<1>5. \A i \in 1..n : s[i] \in Values(s)
  BY <1>1, ValuesFinite DEF n
<1> HIDE DEF min, max
<1>6. min <= Percentile(s, P95) /\ Percentile(s, P99) <= max
  BY <1>1, <1>2, <1>4, PercentileIs
<1>7. Percentile(s, P95) <= Percentile(s, P99)
  <2>1. n \in Nat \ {0}
    BY <1>1
  <2>2. Index(n, P95) <= Index(n, P99)
    BY <1>2, <2>1, IndicesOrdered
  <2>3. /\ Index(n, P95) + 1 \in 1..n /\ Index(n, P99) + 1 \in 1..n
        /\ Percentile(s, P95) = InOrder(s)[Index(n, P95) + 1]
        /\ Percentile(s, P99) = InOrder(s)[Index(n, P99) + 1]
    BY <1>1, <1>2, PercentileIs DEF n
  <2>4. Index(n, P95) \in Int /\ Index(n, P99) \in Int
    <3>1. Index(n, P95) \in 0..(n - 1) /\ Index(n, P99) \in 0..(n - 1)
      BY <1>2, <2>1, IndexInRange
    <3> QED
      BY <3>1
  <2>5. Index(n, P95) + 1 <= Index(n, P99) + 1
    BY <2>2, <2>4
  <2> QED
    BY <1>1, <2>3, <2>5, Ascending DEF n
<1>8. n * min <= Total(s) /\ Total(s) <= n * max
  <2>1. \A i \in 1..n : min <= s[i] /\ s[i] <= max
    BY <1>4, <1>5
  <2> QED
    BY <1>1, <1>4, <2>1, TotalBounds DEF n
<1>9. row'.spread >= 0 /\ (row'.spread = 0 <=> min = max)
  <2>1. row'.spread >= 0 /\ (row'.spread = 0 <=> \A i, j \in 1..n : s[i] = s[j])
    BY <1>1, <1>3, VarianceCounts DEF n
  <2>2. (\A i, j \in 1..n : s[i] = s[j]) => min = max
    BY <1>4 DEF Values, n
  <2>3. min = max => \A i \in 1..n : s[i] = min
    <3> SUFFICES ASSUME min = max, NEW i \in 1..n PROVE s[i] = min
      OBVIOUS
    <3>1. s[i] \in Int /\ min \in Int /\ min <= s[i] /\ s[i] <= max
      BY <1>4, <1>5
    <3> QED
      BY <3>1
  <2> QED
    BY <2>1, <2>2, <2>3
<1>10. n * row'.highest_prio <= Total(p)
  <2> DEFINE H == {140} \cup Values(p)
             h == Smallest(H)
  <2>1. Values(p) \in SUBSET Int /\ IsFiniteSet(Values(p)) /\ \A i \in 1..Len(p) : p[i] \in Values(p)
    BY <1>1, ValuesFinite
  <2>2. H \in SUBSET Int /\ IsFiniteSet(H) /\ H # {}
    <3>1. H = Values(p) \cup {140}
      OBVIOUS
    <3> QED
      BY <2>1, <3>1, FS_AddElement
  <2>3. h \in H /\ \A x \in H : h <= x
    BY <2>2, Extremes
  <2> DEFINE t == Largest(H)
  <2>4. t \in H /\ \A x \in H : x <= t
    BY <2>2, Extremes
  <2>5. h \in Int /\ t \in Int /\ \A i \in 1..Len(p) : h <= p[i] /\ p[i] <= t
    BY <2>1, <2>2, <2>3, <2>4
  <2> HIDE DEF h, t
  <2>6. Len(p) * h <= Total(p)
    BY <1>1, <2>5, TotalBounds
  <2> QED
    BY <1>1, <1>3, <2>6 DEF h
<1> QED
  BY <1>3, <1>6, <1>7, <1>8, <1>9, <1>10 DEF RowOrdered, min, max

LEMMA RowIsOfWindow ==
  ASSUME WindowInv, latencies # << >>, row' = Row
  PROVE  RowOfWindow'
<1> DEFINE s == latencies
<1>1. s \in Seq(Int) /\ seen \in Seq(Int) /\ s # << >>
  BY SeqsOfInts DEF WindowInv
<1>2. P95 \in 0..99 /\ P99 \in 0..99
  BY StatsAssumption
<1>3. /\ row'.min = Smallest(Values(s)) /\ row'.max = Largest(Values(s))
      /\ row'.p95 = Percentile(s, P95) /\ row'.p99 = Percentile(s, P99)
      /\ row'.n = Len(s) /\ row'.count = switch_count /\ row'.of = seen
  BY DEF Row
<1>4. switch_count = Len(seen) /\ Len(s) = IF Len(seen) < MaxEvents THEN Len(seen) ELSE MaxEvents
  BY DEF WindowInv
<1>5. Values(s) \subseteq Values(seen)
  <2>1. \A i \in 1..Len(s) : i \in 1..Len(seen) /\ s[i] = seen[i]
    BY <1>1, <1>4, StatsAssumption DEF WindowInv
  <2>2. DOMAIN s = 1..Len(s) /\ DOMAIN seen = 1..Len(seen)
    BY <1>1
  <2> QED
    BY <2>1, <2>2 DEF Values
<1> HIDE DEF s
<1>6. Smallest(Values(s)) \in Values(s) /\ Largest(Values(s)) \in Values(s)
  BY <1>1, ValuesFinite, Extremes
<1>7. Percentile(s, P95) \in Values(s) /\ Percentile(s, P99) \in Values(s)
  BY <1>1, <1>2, PercentileIs
<1> QED
  BY <1>3, <1>4, <1>5, <1>6, <1>7 DEF RowOfWindow

(* If no event was beyond MAX_EVENTS, the latencies are all of the window's. *)
LEMMA CompleteWindow ==
  ASSUME WindowInv, row' = Row, Complete'
  PROVE  latencies = seen
<1>1. row'.n = Len(latencies) /\ row'.count = switch_count
  BY DEF Row
<1>2. Len(latencies) = Len(seen)
  BY <1>1 DEF Complete, WindowInv
<1>3. \A i \in 1..Len(seen) : latencies[i] = seen[i]
  BY <1>2 DEF WindowInv
<1>4. latencies \in Seq(Latencies) /\ seen \in Seq(Latencies)
  BY DEF WindowInv
<1> QED
  BY <1>2, <1>3, <1>4

LEMMA OverWillAgree ==
  ASSUME WindowInv, latencies # << >>, row' = Row
  PROVE  OverAgrees'
<1> SUFFICES ASSUME Complete', NEW th \in Thresholds
             PROVE  /\ row'.p95 > th <=> row'.over[th] >= row'.n - Index(row'.n, P95)
                    /\ row'.p99 > th <=> row'.over[th] >= row'.n - Index(row'.n, P99)
  BY DEF OverAgrees
<1> DEFINE s == latencies
           n == Len(s)
<1>1. s \in Seq(Int) /\ s # << >> /\ th \in Int /\ n \in Nat \ {0}
  BY SeqsOfInts DEF WindowInv
<1>2. row'.p95 = Percentile(s, P95) /\ row'.p99 = Percentile(s, P99) /\ row'.n = n /\ row'.over = over
  BY DEF Row
<1>3. over[th] = Cardinality(Above(s, th))
  BY CompleteWindow DEF WindowInv
<1> HIDE DEF s, n
<1>4. ASSUME NEW p \in 0..99
      PROVE  Percentile(s, p) > th <=> Cardinality(Above(s, th)) >= n - Index(n, p)
  <2>1. /\ Index(n, p) + 1 \in 1..n
        /\ Percentile(s, p) = InOrder(s)[Index(n, p) + 1]
    BY <1>1, PercentileIs DEF n
  <2>2. Index(n, p) \in Int
    <3>1. Index(n, p) \in 0..(n - 1)
      BY <1>1, IndexInRange
    <3> QED
      BY <3>1
  <2>3. InOrder(s)[Index(n, p) + 1] > th
          <=> Cardinality(Above(s, th)) >= n - ((Index(n, p) + 1) - 1)
    BY <1>1, <2>1, PlaceAbove DEF n
  <2>4. (Index(n, p) + 1) - 1 = Index(n, p)
    BY <2>2
  <2> QED
    BY <2>1, <2>3, <2>4
<1>5. P95 \in 0..99 /\ P99 \in 0..99
  BY StatsAssumption
<1> QED
  BY <1>2, <1>3, <1>4, <1>5

(* The dashboard interpolates between two places, of which the upper one is *)
(* not above the place of the collector.                                    *)
LEMMA InterpolatedNotAbove ==
  ASSUME NEW s \in Seq(Int), s # << >>, NEW p \in 0..99, 100 % (100 - p) = 0
  PROVE  Hundredfold(s, p) <= 100 * Percentile(s, p)
<1> DEFINE n == Len(s)
           pos == Position(n, p)
           b == pos \div 100
           r == pos % 100
           k == Index(n, p)
           A == InOrder(s)
<1>1. n \in Nat \ {0} /\ pos \in Nat
  BY DEF Position
<1>2. k + 1 \in 1..n /\ Percentile(s, p) = A[k + 1] /\ k \in 0..(n - 1)
  BY <1>1, PercentileIs, IndexInRange
<1>3. (pos + 99) \div 100 <= k
  BY <1>1, SummaryIndexNotAbove
<1>4. Hundredfold(s, p) = 100 * A[b + 1] + (IF r = 0 THEN 0 ELSE r * (A[b + 2] - A[b + 1]))
  BY DEF Hundredfold
<1>5. \A i \in 1..n : A[i] \in Int
  BY Ranked
<1>6. \A i, j \in 1..n : i <= j => A[i] <= A[j]
  BY Ascending
<1> HIDE DEF n, pos, k, A
<1>7. b \in Nat /\ r \in 0..99 /\ b <= k /\ (r # 0 => b + 1 <= k)
  <2>1. b \in Nat /\ r \in 0..99 /\ pos = 100 * b + r
    BY <1>1
  <2>2. b <= (pos + 99) \div 100 /\ (r # 0 => b + 1 <= (pos + 99) \div 100)
    BY <1>1, <2>1
  <2>3. (pos + 99) \div 100 \in Int
    BY <1>1
  <2> QED
    BY <1>2, <1>3, <2>1, <2>2, <2>3
<1> HIDE DEF b, r
<1>8. b + 1 \in 1..n /\ A[b + 1] <= A[k + 1] /\ A[b + 1] \in Int /\ A[k + 1] \in Int
  <2>1. b + 1 \in 1..n /\ b + 1 <= k + 1
    BY <1>1, <1>2, <1>7
  <2> QED
    BY <1>2, <1>5, <1>6, <2>1
<1>9. CASE r = 0
  BY <1>2, <1>4, <1>8, <1>9
<1>10. CASE r # 0
  <2>1. b + 2 \in 1..n /\ b + 2 <= k + 1 /\ b + 1 <= b + 2
    BY <1>1, <1>2, <1>7, <1>10
  <2>2. A[b + 2] \in Int /\ A[b + 2] <= A[k + 1] /\ A[b + 1] <= A[b + 2]
    BY <1>2, <1>5, <1>6, <1>8, <2>1
  <2> DEFINE lo == A[b + 1]
             d == A[b + 2] - A[b + 1]
  <2>3. lo \in Int /\ d \in Nat /\ lo + d <= A[k + 1]
    BY <1>8, <2>2
  <2>4. Hundredfold(s, p) = 100 * lo + r * d
    BY <1>4, <1>10
  <2> HIDE DEF lo, d
  <2>5. r * d \in Int /\ r * d <= 100 * d
    BY <1>7, <2>3
  <2> QED
    BY <1>2, <1>8, <2>3, <2>4, <2>5
<1> QED
  BY <1>9, <1>10

LEMMA SummaryWillNotBeAbove ==
  ASSUME WindowInv, latencies # << >>, row' = Row
  PROVE  SummaryNotAbove'
<1> SUFFICES ASSUME Complete'
             PROVE  /\ Hundredfold(row'.of, P95) <= 100 * row'.p95
                    /\ Hundredfold(row'.of, P99) <= 100 * row'.p99
  BY DEF SummaryNotAbove
<1>1. /\ row'.p95 = Percentile(latencies, P95) /\ row'.p99 = Percentile(latencies, P99)
      /\ row'.of = latencies
  BY CompleteWindow DEF Row
<1>2. latencies \in Seq(Int)
  BY SeqsOfInts DEF WindowInv
<1>3. /\ P95 \in 0..99 /\ 100 % (100 - P95) = 0
      /\ P99 \in 0..99 /\ 100 % (100 - P99) = 0
  BY StatsAssumption
<1> QED
  BY <1>1, <1>2, <1>3, InterpolatedNotAbove

LEMMA EndWindowKeepsWindow ==
  ASSUME WindowInv, EndWindow
  PROVE  WindowInv' /\ RowInv'
<1>1. WindowInv'
  <2>1. \A th \in Thresholds : Cardinality(Above(seen', th)) = 0
    <3>1. \A th \in Thresholds : Above(seen', th) = {}
      BY DEF EndWindow, Above
    <3> QED
      BY <3>1, FS_EmptySet
  <2>2. over' = [th \in Thresholds |-> Cardinality(Above(seen', th))]
    BY <2>1 DEF EndWindow
  <2> QED
    BY <2>2, StatsAssumption DEF EndWindow, Reset, WindowInv
<1>2. RowInv'
  <2>1. CASE latencies = << >>
    <3>1. row' = NoRow
      BY <2>1 DEF EndWindow
    <3> QED
      BY <3>1 DEF RowInv, RowOrdered, RowOfWindow, OverAgrees, SummaryNotAbove, Complete, Written
  <2>2. CASE latencies # << >>
    <3>1. row' = Row
      BY <2>2 DEF EndWindow
    <3> QED
      BY <2>2, <3>1, RowIsOrdered, RowIsOfWindow, OverWillAgree, SummaryWillNotBeAbove DEF RowInv
  <2> QED
    BY <2>1, <2>2
<1> QED
  BY <1>1, <1>2

LEMMA WindowAlways ==
  Spec => [](WindowInv /\ RowInv)
<1>1. WindowInv /\ RowInv /\ [Next]_vars => WindowInv' /\ RowInv'
  <2> SUFFICES ASSUME WindowInv, RowInv, [Next]_vars PROVE WindowInv' /\ RowInv'
    OBVIOUS
  <2>1. ASSUME NEW lat \in Latencies, NEW prio \in Priorities, HandleEvent(lat, prio)
        PROVE  WindowInv' /\ RowInv'
    BY <2>1, HandleEventKeepsWindow
  <2>2. CASE EndWindow
    BY <2>2, EndWindowKeepsWindow
  <2>3. CASE UNCHANGED vars
    BY <2>3 DEF vars, WindowInv, RowInv, RowOrdered, RowOfWindow, OverAgrees, SummaryNotAbove,
                Complete, Written
  <2> QED
    BY <2>1, <2>2, <2>3 DEF Next
<1> QED
  BY InitWindow, <1>1, PTL DEF Spec

(* RowOrdered: in every row of dataset.csv the minimum, p95, p99 and the    *)
(* maximum are in this order, the mean is between the extremes, the         *)
(* variance is not negative and zero only if they are equal, the highest    *)
(* priority is not above the mean one (collector.c:301-322).                *)
THEOREM RowsAreOrdered == Spec => []RowOrdered
<1>1. RowInv => RowOrdered
  BY DEF RowInv
<1> QED
  BY WindowAlways, <1>1, PTL

(* RowOfWindow: a row is about the events since the last one and no older:  *)
(* all are counted, the first MAX_EVENTS of them make up the latencies      *)
(* (collector.c:125-130, 326-332).                                          *)
THEOREM RowsAreOfWindow == Spec => []RowOfWindow
<1>1. RowInv => RowOfWindow
  BY DEF RowInv
<1> QED
  BY WindowAlways, <1>1, PTL

(* OverAgrees: over20, over50 and over100, which handle_event counts, say   *)
(* the same as the percentiles of the array that percentile() sorts         *)
(* (collector.c:132-134, 143-148).                                          *)
THEOREM CountersAgree == Spec => []OverAgrees
<1>1. RowInv => OverAgrees
  BY DEF RowInv
<1> QED
  BY WindowAlways, <1>1, PTL

(* SummaryNotAbove: of the same events the dashboard never shows a higher   *)
(* percentile than dataset.csv has (tui.py:413-418).                        *)
THEOREM SummariesNotAbove == Spec => []SummaryNotAbove
<1>1. RowInv => SummaryNotAbove
  BY DEF RowInv
<1> QED
  BY WindowAlways, <1>1, PTL

(* ChartKeepsSpikes: a chart has no more samples than columns and shows     *)
(* nothing that was not measured, and every latency but the newest is at    *)
(* most a sample, whichever way int(i * step) is rounded (tui.py:428-443).  *)
THEOREM ChartsKeepSpikes == Spec => []ChartKeepsSpikes
<1>1. WindowInv => ChartKeepsSpikes
  <2> SUFFICES ASSUME WindowInv, NEW width \in Widths, NEW cut \in Cuts(Len(seen), width)
               PROVE  LET samples == Reduced(seen, cut, width)
                      IN  /\ Len(samples) <= width
                          /\ Values(samples) \subseteq Values(seen)
                          /\ \A k \in 1..(Len(seen) - 1) : \E i \in DOMAIN samples : samples[i] >= seen[k]
    BY DEF ChartKeepsSpikes
  <2>1. width \in Nat \ {0} /\ seen \in Seq(Int)
    BY StatsAssumption, SeqsOfInts DEF WindowInv
  <2> QED
    BY <2>1, ChartCovers
<1> QED
  BY WindowAlways, <1>1, PTL
=============================================================================
