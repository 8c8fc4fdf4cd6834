------------------------------ MODULE Statistics ------------------------------
(***************************************************************************)
(* What is computed from the latencies of a window: percentiles by the     *)
(* collector and by the dashboard, and the samples of a chart. A latency   *)
(* is an integer; a percentile is given in percent.                        *)
(***************************************************************************)
EXTENDS Integers, Sequences, FiniteSets

Values(s) == {s[i] : i \in DOMAIN s}
Smallest(S) == CHOOSE m \in S : \A x \in S : m <= x
Largest(S)  == CHOOSE m \in S : \A x \in S : m >= x

Total(s) ==
  LET sum[i \in 0..Len(s)] == IF i = 0 THEN 0 ELSE sum[i - 1] + s[i] IN sum[Len(s)]

(* cmp, as qsort uses it. *)
Descending(a, b) == a > b   \* mutant: the operands swapped
Before(a, b) == a < b

(* The sorted array: its k-th value has fewer than k values of s before it, *)
(* and k of them are not after it.                                          *)
InOrder(s) ==
  [k \in DOMAIN s |-> CHOOSE v \in Values(s) :
     /\ Cardinality({i \in DOMAIN s : Before(s[i], v)}) < k
     /\ Cardinality({i \in DOMAIN s : ~Before(v, s[i])}) >= k]

(* percentile: the index int(p * n), from 0, that is kept below n. *)
IndexOfLast(n, percent) == (percent * (n - 1)) \div 100   \* mutant: p * (n - 1)
Index(n, percent) ==
  LET i == (percent * n) \div 100 IN IF i >= n THEN n - 1 ELSE i
Percentile(s, percent) == IF s = << >> THEN 0 ELSE InOrder(s)[Index(Len(s), percent) + 1]

(* numpy's percentile, times 100: between the two values around p * (n - 1). *)
Position(n, percent) == percent * (n - 1)
Hundredfold(s, percent) ==
  LET below == Position(Len(s), percent) \div 100
      part  == Position(Len(s), percent) % 100
      low   == InOrder(s)[below + 1]
  IN 100 * low + (IF part = 0 THEN 0 ELSE part * (InOrder(s)[below + 2] - low))

-----------------------------------------------------------------------------
(* _bucket_reduce: bucket i of width holds the values from int(i * step) to *)
(* int((i + 1) * step), where step = n / width is a floating-point number.  *)
(* An i * step that should be an integer may come out a little smaller,     *)
(* unless step is an integer itself.                                        *)
Exact(i, n, width) == (i * n) \div width
Cuts(n, width) ==
  {cut \in [0..width -> -1..n] :
     \A i \in 0..width :
       \/ cut[i] = Exact(i, n, width)
       \/ /\ i > 0 /\ n % width # 0 /\ (i * n) % width = 0
          /\ cut[i] = Exact(i, n, width) - 1}

(* The places, from 1, of the values in bucket i. *)
Bucket(cut, n, i) ==
  LET end == IF cut[i + 1] <= cut[i] THEN cut[i] + 1 ELSE cut[i + 1]
  IN {k \in (cut[i] + 1)..end : k <= n}

(* The samples that the charts draw, oldest first. *)
ReducedByStride(s, cut, width) ==   \* mutant: the first value of each bucket
  IF Len(s) <= width THEN s ELSE [i \in 1..width |-> s[cut[i - 1] + 1]]
Reduced(s, cut, width) ==
  IF Len(s) <= width THEN s
  ELSE [i \in 1..width |-> Largest({s[k] : k \in Bucket(cut, Len(s), i - 1)})]
=============================================================================
