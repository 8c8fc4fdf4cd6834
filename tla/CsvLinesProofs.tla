---------------------------- MODULE CsvLinesProofs ----------------------------
(***************************************************************************)
(* What writing a buffer out does to the lines of a file, and to how many  *)
(* of them there are of a kind.                                            *)
(***************************************************************************)
EXTENDS CsvLines, FiniteSetTheorems, FunctionTheorems, SequenceTheorems, TLAPS

(* The indices at which a sequence has an element of a set; all the counts  *)
(* of lines are cardinalities of such sets.                                 *)
Where(s, K) == {i \in 1..Len(s) : s[i] \in K}

LEMMA WhereFinite ==
  ASSUME NEW S, NEW s \in Seq(S), NEW K
  PROVE  /\ IsFiniteSet(Where(s, K)) /\ Cardinality(Where(s, K)) \in Nat
         /\ s = << >> => Cardinality(Where(s, K)) = 0
<1>1. Len(s) \in Nat /\ Where(s, K) \subseteq 1..Len(s)
  BY DEF Where
<1>2. IsFiniteSet(Where(s, K))
  <2>1. IsFiniteSet(1..Len(s))
    BY <1>1, FS_Interval
  <2> QED
    BY <1>1, <2>1, FS_Subset
<1>3. s = << >> => Where(s, K) = {}
  BY <1>1
<1>4. Cardinality({}) = 0
  BY FS_EmptySet
<1> QED
  BY <1>2, <1>3, <1>4, FS_CardinalityType

LEMMA WhereAppend ==
  ASSUME NEW S, NEW s \in Seq(S), NEW e \in S, NEW K
  PROVE  Cardinality(Where(Append(s, e), K)) = Cardinality(Where(s, K)) + (IF e \in K THEN 1 ELSE 0)
<1>1. /\ Append(s, e) \in Seq(S) /\ Len(s) \in Nat /\ Len(Append(s, e)) = Len(s) + 1
      /\ \A i \in 1..Len(s) : Append(s, e)[i] = s[i]
      /\ Append(s, e)[Len(s) + 1] = e
  OBVIOUS
<1>2. \A i \in 1..(Len(s) + 1) : i \in 1..Len(s) \/ i = Len(s) + 1
  BY <1>1
<1>3. CASE e \in K
  <2>1. Where(Append(s, e), K) = Where(s, K) \cup {Len(s) + 1}
    BY <1>1, <1>2, <1>3 DEF Where
  <2>2. Len(s) + 1 \notin Where(s, K)
    BY <1>1 DEF Where
  <2> QED
    BY <1>3, <2>1, <2>2, WhereFinite, FS_AddElement
<1>4. CASE e \notin K
  <2>1. Where(Append(s, e), K) = Where(s, K)
    BY <1>1, <1>2, <1>4 DEF Where
  <2> QED
    BY <1>4, <2>1, WhereFinite
<1> QED
  BY <1>3, <1>4

LEMMA CardDisjoint ==
  ASSUME NEW S, IsFiniteSet(S), NEW T, IsFiniteSet(T), S \cap T = {}
  PROVE  /\ IsFiniteSet(S \cup T)
         /\ Cardinality(S) \in Nat /\ Cardinality(T) \in Nat
         /\ Cardinality(S \cup T) = Cardinality(S) + Cardinality(T)
<1>1. /\ IsFiniteSet(S \cup T)
      /\ Cardinality(S \cup T) = Cardinality(S) + Cardinality(T) - Cardinality(S \cap T)
  BY FS_Union
<1>2. Cardinality(S \cap T) = 0
  BY FS_EmptySet
<1>3. Cardinality(S) \in Nat /\ Cardinality(T) \in Nat
  BY FS_CardinalityType
<1> QED
  BY <1>1, <1>2, <1>3

LEMMA WhereConcat ==
  ASSUME NEW S, NEW s \in Seq(S), NEW t \in Seq(S), NEW K
  PROVE  Cardinality(Where(s \o t, K)) = Cardinality(Where(s, K)) + Cardinality(Where(t, K))
<1> DEFINE n == Len(s)
           up == {n + i : i \in Where(t, K)}
           f == [i \in Where(t, K) |-> n + i]
<1>1. /\ s \o t \in Seq(S) /\ n \in Nat /\ Len(t) \in Nat /\ Len(s \o t) = n + Len(t)
      /\ \A i \in 1..n : (s \o t)[i] = s[i]
      /\ \A i \in 1..Len(t) : (s \o t)[n + i] = t[i]
  OBVIOUS
<1>2. Cardinality(up) = Cardinality(Where(t, K)) /\ IsFiniteSet(up)
  <2>1. Where(t, K) \subseteq Int
    BY <1>1 DEF Where
  <2>2. f \in [Where(t, K) -> up] /\ \A a, b \in Where(t, K) : f[a] = f[b] => a = b
    BY <1>1, <2>1
  <2>3. \A u \in up : \E a \in Where(t, K) : f[a] = u
    OBVIOUS
  <2>4. f \in Bijection(Where(t, K), up)
    BY <2>2, <2>3, Fun_IsBij
  <2>5. ExistsBijection(Where(t, K), up)
    BY <2>4, Fun_ExistsBij
  <2> QED
    BY <2>5, WhereFinite, FS_Bijection
<1>3. Where(s \o t, K) = Where(s, K) \cup up
  <2>1. ASSUME NEW i \in Where(s \o t, K) PROVE i \in Where(s, K) \cup up
    <3>1. i \in 1..(n + Len(t)) /\ (s \o t)[i] \in K
      BY <1>1, <2>1 DEF Where
    <3>2. CASE i <= n
      BY <1>1, <3>1, <3>2 DEF Where
    <3>3. CASE ~(i <= n)
      <4>1. i - n \in 1..Len(t) /\ i = n + (i - n)
        BY <1>1, <3>1, <3>3
      <4>2. i - n \in Where(t, K)
        BY <1>1, <3>1, <4>1 DEF Where
      <4> QED
        BY <4>1, <4>2
    <3> QED
      BY <3>2, <3>3
  <2>2. ASSUME NEW i \in Where(s, K) PROVE i \in Where(s \o t, K)
    BY <1>1 DEF Where
  <2>3. ASSUME NEW i \in Where(t, K) PROVE n + i \in Where(s \o t, K)
    BY <1>1 DEF Where
  <2> QED
    BY <2>1, <2>2, <2>3
<1>4. Where(s, K) \cap up = {}
  BY <1>1 DEF Where
<1>5. IsFiniteSet(Where(s, K))
  BY WhereFinite
<1> HIDE DEF up
<1>6. Cardinality(Where(s, K) \cup up) = Cardinality(Where(s, K)) + Cardinality(up)
  BY <1>2, <1>4, <1>5, CardDisjoint
<1> QED
  BY <1>2, <1>3, <1>6, Zenon

LEMMA WhereOne ==
  ASSUME NEW S, NEW e \in S, NEW K
  PROVE  Cardinality(Where(<<e>>, K)) = IF e \in K THEN 1 ELSE 0
<1>1. << >> \in Seq(S) /\ <<e>> = Append(<< >>, e)
  OBVIOUS
<1>2. Cardinality(Where(<< >>, K)) = 0
  BY <1>1, WhereFinite
<1>3. Cardinality(Where(Append(<< >>, e), K))
        = Cardinality(Where(<< >>, K)) + (IF e \in K THEN 1 ELSE 0)
  BY <1>1, WhereAppend
<1> QED
  BY <1>1, <1>2, <1>3

LEMMA FirstAndRest ==
  ASSUME NEW S, NEW s \in Seq(S), s # << >>
  PROVE  /\ Head(s) = s[1] /\ Head(s) \in S /\ Tail(s) \in Seq(S)
         /\ <<Head(s)>> \in Seq(S)
         /\ s = <<Head(s)>> \o Tail(s)
         /\ Len(s) \in Nat \ {0} /\ Len(Tail(s)) = Len(s) - 1
         /\ \A i \in 1..Len(Tail(s)) : i + 1 \in 2..Len(s) /\ Tail(s)[i] = s[i + 1]
  OBVIOUS

LEMMA WhereFirst ==
  ASSUME NEW S, NEW s \in Seq(S), s # << >>, NEW K
  PROVE  Cardinality(Where(s, K)) = (IF s[1] \in K THEN 1 ELSE 0) + Cardinality(Where(Tail(s), K))
<1>1. /\ s[1] \in S /\ Tail(s) \in Seq(S) /\ <<s[1]>> \in Seq(S)
      /\ s = <<s[1]>> \o Tail(s)
  BY FirstAndRest
<1>2. Cardinality(Where(<<s[1]>> \o Tail(s), K))
        = Cardinality(Where(<<s[1]>>, K)) + Cardinality(Where(Tail(s), K))
  BY <1>1, WhereConcat
<1>3. Cardinality(Where(<<s[1]>>, K)) = IF s[1] \in K THEN 1 ELSE 0
  BY <1>1, WhereOne
<1> QED
  BY <1>1, <1>2, <1>3

LEMMA FrontAndLast ==
  ASSUME NEW S, NEW s \in Seq(S), s # << >>
  PROVE  /\ Len(s) \in Nat \ {0}
         /\ s[Len(s)] \in S
         /\ SubSeq(s, 1, Len(s) - 1) \in Seq(S)
         /\ Len(SubSeq(s, 1, Len(s) - 1)) = Len(s) - 1
         /\ \A i \in 1..(Len(s) - 1) : SubSeq(s, 1, Len(s) - 1)[i] = s[i]
         /\ s = Append(SubSeq(s, 1, Len(s) - 1), s[Len(s)])
<1>1. Len(s) \in Nat \ {0} /\ s[Len(s)] \in S
  OBVIOUS
<1>0. PICK f : f = SubSeq(s, 1, Len(s) - 1)
  OBVIOUS
<1>2. /\ f \in Seq(S) /\ Len(f) = Len(s) - 1
      /\ \A i \in 1..(Len(s) - 1) : f[i] = s[i]
  <2>1. \A i \in 1..(Len(s) - 1) : s[i] \in S
    BY <1>1
  <2>2. 1 \in Int /\ Len(s) - 1 \in Int
    BY <1>1
  <2>3. /\ f \in Seq(S)
        /\ Len(f) = (IF 1 <= Len(s) - 1 THEN (Len(s) - 1) - 1 + 1 ELSE 0)
        /\ \A i \in 1..((Len(s) - 1) - 1 + 1) : f[i] = s[1 + i - 1]
    BY <1>0, <2>1, <2>2, SubSeqProperties
  <2>4. \A n \in Nat \ {0} : (IF 1 <= n - 1 THEN (n - 1) - 1 + 1 ELSE 0) = n - 1
    OBVIOUS
  <2>5. Len(f) = Len(s) - 1
    BY <1>1, <2>3, <2>4
  <2>6. \A i \in 1..(Len(s) - 1) : i \in 1..((Len(s) - 1) - 1 + 1) /\ 1 + i - 1 = i
    BY <1>1
  <2> QED
    BY <2>3, <2>5, <2>6
<1>3. /\ Append(f, s[Len(s)]) \in Seq(S) /\ Len(Append(f, s[Len(s)])) = Len(s)
      /\ \A i \in 1..Len(s) : Append(f, s[Len(s)])[i] = s[i]
  BY <1>1, <1>2
<1>4. Append(f, s[Len(s)]) = s
  BY <1>3, SeqEqual
<1> QED
  BY <1>0, <1>1, <1>2, <1>4

LEMMA StaysSeq ==
  ASSUME NEW A, NEW B, NEW s \in Seq(A), \A i \in 1..Len(s) : s[i] \in B
  PROVE  s \in Seq(B)
  OBVIOUS

-----------------------------------------------------------------------------
(* The lines a buffer, and a file, may have. *)
BufferLine == [kind : {"header", "row", "rest"}, tgid : Nat]
CsvLine == [kind : {"header", "row", "part", "bad", "bad part"}, tgid : Nat]

Damaged == {"part", "bad", "bad part"}

HeadIs(lines, kind) == lines # << >> /\ lines[1].kind = kind
LastIn(lines, kinds) == lines # << >> /\ lines[Len(lines)].kind \in kinds

(* What writing lines out to a file makes of it: they are appended, except  *)
(* that the first one joins an open end.                                    *)
AnyLine == [kind : {"header", "row", "rest", "part", "bad", "bad part"}, tgid : Nat]

JoinedTo(f, line) == Line(Joined(f[Len(f)].kind, line.kind), line.tgid)

LEMMA LinesAreLines ==
  /\ BufferLine \subseteq AnyLine /\ CsvLine \subseteq AnyLine
  /\ \A s \in Seq(BufferLine) : s \in Seq(AnyLine)
  /\ \A s \in Seq(CsvLine) : s \in Seq(AnyLine)
  /\ Header \in CsvLine /\ Header \in BufferLine
<1>1. BufferLine \subseteq AnyLine /\ CsvLine \subseteq AnyLine
  BY DEF BufferLine, CsvLine, AnyLine
<1>2. \A A, B : A \subseteq B => \A s \in Seq(A) : s \in Seq(B)
  OBVIOUS
<1>3. Header \in CsvLine /\ Header \in BufferLine
  BY DEF Header, CsvLine, BufferLine
<1> QED
  BY <1>1, <1>2, <1>3

LEMMA JoinedLine ==
  ASSUME NEW left, NEW right
  PROVE  /\ Joined(left, right) \in {"bad part", "row", "bad"}
         /\ right = "part" => Joined(left, right) = "bad part"
         /\ right = "rest" /\ left = "part" => Joined(left, right) = "row"
         /\ right \notin {"part", "rest"} => Joined(left, right) = "bad"
         /\ right = "rest" /\ left # "part" => Joined(left, right) = "bad"
  BY DEF Joined

LEMMA WriteOutEmpty ==
  ASSUME NEW f
  PROVE  WriteOut(f, << >>) = f
  BY DEF WriteOut

LEMMA WriteOutClosed ==
  ASSUME NEW S, NEW f \in Seq(S), NEW b \in Seq(S), b # << >>, ~LastIn(f, Open)
  PROVE  /\ WriteOut(f, b) = f \o b /\ WriteOut(f, b) \in Seq(S)
         /\ Len(WriteOut(f, b)) = Len(f) + Len(b)
         /\ \A i \in 1..Len(f) : WriteOut(f, b)[i] = f[i]
         /\ \A i \in 1..Len(b) : WriteOut(f, b)[Len(f) + i] = b[i]
<1>1. WriteOut(f, b) = Append(f, Head(b)) \o Tail(b)
  BY DEF WriteOut, WriteLine, LastIn, Last
<1>2. Append(f, Head(b)) \o Tail(b) = f \o b
  OBVIOUS
<1>3. /\ f \o b \in Seq(S) /\ Len(f \o b) = Len(f) + Len(b)
      /\ \A i \in 1..Len(f) : (f \o b)[i] = f[i]
      /\ \A i \in 1..Len(b) : (f \o b)[Len(f) + i] = b[i]
  OBVIOUS
<1> QED
  BY <1>1, <1>2, <1>3

LEMMA WriteOutOpen ==
  ASSUME NEW f \in Seq(AnyLine), NEW b \in Seq(AnyLine), b # << >>, LastIn(f, Open)
  PROVE  /\ JoinedTo(f, b[1]) \in AnyLine
         /\ SubSeq(f, 1, Len(f) - 1) \in Seq(AnyLine) /\ Tail(b) \in Seq(AnyLine)
         /\ f = Append(SubSeq(f, 1, Len(f) - 1), f[Len(f)])
         /\ WriteOut(f, b) = Append(SubSeq(f, 1, Len(f) - 1), JoinedTo(f, b[1])) \o Tail(b)
         /\ Append(SubSeq(f, 1, Len(f) - 1), JoinedTo(f, b[1])) \in Seq(AnyLine)
         /\ WriteOut(f, b) \in Seq(AnyLine)
         /\ Len(WriteOut(f, b)) = Len(f) + Len(b) - 1
         /\ \A i \in 1..(Len(f) - 1) : WriteOut(f, b)[i] = f[i]
         /\ WriteOut(f, b)[Len(f)] = JoinedTo(f, b[1])
         /\ \A i \in 1..(Len(b) - 1) : WriteOut(f, b)[Len(f) + i] = b[i + 1]
<1>1. /\ f # << >> /\ Len(f) \in Nat \ {0} /\ f[Len(f)] \in AnyLine
      /\ f[Len(f)].kind \in Open
  BY DEF LastIn
<1>2. PICK front : front = SubSeq(f, 1, Len(f) - 1)
  OBVIOUS
<1>3. /\ front \in Seq(AnyLine) /\ Len(front) = Len(f) - 1
      /\ \A i \in 1..(Len(f) - 1) : front[i] = f[i]
      /\ f = Append(front, f[Len(f)])
  BY <1>1, <1>2, FrontAndLast
<1>4. /\ Head(b) = b[1] /\ b[1] \in AnyLine /\ Tail(b) \in Seq(AnyLine)
      /\ Len(b) \in Nat \ {0} /\ Len(Tail(b)) = Len(b) - 1
      /\ \A i \in 1..(Len(b) - 1) : Tail(b)[i] = b[i + 1]
  BY FirstAndRest
<1>5. PICK j : j = JoinedTo(f, b[1])
  OBVIOUS
<1>6. j \in AnyLine
  <2>1. b[1].tgid \in Nat
    BY <1>4 DEF AnyLine
  <2>2. Joined(f[Len(f)].kind, b[1].kind) \in {"bad part", "row", "bad"}
    BY JoinedLine
  <2> QED
    BY <1>5, <2>1, <2>2 DEF JoinedTo, Line, AnyLine
<1>7. WriteOut(f, b) = Append(front, j) \o Tail(b)
  <2>1. Front(f) = front /\ Last(f) = f[Len(f)]
    BY <1>2 DEF Front, Last
  <2>2. WriteLine(f, b[1]) = Append(front, j)
    BY <1>1, <1>5, <2>1 DEF WriteLine, JoinedTo
  <2> QED
    BY <1>4, <2>2 DEF WriteOut
<1>8. /\ Append(front, j) \in Seq(AnyLine) /\ Len(Append(front, j)) = Len(f)
      /\ \A i \in 1..(Len(f) - 1) : Append(front, j)[i] = f[i]
      /\ Append(front, j)[Len(f)] = j
  BY <1>1, <1>3, <1>6
<1>9. PICK h : h = Append(front, j)
  OBVIOUS
<1>10. /\ h \o Tail(b) \in Seq(AnyLine)
       /\ Len(h \o Tail(b)) = Len(f) + (Len(b) - 1)
       /\ \A i \in 1..Len(f) : (h \o Tail(b))[i] = h[i]
       /\ \A i \in 1..(Len(b) - 1) : (h \o Tail(b))[Len(f) + i] = Tail(b)[i]
  <2>1. h \in Seq(AnyLine) /\ Len(h) = Len(f)
    BY <1>8, <1>9
  <2>2. \A u, v \in Seq(AnyLine) :
          /\ u \o v \in Seq(AnyLine) /\ Len(u \o v) = Len(u) + Len(v)
          /\ \A i \in 1..Len(u) : (u \o v)[i] = u[i]
          /\ \A i \in 1..Len(v) : (u \o v)[Len(u) + i] = v[i]
    OBVIOUS
  <2>3. /\ h \o Tail(b) \in Seq(AnyLine)
        /\ Len(h \o Tail(b)) = Len(h) + Len(Tail(b))
        /\ \A i \in 1..Len(h) : (h \o Tail(b))[i] = h[i]
        /\ \A i \in 1..Len(Tail(b)) : (h \o Tail(b))[Len(h) + i] = Tail(b)[i]
    BY <1>4, <2>1, <2>2
  <2> QED
    BY <1>4, <2>1, <2>3
<1>11. /\ \A i \in 1..(Len(f) - 1) : (h \o Tail(b))[i] = f[i]
       /\ (h \o Tail(b))[Len(f)] = j
       /\ \A i \in 1..(Len(b) - 1) : (h \o Tail(b))[Len(f) + i] = b[i + 1]
  BY <1>1, <1>4, <1>8, <1>9, <1>10
<1> QED
  BY <1>1, <1>2, <1>3, <1>4, <1>5, <1>6, <1>7, <1>8, <1>9, <1>10, <1>11

(* How many lines of some kinds a file or a buffer has. *)
OfKind(kinds) == {l \in AnyLine : l.kind \in kinds}
Bit(holds) == IF holds THEN 1 ELSE 0

LEMMA CountIs ==
  ASSUME NEW s \in Seq(AnyLine), NEW kinds
  PROVE  CountOf(kinds, s) = Cardinality(Where(s, OfKind(kinds))) /\ CountOf(kinds, s) \in Nat
<1>1. {i \in 1..Len(s) : s[i].kind \in kinds} = Where(s, OfKind(kinds))
  BY DEF Where, OfKind
<1>2. CountOf(kinds, s) = Cardinality(Where(s, OfKind(kinds)))
  BY <1>1 DEF CountOf
<1> QED
  BY <1>2, WhereFinite

LEMMA CountEmpty ==
  ASSUME NEW kinds
  PROVE  CountOf(kinds, << >>) = 0
<1>1. << >> \in Seq(AnyLine)
  OBVIOUS
<1> QED
  BY <1>1, CountIs, WhereFinite

LEMMA CountAppend ==
  ASSUME NEW s \in Seq(AnyLine), NEW l \in AnyLine, NEW kinds
  PROVE  /\ Append(s, l) \in Seq(AnyLine)
         /\ CountOf(kinds, Append(s, l)) = CountOf(kinds, s) + Bit(l.kind \in kinds)
<1>1. l \in OfKind(kinds) <=> l.kind \in kinds
  BY DEF OfKind
<1>2. Append(s, l) \in Seq(AnyLine)
  OBVIOUS
<1>3. Cardinality(Where(Append(s, l), OfKind(kinds)))
        = Cardinality(Where(s, OfKind(kinds))) + (IF l \in OfKind(kinds) THEN 1 ELSE 0)
  BY WhereAppend
<1> QED
  BY <1>1, <1>2, <1>3, CountIs DEF Bit

LEMMA CountConcat ==
  ASSUME NEW s \in Seq(AnyLine), NEW t \in Seq(AnyLine), NEW kinds
  PROVE  /\ s \o t \in Seq(AnyLine)
         /\ CountOf(kinds, s \o t) = CountOf(kinds, s) + CountOf(kinds, t)
<1>1. s \o t \in Seq(AnyLine)
  OBVIOUS
<1>2. Cardinality(Where(s \o t, OfKind(kinds)))
        = Cardinality(Where(s, OfKind(kinds))) + Cardinality(Where(t, OfKind(kinds)))
  BY WhereConcat
<1> QED
  BY <1>1, <1>2, CountIs

LEMMA CountOne ==
  ASSUME NEW l \in AnyLine, NEW kinds
  PROVE  <<l>> \in Seq(AnyLine) /\ CountOf(kinds, <<l>>) = Bit(l.kind \in kinds)
<1>1. << >> \in Seq(AnyLine) /\ <<l>> = Append(<< >>, l)
  OBVIOUS
<1>2. CountOf(kinds, Append(<< >>, l)) = CountOf(kinds, << >>) + Bit(l.kind \in kinds)
  BY <1>1, CountAppend
<1>3. Bit(l.kind \in kinds) \in Nat
  BY DEF Bit
<1> QED
  BY <1>1, <1>2, <1>3, CountEmpty

LEMMA CountFirst ==
  ASSUME NEW s \in Seq(AnyLine), s # << >>, NEW kinds
  PROVE  /\ s[1] \in AnyLine /\ Tail(s) \in Seq(AnyLine)
         /\ CountOf(kinds, s) = Bit(s[1].kind \in kinds) + CountOf(kinds, Tail(s))
<1>1. /\ s[1] \in AnyLine /\ Tail(s) \in Seq(AnyLine) /\ <<s[1]>> \in Seq(AnyLine)
      /\ s = <<s[1]>> \o Tail(s)
  BY FirstAndRest
<1>2. CountOf(kinds, <<s[1]>> \o Tail(s)) = CountOf(kinds, <<s[1]>>) + CountOf(kinds, Tail(s))
  BY <1>1, CountConcat
<1>3. CountOf(kinds, <<s[1]>>) = Bit(s[1].kind \in kinds)
  BY <1>1, CountOne
<1> QED
  BY <1>1, <1>2, <1>3

LEMMA CountNone ==
  ASSUME NEW s \in Seq(AnyLine), NEW kinds, \A i \in 1..Len(s) : s[i].kind \notin kinds
  PROVE  CountOf(kinds, s) = 0
<1>1. {i \in 1..Len(s) : s[i].kind \in kinds} = {}
  OBVIOUS
<1> QED
  BY <1>1, FS_EmptySet DEF CountOf

(* Rows alone. *)
LEMMA CountAllRows ==
  ASSUME NEW s \in Seq(AnyLine), \A i \in 1..Len(s) : s[i].kind = "row"
  PROVE  CountOf(Damaged, s) = 0 /\ CountOf({"row"}, s) = CountOf({"row", "rest"}, s)
<1>1. \A i \in 1..Len(s) : s[i].kind \notin Damaged
  BY DEF Damaged
<1>2. {i \in 1..Len(s) : s[i].kind \in {"row"}} = {i \in 1..Len(s) : s[i].kind \in {"row", "rest"}}
  OBVIOUS
<1> QED
  BY <1>1, <1>2, CountNone DEF CountOf

LEMMA CountLast ==
  ASSUME NEW s \in Seq(AnyLine), NEW kinds, LastIn(s, kinds)
  PROVE  CountOf(kinds, s) > 0
<1>1. PICK front : front = SubSeq(s, 1, Len(s) - 1)
  OBVIOUS
<1>2. PICK last : last = s[Len(s)]
  OBVIOUS
<1>3. /\ last \in AnyLine /\ last.kind \in kinds
      /\ front \in Seq(AnyLine) /\ s = Append(front, last)
  BY <1>1, <1>2, FrontAndLast DEF LastIn
<1>4. CountOf(kinds, Append(front, last)) = CountOf(kinds, front) + Bit(last.kind \in kinds)
  BY <1>3, CountAppend
<1>5. CountOf(kinds, front) \in Nat /\ Bit(last.kind \in kinds) = 1
  BY <1>3, CountIs DEF Bit
<1>6. CountOf(kinds, Append(front, last)) > 0
  BY <1>4, <1>5
<1> QED
  BY <1>3, <1>6

LEMMA CountWrittenClosed ==
  ASSUME NEW f \in Seq(AnyLine), NEW b \in Seq(AnyLine), NEW kinds, ~LastIn(f, Open)
  PROVE  CountOf(kinds, WriteOut(f, b)) = CountOf(kinds, f) + CountOf(kinds, b)
<1>1. CASE b = << >>
  BY <1>1, WriteOutEmpty, CountEmpty, CountIs
<1>2. CASE b # << >>
  <2>1. WriteOut(f, b) = f \o b
    BY <1>2, WriteOutClosed
  <2> QED
    BY <2>1, CountConcat
<1> QED
  BY <1>1, <1>2

LEMMA CountWrittenOpen ==
  ASSUME NEW f \in Seq(AnyLine), NEW b \in Seq(AnyLine), NEW kinds, b # << >>, LastIn(f, Open)
  PROVE  CountOf(kinds, WriteOut(f, b)) + Bit(f[Len(f)].kind \in kinds)
           = CountOf(kinds, f) + CountOf(kinds, Tail(b))
             + Bit(Joined(f[Len(f)].kind, b[1].kind) \in kinds)
<1>1. PICK front : front = SubSeq(f, 1, Len(f) - 1)
  OBVIOUS
<1>2. PICK j : j = JoinedTo(f, b[1])
  OBVIOUS
<1>3. /\ front \in Seq(AnyLine) /\ Tail(b) \in Seq(AnyLine) /\ j \in AnyLine
      /\ f = Append(front, f[Len(f)]) /\ WriteOut(f, b) = Append(front, j) \o Tail(b)
  BY <1>1, <1>2, WriteOutOpen
<1>4. f[Len(f)] \in AnyLine
  BY FrontAndLast DEF LastIn
<1>5. j.kind = Joined(f[Len(f)].kind, b[1].kind)
  BY <1>2 DEF JoinedTo, Line
<1>6. CountOf(kinds, Append(front, f[Len(f)])) = CountOf(kinds, front) + Bit(f[Len(f)].kind \in kinds)
  BY <1>3, <1>4, CountAppend
<1>7. /\ Append(front, j) \in Seq(AnyLine)
      /\ CountOf(kinds, Append(front, j)) = CountOf(kinds, front) + Bit(j.kind \in kinds)
  BY <1>3, CountAppend
<1>8. CountOf(kinds, Append(front, j) \o Tail(b))
        = CountOf(kinds, Append(front, j)) + CountOf(kinds, Tail(b))
  BY <1>3, <1>7, CountConcat
<1>9. /\ CountOf(kinds, front) \in Nat /\ CountOf(kinds, Tail(b)) \in Nat
      /\ Bit(f[Len(f)].kind \in kinds) \in Nat /\ Bit(j.kind \in kinds) \in Nat
  BY <1>3, CountIs DEF Bit
<1>10. CountOf(kinds, f) = CountOf(kinds, front) + Bit(f[Len(f)].kind \in kinds)
  BY <1>3, <1>6
<1>11. CountOf(kinds, WriteOut(f, b))
         = CountOf(kinds, front) + Bit(j.kind \in kinds) + CountOf(kinds, Tail(b))
  BY <1>3, <1>7, <1>8
<1>12. Bit(Joined(f[Len(f)].kind, b[1].kind) \in kinds) = Bit(j.kind \in kinds)
  BY <1>5
<1> QED
  BY <1>9, <1>10, <1>11, <1>12

LEMMA AppendedLast ==
  ASSUME NEW f \in Seq(AnyLine), NEW b \in Seq(AnyLine), NEW p \in AnyLine,
         b # << >> \/ ~LastIn(f, Open)
  PROVE  WriteOut(f, Append(b, p)) = Append(WriteOut(f, b), p)
<1>1. CASE b = << >>
  <2>1. /\ Append(b, p) = <<p>> /\ <<p>> \in Seq(AnyLine) /\ <<p>> # << >>
        /\ f \o <<p>> = Append(f, p)
    BY <1>1
  <2>2. WriteOut(f, <<p>>) = f \o <<p>>
    BY <1>1, <2>1, WriteOutClosed
  <2> QED
    BY <1>1, <2>1, <2>2, WriteOutEmpty
<1>2. CASE b # << >>
  <2>1. /\ Append(b, p) # << >> /\ Head(Append(b, p)) = Head(b)
        /\ Tail(Append(b, p)) = Append(Tail(b), p) /\ Tail(b) \in Seq(AnyLine)
        /\ Head(b) = b[1] /\ b[1] \in AnyLine
    BY <1>2
  <2>2. PICK w : w = WriteLine(f, Head(b))
    OBVIOUS
  <2>3. w \in Seq(AnyLine)
    <3>1. CASE LastIn(f, Open)
      <4>1. w = Append(SubSeq(f, 1, Len(f) - 1), JoinedTo(f, b[1]))
        BY <2>1, <2>2, <3>1 DEF WriteLine, LastIn, Front, Last, JoinedTo
      <4> QED
        BY <1>2, <3>1, <4>1, WriteOutOpen
    <3>2. CASE ~LastIn(f, Open)
      <4>1. w = Append(f, b[1])
        BY <2>1, <2>2, <3>2 DEF WriteLine, LastIn, Last
      <4> QED
        BY <2>1, <4>1
    <3> QED
      BY <3>1, <3>2
  <2>4. w \o Append(Tail(b), p) = Append(w \o Tail(b), p)
    BY <2>1, <2>3
  <2>5. WriteOut(f, Append(b, p)) = w \o Append(Tail(b), p) /\ WriteOut(f, b) = w \o Tail(b)
    BY <1>2, <2>1, <2>2 DEF WriteOut
  <2> QED
    BY <2>4, <2>5
<1> QED
  BY <1>1, <1>2
==============================================================================
