---------------------------- MODULE CsvFilesProofs ----------------------------
(***************************************************************************)
(* Proofs about dataset.csv in CsvFiles, for any set of collectors and any *)
(* number of starts, windows and kills.                                    *)
(*                                                                         *)
(* The argument: a collector without a header in its buffer was started    *)
(* when dataset.csv had one, or has written its own; and what it appends,  *)
(* its header and the row of a new window, is not in the file yet.  The    *)
(* invariant is a predicate of the values, so that a step that writes two  *)
(* lines is proved as one that writes the header and one that writes a row.*)
(***************************************************************************)
EXTENDS CsvFiles, FiniteSetTheorems, SequenceTheorems, TLAPS

LineType == [from : Collectors, window : Nat]

(* R: those that run; E: early; d: the file; u: the buffers; w: windows. *)
Types(R, E, d, u, w) ==
  /\ R \subseteq Collectors /\ E \subseteq Collectors
  /\ d \in Seq(LineType) /\ w \in [Collectors -> Nat]
  /\ u \in [Collectors -> Seq(LineType)]

(* In the buffer there is a header or nothing. *)
HeaderInBuffer(E, u) ==
  \A c \in Collectors : \/ u[c] = << >>
                        \/ u[c] = <<Line(c, Header)>> /\ c \in E

HeaderSomewhere(R, d, u) == \A c \in R : u[c] = << >> => d # << >>

(* Nothing in the file is still to be written. *)
LinesAreOld(E, d, u, w) ==
  \A i \in DOMAIN d :
    /\ d[i].window <= w[d[i].from]
    /\ d[i].window = Header => d[i].from \in E /\ u[d[i].from] = << >>

LinesDiffer(d) == \A i, j \in DOMAIN d : i # j => d[i] # d[j]

HeaderAtHead(d) == d # << >> => Head(d).window = Header

Good(R, E, d, u, w) ==
  /\ Types(R, E, d, u, w) /\ HeaderInBuffer(E, u) /\ HeaderSomewhere(R, d, u)
  /\ LinesAreOld(E, d, u, w) /\ LinesDiffer(d) /\ HeaderAtHead(d)

DatasetInv == Good(running, early, dataset, unsaved, windows)

-----------------------------------------------------------------------------
LEMMA AppendFacts ==
  ASSUME NEW S, NEW s \in Seq(S), NEW e \in S
  PROVE  /\ Append(s, e) \in Seq(S) /\ Append(s, e) # << >>
         /\ DOMAIN Append(s, e) = DOMAIN s \cup {Len(s) + 1}
         /\ Len(s) + 1 \notin DOMAIN s
         /\ Append(s, e)[Len(s) + 1] = e
         /\ \A i \in DOMAIN s : Append(s, e)[i] = s[i]
         /\ Head(Append(s, e)) = IF s = << >> THEN e ELSE Head(s)
  OBVIOUS

LEMMA ConcatFacts ==
  ASSUME NEW S, NEW s \in Seq(S), NEW e \in S, NEW f \in S
  PROVE  /\ s \o << >> = s
         /\ s \o <<e>> = Append(s, e)
         /\ Append(<< >>, e) = <<e>>
         /\ s \o Append(<<e>>, f) = Append(Append(s, e), f)
  OBVIOUS

LEMMA LineFacts ==
  ASSUME NEW c \in Collectors, NEW n \in Nat
  PROVE  Line(c, n) \in LineType /\ Line(c, n).from = c /\ Line(c, n).window = n
  BY DEF Line, LineType

LEMMA FileLines ==
  ASSUME NEW d \in Seq(LineType), NEW i \in DOMAIN d
  PROVE  d[i].from \in Collectors /\ d[i].window \in Nat
<1>1. d[i] \in LineType
  OBVIOUS
<1> QED
  BY <1>1 DEF LineType

(* A line that is not in the file leaves its lines different. *)
LEMMA NewLineDiffers ==
  ASSUME NEW d \in Seq(LineType), NEW l \in LineType, LinesDiffer(d),
         \A i \in DOMAIN d : d[i] # l
  PROVE  LinesDiffer(Append(d, l))
  BY AppendFacts DEF LinesDiffer

(* The header goes from the buffer of c to the file. *)
LEMMA WriteHeader ==
  ASSUME NEW R, NEW E, NEW d, NEW u, NEW w, Good(R, E, d, u, w),
         NEW c \in Collectors, u[c] # << >>
  PROVE  Good(R, E, Append(d, Line(c, Header)), [u EXCEPT ![c] = << >>], w)
<1> DEFINE l == Line(c, Header)
           d1 == Append(d, l)
           u1 == [u EXCEPT ![c] = << >>]
<1> USE DEF Good
<1>1. l \in LineType /\ l.from = c /\ l.window = Header /\ d \in Seq(LineType)
  BY LineFacts DEF Types, Header
<1>2. c \in E /\ u[c] = <<l>>
  BY DEF HeaderInBuffer
<1>3. u1 \in [Collectors -> Seq(LineType)] /\ u1[c] = << >>
      /\ \A b \in Collectors : b # c => u1[b] = u[b]
  BY DEF Types
<1> HIDE DEF l, u1
<1>4. Types(R, E, d1, u1, w)
  BY <1>1, <1>3, AppendFacts DEF Types
<1>5. HeaderInBuffer(E, u1) /\ HeaderSomewhere(R, d1, u1)
  <2>1. HeaderInBuffer(E, u1)
    BY <1>3 DEF HeaderInBuffer
  <2>2. d1 # << >>
    BY <1>1, AppendFacts
  <2> QED
    BY <2>1, <2>2 DEF HeaderSomewhere
<1>6. LinesAreOld(E, d1, u1, w)
  <2> SUFFICES ASSUME NEW i \in DOMAIN d1
               PROVE  /\ d1[i].window <= w[d1[i].from]
                      /\ d1[i].window = Header => d1[i].from \in E /\ u1[d1[i].from] = << >>
    BY DEF LinesAreOld
  <2>1. CASE i \in DOMAIN d
    <3>1. d1[i] = d[i] /\ d[i].from \in Collectors
      BY <2>1, <1>1, AppendFacts, FileLines
    <3> QED
      BY <2>1, <3>1, <1>3 DEF LinesAreOld
  <2>2. CASE i = Len(d) + 1
    <3>1. d1[i] = l
      BY <2>2, <1>1, AppendFacts
    <3>2. Header <= w[c]
      BY DEF Types, Header
    <3> QED
      BY <3>1, <3>2, <1>1, <1>2, <1>3
  <2> QED
    BY <2>1, <2>2, <1>1, AppendFacts
<1>7. LinesDiffer(d1)
  <2>1. \A i \in DOMAIN d : d[i] # l
    BY <1>1, <1>2 DEF LinesAreOld
  <2> QED
    BY <2>1, <1>1, NewLineDiffers
<1>8. HeaderAtHead(d1)
  BY <1>1, AppendFacts DEF HeaderAtHead
<1> QED
  BY <1>4, <1>5, <1>6, <1>7, <1>8 DEF l, u1

(* The row of a new window is added to a file that is not empty. *)
LEMMA WriteRow ==
  ASSUME NEW R, NEW E, NEW d, NEW u, NEW w, Good(R, E, d, u, w),
         NEW c \in Collectors, d # << >>
  PROVE  Good(R, E, Append(d, Line(c, w[c] + 1)), u, [w EXCEPT ![c] = @ + 1])
<1> DEFINE l == Line(c, w[c] + 1)
           d1 == Append(d, l)
           w1 == [w EXCEPT ![c] = @ + 1]
<1> USE DEF Good
<1>1. w \in [Collectors -> Nat] /\ w[c] \in Nat /\ d \in Seq(LineType)
  BY DEF Types
<1>2. l \in LineType /\ l.from = c /\ l.window = w[c] + 1
  BY <1>1, LineFacts, w[c] + 1 \in Nat
<1>3. w1 \in [Collectors -> Nat] /\ w1[c] = w[c] + 1
      /\ \A b \in Collectors : b # c => w1[b] = w[b]
  BY <1>1
<1> HIDE DEF l, w1
<1>4. Types(R, E, d1, u, w1)
  BY <1>1, <1>2, <1>3, AppendFacts DEF Types
<1>5. HeaderInBuffer(E, u) /\ HeaderSomewhere(R, d1, u)
  BY <1>1, <1>2, AppendFacts DEF HeaderSomewhere
<1>6. LinesAreOld(E, d1, u, w1)
  <2> SUFFICES ASSUME NEW i \in DOMAIN d1
               PROVE  /\ d1[i].window <= w1[d1[i].from]
                      /\ d1[i].window = Header => d1[i].from \in E /\ u[d1[i].from] = << >>
    BY DEF LinesAreOld
  <2>1. CASE i \in DOMAIN d
    <3>1. d1[i] = d[i] /\ d[i].from \in Collectors /\ d[i].window \in Nat
      BY <2>1, <1>1, <1>2, AppendFacts, FileLines
    <3>2. w[d[i].from] \in Nat /\ w[d[i].from] <= w1[d[i].from]
      <4>1. CASE d[i].from = c
        BY <4>1, <1>1, <1>3
      <4>2. CASE d[i].from # c
        BY <4>2, <3>1, <1>1, <1>3
      <4> QED
        BY <4>1, <4>2
    <3>3. d[i].window <= w1[d[i].from]
      BY <2>1, <3>1, <3>2, <1>3 DEF LinesAreOld
    <3> QED
      BY <2>1, <3>1, <3>3 DEF LinesAreOld
  <2>2. CASE i = Len(d) + 1
    <3>1. d1[i] = l
      BY <2>2, <1>1, <1>2, AppendFacts
    <3> QED
      BY <3>1, <1>1, <1>2, <1>3 DEF Header
  <2> QED
    BY <2>1, <2>2, <1>1, <1>2, AppendFacts
<1>7. LinesDiffer(d1)
  <2>1. \A i \in DOMAIN d : d[i] # l
    BY <1>1, <1>2 DEF LinesAreOld
  <2> QED
    BY <2>1, <1>1, <1>2, NewLineDiffers
<1>8. HeaderAtHead(d1)
  BY <1>1, <1>2, AppendFacts DEF HeaderAtHead
<1> QED
  BY <1>4, <1>5, <1>6, <1>7, <1>8 DEF l, w1

(* A collector that runs no more needs no header in its buffer. *)
LEMMA Leave ==
  ASSUME NEW R, NEW E, NEW d, NEW u, NEW w, Good(R, E, d, u, w), NEW c \in Collectors
  PROVE  Good(R \ {c}, E, d, [u EXCEPT ![c] = << >>], w)
<1> DEFINE u1 == [u EXCEPT ![c] = << >>]
<1> USE DEF Good
<1>1. u1 \in [Collectors -> Seq(LineType)] /\ u1[c] = << >>
      /\ \A b \in Collectors : b # c => u1[b] = u[b]
  BY DEF Types
<1>2. \A i \in DOMAIN d : d[i].from \in Collectors
  BY FileLines DEF Types
<1> HIDE DEF u1
<1>3. Types(R \ {c}, E, d, u1, w) /\ HeaderInBuffer(E, u1)
  BY <1>1 DEF Types, HeaderInBuffer
<1>4. HeaderSomewhere(R \ {c}, d, u1)
  BY <1>1 DEF Types, HeaderSomewhere
<1>5. LinesAreOld(E, d, u1, w)
  BY <1>1, <1>2 DEF LinesAreOld
<1> QED
  BY <1>3, <1>4, <1>5 DEF u1

(* A new collector has a header in its buffer if it finds the file empty. *)
LEMMA Join ==
  ASSUME NEW R, NEW E, NEW d, NEW u, NEW w, Good(R, E, d, u, w), NEW c \in Collectors,
         c \notin R
  PROVE  Good(R \cup {c}, IF d = << >> THEN E \cup {c} ELSE E, d,
              [u EXCEPT ![c] = IF d = << >> THEN <<Line(c, Header)>> ELSE << >>], w)
<1> USE DEF Good
<1>1. u \in [Collectors -> Seq(LineType)]
  BY DEF Types
<1>2. CASE d = << >>
  <2> DEFINE u1 == [u EXCEPT ![c] = <<Line(c, Header)>>]
  <2>1. /\ u1 \in [Collectors -> Seq(LineType)]
        /\ u1[c] = <<Line(c, Header)>> /\ <<Line(c, Header)>> # << >>
        /\ \A b \in Collectors : b # c => u1[b] = u[b]
    BY <1>1, LineFacts, Header \in Nat DEF Header
  <2> HIDE DEF u1
  <2>2. Types(R \cup {c}, E \cup {c}, d, u1, w)
    BY <2>1 DEF Types
  <2>3. HeaderInBuffer(E \cup {c}, u1)
    BY <2>1 DEF HeaderInBuffer
  <2>4. HeaderSomewhere(R \cup {c}, d, u1)
    BY <2>1 DEF Types, HeaderSomewhere
  <2>5. LinesAreOld(E \cup {c}, d, u1, w)
    BY <1>2 DEF LinesAreOld
  <2> QED
    BY <1>2, <2>2, <2>3, <2>4, <2>5 DEF u1
<1>3. CASE d # << >>
  <2> DEFINE u1 == [u EXCEPT ![c] = << >>]
  <2>1. /\ u1 \in [Collectors -> Seq(LineType)] /\ u1[c] = << >>
        /\ \A b \in Collectors : b # c => u1[b] = u[b]
    BY <1>1
  <2> HIDE DEF u1
  <2>2. Types(R \cup {c}, E, d, u1, w) /\ HeaderInBuffer(E, u1)
    BY <2>1 DEF Types, HeaderInBuffer
  <2>3. HeaderSomewhere(R \cup {c}, d, u1)
    BY <1>3 DEF HeaderSomewhere
  <2>4. \A i \in DOMAIN d : d[i].from \in Collectors
    BY FileLines DEF Types
  <2>5. LinesAreOld(E, d, u1, w)
    BY <2>1, <2>4 DEF LinesAreOld
  <2> QED
    BY <1>3, <2>2, <2>3, <2>5 DEF u1
<1> QED
  BY <1>2, <1>3

-----------------------------------------------------------------------------
LEMMA GoodInit == Init => DatasetInv
<1> SUFFICES ASSUME Init PROVE DatasetInv
  OBVIOUS
<1>1. Types(running, early, dataset, unsaved, windows)
  BY DEF Init, Types
<1> QED
  BY <1>1 DEF Init, DatasetInv, Good, HeaderInBuffer, HeaderSomewhere, LinesAreOld,
              LinesDiffer, HeaderAtHead

(* The file and the buffers after the header of c, if any, was written. *)
LEMMA HeaderWritten ==
  ASSUME DatasetInv, NEW c \in running
  PROVE  LET d == dataset \o unsaved[c]
             u == [unsaved EXCEPT ![c] = << >>]
         IN /\ d # << >> /\ d \in Seq(LineType) /\ Good(running, early, d, u, windows)
            /\ dataset \o Append(unsaved[c], Line(c, windows[c] + 1)) =
                 Append(d, Line(c, windows[c] + 1))
<1> DEFINE h == Line(c, Header)
           r == Line(c, windows[c] + 1)
<1>1. c \in Collectors /\ dataset \in Seq(LineType) /\ windows[c] + 1 \in Nat
  BY DEF DatasetInv, Good, Types
<1>2. h \in LineType /\ r \in LineType
  BY <1>1, LineFacts, Header \in Nat DEF Header
<1>3. unsaved \in [Collectors -> Seq(LineType)]
  BY DEF DatasetInv, Good, Types
<1>4. CASE unsaved[c] = << >>
  <2>1. dataset \o unsaved[c] = dataset
    BY <1>1, <1>2, <1>4, ConcatFacts
  <2>2. [unsaved EXCEPT ![c] = << >>] = unsaved
    BY <1>3, <1>4
  <2>3. dataset # << >>
    BY <1>4 DEF DatasetInv, Good, HeaderSomewhere
  <2>4. dataset \o Append(unsaved[c], r) = Append(dataset, r)
    BY <1>1, <1>2, <1>4, ConcatFacts
  <2> QED
    BY <2>1, <2>2, <2>3, <2>4, <1>1 DEF DatasetInv
<1>5. CASE unsaved[c] # << >>
  <2>1. unsaved[c] = <<h>>
    BY <1>1, <1>5 DEF DatasetInv, Good, HeaderInBuffer
  <2> HIDE DEF h, r
  <2>2. dataset \o unsaved[c] = Append(dataset, h)
    BY <1>1, <1>2, <2>1, ConcatFacts
  <2>3. dataset \o Append(unsaved[c], r) = Append(Append(dataset, h), r)
    BY <1>1, <1>2, <2>1, ConcatFacts
  <2>4. Append(dataset, h) # << >> /\ Append(dataset, h) \in Seq(LineType)
    BY <1>1, <1>2, AppendFacts
  <2>5. Good(running, early, Append(dataset, h), [unsaved EXCEPT ![c] = << >>], windows)
    BY <1>1, <1>5, WriteHeader DEF DatasetInv, h
  <2> QED
    BY <2>2, <2>3, <2>4, <2>5 DEF r
<1> QED
  BY <1>4, <1>5

LEMMA RowWritten ==
  ASSUME DatasetInv, NEW c \in running, SaveRow(c)
  PROVE  Good(running, early, dataset', unsaved', windows')
<1> DEFINE d == dataset \o unsaved[c]
           u == [unsaved EXCEPT ![c] = << >>]
<1>1. c \in Collectors
  BY DEF DatasetInv, Good, Types
<1>2. Good(running, early, d, u, windows) /\ d # << >>
  BY HeaderWritten
<1>3. dataset' = Append(d, Line(c, windows[c] + 1))
  BY HeaderWritten DEF SaveRow
<1>4. unsaved' = u /\ windows' = [windows EXCEPT ![c] = @ + 1]
  BY DEF SaveRow
<1> HIDE DEF d, u
<1>5. Good(running, early, Append(d, Line(c, windows[c] + 1)), u,
           [windows EXCEPT ![c] = @ + 1])
  BY <1>1, <1>2, WriteRow
<1> QED
  BY <1>3, <1>4, <1>5

LEMMA GoodStep == DatasetInv /\ [Next]_vars => DatasetInv'
<1> SUFFICES ASSUME DatasetInv, [Next]_vars
             PROVE  Good(running', early', dataset', unsaved', windows')
  BY DEF DatasetInv
<1>1. CASE HandleEvent
  BY <1>1 DEF HandleEvent, datasetVars, DatasetInv
<1>2. ASSUME NEW c \in Collectors, Open(c)
      PROVE  Good(running', early', dataset', unsaved', windows')
  BY <1>2, Join DEF Open, HeaderOf, DatasetInv
<1>3. ASSUME NEW c \in Collectors, EndWindow(c)
      PROVE  Good(running', early', dataset', unsaved', windows')
  <2>1. c \in running /\ running' = running /\ early' = early
    BY <1>3 DEF EndWindow
  <2>2. CASE SaveRow(c)
    BY <2>1, <2>2, RowWritten
  <2>3. CASE UNCHANGED <<dataset, unsaved, windows>>
    BY <2>1, <2>3 DEF DatasetInv
  <2> QED
    BY <1>3, <2>2, <2>3 DEF EndWindow
<1>4. ASSUME NEW c \in Collectors, Exit(c)
      PROVE  Good(running', early', dataset', unsaved', windows')
  <2>1. c \in running /\ running' = running \ {c} /\ early' = early
    BY <1>4 DEF Exit
  <2>2. Good(running, early, dataset', unsaved', windows') /\ unsaved'[c] = << >>
        /\ unsaved' = [unsaved EXCEPT ![c] = << >>]
    <3>1. unsaved' = [unsaved EXCEPT ![c] = << >>]
      BY <1>4 DEF Exit, SaveRow
    <3>2. unsaved'[c] = << >>
      BY <3>1 DEF DatasetInv, Good, Types
    <3>3. CASE SaveRow(c)
      BY <2>1, <3>1, <3>2, <3>3, RowWritten
    <3>4. CASE dataset' = dataset \o unsaved[c] /\ UNCHANGED windows
      BY <2>1, <3>1, <3>2, <3>4, HeaderWritten
    <3> QED
      BY <1>4, <3>3, <3>4 DEF Exit
  <2>3. [unsaved' EXCEPT ![c] = << >>] = unsaved'
    BY <2>2 DEF DatasetInv, Good, Types
  <2>4. Good(running \ {c}, early, dataset', [unsaved' EXCEPT ![c] = << >>], windows')
    BY <2>2, Leave
  <2> QED
    BY <2>1, <2>3, <2>4
<1>5. ASSUME NEW c \in Collectors, Kill(c)
      PROVE  Good(running', early', dataset', unsaved', windows')
  <2>1. /\ running' = running \ {c} /\ unsaved' = [unsaved EXCEPT ![c] = << >>]
        /\ early' = early /\ dataset' = dataset /\ windows' = windows
    BY <1>5 DEF Kill, Abandon
  <2> QED
    BY <2>1, Leave DEF DatasetInv
<1>6. CASE UNCHANGED vars
  BY <1>6 DEF vars, datasetVars, DatasetInv
<1> QED
  BY <1>1, <1>2, <1>3, <1>4, <1>5, <1>6 DEF Next

LEMMA GoodAlways == Spec => []DatasetInv
  BY GoodInit, GoodStep, PTL DEF Spec

(* However many collectors find dataset.csv empty, in whatever order they   *)
(* write to it and however they are killed, it begins with a header, no     *)
(* line is written twice, and collectors that found rows have added no      *)
(* header (collector.c:256-280, 323).                                       *)
THEOREM HeadersFitTheFile == Spec => []DatasetHeaders
<1>1. DatasetInv => DatasetHeaders
  BY DEF DatasetInv, Good, LinesAreOld, LinesDiffer, HeaderAtHead, DatasetHeaders
<1> QED
  BY <1>1, GoodAlways, PTL

-----------------------------------------------------------------------------
(* The rows of the file: those of each collector in order, and all of them. *)
RowsInOrder(d) ==
  \A i, j \in DOMAIN d :
    i < j /\ d[i].from = d[j].from /\ Header \notin {d[i].window, d[j].window}
      => d[i].window < d[j].window
AllRows(d, w) ==
  \A c \in Collectors : \A n \in 1..w[c] : \E i \in DOMAIN d : d[i] = Line(c, n)
Kept(d, w) == RowsInOrder(d) /\ AllRows(d, w)

KeptInv == DatasetInv /\ Kept(dataset, windows)

LEMMA KeepHeader ==
  ASSUME NEW d \in Seq(LineType), NEW w, Kept(d, w), NEW c \in Collectors
  PROVE  Kept(Append(d, Line(c, Header)), w)
<1>1. PICK l : l = Line(c, Header)
  OBVIOUS
<1>2. l \in LineType /\ l.window = Header
  BY <1>1, LineFacts, Header \in Nat DEF Header
<1>3. PICK e : e = Append(d, l)
  OBVIOUS
<1>4. /\ DOMAIN e = DOMAIN d \cup {Len(d) + 1} /\ e[Len(d) + 1] = l
      /\ \A i \in DOMAIN d : e[i] = d[i]
  BY <1>2, <1>3, AppendFacts
<1>5. RowsInOrder(e)
  BY <1>2, <1>4 DEF RowsInOrder, Kept
<1>6. AllRows(e, w)
  BY <1>4 DEF AllRows, Kept
<1> QED
  BY <1>1, <1>3, <1>5, <1>6 DEF Kept

LEMMA KeepRow ==
  ASSUME NEW R, NEW E, NEW d, NEW u, NEW w, Good(R, E, d, u, w), Kept(d, w), NEW c \in Collectors
  PROVE  Kept(Append(d, Line(c, w[c] + 1)), [w EXCEPT ![c] = @ + 1])
<1>1. w \in [Collectors -> Nat] /\ w[c] \in Nat /\ d \in Seq(LineType)
  BY DEF Good, Types
<1>2. PICK l : l = Line(c, w[c] + 1)
  OBVIOUS
<1>3. l \in LineType /\ l.from = c /\ l.window = w[c] + 1
  BY <1>1, <1>2, LineFacts, w[c] + 1 \in Nat
<1>4. PICK e : e = Append(d, l)
  OBVIOUS
<1>5. PICK x : x = [w EXCEPT ![c] = @ + 1]
  OBVIOUS
<1>6. /\ x \in [Collectors -> Nat] /\ x[c] = w[c] + 1
      /\ \A b \in Collectors : b # c => x[b] = w[b]
  BY <1>1, <1>5
<1>7. /\ DOMAIN e = DOMAIN d \cup {Len(d) + 1} /\ e[Len(d) + 1] = l
      /\ \A i \in DOMAIN d : e[i] = d[i] /\ i < Len(d) + 1
      /\ DOMAIN d = 1..Len(d) /\ Len(d) \in Nat
  <2>1. DOMAIN d = 1..Len(d) /\ Len(d) \in Nat
    BY <1>1
  <2>2. \A i \in DOMAIN d : i < Len(d) + 1
    BY <2>1
  <2> QED
    BY <1>1, <1>3, <1>4, <2>1, <2>2, AppendFacts
<1>8. RowsInOrder(e)
  <2> SUFFICES ASSUME NEW i \in DOMAIN e, NEW j \in DOMAIN e,
                      i < j, e[i].from = e[j].from, Header \notin {e[i].window, e[j].window}
               PROVE  e[i].window < e[j].window
    BY DEF RowsInOrder
  <2>1. i \in DOMAIN d
    BY <1>7
  <2>2. CASE j \in DOMAIN d
    BY <1>7, <2>1, <2>2 DEF Kept, RowsInOrder
  <2>3. CASE j = Len(d) + 1
    <3>1. d[i].window <= w[d[i].from] /\ d[i].window \in Nat
      BY <1>1, <2>1, FileLines DEF Good, LinesAreOld
    <3> QED
      BY <1>1, <1>3, <1>7, <2>1, <2>3, <3>1
  <2> QED
    BY <1>7, <2>2, <2>3
<1>9. AllRows(e, x)
  <2> SUFFICES ASSUME NEW b \in Collectors, NEW n \in 1..x[b]
               PROVE  \E i \in DOMAIN e : e[i] = Line(b, n)
    BY DEF AllRows
  <2>1. CASE b = c /\ n = w[c] + 1
    BY <1>2, <1>7, <2>1
  <2>2. CASE ~(b = c /\ n = w[c] + 1)
    <3>1. n \in 1..w[b]
      BY <1>1, <1>6, <2>2
    <3> QED
      BY <1>7, <3>1 DEF Kept, AllRows
  <2> QED
    BY <2>1, <2>2
<1> QED
  BY <1>2, <1>4, <1>5, <1>8, <1>9 DEF Kept

(* What the header of c, if it was still in the buffer, leaves.             *)
LEMMA KeepBuffered ==
  ASSUME KeptInv, NEW c \in running
  PROVE  Kept(dataset \o unsaved[c], windows)
<1>1. c \in Collectors /\ dataset \in Seq(LineType) /\ Kept(dataset, windows)
  BY DEF KeptInv, DatasetInv, Good, Types
<1>2. CASE unsaved[c] = << >>
  <2>1. dataset \o << >> = dataset
    BY <1>1
  <2> QED
    BY <1>1, <1>2, <2>1
<1>3. CASE unsaved[c] # << >>
  <2>1. PICK h : h = Line(c, Header)
    OBVIOUS
  <2>2. unsaved[c] = <<h>> /\ h \in LineType
    BY <1>1, <1>3, <2>1, LineFacts, Header \in Nat DEF KeptInv, DatasetInv, Good, HeaderInBuffer, Header
  <2>3. dataset \o <<h>> = Append(dataset, h)
    BY <1>1, <2>2, ConcatFacts
  <2>4. Kept(Append(dataset, h), windows)
    BY <1>1, <2>1, KeepHeader
  <2> QED
    BY <2>2, <2>3, <2>4
<1> QED
  BY <1>2, <1>3

LEMMA KeepSaved ==
  ASSUME KeptInv, NEW c \in running, SaveRow(c)
  PROVE  Kept(dataset', windows')
<1> DEFINE d == dataset \o unsaved[c]
           u == [unsaved EXCEPT ![c] = << >>]
<1>1. c \in Collectors
  BY DEF KeptInv, DatasetInv, Good, Types
<1>2. /\ Good(running, early, d, u, windows)
      /\ dataset' = Append(d, Line(c, windows[c] + 1))
  BY HeaderWritten DEF SaveRow, KeptInv
<1>3. Kept(d, windows)
  BY KeepBuffered
<1>4. windows' = [windows EXCEPT ![c] = @ + 1]
  BY DEF SaveRow
<1> HIDE DEF d, u
<1>5. Kept(Append(d, Line(c, windows[c] + 1)), [windows EXCEPT ![c] = @ + 1])
  BY <1>1, <1>2, <1>3, KeepRow
<1> QED
  BY <1>2, <1>4, <1>5

LEMMA KeptInit == Init => KeptInv
<1> SUFFICES ASSUME Init PROVE Kept(dataset, windows)
  BY GoodInit DEF KeptInv
<1>1. DOMAIN dataset = {} /\ \A c \in Collectors : windows[c] = 0
  BY DEF Init
<1> QED
  BY <1>1 DEF Kept, RowsInOrder, AllRows

LEMMA KeptStep == KeptInv /\ [Next]_vars => KeptInv'
<1> SUFFICES ASSUME KeptInv, [Next]_vars PROVE Kept(dataset', windows')
  BY GoodStep DEF KeptInv
<1>1. CASE UNCHANGED <<dataset, windows>>
  BY <1>1 DEF KeptInv
<1>2. ASSUME NEW c \in Collectors, c \in running, SaveRow(c) PROVE Kept(dataset', windows')
  BY <1>2, KeepSaved
<1>3. ASSUME NEW c \in Collectors, Exit(c) PROVE Kept(dataset', windows')
  BY <1>2, <1>3, KeepBuffered DEF Exit
<1>4. ASSUME NEW c \in Collectors, EndWindow(c) PROVE Kept(dataset', windows')
  BY <1>1, <1>2, <1>4 DEF EndWindow
<1>5. ASSUME NEW c \in Collectors, Open(c) \/ Kill(c) PROVE Kept(dataset', windows')
  BY <1>1, <1>5 DEF Open, Kill, Abandon
<1>6. CASE HandleEvent \/ UNCHANGED vars
  BY <1>1, <1>6 DEF HandleEvent, vars, datasetVars
<1> QED
  BY <1>3, <1>4, <1>5, <1>6 DEF Next

(* A row that was written to dataset.csv is there once, and the rows of one *)
(* collector are in the order of its windows, whoever else appends to the   *)
(* file and whoever is killed (collector.c:323-339, 346-362).               *)
THEOREM RowsStay == Spec => []RowsKept
<1>1. KeptInv => RowsKept
  <2> SUFFICES ASSUME KeptInv, NEW c \in Collectors, NEW rows,
                      rows = {i \in DOMAIN dataset : dataset[i].from = c /\ dataset[i].window # Header}
               PROVE  /\ {dataset[i].window : i \in rows} = 1..windows[c]
                      /\ \A i, j \in rows : i < j => dataset[i].window < dataset[j].window
    BY DEF RowsKept
  <2>1. \A i, j \in rows : i < j => dataset[i].window < dataset[j].window
    BY DEF KeptInv, Kept, RowsInOrder
  <2>2. windows[c] \in Nat /\ dataset \in Seq(LineType)
    BY DEF KeptInv, DatasetInv, Good, Types
  <2>3. ASSUME NEW i \in rows PROVE dataset[i].window \in 1..windows[c]
    <3>1. dataset[i].window <= windows[c] /\ dataset[i].window \in Nat
      BY <2>2, FileLines DEF KeptInv, DatasetInv, Good, LinesAreOld
    <3> QED
      BY <2>2, <3>1 DEF Header
  <2>4. ASSUME NEW n \in 1..windows[c] PROVE \E i \in rows : dataset[i].window = n
    <3>1. PICK i \in DOMAIN dataset : dataset[i] = Line(c, n)
      BY DEF KeptInv, Kept, AllRows
    <3>2. n \in Nat /\ n # Header
      BY <2>2 DEF Header
    <3>3. dataset[i].from = c /\ dataset[i].window = n
      BY <3>1, <3>2, LineFacts
    <3> QED
      BY <3>2, <3>3
  <2> QED
    BY <2>1, <2>3, <2>4
<1> QED
  BY <1>1, KeptInit, KeptStep, PTL DEF Spec

-----------------------------------------------------------------------------
(* The events file.  A line that does not have its fields is one that was   *)
(* continued after a kill; where a stub waits to be continued, one kill has *)
(* not had its line yet.                                                    *)
LineOf(B) == [event : B, fields : Nat]
DamagedIn(l) == {i \in DOMAIN l : l[i].fields # Fields}
OneIf(holds) == IF holds THEN 1 ELSE 0

FileInv ==
  /\ \E B : lines \in Seq(LineOf(B)) /\ buffer \in Seq(B)
  /\ stub \in Nat /\ cut \in 0..Fields /\ killed \in Nat
  /\ \A i \in DOMAIN lines : lines[i].fields >= Fields
  /\ cut > 0 => buffer # << >>
  /\ Shown \notin running => buffer = << >> /\ cut = 0
  /\ IsFiniteSet(DamagedIn(lines))
  /\ Cardinality(DamagedIn(lines)) + OneIf(stub > 0) <= killed

LEMMA MoreEvents ==
  ASSUME NEW A, NEW B, A \subseteq B
  PROVE  /\ \A s \in Seq(A) : s \in Seq(B)
         /\ \A s \in Seq(LineOf(A)) : s \in Seq(LineOf(B))
<1>1. LineOf(A) \subseteq LineOf(B)
  BY DEF LineOf
<1>2. \A S, T : S \subseteq T => \A s \in Seq(S) : s \in Seq(T)
  OBVIOUS
<1> QED
  BY <1>1, <1>2

LEMMA JoinedFields ==
  ASSUME stub \in Nat, NEW n \in 1..Fields
  PROVE  /\ Joined(n) \in Nat \ {0} /\ Joined(n) >= n
         /\ stub = 0 => Joined(n) = n
  BY DEF Joined, Fields

(* Writing the buffer out adds lines of all their fields, but for the one   *)
(* that continues a stub.                                                   *)
LEMMA BufferWritten ==
  ASSUME FileInv, NEW B, lines \in Seq(LineOf(B)), buffer \in Seq(B),
         NEW l, l = LinesWith(Len(buffer)), NEW s, s = IF buffer = << >> THEN stub ELSE 0
  PROVE  /\ l \in Seq(LineOf(B)) /\ s \in Nat
         /\ \A i \in DOMAIN l : l[i].fields >= Fields
         /\ IsFiniteSet(DamagedIn(l))
         /\ Cardinality(DamagedIn(l)) + OneIf(s > 0) <= killed
<1>0. /\ stub \in Nat /\ killed \in Nat /\ Fields \in 1..Fields /\ Fields \in Nat /\ s \in Nat
      /\ \A i \in DOMAIN lines : lines[i].fields >= Fields
      /\ IsFiniteSet(DamagedIn(lines)) /\ Cardinality(DamagedIn(lines)) \in Nat
      /\ Cardinality(DamagedIn(lines)) + OneIf(stub > 0) <= killed
  BY FS_CardinalityType DEF FileInv, Fields
<1>1. PICK new : new = [i \in 1..Len(buffer) |->
                          EventLine(buffer[i], IF i = 1 THEN Joined(Fields) ELSE Fields)]
  OBVIOUS
<1>2. l = lines \o new
  BY <1>1 DEF LinesWith
<1>3. /\ new \in Seq(LineOf(B)) /\ Len(new) = Len(buffer) /\ Len(buffer) \in Nat
      /\ \A i \in 1..Len(buffer) :
           /\ new[i].fields >= Fields
           /\ i # 1 \/ stub = 0 => new[i].fields = Fields
  <2>1. Joined(Fields) \in Nat /\ Joined(Fields) >= Fields /\ (stub = 0 => Joined(Fields) = Fields)
    BY <1>0, JoinedFields
  <2>2. Len(buffer) \in Nat /\ \A i \in 1..Len(buffer) : buffer[i] \in B
    OBVIOUS
  <2>3. ASSUME NEW i \in 1..Len(buffer)
        PROVE  /\ new[i] \in LineOf(B) /\ new[i].fields >= Fields
               /\ i # 1 \/ stub = 0 => new[i].fields = Fields
    <3>1. PICK f \in Nat : f = IF i = 1 THEN Joined(Fields) ELSE Fields
      BY <1>0, <2>1
    <3>2. f >= Fields /\ (i # 1 \/ stub = 0 => f = Fields)
      BY <1>0, <2>1, <3>1
    <3>3. new[i] = EventLine(buffer[i], f)
      BY <1>1, <3>1
    <3> QED
      BY <2>2, <3>2, <3>3 DEF EventLine, LineOf
  <2> QED
    BY <1>1, <2>2, <2>3
<1>4. /\ l \in Seq(LineOf(B)) /\ Len(l) = Len(lines) + Len(buffer) /\ Len(lines) \in Nat
      /\ DOMAIN lines = 1..Len(lines) /\ DOMAIN l = 1..(Len(lines) + Len(buffer))
      /\ \A i \in 1..Len(lines) : l[i] = lines[i]
      /\ \A i \in 1..Len(buffer) : l[Len(lines) + i] = new[i]
  BY <1>2, <1>3
<1>5. ASSUME NEW i \in DOMAIN l
      PROVE  \/ i \in DOMAIN lines /\ l[i] = lines[i]
             \/ \E j \in 1..Len(buffer) : i = Len(lines) + j /\ l[i] = new[j]
  <2>1. i \in 1..Len(lines) \/ i - Len(lines) \in 1..Len(buffer)
    BY <1>3, <1>4
  <2>2. i = Len(lines) + (i - Len(lines))
    BY <1>4
  <2> QED
    BY <1>4, <2>1, <2>2
<1>6. \A i \in DOMAIN l : l[i].fields >= Fields
  BY <1>0, <1>3, <1>5
<1>7. CASE stub = 0 \/ buffer = << >>
  <2>1. \A i \in 1..Len(buffer) : new[i].fields = Fields
    <3>1. buffer = << >> => Len(buffer) = 0
      OBVIOUS
    <3> QED
      BY <1>3, <1>7, <3>1
  <2>2. DamagedIn(l) = DamagedIn(lines)
    <3>1. ASSUME NEW i \in DamagedIn(l) PROVE i \in DamagedIn(lines)
      BY <1>5, <2>1 DEF DamagedIn
    <3>2. ASSUME NEW i \in DamagedIn(lines) PROVE i \in DamagedIn(l)
      <4>1. i \in 1..Len(lines) /\ i \in 1..(Len(lines) + Len(buffer))
        BY <1>3, <1>4 DEF DamagedIn
      <4> QED
        BY <1>4, <4>1 DEF DamagedIn
    <3> QED
      BY <3>1, <3>2
  <2>3. s = stub
    BY <1>7
  <2> QED
    BY <1>0, <1>4, <1>6, <2>2, <2>3
<1>8. CASE stub # 0 /\ buffer # << >>
  <2>1. PICK X : X = DamagedIn(lines) \cup {Len(lines) + 1}
    OBVIOUS
  <2>2. DamagedIn(l) \subseteq X
    BY <1>3, <1>5, <2>1 DEF DamagedIn
  <2>3. IsFiniteSet(X) /\ Cardinality(X) <= Cardinality(DamagedIn(lines)) + 1 /\ Cardinality(X) \in Nat
    <3>1. PICK D : D = DamagedIn(lines)
      OBVIOUS
    <3>2. IsFiniteSet(D) /\ Cardinality(D) \in Nat
      BY <1>0, <3>1
    <3>3. /\ IsFiniteSet(X)
          /\ Cardinality(X) = IF Len(lines) + 1 \in D THEN Cardinality(D) ELSE Cardinality(D) + 1
      BY <2>1, <3>1, <3>2, FS_AddElement
    <3> QED
      BY <3>1, <3>2, <3>3
  <2>4. IsFiniteSet(DamagedIn(l)) /\ Cardinality(DamagedIn(l)) <= Cardinality(X)
        /\ Cardinality(DamagedIn(l)) \in Nat
    BY <2>2, <2>3, FS_Subset, FS_CardinalityType
  <2>5. OneIf(stub > 0) = 1 /\ OneIf(s > 0) = 0
    BY <1>0, <1>8 DEF OneIf
  <2>6. Cardinality(DamagedIn(l)) + OneIf(s > 0) <= killed
    BY <1>0, <2>3, <2>4, <2>5
  <2> QED
    BY <1>0, <1>4, <1>6, <2>4, <2>6
<1> QED
  BY <1>7, <1>8

LEMMA FileInit == Init => FileInv
<1> SUFFICES ASSUME Init PROVE FileInv
  OBVIOUS
<1>1. /\ lines = << >> /\ buffer = << >> /\ stub = 0 /\ cut = 0 /\ killed = 0
      /\ running = {}
  BY DEF Init
<1>2. << >> \in Seq(LineOf({})) /\ << >> \in Seq({}) /\ DOMAIN << >> = {}
  OBVIOUS
<1>3. DamagedIn(<< >>) = {}
  BY <1>2 DEF DamagedIn
<1>4. IsFiniteSet({}) /\ Cardinality({}) = 0
  BY FS_EmptySet
<1>5. \E B : lines \in Seq(LineOf(B)) /\ buffer \in Seq(B)
  BY <1>1, <1>2
<1>6. IsFiniteSet(DamagedIn(lines)) /\ Cardinality(DamagedIn(lines)) = 0 /\ OneIf(stub > 0) = 0
  <2>1. DamagedIn(lines) = {}
    BY <1>1, <1>3
  <2>2. OneIf(stub > 0) = 0
    BY <1>1 DEF OneIf
  <2> QED
    BY <1>4, <2>1, <2>2
<1>7. \A i \in DOMAIN lines : lines[i].fields >= Fields
  BY <1>1, <1>2
<1> QED
  BY <1>1, <1>5, <1>6, <1>7 DEF FileInv, Fields

LEMMA HandleKeepsFile ==
  ASSUME FileInv, HandleEvent
  PROVE  FileInv'
<1>1. PICK A : lines \in Seq(LineOf(A)) /\ buffer \in Seq(A)
  BY DEF FileInv
<1>2. PICK e : e = Max(Events) + 1
  OBVIOUS
<1>3. PICK B : B = A \cup {e}
  OBVIOUS
<1>4. lines \in Seq(LineOf(B)) /\ buffer \in Seq(B) /\ e \in B
  <2>1. A \subseteq B
    BY <1>3
  <2> QED
    BY <1>1, <1>3, <2>1, MoreEvents
<1>5. Shown \in running /\ running' = running /\ killed' = killed
  BY DEF HandleEvent
<1>6. CASE buffer' = Append(buffer, e) /\ UNCHANGED <<lines, stub, cut>>
  <2>1. buffer' \in Seq(B) /\ buffer' # << >>
    BY <1>4, <1>6
  <2> QED
    BY <1>4, <1>5, <1>6, <2>1 DEF FileInv
<1>7. CASE /\ lines' = LinesWith(Len(buffer)) /\ buffer' = <<e>>
           /\ stub' = (IF buffer = << >> THEN stub ELSE 0) /\ cut' \in 1..Fields
  <2>1. /\ lines' \in Seq(LineOf(B)) /\ stub' \in Nat
        /\ \A i \in DOMAIN lines' : lines'[i].fields >= Fields
        /\ IsFiniteSet(DamagedIn(lines'))
        /\ Cardinality(DamagedIn(lines')) + OneIf(stub' > 0) <= killed
    BY <1>4, <1>7, BufferWritten
  <2>2. buffer' \in Seq(B) /\ buffer' # << >>
    BY <1>4, <1>7
  <2>3. cut' \in 0..Fields
    BY <1>7 DEF Fields
  <2>4. killed' \in Nat
    BY <1>5 DEF FileInv
  <2>5. DamagedIn(lines)' = DamagedIn(lines') /\ OneIf(stub > 0)' = OneIf(stub' > 0)
    BY DEF DamagedIn, OneIf
  <2> QED
    BY <1>5, <2>1, <2>2, <2>3, <2>4, <2>5 DEF FileInv
<1> QED
  BY <1>2, <1>6, <1>7 DEF HandleEvent

(* The end of a window, or of the collector, leaves nothing in the buffer. *)
LEMMA FlushKeepsFile ==
  ASSUME FileInv, NEW c \in running, Flush(c), killed' = killed,
         running' \in {running, running \ {c}}
  PROVE  FileInv'
<1>1. CASE c = Shown
  <2>1. PICK B : lines \in Seq(LineOf(B)) /\ buffer \in Seq(B)
    BY DEF FileInv
  <2>2. /\ lines' = LinesWith(Len(buffer)) /\ stub' = (IF buffer = << >> THEN stub ELSE 0)
        /\ buffer' = << >> /\ cut' = 0
    BY <1>1 DEF Flush, WriteAll
  <2>3. /\ lines' \in Seq(LineOf(B)) /\ stub' \in Nat
        /\ \A i \in DOMAIN lines' : lines'[i].fields >= Fields
        /\ IsFiniteSet(DamagedIn(lines'))
        /\ Cardinality(DamagedIn(lines')) + OneIf(stub' > 0) <= killed
    BY <2>1, <2>2, BufferWritten
  <2>4. buffer' \in Seq(B) /\ cut' \in 0..Fields /\ ~(cut' > 0)
    BY <2>2 DEF Fields
  <2>5. killed' \in Nat
    BY DEF FileInv
  <2>6. DamagedIn(lines)' = DamagedIn(lines') /\ OneIf(stub > 0)' = OneIf(stub' > 0)
    BY DEF DamagedIn, OneIf
  <2> QED
    BY <2>2, <2>3, <2>4, <2>5, <2>6 DEF FileInv
<1>2. CASE c # Shown
  <2>1. UNCHANGED <<lines, stub, buffer, cut>> /\ (Shown \in running' <=> Shown \in running)
    BY <1>2 DEF Flush
  <2> QED
    BY <2>1 DEF FileInv, DamagedIn, OneIf
<1> QED
  BY <1>1, <1>2

LEMMA OpenKeepsFile ==
  ASSUME FileInv, NEW c \in Collectors, Open(c)
  PROVE  FileInv'
<1>1. c \notin running /\ running' = running \cup {c} /\ UNCHANGED <<lines, stub, cut, killed>>
  BY DEF Open
<1>2. CASE c = Shown /\ lines = << >> /\ stub = 0
  <2>1. buffer' = <<Header>> /\ cut = 0
    BY <1>1, <1>2 DEF Open, FileInv
  <2>2. lines' \in Seq(LineOf({Header})) /\ buffer' \in Seq({Header})
    BY <1>1, <1>2, <2>1
  <2>3. Shown \in running'
    BY <1>1, <1>2
  <2> QED
    BY <1>1, <2>1, <2>2, <2>3 DEF FileInv, DamagedIn, OneIf
<1>3. CASE ~(c = Shown /\ lines = << >> /\ stub = 0)
  <2>1. buffer' = buffer /\ (Shown \notin running' => Shown \notin running)
    BY <1>1, <1>3 DEF Open
  <2> QED
    BY <1>1, <2>1 DEF FileInv, DamagedIn, OneIf
<1> QED
  BY <1>2, <1>3

(* A kill in the middle of a row leaves a stub, and is counted.             *)
LEMMA KillKeepsFile ==
  ASSUME FileInv, NEW c \in Collectors, Kill(c)
  PROVE  FileInv'
<1>1. /\ lines' = lines /\ running' = running \ {c}
      /\ killed' = IF c = Shown /\ cut > 0 THEN killed + 1 ELSE killed
  BY DEF Kill, Abandon
<1>2. CASE c # Shown
  <2>1. UNCHANGED <<buffer, cut, stub, killed>> /\ (Shown \in running' <=> Shown \in running)
    BY <1>1, <1>2 DEF Kill, Abandon
  <2> QED
    BY <1>1, <2>1 DEF FileInv, DamagedIn, OneIf
<1>3. CASE c = Shown
  <2>1. buffer' = << >> /\ cut' = 0 /\ stub' = IF cut = 0 THEN stub ELSE Joined(cut)
    BY <1>3 DEF Kill, Abandon
  <2>2. PICK B : lines \in Seq(LineOf(B))
    BY DEF FileInv
  <2>3. lines' \in Seq(LineOf(B)) /\ buffer' \in Seq(B) /\ cut' \in 0..Fields /\ ~(cut' > 0)
    BY <1>1, <2>1, <2>2 DEF Fields
  <2>4. stub' \in Nat /\ killed' \in Nat
    BY <1>1, <2>1, JoinedFields DEF FileInv
  <2>5. Cardinality(DamagedIn(lines)) + OneIf(stub' > 0) <= killed'
    <3>1. /\ Cardinality(DamagedIn(lines)) \in Nat /\ killed \in Nat /\ cut \in Nat
          /\ Cardinality(DamagedIn(lines)) + OneIf(stub > 0) <= killed
          /\ OneIf(stub > 0) \in {0, 1} /\ OneIf(stub' > 0) \in {0, 1}
      BY FS_CardinalityType DEF FileInv, OneIf, Fields
    <3>2. CASE cut = 0
      <4>1. stub' = stub /\ killed' = killed
        BY <1>1, <2>1, <3>2
      <4> QED
        BY <3>1, <4>1
    <3>3. CASE cut # 0
      <4>1. killed' = killed + 1
        BY <1>1, <1>3, <3>1, <3>3
      <4> QED
        BY <3>1, <4>1
    <3> QED
      BY <3>2, <3>3
  <2>6. /\ DamagedIn(lines)' = DamagedIn(lines) /\ OneIf(stub > 0)' = OneIf(stub' > 0)
        /\ IsFiniteSet(DamagedIn(lines)) /\ \A i \in DOMAIN lines : lines[i].fields >= Fields
    BY <1>1 DEF DamagedIn, OneIf, FileInv
  <2> QED
    BY <1>1, <2>1, <2>3, <2>4, <2>5, <2>6 DEF FileInv
<1> QED
  BY <1>2, <1>3

LEMMA FileStep == FileInv /\ [Next]_vars => FileInv'
<1> SUFFICES ASSUME FileInv, [Next]_vars PROVE FileInv'
  OBVIOUS
<1>1. ASSUME NEW c \in Collectors, EndWindow(c) \/ Exit(c) PROVE FileInv'
  <2>1. c \in running /\ Flush(c) /\ killed' = killed /\ running' \in {running, running \ {c}}
    BY <1>1 DEF EndWindow, Exit
  <2> QED
    BY <2>1, FlushKeepsFile
<1>2. CASE UNCHANGED vars
  BY <1>2 DEF vars, eventVars, FileInv, DamagedIn, OneIf
<1> QED
  BY <1>1, <1>2, HandleKeepsFile, OpenKeepsFile, KillKeepsFile DEF Next

-----------------------------------------------------------------------------
(* Which lines load_ebpf_events looks at.                                   *)
LEMMA MaxOfTwo ==
  ASSUME NEW a \in Int, NEW b \in Int
  PROVE  Max({a, b}) = IF a >= b THEN a ELSE b
<1>1. PICK m : m = IF a >= b THEN a ELSE b
  OBVIOUS
<1>2. m \in {a, b} /\ \A y \in {a, b} : m >= y
  BY <1>1
<1>3. \A x \in {a, b} : (\A y \in {a, b} : x >= y) => x = m
  BY <1>1
<1> QED
  BY <1>1, <1>2, <1>3 DEF Max

(* The last MaxRows of some rows: every row from that place on.             *)
LEMMA LastRowsAre ==
  ASSUME NEW S, NEW rows \in Seq(S)
  PROVE  /\ LastRows(rows) \in Seq(S)
         /\ \A k \in DOMAIN LastRows(rows) : \E j \in DOMAIN rows : LastRows(rows)[k] = rows[j]
         /\ \A j \in DOMAIN rows : j >= Len(rows) - MaxRows + 1 =>
              \E k \in DOMAIN LastRows(rows) : LastRows(rows)[k] = rows[j]
<1>1. Len(rows) \in Nat /\ MaxRows \in Nat \ {0} /\ DOMAIN rows = 1..Len(rows)
  BY CsvAssumption
<1>2. PICK n \in Nat : n = Len(rows)
  BY <1>1
<1>3. PICK s : s = Max({1, n - MaxRows + 1})
  OBVIOUS
<1>4. /\ s = IF 1 >= n - MaxRows + 1 THEN 1 ELSE n - MaxRows + 1
      /\ s \in Nat \ {0} /\ (s = 1 \/ s <= n)
  <2>1. 1 \in Int /\ n - MaxRows + 1 \in Int
    BY <1>1, <1>2
  <2>2. s = IF 1 >= n - MaxRows + 1 THEN 1 ELSE n - MaxRows + 1
    BY <1>3, <2>1, MaxOfTwo
  <2> QED
    BY <1>1, <1>2, <2>2
<1>5. PICK last : last = SubSeq(rows, s, n)
  OBVIOUS
<1>6. last = LastRows(rows)
  BY <1>2, <1>3, <1>5 DEF LastRows
<1>7. /\ last \in Seq(S) /\ Len(last) = (IF s <= n THEN n - s + 1 ELSE 0)
      /\ \A k \in 1..(n - s + 1) : last[k] = rows[s + k - 1]
  <2>1. \A i \in s..n : rows[i] \in S
    BY <1>1, <1>2, <1>4
  <2>2. s \in Int /\ n \in Int
    BY <1>4
  <2> QED
    BY <1>5, <2>1, <2>2, SubSeqProperties
<1>8. ASSUME NEW k \in DOMAIN last PROVE \E j \in DOMAIN rows : last[k] = rows[j]
  <2>1. k \in 1..Len(last)
    BY <1>7
  <2>2. k \in 1..(n - s + 1) /\ s + k - 1 \in 1..n
    BY <1>4, <1>7, <2>1
  <2> QED
    BY <1>1, <1>2, <1>7, <2>2
<1>9. ASSUME NEW j \in DOMAIN rows, j >= n - MaxRows + 1
      PROVE  \E k \in DOMAIN last : last[k] = rows[j]
  <2>1. j \in 1..n /\ j >= s
    BY <1>1, <1>2, <1>4, <1>9
  <2>2. PICK k \in Int : k = j - s + 1
    BY <1>4, <2>1
  <2>3. k \in 1..(n - s + 1) /\ s + k - 1 = j /\ s <= n
    BY <1>4, <2>1, <2>2
  <2>4. k \in DOMAIN last
    BY <1>7, <2>3
  <2> QED
    BY <1>7, <2>3, <2>4
<1> QED
  BY <1>2, <1>6, <1>7, <1>8, <1>9

(* The row at the end that is not complete has at most its fields, unless   *)
(* it continues a stub.                                                     *)
LEMMA UnfinishedIs ==
  ASSUME FileInv
  PROVE  /\ Unfinished = << >> \/ \E l : Unfinished = <<l>>
         /\ stub = 0 => \A k \in DOMAIN Unfinished : Unfinished[k].fields \in 0..Fields
<1>1. Unfinished = << >> \/ \E l : Unfinished = <<l>>
  BY DEF Unfinished
<1>2. ASSUME stub = 0, NEW k \in DOMAIN Unfinished PROVE Unfinished[k].fields \in 0..Fields
  <2>1. cut # 0
    <3>1. DOMAIN << >> = {}
      OBVIOUS
    <3> QED
      BY <1>2, <3>1 DEF Unfinished
  <2>2. Unfinished = <<EventLine(buffer[1], cut)>>
    BY <1>2, <2>1 DEF Unfinished, Joined
  <2>3. Unfinished[k] = EventLine(buffer[1], cut)
    BY <2>2
  <2>4. cut \in 0..Fields
    BY DEF FileInv
  <2> QED
    BY <2>3, <2>4 DEF EventLine
<1> QED
  BY <1>1, <1>2

(* Where each row of the table comes from, and that none of the newest      *)
(* lines is left out.                                                       *)
LEMMA RowsAre ==
  ASSUME FileInv
  PROVE  /\ \A k \in DOMAIN Rows : \/ \E i \in DOMAIN lines : Rows[k] = lines[i]
                                   \/ \E j \in DOMAIN Unfinished : Rows[k] = Unfinished[j]
         /\ \A i \in Max({2, Len(lines) - MaxRows + 2})..Len(lines) :
              i \in DOMAIN lines /\ \E k \in DOMAIN Rows : Rows[k] = lines[i]
         /\ Rows # << >> => 1 \in DOMAIN Rows
<1>1. PICK L : lines \in Seq(L)
  BY DEF FileInv
<1>2. PICK n \in Nat : n = Len(lines) /\ DOMAIN lines = 1..n
  BY <1>1
<1>3. PICK unf : unf = Unfinished
  OBVIOUS
<1>4. PICK S : /\ L \subseteq S /\ unf \in Seq(S) /\ Len(unf) \in {0, 1}
  <2>1. CASE unf = << >>
    <3>1. unf \in Seq(L) /\ Len(unf) = 0
      BY <2>1
    <3> QED
      BY <3>1
  <2>2. CASE \E l : unf = <<l>>
    <3>1. PICK l : unf = <<l>>
      BY <2>2
    <3>2. PICK T : T = L \cup {l}
      OBVIOUS
    <3>3. unf \in Seq(T) /\ Len(unf) = 1 /\ L \subseteq T
      BY <3>1, <3>2
    <3> QED
      BY <3>3
  <2> QED
    BY <1>3, <2>1, <2>2, UnfinishedIs
<1>5. PICK rest : rest = SubSeq(lines, 2, n)
  OBVIOUS
<1>6. /\ rest \in Seq(S) /\ Len(rest) = (IF 2 <= n THEN n - 1 ELSE 0)
      /\ \A j \in 1..(n - 1) : rest[j] = lines[j + 1]
  <2>1. \A i \in 2..n : lines[i] \in S
    BY <1>1, <1>2, <1>4
  <2>2. /\ rest \in Seq(S) /\ Len(rest) = (IF 2 <= n THEN n - 2 + 1 ELSE 0)
        /\ \A j \in 1..(n - 2 + 1) : rest[j] = lines[2 + j - 1]
    BY <1>5, <2>1, SubSeqProperties
  <2>3. n - 2 + 1 = n - 1 /\ \A j \in 1..(n - 1) : j \in 1..(n - 2 + 1) /\ 2 + j - 1 = j + 1
    OBVIOUS
  <2> QED
    BY <2>2, <2>3
<1>7. PICK all : all = rest \o unf
  OBVIOUS
<1>8. /\ all \in Seq(S) /\ Len(all) = Len(rest) + Len(unf) /\ Len(rest) \in Nat /\ Len(unf) \in Nat
      /\ DOMAIN all = 1..(Len(rest) + Len(unf))
      /\ \A j \in 1..Len(rest) : all[j] = rest[j]
      /\ \A j \in 1..Len(unf) : all[Len(rest) + j] = unf[j]
  BY <1>4, <1>6, <1>7
<1>9. Rows = LastRows(all)
  BY <1>2, <1>3, <1>5, <1>7 DEF Rows
<1>10. /\ Rows \in Seq(S)
       /\ \A k \in DOMAIN Rows : \E j \in DOMAIN all : Rows[k] = all[j]
       /\ \A j \in DOMAIN all : j >= Len(all) - MaxRows + 1 =>
            \E k \in DOMAIN Rows : Rows[k] = all[j]
  BY <1>8, <1>9, LastRowsAre
<1>11. ASSUME NEW k \in DOMAIN Rows
       PROVE  \/ \E i \in DOMAIN lines : Rows[k] = lines[i]
              \/ \E j \in DOMAIN unf : Rows[k] = unf[j]
  <2>1. PICK j \in DOMAIN all : Rows[k] = all[j]
    BY <1>10
  <2>2. CASE j \in 1..Len(rest)
    <3>1. j \in 1..(n - 1) /\ j + 1 \in 1..n
      BY <1>6, <2>2
    <3> QED
      BY <1>2, <1>6, <1>8, <2>1, <2>2, <3>1
  <2>3. CASE j \notin 1..Len(rest)
    <3>1. j - Len(rest) \in 1..Len(unf) /\ j = Len(rest) + (j - Len(rest))
      BY <1>8, <2>3
    <3>2. DOMAIN unf = 1..Len(unf)
      BY <1>4
    <3> QED
      BY <1>8, <2>1, <3>1, <3>2
  <2> QED
    BY <2>2, <2>3
<1>12. ASSUME NEW i \in Max({2, n - MaxRows + 2})..n
       PROVE  i \in DOMAIN lines /\ \E k \in DOMAIN Rows : Rows[k] = lines[i]
  <2>1. MaxRows \in Nat \ {0}
    BY CsvAssumption
  <2>2. i \in Int /\ i >= 2 /\ i >= n - MaxRows + 2 /\ i <= n
    <3>1. Max({2, n - MaxRows + 2}) = IF 2 >= n - MaxRows + 2 THEN 2 ELSE n - MaxRows + 2
      BY <2>1, MaxOfTwo
    <3>2. PICK m : m = Max({2, n - MaxRows + 2})
      OBVIOUS
    <3>3. i \in m..n /\ m \in Int /\ m >= 2 /\ m >= n - MaxRows + 2
      BY <2>1, <3>1, <3>2
    <3>4. i \in Int /\ i >= m /\ i <= n
      BY <3>3
    <3> QED
      BY <2>1, <3>3, <3>4
  <2>3. PICK j \in Nat : j = i - 1
    BY <2>2
  <2>4. /\ j \in 1..(n - 1) /\ j + 1 = i /\ i \in 1..n
        /\ Len(rest) = n - 1 /\ j \in 1..Len(rest)
    BY <1>6, <2>2, <2>3
  <2>5. all[j] = lines[i] /\ j \in DOMAIN all
    <3>1. j \in 1..(Len(rest) + Len(unf))
      BY <1>8, <2>4
    <3> QED
      BY <1>6, <1>8, <2>4, <3>1
  <2>6. j >= Len(all) - MaxRows + 1
    <3>1. PICK u \in {0, 1} : u = Len(unf)
      BY <1>4
    <3>2. Len(all) = (n - 1) + u
      BY <1>8, <2>4, <3>1
    <3>3. \A q \in Nat : i >= n - q + 2 => i - 1 >= ((n - 1) + u) - q + 1
      BY <2>2
    <3> QED
      BY <2>1, <2>2, <2>3, <3>2, <3>3
  <2> QED
    BY <1>2, <1>10, <2>4, <2>5, <2>6
<1>13. Rows # << >> => 1 \in DOMAIN Rows
  BY <1>10
<1> QED
  BY <1>2, <1>3, <1>11, <1>12, <1>13

(* The tables fail or are shifted only after a kill in the middle of a row, *)
(* and at most one line is damaged for each: reading a file while it is     *)
(* written does no harm (tui.py:376-383, collector.c:108-122).              *)
THEOREM OnlyKillsDamage == Spec => []DamageOnlyByKills
<1>1. FileInv => DamageOnlyByKills
  <2> SUFFICES ASSUME FileInv PROVE DamageOnlyByKills
    OBVIOUS
  <2>1. /\ Cardinality(DamagedIn(lines)) \in Nat /\ OneIf(stub > 0) \in {0, 1}
        /\ killed \in Nat /\ Cardinality(DamagedIn(lines)) + OneIf(stub > 0) <= killed
    BY FS_CardinalityType DEF FileInv, OneIf
  <2>2. ASSUME ~(killed > 0) PROVE ~Shifted /\ ~Raises
    <3>1. Cardinality(DamagedIn(lines)) = 0 /\ OneIf(stub > 0) = 0
      BY <2>1, <2>2
    <3>2. DamagedIn(lines) = {}
      BY <3>1, FS_EmptySet DEF FileInv
    <3>3. stub = 0
      BY <3>1 DEF OneIf, FileInv
    <3>4. \A i \in DOMAIN lines : lines[i].fields = Fields
      BY <3>2 DEF DamagedIn
    <3>5. \A k \in DOMAIN Rows : Rows[k].fields \in 0..Fields
      <4>1. Fields \in 0..Fields
        BY DEF Fields
      <4> QED
        BY <3>3, <3>4, <4>1, RowsAre, UnfinishedIs
    <3>6. \A k \in DOMAIN Rows : ~(Rows[k].fields > Fields)
      BY <3>5 DEF Fields
    <3> QED
      BY <3>6, RowsAre DEF Shifted, Raises
  <2>3. Cardinality({i \in DOMAIN lines : lines[i].fields # Fields}) <= killed
    BY <2>1 DEF DamagedIn
  <2> QED
    BY <2>2, <2>3 DEF DamageOnlyByKills
<1> QED
  BY <1>1, FileInit, FileStep, PTL DEF Spec

(* Unless it fails, the table has every complete row among the newest ones, *)
(* wherever the file was cut (tui.py:376-391).                              *)
THEOREM NewestRowsShown == Spec => []NewestShown
<1>1. FileInv => NewestShown
  <2> SUFFICES ASSUME FileInv, ~Shifted, ~Raises,
                      NEW i \in Max({2, Len(lines) - MaxRows + 2})..Len(lines)
               PROVE  lines[i].event \in Table
    BY DEF NewestShown
  <2>1. PICK k \in DOMAIN Rows : i \in DOMAIN lines /\ Rows[k] = lines[i]
    BY RowsAre
  <2>2. Rows[k].fields >= Latency
    <3>1. lines[i].fields >= Fields
      BY <2>1 DEF FileInv
    <3>2. lines[i].fields \in Nat
      <4>1. PICK B : lines \in Seq(LineOf(B))
        BY DEF FileInv
      <4>2. lines[i] \in LineOf(B)
        BY <2>1, <4>1
      <4> QED
        BY <4>2 DEF LineOf
    <3> QED
      BY <2>1, <3>1, <3>2 DEF Latency, Fields
  <2> QED
    BY <2>1, <2>2 DEF Table
<1> QED
  BY <1>1, FileInit, FileStep, PTL DEF Spec
=============================================================================
