---------------------------- MODULE TracingProofs ----------------------------
(***************************************************************************)
(* The collector uses the BPF programs as SlBpf assumes of their user, for *)
(* any command lines, tasks, CPUs and sizes: what is proved of SlBpf holds *)
(* of the programs under this collector.                                   *)
(***************************************************************************)
EXTENDS Tracing, CsvLinesProofs

Before(pcs) == pc \in pcs \cup {"args", "load", "attach"}

(* Where main() has come to tells what the maps and the attach loop hold. *)
MapsInv ==
  /\ args \in CommandLines
  /\ prog \in 0..3
  /\ \A h \in attached : \E i \in 1..prog : h = Col!Programs[i]
  /\ Before({"target"}) => target = 0
  /\ Before({"target", "config"}) => config = Bpf!NoConfig

LEMMA ProgramFacts ==
  /\ Len(Col!Programs) = 3
  /\ Col!Programs[1] = "sched_wakeup" /\ Col!Programs[2] = "sched_wakeup_new"
  /\ Col!Programs[3] = "sched_switch"
  /\ Col!Unset = Bpf!NoConfig
  BY DEF Col!Programs, Col!Unset, Bpf!NoConfig

(* Programs are attached in the order of their places in the object file. *)
LEMMA ProgramsInOrder ==
  /\ \A i \in 1..3 : Col!Programs[i] \in Bpf!Hooks
  /\ \A i, j \in 1..3 : i < j => Bpf!Position[Col!Programs[i]] < Bpf!Position[Col!Programs[j]]
<1>1. /\ Bpf!Position["sched_wakeup"] = 1 /\ Bpf!Position["sched_wakeup_new"] = 2
      /\ Bpf!Position["sched_switch"] = 3
  BY DEF Bpf!Position
<1>2. \A i \in 1..3 : i = 1 \/ i = 2 \/ i = 3
  OBVIOUS
<1> QED
  BY <1>1, <1>2, ProgramFacts DEF Bpf!Hooks

LEMMA MapsInit == Init => MapsInv
  BY ProgramFacts DEF Init, Col!Init, MapsInv, Before

(* The kernel's steps leave alone what the collector writes. *)
LEMMA KernelLeaves ==
  ASSUME Bpf!KernelStep
  PROVE  UNCHANGED <<attached, target, config>>
  BY DEF Bpf!KernelStep, Bpf!SchedWakeup, Bpf!SchedWakeupNew, Bpf!WakeupHandler, Bpf!ChangeState,
         Bpf!LeaveSwitch, Bpf!EnterSwitch, Bpf!bpfVars

-----------------------------------------------------------------------------
(* The steps of the collector that touch nothing it shares with the         *)
(* programs, and the four that do.                                          *)
Private ==
  \/ Col!ParseArgs \/ Col!Load \/ Col!NewRing \/ Col!OpenEvents \/ Col!OpenDataset
  \/ Col!Loop \/ Col!PollReturns \/ Col!PollInterrupted \/ Col!EndWindow \/ Col!Final \/ Col!Close

LEMMA StepCases ==
  Col!Step <=> Private \/ Col!AttachNext \/ Col!SetTarget \/ Col!SetConfig \/ Col!HandleEvent
  BY DEF Col!Step, Private

LEMMA PrivateShares ==
  ASSUME Private
  PROVE  UNCHANGED <<attached, target, config, events, prog, args>>
  BY DEF Private, Col!ParseArgs, Col!Load, Col!NewRing, Col!OpenEvents, Col!OpenDataset,
         Col!Loop, Col!PollReturns, Col!PollInterrupted, Col!EndWindow, Col!Final, Col!Close,
         Col!shared

LEMMA PrivateGoes ==
  ASSUME Private
  PROVE  Before({"target", "config"})' => Before({})
  BY DEF Before, Private, Col!ParseArgs, Col!Load, Col!NewRing, Col!OpenEvents, Col!OpenDataset,
         Col!Loop, Col!PollReturns, Col!PollInterrupted, Col!EndWindow, Col!Final, Col!Close

LEMMA MapsNext == MapsInv /\ [Next]_tracingVars => MapsInv'
<1> SUFFICES ASSUME MapsInv, [Next]_tracingVars PROVE MapsInv'
  OBVIOUS
<1>1. CASE KernelRuns
  BY <1>1, KernelLeaves DEF KernelRuns, colOwn, MapsInv, Before
<1>2. CASE Private
  BY <1>2, PrivateShares, PrivateGoes DEF MapsInv, Before
<1>3. CASE Col!AttachNext
  <2>1. prog' = prog + 1 /\ prog' \in 0..3 /\ args' = args /\ target' = target /\ config' = config
    BY <1>3, ProgramFacts DEF Col!AttachNext, MapsInv
  <2>2. ASSUME NEW h \in attached' PROVE \E i \in 1..prog' : h = Col!Programs[i]
    <3>1. h \in attached \/ h = Col!Programs[prog + 1]
      BY <1>3, <2>2 DEF Col!AttachNext
    <3>2. \A i \in 1..prog : i \in 1..prog'
      BY <2>1 DEF MapsInv
    <3>3. prog + 1 \in 1..prog'
      BY <2>1 DEF MapsInv
    <3> QED
      BY <2>1, <3>1, <3>2, <3>3 DEF MapsInv
  <2> QED
    BY <1>3, <2>1, <2>2 DEF Col!AttachNext, MapsInv, Before
<1>4. CASE Col!SetTarget
  BY <1>4 DEF Col!SetTarget, MapsInv, Before
<1>5. CASE Col!SetConfig
  BY <1>5 DEF Col!SetConfig, MapsInv, Before
<1>6. CASE Col!HandleEvent
  BY <1>6 DEF Col!HandleEvent, MapsInv, Before
<1>7. CASE UNCHANGED tracingVars
  BY <1>7 DEF tracingVars, colOwn, MapsInv, Before
<1> QED
  BY <1>1, <1>2, <1>3, <1>4, <1>5, <1>6, <1>7, StepCases DEF Next, CollectorRuns

LEMMA UsesBpfStep ==
  ASSUME MapsInv, [Next]_tracingVars
  PROVE  [Bpf!Next]_(Bpf!vars)
<1>0. \A h \in attached : \E i \in 1..prog : h = Col!Programs[i]
  BY DEF MapsInv
<1>1. CASE KernelRuns
  BY <1>1 DEF KernelRuns, Bpf!Next
<1>2. CASE UNCHANGED bpfOwn /\ UNCHANGED <<attached, target, config, events>>
  BY <1>2 DEF bpfOwn, Bpf!vars, Bpf!kernelVars, Bpf!bpfVars
<1>3. CASE Private /\ UNCHANGED bpfOwn
  BY <1>2, <1>3, PrivateShares
<1>4. CASE Col!AttachNext /\ UNCHANGED bpfOwn
  <2> DEFINE h == Col!Programs[prog + 1]
  <2>1. prog + 1 \in 1..3 /\ target = 0 /\ config = Bpf!NoConfig
    BY <1>4, ProgramFacts DEF Col!AttachNext, MapsInv, Before
  <2>2. UNCHANGED <<target, config, events>>
    BY <1>4 DEF Col!AttachNext
  <2>3. CASE attached' = attached
    BY <1>2, <1>4, <2>2, <2>3
  <2>4. CASE attached' = attached \cup {h}
    <3>1. h \in Bpf!Hooks
      BY <2>1, ProgramsInOrder
    <3>2. ASSUME NEW a \in attached PROVE Bpf!Position[a] < Bpf!Position[h]
      <4>1. PICK i \in 1..prog : a = Col!Programs[i]
        BY <1>0
      <4>2. i \in 1..3 /\ i < prog + 1
        BY <2>1 DEF MapsInv
      <4> QED
        BY <2>1, <4>1, <4>2, ProgramsInOrder
    <3>3. Bpf!Attach(h)
      BY <1>4, <2>1, <2>2, <2>4, <3>2 DEF Bpf!Attach, bpfOwn, Bpf!kernelVars
    <3> QED
      BY <3>1, <3>3 DEF Bpf!Next, Bpf!CollectorStep
  <2> QED
    BY <1>4, <2>3, <2>4 DEF Col!AttachNext
<1>5. CASE Col!SetTarget /\ UNCHANGED bpfOwn
  <2>1. UNCHANGED <<attached, config, events>> /\ target = 0 /\ config = Bpf!NoConfig
    BY <1>5 DEF Col!SetTarget, MapsInv, Before
  <2>2. CASE target' = Col!Effective(args).filter_tgid
    <3>1. PICK g \in Targets : target' = g
      BY <2>2, CommandsAssumption DEF MapsInv
    <3>2. Bpf!SetTarget(g)
      BY <1>5, <2>1, <3>1 DEF Bpf!SetTarget, bpfOwn, Bpf!kernelVars
    <3> QED
      BY <3>2 DEF Bpf!Next, Bpf!CollectorStep
  <2> QED
    BY <1>2, <1>5, <2>1, <2>2 DEF Col!SetTarget
<1>6. CASE Col!SetConfig /\ UNCHANGED bpfOwn
  <2>1. UNCHANGED <<attached, target, events>> /\ config = Bpf!NoConfig
    BY <1>6 DEF Col!SetConfig, MapsInv, Before
  <2>2. CASE config' = Col!Effective(args).config
    <3>1. PICK cfg \in Configs : config' = cfg
      BY <2>2, CommandsAssumption DEF MapsInv
    <3>2. Bpf!Configure(cfg)
      BY <1>6, <2>1, <3>1 DEF Bpf!Configure, bpfOwn, Bpf!kernelVars
    <3> QED
      BY <3>2 DEF Bpf!Next, Bpf!CollectorStep
  <2> QED
    BY <1>2, <1>6, <2>1, <2>2 DEF Col!SetConfig
<1>7. CASE Col!HandleEvent /\ UNCHANGED bpfOwn
  <2>1. Bpf!Consume
    BY <1>7 DEF Col!HandleEvent, Bpf!Consume, bpfOwn, Bpf!kernelVars
  <2> QED
    BY <2>1 DEF Bpf!Next, Bpf!CollectorStep
<1>8. CASE UNCHANGED tracingVars
  BY <1>2, <1>8 DEF tracingVars, bpfOwn
<1> QED
  BY <1>1, <1>3, <1>4, <1>5, <1>6, <1>7, <1>8, StepCases DEF Next, CollectorRuns

(* Whatever it is asked for and wherever it fails, the collector attaches   *)
(* the programs in order before it writes the target, the target before the *)
(* configuration, each at most once, and only then consumes events: it is   *)
(* the user that SlBpf, and all that is proved of it, assumes.              *)
THEOREM UsesPrograms == Spec => UsesBpf
<1>1. Init => Bpf!Init
  BY DEF Init
<1>2. Spec => []MapsInv
  BY MapsInit, MapsNext, PTL DEF Spec
<1> QED
  BY <1>1, <1>2, UsesBpfStep, PTL DEF Spec, UsesBpf, Bpf!Spec

-----------------------------------------------------------------------------
(* The events of other thread groups.                                       *)
Followed == Wanted.filter_tgid

(* A sched_switch handler that latched another target than the one that is  *)
(* followed, and may submit an event of any thread group.                   *)
Unfiltered == {c \in CPUs : switching[c].active /\ switching[c].filter # Followed}

ForeignTotal ==
  Cardinality(ForeignEvents) + Cardinality(ForeignRows(eventsCsv)) + Cardinality(ForeignRows(eventsBuf))

RingInv ==
  /\ \E S : events \in Seq(S)
  /\ Len(events) <= RingSlots
  /\ \A i \in 1..Len(events) : events[i].tgid \in Nat
  /\ DOMAIN switching = CPUs
  /\ \A c \in CPUs : switching[c].active => switching[c].next \in Bpf!Pids

(* Nothing is killed here, so that a file that ends in a part of a row has  *)
(* the rest in the buffer.                                                  *)
Unopened == {"args", "load", "attach", "target", "config", "ring", "events"}
LinesInv ==
  /\ eventsCsv \in Seq(AnyLine) /\ eventsBuf \in Seq(BufferLine)
  /\ HeadIs(eventsBuf, "header") => eventsCsv = << >>
  /\ LastIn(eventsCsv, Open) => HeadIs(eventsBuf, "rest")
  /\ pc \in Unopened => eventsCsv = << >> /\ eventsBuf = << >>

(* Once the target is set, only those handlers can add to what the ring     *)
(* held then.                                                               *)
NoRowsYet ==
  /\ pc \in {"args", "load", "attach", "target", "failed"}
  /\ eventsCsv = << >> /\ eventsBuf = << >>

BoundInv ==
  Followed # 0 =>
    \/ NoRowsYet
    \/ target = Followed /\ ForeignTotal + Cardinality(Unfiltered) <= RingSlots + Cardinality(CPUs)

-----------------------------------------------------------------------------
(* Counting the lines and the events of other thread groups.                *)
ForeignLine == {l \in AnyLine : l.kind \notin {"header", "part"} /\ Foreign(l.tgid)}
RowsOf(lines) == Cardinality(ForeignRows(lines))
ForeignIn(s) == {i \in 1..Len(s) : Foreign(s[i].tgid)}

LEMMA SameWriteOut ==
  /\ Col!Header = Header
  /\ \A kind, tgid : Col!Line(kind, tgid) = Line(kind, tgid)
  /\ \A f, b : Col!WriteOut(f, b) = WriteOut(f, b)
<1>1. \A kind, tgid : Col!Line(kind, tgid) = Line(kind, tgid)
  BY DEF Col!Line, Line
<1>2. \A left, right : Col!Joined(left, right) = Joined(left, right)
  BY DEF Col!Joined, Joined
<1>3. \A f : Col!Front(f) = Front(f) /\ Col!Last(f) = Last(f)
  BY DEF Col!Front, Front, Col!Last, Last
<1>4. \A f, l : Col!WriteLine(f, l) = WriteLine(f, l)
  BY <1>1, <1>2, <1>3 DEF Col!WriteLine, WriteLine, Col!Open, Open
<1> QED
  BY <1>1, <1>4 DEF Col!WriteOut, WriteOut, Col!Header, Header

LEMMA RowsAre ==
  ASSUME NEW s \in Seq(AnyLine)
  PROVE  ForeignRows(s) = Where(s, ForeignLine) /\ RowsOf(s) \in Nat
<1>1. \A i \in 1..Len(s) : s[i] \in AnyLine
  OBVIOUS
<1>2. ForeignRows(s) = Where(s, ForeignLine)
  BY <1>1 DEF ForeignRows, Where, ForeignLine
<1> QED
  BY <1>2, WhereFinite DEF RowsOf

LEMMA NoRows == RowsOf(<< >>) = 0
<1>1. << >> \in Seq(AnyLine)
  OBVIOUS
<1> QED
  BY <1>1, RowsAre, WhereFinite DEF RowsOf

LEMMA RowsAppend ==
  ASSUME NEW s \in Seq(AnyLine), NEW l \in AnyLine
  PROVE  /\ Append(s, l) \in Seq(AnyLine)
         /\ RowsOf(Append(s, l)) = RowsOf(s) + Bit(l \in ForeignLine)
<1>1. Append(s, l) \in Seq(AnyLine)
  OBVIOUS
<1>2. Cardinality(Where(Append(s, l), ForeignLine))
        = Cardinality(Where(s, ForeignLine)) + (IF l \in ForeignLine THEN 1 ELSE 0)
  BY WhereAppend
<1> QED
  BY <1>1, <1>2, RowsAre DEF RowsOf, Bit

LEMMA RowsOne ==
  ASSUME NEW l \in AnyLine
  PROVE  <<l>> \in Seq(AnyLine) /\ RowsOf(<<l>>) = Bit(l \in ForeignLine)
<1>1. << >> \in Seq(AnyLine) /\ <<l>> = Append(<< >>, l)
  OBVIOUS
<1>2. RowsOf(Append(<< >>, l)) = RowsOf(<< >>) + Bit(l \in ForeignLine)
  BY <1>1, RowsAppend
<1>3. Bit(l \in ForeignLine) \in Nat
  BY DEF Bit
<1>4. Append(<< >>, l) \in Seq(AnyLine)
  BY <1>1, RowsAppend
<1> QED
  BY <1>1, <1>2, <1>3, <1>4, NoRows

(* The line at the end of a file that a rest completes counts for its       *)
(* thread group as much as the rest did.                                    *)
LEMMA RowsWritten ==
  ASSUME NEW f \in Seq(AnyLine), NEW b \in Seq(AnyLine),
         LastIn(f, Open) => HeadIs(b, "rest")
  PROVE  WriteOut(f, b) \in Seq(AnyLine) /\ RowsOf(WriteOut(f, b)) <= RowsOf(f) + RowsOf(b)
<1>1. CASE b = << >>
  BY <1>1, WriteOutEmpty, NoRows, RowsAre
<1>2. CASE b # << >> /\ ~LastIn(f, Open)
  <2>1. WriteOut(f, b) = f \o b /\ WriteOut(f, b) \in Seq(AnyLine)
    BY <1>2, WriteOutClosed
  <2>2. Cardinality(Where(f \o b, ForeignLine))
          = Cardinality(Where(f, ForeignLine)) + Cardinality(Where(b, ForeignLine))
    BY WhereConcat
  <2>3. RowsOf(WriteOut(f, b)) = RowsOf(f) + RowsOf(b)
    BY <2>1, <2>2, RowsAre DEF RowsOf
  <2> QED
    BY <2>1, <2>3, RowsAre
<1>3. CASE b # << >> /\ LastIn(f, Open)
  <2>1. PICK front : front = SubSeq(f, 1, Len(f) - 1)
    OBVIOUS
  <2>2. PICK j : j = JoinedTo(f, b[1])
    OBVIOUS
  <2>3. PICK last : last = f[Len(f)]
    OBVIOUS
  <2>4. /\ j \in AnyLine /\ front \in Seq(AnyLine) /\ Tail(b) \in Seq(AnyLine)
        /\ f = Append(front, last) /\ last \in AnyLine
        /\ WriteOut(f, b) = Append(front, j) \o Tail(b)
        /\ Append(front, j) \in Seq(AnyLine) /\ WriteOut(f, b) \in Seq(AnyLine)
    <3>1. last \in AnyLine
      BY <1>3, <2>3, FrontAndLast DEF LastIn
    <3> QED
      BY <1>3, <2>1, <2>2, <2>3, <3>1, WriteOutOpen
  <2>5. b[1] \in AnyLine /\ b[1].kind = "rest"
    BY <1>3, FirstAndRest DEF HeadIs
  <2>6. j \in ForeignLine => b[1] \in ForeignLine
    <3>1. j.tgid = b[1].tgid
      BY <2>2 DEF JoinedTo, Line
    <3> QED
      BY <2>5, <3>1 DEF ForeignLine
  <2>7. RowsOf(f) = RowsOf(front) + Bit(last \in ForeignLine)
    BY <2>4, RowsAppend
  <2>8. RowsOf(Append(front, j)) = RowsOf(front) + Bit(j \in ForeignLine)
    BY <2>4, RowsAppend
  <2>9. RowsOf(b) = Bit(b[1] \in ForeignLine) + RowsOf(Tail(b))
    <3>1. Cardinality(Where(b, ForeignLine))
            = (IF b[1] \in ForeignLine THEN 1 ELSE 0) + Cardinality(Where(Tail(b), ForeignLine))
      BY <1>3, WhereFirst
    <3> QED
      BY <2>4, <3>1, RowsAre DEF RowsOf, Bit
  <2>10. RowsOf(Append(front, j) \o Tail(b)) = RowsOf(Append(front, j)) + RowsOf(Tail(b))
    <3>1. Cardinality(Where(Append(front, j) \o Tail(b), ForeignLine))
            = Cardinality(Where(Append(front, j), ForeignLine))
              + Cardinality(Where(Tail(b), ForeignLine))
      BY <2>4, WhereConcat
    <3>2. Append(front, j) \o Tail(b) \in Seq(AnyLine)
      BY <2>4
    <3> QED
      BY <2>4, <3>1, <3>2, RowsAre DEF RowsOf
  <2>11. RowsOf(front) \in Nat /\ RowsOf(Tail(b)) \in Nat
    BY <2>4, RowsAre
  <2>12. /\ Bit(j \in ForeignLine) <= Bit(b[1] \in ForeignLine)
         /\ Bit(j \in ForeignLine) \in Nat /\ Bit(b[1] \in ForeignLine) \in Nat
         /\ Bit(last \in ForeignLine) \in Nat
    BY <2>6 DEF Bit
  <2>13. RowsOf(WriteOut(f, b)) = RowsOf(front) + Bit(j \in ForeignLine) + RowsOf(Tail(b))
    BY <2>4, <2>8, <2>10
  <2> QED
    BY <2>4, <2>7, <2>9, <2>11, <2>12, <2>13
<1> QED
  BY <1>1, <1>2, <1>3

(* A buffer that is written out leaves no open end.                         *)
LEMMA WrittenIsClosed ==
  ASSUME NEW f \in Seq(AnyLine), NEW b \in Seq(BufferLine),
         LastIn(f, Open) => HeadIs(b, "rest")
  PROVE  ~LastIn(WriteOut(f, b), Open)
<1>0. b \in Seq(AnyLine)
  BY LinesAreLines
<1>1. CASE b = << >>
  BY <1>1, WriteOutEmpty DEF HeadIs
<1>2. CASE b # << >>
  <2>1. PICK w : w = WriteOut(f, b)
    OBVIOUS
  <2>2. \A i \in 1..Len(b) : b[i].kind \notin Open
    <3>1. \A i \in 1..Len(b) : b[i] \in BufferLine
      OBVIOUS
    <3>2. \A l \in BufferLine : l.kind \notin Open
      BY DEF BufferLine, Open
    <3> QED
      BY <3>1, <3>2
  <2>3. Len(f) \in Nat /\ Len(b) \in Nat \ {0}
    BY <1>2
  <2>4. CASE ~LastIn(f, Open)
    <3>1. Len(w) = Len(f) + Len(b) /\ \A i \in 1..Len(b) : w[Len(f) + i] = b[i]
      BY <1>0, <1>2, <2>1, <2>4, WriteOutClosed
    <3>2. w[Len(w)] = b[Len(b)] /\ Len(b) \in 1..Len(b)
      BY <2>3, <3>1
    <3> QED
      BY <2>1, <2>2, <3>2 DEF LastIn
  <2>5. CASE LastIn(f, Open)
    <3>1. /\ Len(w) = Len(f) + Len(b) - 1 /\ w[Len(f)] = JoinedTo(f, b[1])
          /\ \A i \in 1..(Len(b) - 1) : w[Len(f) + i] = b[i + 1]
      BY <1>0, <1>2, <2>1, <2>5, WriteOutOpen
    <3>2. CASE Len(b) = 1
      <4>1. w[Len(w)].kind = Joined(f[Len(f)].kind, "rest")
        <5>1. Len(w) = Len(f) /\ b[1].kind = "rest"
          BY <2>3, <2>5, <3>1, <3>2 DEF HeadIs
        <5> QED
          BY <3>1, <5>1 DEF JoinedTo, Line
      <4>2. Joined(f[Len(f)].kind, "rest") \in {"row", "bad"}
        BY DEF Joined
      <4> QED
        BY <2>1, <4>1, <4>2 DEF LastIn, Open
    <3>3. CASE Len(b) # 1
      <4>1. Len(b) - 1 \in 1..(Len(b) - 1) /\ Len(w) = Len(f) + (Len(b) - 1) /\ Len(b) \in 1..Len(b)
            /\ (Len(b) - 1) + 1 = Len(b)
        <5>1. Len(b) \in Nat \ {0, 1}
          BY <2>3, <3>3
        <5>2. Len(w) = Len(f) + Len(b) - 1
          BY <3>1
        <5>3. \A m \in Nat \ {0, 1}, n \in Nat :
                /\ m - 1 \in 1..(m - 1) /\ n + m - 1 = n + (m - 1)
                /\ m \in 1..m /\ (m - 1) + 1 = m
          OBVIOUS
        <5> QED
          BY <2>3, <5>1, <5>2, <5>3
      <4>2. w[Len(w)] = b[Len(b)]
        BY <3>1, <4>1
      <4> QED
        BY <2>1, <2>2, <4>1, <4>2 DEF LastIn
    <3> QED
      BY <3>2, <3>3
  <2> QED
    BY <2>4, <2>5
<1> QED
  BY <1>1, <1>2

LEMMA EventsCount ==
  ASSUME NEW S, NEW s \in Seq(S)
  PROVE  /\ IsFiniteSet(ForeignIn(s))
         /\ Cardinality(ForeignIn(s)) \in Nat /\ Len(s) \in Nat
         /\ Cardinality(ForeignIn(s)) <= Len(s)
         /\ ForeignIn(s) = Where(s, {e \in S : Foreign(e.tgid)})
<1>1. ForeignIn(s) \subseteq 1..Len(s) /\ Len(s) \in Nat
  BY DEF ForeignIn
<1>2. IsFiniteSet(1..Len(s)) /\ Cardinality(1..Len(s)) = Len(s)
  <2>1. \A n \in Nat : (IF 1 > n THEN 0 ELSE n - 1 + 1) = n /\ n \in Int /\ 1 \in Int
    OBVIOUS
  <2> QED
    BY <1>1, <2>1, FS_Interval
<1>3. /\ IsFiniteSet(ForeignIn(s)) /\ Cardinality(ForeignIn(s)) <= Cardinality(1..Len(s))
  BY <1>1, <1>2, FS_Subset
<1>4. Cardinality(ForeignIn(s)) \in Nat
  BY <1>3, FS_CardinalityType
<1>5. ForeignIn(s) = Where(s, {e \in S : Foreign(e.tgid)})
  <2>1. \A i \in 1..Len(s) : s[i] \in S
    OBVIOUS
  <2> QED
    BY <2>1 DEF ForeignIn, Where
<1> QED
  BY <1>1, <1>2, <1>3, <1>4, <1>5

LEMMA EventSubmitted ==
  ASSUME NEW S, NEW s \in Seq(S), NEW e
  PROVE  Cardinality(ForeignIn(Append(s, e)))
           = Cardinality(ForeignIn(s)) + Bit(Foreign(e.tgid))
<1>1. PICK T : T = S \cup {e}
  OBVIOUS
<1>2. s \in Seq(T) /\ e \in T /\ Append(s, e) \in Seq(T)
  BY <1>1
<1>3. PICK K : K = {x \in T : Foreign(x.tgid)}
  OBVIOUS
<1>4. ForeignIn(s) = Where(s, K) /\ ForeignIn(Append(s, e)) = Where(Append(s, e), K)
  BY <1>2, <1>3, EventsCount
<1>5. e \in K <=> Foreign(e.tgid)
  BY <1>2, <1>3
<1>6. Cardinality(Where(Append(s, e), K)) = Cardinality(Where(s, K)) + (IF e \in K THEN 1 ELSE 0)
  BY <1>2, WhereAppend
<1> QED
  BY <1>4, <1>5, <1>6 DEF Bit

LEMMA EventTaken ==
  ASSUME NEW S, NEW s \in Seq(S), s # << >>
  PROVE  Cardinality(ForeignIn(s))
           = Bit(Foreign(s[1].tgid)) + Cardinality(ForeignIn(Tail(s)))
<1>1. s[1] \in S /\ Tail(s) \in Seq(S)
  BY FirstAndRest
<1>3. PICK K : K = {x \in S : Foreign(x.tgid)}
  OBVIOUS
<1>4. ForeignIn(s) = Where(s, K) /\ ForeignIn(Tail(s)) = Where(Tail(s), K)
  BY <1>1, <1>3, EventsCount
<1>5. s[1] \in K <=> Foreign(s[1].tgid)
  BY <1>1, <1>3
<1>6. Cardinality(Where(s, K)) = (IF s[1] \in K THEN 1 ELSE 0) + Cardinality(Where(Tail(s), K))
  BY WhereFirst
<1> QED
  BY <1>4, <1>5, <1>6 DEF Bit

-----------------------------------------------------------------------------
(* What the command line asks for stays, so that only the lines, the events *)
(* and the handlers in progress make a difference.                          *)
LEMMA SameFollowed ==
  ASSUME args' = args
  PROVE  /\ Followed' = Followed
         /\ ForeignTotal' = Cardinality(ForeignIn(events')) + RowsOf(eventsCsv') + RowsOf(eventsBuf')
         /\ Unfiltered' = {c \in CPUs : switching'[c].active /\ switching'[c].filter # Followed}
<1>1. Wanted' = Wanted
  BY DEF Wanted
<1>2. \A g : Foreign(g)' <=> Foreign(g)
  BY <1>1 DEF Foreign
<1>3. ForeignEvents' = ForeignIn(events')
  BY <1>1 DEF ForeignEvents, ForeignIn, Foreign
<1>4. ForeignRows(eventsCsv)' = ForeignRows(eventsCsv') /\ ForeignRows(eventsBuf)' = ForeignRows(eventsBuf')
  BY <1>1 DEF ForeignRows, Foreign
<1> QED
  BY <1>1, <1>3, <1>4 DEF Followed, ForeignTotal, Unfiltered, RowsOf

LEMMA TotalIs ==
  ForeignTotal = Cardinality(ForeignIn(events)) + RowsOf(eventsCsv) + RowsOf(eventsBuf)
  BY DEF ForeignTotal, RowsOf, ForeignEvents, ForeignIn

LEMMA UnfilteredFinite ==
  /\ IsFiniteSet(Unfiltered) /\ Cardinality(Unfiltered) \in Nat
  /\ Cardinality(CPUs) \in Nat /\ Cardinality(Unfiltered) <= Cardinality(CPUs)
<1>1. Unfiltered \subseteq CPUs /\ IsFiniteSet(CPUs)
  BY MachineAssumption DEF Unfiltered
<1> QED
  BY <1>1, FS_Subset, FS_CardinalityType

-----------------------------------------------------------------------------
(* The kernel's steps: a switch that ends submits at most one event, and of *)
(* a foreign thread group only when it latched another target; a switch     *)
(* that begins latches the target.                                          *)
LEMMA KernelKinds ==
  ASSUME Bpf!KernelStep
  PROVE  \/ UNCHANGED <<events, switching>>
         \/ \E c \in CPUs : Bpf!LeaveSwitch(c)
         \/ \E c \in CPUs : \E next \in Bpf!Pids, fate \in Bpf!Fates(running[c]) :
              Bpf!EnterSwitch(c, next, fate)
<1>1. CASE \E t \in Tasks : Bpf!SchedWakeupNew(t) \/ Bpf!SchedWakeup(t)
  BY <1>1 DEF Bpf!SchedWakeup, Bpf!SchedWakeupNew, Bpf!WakeupHandler
<1>2. CASE Bpf!Tick /\ UNCHANGED Bpf!bpfVars
  BY <1>2 DEF Bpf!bpfVars
<1>3. CASE \E c \in CPUs : Bpf!ChangeState(c)
  BY <1>3 DEF Bpf!ChangeState, Bpf!bpfVars
<1> QED
  BY <1>1, <1>2, <1>3 DEF Bpf!KernelStep

LEMMA SwitchEnds ==
  ASSUME RingInv, NEW c \in CPUs, Bpf!LeaveSwitch(c), args' = args
  PROVE  /\ RingInv'
         /\ Followed # 0 =>
              Cardinality(ForeignIn(events')) + Cardinality(Unfiltered')
                <= Cardinality(ForeignIn(events)) + Cardinality(Unfiltered)
<1>1. PICK s : s = switching[c]
  OBVIOUS
<1>2. PICK S : events \in Seq(S)
  BY DEF RingInv
<1>3. /\ s.active /\ switching' = [switching EXCEPT ![c] = Bpf!NoSwitch]
      /\ s.next \in Bpf!Pids
  BY <1>1 DEF Bpf!LeaveSwitch, RingInv
<1>4. PICK e : e = Bpf!EventOf(c, s)
  OBVIOUS
<1>5. /\ e.tgid = Tgid[s.next]
      /\ \/ events' = events
         \/ /\ events' = Append(events, e) /\ Len(events) < RingSlots
            /\ s.next # Idle /\ (s.filter = 0 \/ s.filter = Tgid[s.next])
  BY <1>1, <1>4 DEF Bpf!LeaveSwitch, Bpf!EventOf, Bpf!Ignored, Bpf!HasSlot, Bpf!Passes
<1>6. Unfiltered' = Unfiltered \ {c}
  <2>1. /\ DOMAIN switching = CPUs /\ ~switching'[c].active
        /\ \A d \in CPUs : d # c => switching'[d] = switching[d]
    BY <1>3 DEF RingInv, Bpf!NoSwitch
  <2> QED
    BY <2>1, SameFollowed DEF Unfiltered
<1>7. /\ IsFiniteSet(Unfiltered) /\ Cardinality(Unfiltered) \in Nat
      /\ Cardinality(Unfiltered \ {c}) = Cardinality(Unfiltered) - Bit(c \in Unfiltered)
      /\ Bit(c \in Unfiltered) \in {0, 1}
  <2>1. IsFiniteSet(Unfiltered) /\ Cardinality(Unfiltered) \in Nat
    BY UnfilteredFinite
  <2> QED
    BY <2>1, FS_RemoveElement DEF Bit
<1>8. Cardinality(ForeignIn(events)) \in Nat /\ Len(events) \in Nat
  BY <1>2, EventsCount
<1>9. /\ DOMAIN switching' = CPUs
      /\ \A d \in CPUs : switching'[d].active => switching'[d].next \in Bpf!Pids
  BY <1>3 DEF RingInv, Bpf!NoSwitch
<1>10. CASE events' = events
  <2>1. Cardinality(Unfiltered') <= Cardinality(Unfiltered)
    BY <1>6, <1>7
  <2>2. Cardinality(Unfiltered') \in Nat
    BY <1>6, <1>7, FS_Subset, FS_CardinalityType
  <2> QED
    BY <1>8, <1>7, <1>9, <1>10, <2>1, <2>2 DEF RingInv
<1>11. CASE /\ events' = Append(events, e) /\ Len(events) < RingSlots
            /\ s.next # Idle /\ (s.filter = 0 \/ s.filter = Tgid[s.next])
  <2>1. s.next \in Tasks /\ e.tgid \in Nat
    BY <1>3, <1>5, <1>11, MachineAssumption DEF Bpf!Pids
  <2>2. RingInv'
    <3>1. PICK T : T = S \cup {e}
      OBVIOUS
    <3>2. events \in Seq(T) /\ e \in T
      BY <1>2, <3>1
    <3>3. events' \in Seq(T) /\ Len(events') = Len(events) + 1
      BY <1>11, <3>2
    <3>4. ASSUME NEW i \in 1..Len(events') PROVE events'[i].tgid \in Nat
      <4>1. \/ i \in 1..Len(events) /\ events'[i] = events[i]
            \/ events'[i] = e
        BY <1>8, <1>11, <3>2, <3>3
      <4> QED
        BY <2>1, <4>1 DEF RingInv
    <3>5. Len(events') <= RingSlots
      BY <1>8, <1>11, <3>3, MachineAssumption
    <3> QED
      BY <1>9, <3>3, <3>4, <3>5 DEF RingInv
  <2>3. Foreign(e.tgid) /\ Followed # 0 => c \in Unfiltered
    BY <1>1, <1>3, <1>5, <1>11, <2>1 DEF Foreign, Followed, Unfiltered
  <2>4. Cardinality(ForeignIn(events')) = Cardinality(ForeignIn(events)) + Bit(Foreign(e.tgid))
    BY <1>2, <1>11, EventSubmitted
  <2>5. Bit(Foreign(e.tgid)) \in {0, 1} /\ (Followed # 0 => Bit(Foreign(e.tgid)) <= Bit(c \in Unfiltered))
    BY <2>3 DEF Bit
  <2>6. Cardinality(Unfiltered') = Cardinality(Unfiltered) - Bit(c \in Unfiltered)
    BY <1>6, <1>7
  <2>7. ASSUME Followed # 0
        PROVE  Cardinality(ForeignIn(events')) + Cardinality(Unfiltered')
                 <= Cardinality(ForeignIn(events)) + Cardinality(Unfiltered)
    BY <1>7, <1>8, <2>4, <2>5, <2>6, <2>7
  <2> QED
    BY <2>2, <2>7
<1> QED
  BY <1>5, <1>10, <1>11

LEMMA SwitchBegins ==
  ASSUME RingInv, NEW c \in CPUs, NEW next \in Bpf!Pids, NEW fate,
         Bpf!EnterSwitch(c, next, fate), args' = args
  PROVE  /\ RingInv' /\ events' = events
         /\ target = Followed => Cardinality(Unfiltered') <= Cardinality(Unfiltered)
<1>1. PICK s : s = switching'[c]
  OBVIOUS
<1>2. /\ DOMAIN switching = CPUs /\ DOMAIN switching' = CPUs
      /\ s.next = next /\ s.filter = target
      /\ \A d \in CPUs : d # c => switching'[d] = switching[d]
  BY <1>1 DEF Bpf!EnterSwitch, RingInv
<1>3. events' = events
  BY DEF Bpf!EnterSwitch
<1>4. RingInv'
  BY <1>1, <1>2, <1>3 DEF RingInv
<1>5. ASSUME target = Followed PROVE Cardinality(Unfiltered') <= Cardinality(Unfiltered)
  <2>1. Unfiltered' \subseteq Unfiltered
    BY <1>1, <1>2, <1>5, SameFollowed DEF Unfiltered
  <2> QED
    BY <2>1, UnfilteredFinite, FS_Subset
<1> QED
  BY <1>3, <1>4, <1>5

LEMMA KernelBounded ==
  ASSUME RingInv, Bpf!KernelStep, args' = args
  PROVE  /\ RingInv'
         /\ Followed # 0 /\ target = Followed =>
              Cardinality(ForeignIn(events')) + Cardinality(Unfiltered')
                <= Cardinality(ForeignIn(events)) + Cardinality(Unfiltered)
<1>0. /\ Cardinality(ForeignIn(events)) \in Nat
      /\ Cardinality(Unfiltered) \in Nat /\ Cardinality(Unfiltered') \in Nat
  <2>1. PICK S : events \in Seq(S)
    BY DEF RingInv
  <2>2. Cardinality(ForeignIn(events)) \in Nat
    BY <2>1, EventsCount
  <2>3. Unfiltered' \subseteq CPUs /\ IsFiniteSet(CPUs)
    BY MachineAssumption DEF Unfiltered
  <2> QED
    BY <2>2, <2>3, UnfilteredFinite, FS_Subset, FS_CardinalityType
<1>1. CASE UNCHANGED <<events, switching>>
  <2>1. Unfiltered' = Unfiltered
    BY <1>1, SameFollowed DEF Unfiltered
  <2>2. RingInv'
    BY <1>1 DEF RingInv
  <2> QED
    BY <1>0, <1>1, <2>1, <2>2
<1>2. CASE \E c \in CPUs : Bpf!LeaveSwitch(c)
  BY <1>2, SwitchEnds
<1>3. CASE \E c \in CPUs : \E next \in Bpf!Pids, fate \in Bpf!Fates(running[c]) :
             Bpf!EnterSwitch(c, next, fate)
  BY <1>0, <1>3, SwitchBegins
<1> QED
  BY <1>1, <1>2, <1>3, KernelKinds

-----------------------------------------------------------------------------
(* The collector's steps, by what they do to ebpf_events.csv.               *)
FlushedEvents ==
  eventsCsv' = WriteOut(eventsCsv, eventsBuf) /\ eventsBuf' = << >> /\ pc' \notin Unopened
LeftFiles ==
  UNCHANGED <<eventsCsv, eventsBuf>> /\ (pc' \in Unopened => pc \in Unopened)
HeaderBuffered ==
  /\ pc \in Unopened /\ pc' = "dataset"
  /\ eventsCsv' = eventsCsv /\ eventsBuf' = Col!OpenBuffer(eventsCsv, Header)

LEMMA FilesCases ==
  ASSUME Private \/ Col!AttachNext \/ Col!SetTarget \/ Col!SetConfig
  PROVE  UNCHANGED <<events, args>> /\ (LeftFiles \/ HeaderBuffered \/ FlushedEvents)
<1>1. CASE Col!OpenEvents
  BY <1>1, SameWriteOut DEF Col!OpenEvents, HeaderBuffered, LeftFiles, Unopened, Col!shared
<1>2. CASE Col!OpenDataset
  BY <1>2, SameWriteOut DEF Col!OpenDataset, FlushedEvents, LeftFiles, Unopened, Col!shared
<1>3. CASE Col!EndWindow
  BY <1>3, SameWriteOut DEF Col!EndWindow, Col!FlushEvents, FlushedEvents, LeftFiles, Unopened,
     Col!shared, Col!files
<1>4. CASE Col!Final
  BY <1>4, SameWriteOut DEF Col!Final, Col!FlushEvents, FlushedEvents, Unopened, Col!shared
<1>5. CASE Col!ParseArgs \/ Col!Load \/ Col!NewRing \/ Col!Loop \/ Col!PollReturns
             \/ Col!PollInterrupted
  BY <1>5 DEF Col!ParseArgs, Col!Load, Col!NewRing, Col!Loop, Col!PollReturns,
     Col!PollInterrupted, LeftFiles, Unopened, Col!shared, Col!files
<1>6. CASE Col!Close
  BY <1>6 DEF Col!Close, LeftFiles, Unopened, Col!shared
<1>7. CASE Col!AttachNext \/ Col!SetTarget \/ Col!SetConfig
  BY <1>7 DEF Col!AttachNext, Col!SetTarget, Col!SetConfig, LeftFiles, Unopened, Col!files
<1> QED
  BY <1>1, <1>2, <1>3, <1>4, <1>5, <1>6, <1>7 DEF Private

LEMMA LinesAre ==
  ASSUME LinesInv
  PROVE  /\ eventsCsv \in Seq(AnyLine) /\ eventsBuf \in Seq(AnyLine) /\ eventsBuf \in Seq(BufferLine)
         /\ LastIn(eventsCsv, Open) => HeadIs(eventsBuf, "rest")
         /\ RowsOf(eventsCsv) \in Nat /\ RowsOf(eventsBuf) \in Nat
  BY LinesAreLines, RowsAre DEF LinesInv

(* The header, or nothing, is what the first opening puts in the buffer.    *)
LEMMA HeaderLine ==
  /\ Header \in AnyLine /\ <<Header>> \in Seq(AnyLine) /\ <<Header>> \in Seq(BufferLine)
  /\ RowsOf(<<Header>>) = 0
<1>1. Header \in AnyLine /\ Header \in BufferLine
  BY LinesAreLines
<1>2. Header \notin ForeignLine
  BY DEF ForeignLine, Header
<1> QED
  BY <1>1, <1>2, RowsOne DEF Bit

LEMMA FilesBounded ==
  ASSUME LinesInv, LeftFiles \/ HeaderBuffered \/ FlushedEvents
  PROVE  LinesInv' /\ RowsOf(eventsCsv') + RowsOf(eventsBuf') <= RowsOf(eventsCsv) + RowsOf(eventsBuf)
<1>1. CASE LeftFiles
  BY <1>1, LinesAre DEF LeftFiles, LinesInv, HeadIs, LastIn
<1>2. CASE HeaderBuffered
  <2>1. eventsCsv = << >> /\ eventsBuf = << >> /\ eventsCsv' = << >> /\ eventsBuf' = <<Header>>
    BY <1>2 DEF HeaderBuffered, LinesInv, Col!OpenBuffer
  <2>2. << >> \in Seq(AnyLine)
    OBVIOUS
  <2>3. pc' \notin Unopened
    BY <1>2 DEF HeaderBuffered, Unopened
  <2>4. LinesInv'
    BY <2>1, <2>2, <2>3, HeaderLine DEF LinesInv, LastIn
  <2> QED
    BY <2>1, <2>4, HeaderLine, NoRows
<1>3. CASE FlushedEvents
  <2>1. /\ eventsCsv' \in Seq(AnyLine)
        /\ RowsOf(eventsCsv') <= RowsOf(eventsCsv) + RowsOf(eventsBuf)
        /\ ~LastIn(eventsCsv', Open)
    BY <1>3, LinesAre, RowsWritten, WrittenIsClosed DEF FlushedEvents
  <2>2. eventsBuf' = << >> /\ << >> \in Seq(BufferLine) /\ pc' \notin Unopened
    BY <1>3 DEF FlushedEvents
  <2>3. LinesInv'
    BY <2>1, <2>2 DEF LinesInv, HeadIs, LastIn
  <2>4. RowsOf(eventsCsv') \in Nat /\ RowsOf(eventsBuf') = 0
    BY <2>1, <2>2, RowsAre, NoRows
  <2> QED
    BY <2>1, <2>3, <2>4, LinesAre
<1> QED
  BY <1>1, <1>2, <1>3

(* handle_event takes an event off the ring and makes one row of it.        *)
LEMMA HandleBounded ==
  ASSUME RingInv, LinesInv, Col!HandleEvent, switching' = switching
  PROVE  /\ RingInv' /\ LinesInv'
         /\ Cardinality(ForeignIn(events')) + RowsOf(eventsCsv') + RowsOf(eventsBuf')
              <= Cardinality(ForeignIn(events)) + RowsOf(eventsCsv) + RowsOf(eventsBuf)
<1>1. PICK S : events \in Seq(S)
  BY DEF RingInv
<1>2. PICK g : g = Head(events).tgid
  OBVIOUS
<1>3. events # << >> /\ events' = Tail(events) /\ pc = "poll" /\ pc' = pc
  BY DEF Col!HandleEvent
<1>4. /\ events' \in Seq(S) /\ Len(events') = Len(events) - 1 /\ Len(events) \in Nat \ {0}
      /\ events[1].tgid = g
      /\ \A i \in 1..Len(events') : i + 1 \in 2..Len(events) /\ events'[i] = events[i + 1]
  BY <1>1, <1>2, <1>3, FirstAndRest
<1>5. g \in Nat
  BY <1>4 DEF RingInv
<1>6. RingInv'
  <2>1. \A i \in 1..Len(events') : events'[i].tgid \in Nat
    BY <1>4 DEF RingInv
  <2>2. Len(events') <= RingSlots
    BY <1>4, MachineAssumption DEF RingInv
  <2> QED
    BY <1>4, <2>1, <2>2 DEF RingInv
<1>7. /\ Cardinality(ForeignIn(events)) = Bit(Foreign(g)) + Cardinality(ForeignIn(events'))
      /\ Cardinality(ForeignIn(events')) \in Nat
      /\ Bit(Foreign(g)) \in Nat
  BY <1>1, <1>3, <1>4, EventTaken, EventsCount DEF Bit
<1>8. PICK row : row = Line("row", g)
  OBVIOUS
<1>9. PICK rest : rest = Line("rest", g)
  OBVIOUS
<1>10. PICK part : part = Line("part", g)
  OBVIOUS
<1>11. /\ row \in BufferLine /\ row \in AnyLine /\ row.kind = "row"
       /\ rest \in BufferLine /\ rest \in AnyLine /\ rest.kind = "rest"
       /\ part \in AnyLine /\ part \notin ForeignLine
       /\ row \in ForeignLine <=> Foreign(g)
       /\ rest \in ForeignLine <=> Foreign(g)
  BY <1>5, <1>8, <1>9, <1>10 DEF Line, BufferLine, AnyLine, ForeignLine
<1>12. pc' \notin Unopened
  BY <1>3 DEF Unopened
<1>13. PICK w : w = WriteOut(eventsCsv, eventsBuf)
  OBVIOUS
<1>14. /\ w \in Seq(AnyLine) /\ RowsOf(w) <= RowsOf(eventsCsv) + RowsOf(eventsBuf)
       /\ ~LastIn(w, Open) /\ RowsOf(w) \in Nat
  BY <1>13, LinesAre, RowsWritten, WrittenIsClosed, RowsAre
<1>15. /\ eventsCsv \in Seq(AnyLine) /\ eventsBuf \in Seq(AnyLine) /\ eventsBuf \in Seq(BufferLine)
       /\ LastIn(eventsCsv, Open) => HeadIs(eventsBuf, "rest")
       /\ HeadIs(eventsBuf, "header") => eventsCsv = << >>
       /\ RowsOf(eventsCsv) \in Nat /\ RowsOf(eventsBuf) \in Nat
  BY LinesAre DEF LinesInv
<1>16. \/ eventsBuf' = Append(eventsBuf, row) /\ eventsCsv' = eventsCsv
       \/ eventsBuf' = <<row>> /\ eventsCsv' = w
       \/ eventsBuf' = <<rest>> /\ eventsCsv' = WriteOut(eventsCsv, Append(eventsBuf, part))
  BY <1>2, <1>8, <1>9, <1>10, <1>13, SameWriteOut DEF Col!HandleEvent
<1>17. CASE eventsBuf' = Append(eventsBuf, row) /\ eventsCsv' = eventsCsv
  <2>1. RowsOf(eventsBuf') = RowsOf(eventsBuf) + Bit(Foreign(g))
    BY <1>11, <1>15, <1>17, RowsAppend DEF Bit
  <2>2. /\ eventsBuf' \in Seq(BufferLine) /\ eventsBuf' # << >>
        /\ eventsBuf'[1] = IF eventsBuf = << >> THEN row ELSE eventsBuf[1]
    BY <1>11, <1>15, <1>17
  <2>3. LinesInv'
    <3>1. HeadIs(eventsBuf', "header") => HeadIs(eventsBuf, "header")
      BY <1>11, <2>2 DEF HeadIs
    <3>2. HeadIs(eventsBuf, "rest") => HeadIs(eventsBuf', "rest")
      BY <2>2 DEF HeadIs
    <3> QED
      BY <1>12, <1>15, <1>17, <2>2, <3>1, <3>2 DEF LinesInv
  <2> QED
    BY <1>6, <1>7, <1>15, <1>17, <2>1, <2>3
<1>18. CASE eventsBuf' = <<row>> /\ eventsCsv' = w
  <2>1. RowsOf(eventsBuf') = Bit(Foreign(g))
    BY <1>11, <1>18, RowsOne DEF Bit
  <2>2. LinesInv'
    <3>1. <<row>> \in Seq(BufferLine) /\ ~HeadIs(<<row>>, "header")
      BY <1>11 DEF HeadIs
    <3> QED
      BY <1>12, <1>14, <1>18, <3>1 DEF LinesInv
  <2> QED
    BY <1>6, <1>7, <1>14, <1>15, <1>18, <2>1, <2>2
<1>19. CASE eventsBuf' = <<rest>> /\ eventsCsv' = WriteOut(eventsCsv, Append(eventsBuf, part))
  <2>1. RowsOf(eventsBuf') = Bit(Foreign(g))
    BY <1>11, <1>19, RowsOne DEF Bit
  <2>2. eventsCsv' = Append(w, part)
    <3>1. eventsBuf # << >> \/ ~LastIn(eventsCsv, Open)
      BY <1>15 DEF HeadIs
    <3> QED
      BY <1>11, <1>13, <1>15, <1>19, <3>1, AppendedLast
  <2>3. eventsCsv' \in Seq(AnyLine) /\ RowsOf(eventsCsv') = RowsOf(w)
    <3>1. /\ Append(w, part) \in Seq(AnyLine)
          /\ RowsOf(Append(w, part)) = RowsOf(w) + Bit(part \in ForeignLine)
      BY <1>11, <1>14, RowsAppend
    <3> QED
      BY <1>11, <1>14, <2>2, <3>1 DEF Bit
  <2>4. LinesInv'
    <3>1. /\ <<rest>> \in Seq(BufferLine) /\ ~HeadIs(<<rest>>, "header")
          /\ HeadIs(<<rest>>, "rest")
      BY <1>11 DEF HeadIs
    <3> QED
      BY <1>12, <1>19, <2>3, <3>1 DEF LinesInv
  <2> QED
    BY <1>6, <1>7, <1>14, <1>15, <2>1, <2>3, <2>4
<1> QED
  BY <1>16, <1>17, <1>18, <1>19

-----------------------------------------------------------------------------
ForeignInv == MapsInv /\ RingInv /\ LinesInv /\ BoundInv

LEMMA ForeignInit == Init => ForeignInv
<1> SUFFICES ASSUME Init PROVE ForeignInv
  OBVIOUS
<1>1. /\ events = << >> /\ eventsCsv = << >> /\ eventsBuf = << >> /\ pc = "args"
      /\ switching = [c \in CPUs |-> Bpf!NoSwitch]
  BY DEF Init, Bpf!Init, Col!Init
<1>2. << >> \in Seq({}) /\ << >> \in Seq(AnyLine) /\ << >> \in Seq(BufferLine) /\ Len(<< >>) = 0
  OBVIOUS
<1>3. RingInv
  <2>1. Len(events) = 0 /\ events \in Seq({}) /\ RingSlots \in Nat
    BY <1>1, <1>2, MachineAssumption
  <2>2. DOMAIN switching = CPUs /\ \A c \in CPUs : ~switching[c].active
    BY <1>1 DEF Bpf!NoSwitch
  <2> QED
    BY <2>1, <2>2 DEF RingInv
<1>4. LinesInv
  BY <1>1, <1>2 DEF LinesInv, HeadIs, LastIn
<1>5. BoundInv
  BY <1>1 DEF BoundInv, NoRowsYet
<1> QED
  BY <1>3, <1>4, <1>5, MapsInit DEF ForeignInv

LEMMA TotalIsNat ==
  ASSUME RingInv, LinesInv
  PROVE  ForeignTotal \in Nat
<1>1. PICK S : events \in Seq(S)
  BY DEF RingInv
<1>2. Cardinality(ForeignIn(events)) \in Nat
  BY <1>1, EventsCount
<1> QED
  BY <1>2, LinesAre, TotalIs

LEMMA RingAndLines ==
  ASSUME ForeignInv, [Next]_tracingVars
  PROVE  RingInv' /\ LinesInv' /\ args' = args
<1>1. CASE KernelRuns
  <2>1. args' = args /\ Bpf!KernelStep
    BY <1>1 DEF KernelRuns, colOwn
  <2>2. RingInv'
    BY <2>1, KernelBounded DEF ForeignInv
  <2>3. LinesInv'
    BY <1>1 DEF KernelRuns, colOwn, ForeignInv, LinesInv, HeadIs, LastIn
  <2> QED
    BY <2>1, <2>2, <2>3
<1>2. CASE CollectorRuns /\ Col!HandleEvent
  <2>1. switching' = switching /\ args' = args
    BY <1>2 DEF CollectorRuns, bpfOwn, Col!HandleEvent
  <2> QED
    BY <1>2, <2>1, HandleBounded DEF ForeignInv
<1>3. CASE CollectorRuns /\ (Private \/ Col!AttachNext \/ Col!SetTarget \/ Col!SetConfig)
  <2>1. switching' = switching /\ args' = args /\ events' = events
    BY <1>3, FilesCases DEF CollectorRuns, bpfOwn
  <2>2. LinesInv'
    BY <1>3, FilesCases, FilesBounded DEF ForeignInv
  <2>3. RingInv'
    BY <2>1 DEF RingInv, ForeignInv
  <2> QED
    BY <2>1, <2>2, <2>3
<1>4. CASE UNCHANGED tracingVars
  BY <1>4 DEF tracingVars, bpfOwn, colOwn, ForeignInv, RingInv, LinesInv, HeadIs, LastIn
<1> QED
  BY <1>1, <1>2, <1>3, <1>4, StepCases DEF Next, CollectorRuns

LEMMA NextNats ==
  ASSUME ForeignInv, [Next]_tracingVars
  PROVE  /\ Cardinality(ForeignIn(events)) \in Nat /\ Cardinality(ForeignIn(events')) \in Nat
         /\ RowsOf(eventsCsv) \in Nat /\ RowsOf(eventsBuf) \in Nat
         /\ RowsOf(eventsCsv') \in Nat /\ RowsOf(eventsBuf') \in Nat
         /\ Cardinality(Unfiltered) \in Nat /\ Cardinality(Unfiltered') \in Nat
<1>1. (\E S : events \in Seq(S)) /\ \E S : events' \in Seq(S)
  BY RingAndLines DEF RingInv, ForeignInv
<1>2. Cardinality(ForeignIn(events)) \in Nat /\ Cardinality(ForeignIn(events')) \in Nat
  BY <1>1, EventsCount
<1>3. eventsCsv' \in Seq(AnyLine) /\ eventsBuf' \in Seq(AnyLine)
  BY RingAndLines, LinesAreLines DEF LinesInv
<1>4. Unfiltered' \subseteq CPUs /\ IsFiniteSet(CPUs)
  BY MachineAssumption DEF Unfiltered
<1>5. Cardinality(Unfiltered') \in Nat
  BY <1>4, FS_Subset, FS_CardinalityType
<1> QED
  BY <1>2, <1>3, <1>5, LinesAre, RowsAre, UnfilteredFinite DEF ForeignInv

(* Once the target is set nothing adds to the total and to the handlers     *)
(* that latched another one together.                                       *)
LEMMA TotalShrinks ==
  ASSUME ForeignInv, [Next]_tracingVars, Followed # 0, target = Followed
  PROVE  ForeignTotal' + Cardinality(Unfiltered') <= ForeignTotal + Cardinality(Unfiltered)
<1>0. /\ args' = args
      /\ ForeignTotal = Cardinality(ForeignIn(events)) + RowsOf(eventsCsv) + RowsOf(eventsBuf)
      /\ ForeignTotal' = Cardinality(ForeignIn(events')) + RowsOf(eventsCsv') + RowsOf(eventsBuf')
  BY RingAndLines, SameFollowed, TotalIs
<1>1. /\ Cardinality(ForeignIn(events)) \in Nat /\ Cardinality(ForeignIn(events')) \in Nat
      /\ RowsOf(eventsCsv) \in Nat /\ RowsOf(eventsBuf) \in Nat
      /\ RowsOf(eventsCsv') \in Nat /\ RowsOf(eventsBuf') \in Nat
      /\ Cardinality(Unfiltered) \in Nat /\ Cardinality(Unfiltered') \in Nat
  BY NextNats
<1>2. CASE KernelRuns
  <2>1. Bpf!KernelStep /\ UNCHANGED <<eventsCsv, eventsBuf>>
    BY <1>2 DEF KernelRuns, colOwn
  <2>2. Cardinality(ForeignIn(events')) + Cardinality(Unfiltered')
          <= Cardinality(ForeignIn(events)) + Cardinality(Unfiltered)
    BY <1>0, <2>1, KernelBounded DEF ForeignInv
  <2> QED
    BY <1>0, <1>1, <2>1, <2>2
<1>3. ASSUME switching' = switching PROVE Unfiltered' = Unfiltered
  BY <1>0, <1>3, SameFollowed DEF Unfiltered
<1>4. CASE CollectorRuns /\ Col!HandleEvent
  <2>1. switching' = switching
    BY <1>4 DEF CollectorRuns, bpfOwn
  <2>2. Cardinality(ForeignIn(events')) + RowsOf(eventsCsv') + RowsOf(eventsBuf')
          <= Cardinality(ForeignIn(events)) + RowsOf(eventsCsv) + RowsOf(eventsBuf)
    BY <1>4, <2>1, HandleBounded DEF ForeignInv
  <2> QED
    BY <1>0, <1>1, <1>3, <2>1, <2>2
<1>5. CASE CollectorRuns /\ (Private \/ Col!AttachNext \/ Col!SetTarget \/ Col!SetConfig)
  <2>1. switching' = switching /\ events' = events
    BY <1>5, FilesCases DEF CollectorRuns, bpfOwn
  <2>2. RowsOf(eventsCsv') + RowsOf(eventsBuf') <= RowsOf(eventsCsv) + RowsOf(eventsBuf)
    BY <1>5, FilesCases, FilesBounded DEF ForeignInv
  <2> QED
    BY <1>0, <1>1, <1>3, <2>1, <2>2
<1>6. CASE UNCHANGED tracingVars
  <2>1. UNCHANGED <<switching, events, eventsCsv, eventsBuf>>
    BY <1>6 DEF tracingVars, bpfOwn, colOwn
  <2> QED
    BY <1>0, <1>1, <1>3, <2>1
<1> QED
  BY <1>2, <1>4, <1>5, <1>6, StepCases DEF Next, CollectorRuns

(* As it is set, the ring is all that can hold anything foreign.            *)
LEMMA TargetSet ==
  ASSUME RingInv, NoRowsYet
  PROVE  /\ ForeignTotal <= RingSlots /\ ForeignTotal \in Nat
<1>1. PICK S : events \in Seq(S)
  BY DEF RingInv
<1>2. Cardinality(ForeignIn(events)) \in Nat /\ Cardinality(ForeignIn(events)) <= Len(events)
      /\ Len(events) \in Nat
  BY <1>1, EventsCount
<1>3. RowsOf(eventsCsv) = 0 /\ RowsOf(eventsBuf) = 0
  BY NoRows DEF NoRowsYet
<1> QED
  BY <1>2, <1>3, TotalIs, MachineAssumption DEF RingInv

LEMMA BoundNext == ForeignInv /\ [Next]_tracingVars => BoundInv'
<1> SUFFICES ASSUME ForeignInv, [Next]_tracingVars, Followed' # 0
             PROVE  \/ NoRowsYet'
                    \/ target' = Followed'
                       /\ ForeignTotal' + Cardinality(Unfiltered') <= RingSlots + Cardinality(CPUs)
  BY DEF BoundInv
<1>0. args' = args /\ Followed' = Followed /\ Followed # 0
  BY RingAndLines, SameFollowed
<1>1. CASE target = Followed
  <2>1. ForeignTotal + Cardinality(Unfiltered) <= RingSlots + Cardinality(CPUs)
    <3>1. CASE NoRowsYet
      BY <3>1, TargetSet, UnfilteredFinite, MachineAssumption DEF ForeignInv
    <3> QED
      BY <1>0, <3>1 DEF ForeignInv, BoundInv
  <2>2. ForeignTotal' + Cardinality(Unfiltered') <= ForeignTotal + Cardinality(Unfiltered)
    BY <1>0, <1>1, TotalShrinks
  <2>3. target' = target
    <3>1. pc # "target"
      BY <1>0, <1>1 DEF ForeignInv, MapsInv, Before
    <3> QED
      BY <3>1, KernelLeaves, PrivateShares, StepCases
      DEF Next, KernelRuns, CollectorRuns, Col!AttachNext, Col!SetTarget, Col!SetConfig,
          Col!HandleEvent, tracingVars
  <2>4. ForeignTotal' + Cardinality(Unfiltered') <= RingSlots + Cardinality(CPUs)
    <3>1. /\ ForeignTotal \in Nat /\ ForeignTotal' \in Nat
          /\ Cardinality(Unfiltered) \in Nat /\ Cardinality(Unfiltered') \in Nat
          /\ RingSlots \in Nat /\ Cardinality(CPUs) \in Nat
      <4>1. /\ Cardinality(ForeignIn(events')) \in Nat
            /\ RowsOf(eventsCsv') \in Nat /\ RowsOf(eventsBuf') \in Nat
        BY NextNats
      <4>2. ForeignTotal' \in Nat
        BY <1>0, <4>1, SameFollowed
      <4> QED
        BY <4>2, TotalIsNat, NextNats, UnfilteredFinite, MachineAssumption DEF ForeignInv
    <3> QED
      BY <2>1, <2>2, <3>1
  <2> QED
    BY <1>0, <1>1, <2>3, <2>4
<1>2. CASE target # Followed
  <2>1. NoRowsYet
    BY <1>0, <1>2 DEF ForeignInv, BoundInv
  <2>2. CASE KernelRuns
    BY <2>1, <2>2 DEF KernelRuns, colOwn, NoRowsYet
  <2>3. CASE CollectorRuns
    <3>1. CASE Col!SetTarget
      <4>1. CASE pc' = "failed"
        BY <2>1, <3>1, <4>1 DEF Col!SetTarget, NoRowsYet, Col!files
      <4>2. CASE target' = Col!Effective(args).filter_tgid
        <5>1. target' = Followed' /\ UNCHANGED <<events, eventsCsv, eventsBuf>>
          BY <1>0, <3>1, <4>2 DEF Col!SetTarget, Followed, Wanted, Col!files
        <5>2. ForeignTotal' = ForeignTotal
          BY <1>0, <5>1, SameFollowed, TotalIs
        <5>3. ForeignTotal <= RingSlots /\ ForeignTotal \in Nat
          BY <2>1, TargetSet DEF ForeignInv
        <5>4. Unfiltered' \subseteq CPUs /\ IsFiniteSet(CPUs)
          BY MachineAssumption DEF Unfiltered
        <5>5. /\ Cardinality(Unfiltered') <= Cardinality(CPUs)
              /\ Cardinality(Unfiltered') \in Nat /\ Cardinality(CPUs) \in Nat
          BY <5>4, FS_Subset, FS_CardinalityType
        <5> QED
          BY <5>1, <5>2, <5>3, <5>5, MachineAssumption
      <4> QED
        BY <3>1, <4>1, <4>2 DEF Col!SetTarget
    <3>2. CASE Col!ParseArgs \/ Col!Load \/ Col!AttachNext
      BY <2>1, <3>2 DEF Col!ParseArgs, Col!Load, Col!AttachNext, NoRowsYet, Col!files
    <3> QED
      BY <2>1, <2>3, <3>1, <3>2
      DEF CollectorRuns, NoRowsYet, Col!Step, Col!SetConfig, Col!NewRing, Col!OpenEvents,
          Col!OpenDataset, Col!Loop, Col!HandleEvent, Col!PollReturns, Col!PollInterrupted,
          Col!EndWindow, Col!Final, Col!Close
  <2>4. CASE UNCHANGED tracingVars
    BY <2>1, <2>4 DEF tracingVars, colOwn, NoRowsYet
  <2> QED
    BY <2>2, <2>3, <2>4 DEF Next
<1> QED
  BY <1>1, <1>2

LEMMA ForeignNext == ForeignInv /\ [Next]_tracingVars => ForeignInv'
  BY MapsNext, RingAndLines, BoundNext DEF ForeignInv

(* Events of other thread groups get into the ring before the target is     *)
(* set, but for any tasks, CPUs, commands and sizes no more of them ever    *)
(* reach the files than the ring could hold then, and one for each          *)
(* sched_switch that was between its first line and its last.               *)
THEOREM ForeignFew == Spec => []ForeignBounded
<1>1. ForeignInv => ForeignBounded
  <2> SUFFICES ASSUME ForeignInv PROVE ForeignBounded
    OBVIOUS
  <2>0. RingSlots \in Nat /\ Cardinality(CPUs) \in Nat /\ Cardinality(Unfiltered) \in Nat
    BY MachineAssumption, UnfilteredFinite
  <2>1. CASE Followed = 0
    <3>1. \A g : ~Foreign(g)
      BY <2>1 DEF Foreign, Followed
    <3>2. ForeignEvents = {} /\ ForeignRows(eventsCsv) = {} /\ ForeignRows(eventsBuf) = {}
      BY <3>1 DEF ForeignEvents, ForeignRows
    <3>3. Cardinality({}) = 0
      BY FS_EmptySet
    <3> QED
      BY <2>0, <3>2, <3>3 DEF ForeignBounded
  <2>2. CASE Followed # 0
    <3>1. ForeignTotal \in Nat
      BY TotalIsNat DEF ForeignInv
    <3>2. CASE NoRowsYet
      BY <2>0, <3>1, <3>2, TargetSet DEF ForeignInv, ForeignBounded, ForeignTotal
    <3>3. CASE ForeignTotal + Cardinality(Unfiltered) <= RingSlots + Cardinality(CPUs)
      BY <2>0, <3>1, <3>3 DEF ForeignBounded, ForeignTotal
    <3> QED
      BY <2>2, <3>2, <3>3 DEF ForeignInv, BoundInv
  <2> QED
    BY <2>1, <2>2
<1> QED
  BY <1>1, ForeignInit, ForeignNext, PTL DEF Spec
=============================================================================
