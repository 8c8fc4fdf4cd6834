--------------------------- MODULE CollectorProofs ---------------------------
(***************************************************************************)
(* Proofs about Collector, for any sizes of the window and the ring, any   *)
(* events and any number of runs.                                          *)
(*                                                                         *)
(* A row of dataset.csv is about one window: handle_event adds to the      *)
(* counters and to the array together, and they are reset together, so     *)
(* that the threshold counter and the array of an open window agree until  *)
(* the array is full; a row is made of an open window, and rows are only   *)
(* ever appended.                                                          *)
(*                                                                         *)
(* The files account for the events: as long as nothing was killed, a file *)
(* that ends in the middle of a row has the rest at the head of the buffer *)
(* - and no other line can be bad; a kill takes at most one rest away.     *)
(***************************************************************************)
EXTENDS Collector, CsvLinesProofs

(* A line of dataset.csv that fits together. *)
GoodLine ==
  {r \in [kind : {"header", "stats"}, count : Nat, max : Int, over : Nat] :
     r.kind = "stats" /\ r.count <= MaxStored => (r.over > 0 <=> r.max > OverUs)}

Stored == {latencies[i] : i \in 1..Len(latencies)}
Greatest(m) == m \in Stored /\ \A x \in Stored : x <= m

WindowFits ==
  /\ latencies \in Seq(Int) /\ switch_count \in Nat /\ over \in Nat
  /\ switch_count <= MaxStored =>
       Len(latencies) = switch_count /\ (over > 0 <=> \E x \in Stored : x > OverUs)
  /\ switch_count > MaxStored => Len(latencies) = MaxStored
  /\ latencies # << >> => \E m \in Int : Greatest(m)

RowsInv ==
  /\ events \in Seq(SampleEvents)
  /\ WindowFits
  /\ datasetBuf \in {<< >>, <<StatsHeader>>}
  /\ datasetCsv \in Seq(GoodLine)

LEMMA EmptyWindow ==
  /\ << >> \in Seq(Int) /\ Len(<< >>) = 0 /\ 0 \in Nat
  /\ {(<< >>)[i] : i \in 1..0} = {}
  OBVIOUS

LEMMA ResetFits ==
  ASSUME latencies' = << >>, switch_count' = 0, over' = 0
  PROVE  WindowFits'
<1>1. Stored' = {} /\ MaxStored \in Nat
  BY EmptyWindow, CollectorAssumption DEF Stored
<1> QED
  BY <1>1, EmptyWindow DEF WindowFits

(* handle_event adds a latency to the window, or to its counters alone when *)
(* the array is full.                                                       *)
LEMMA KeepFits ==
  ASSUME WindowFits, NEW l \in Int, Keep(l)
  PROVE  WindowFits'
<1>0. /\ latencies \in Seq(Int) /\ switch_count \in Nat /\ over \in Nat
      /\ MaxStored \in Nat \ {0} /\ OverUs \in Nat
      /\ switch_count' = switch_count + 1
      /\ over' = (IF l > OverUs THEN over + 1 ELSE over)
  BY CollectorAssumption DEF WindowFits, Keep
<1>1. CASE switch_count < MaxStored
  <2>1. Len(latencies) = switch_count /\ latencies' = Append(latencies, l)
    BY <1>0, <1>1 DEF WindowFits, Keep
  <2>2. /\ latencies' \in Seq(Int) /\ Len(latencies') = Len(latencies) + 1
        /\ \A i \in 1..Len(latencies) : latencies'[i] = latencies[i]
        /\ latencies'[Len(latencies) + 1] = l
    BY <1>0, <2>1
  <2>3. Stored' = Stored \cup {l}
    <3>1. ASSUME NEW x \in Stored' PROVE x \in Stored \cup {l}
      <4>1. PICK i \in 1..Len(latencies') : x = latencies'[i]
        BY <3>1 DEF Stored
      <4>2. i \in 1..Len(latencies) \/ i = Len(latencies) + 1
        BY <1>0, <2>2
      <4> QED
        BY <2>2, <4>1, <4>2 DEF Stored
    <3>2. ASSUME NEW x \in Stored PROVE x \in Stored'
      <4>1. PICK i \in 1..Len(latencies) : x = latencies[i]
        BY DEF Stored
      <4>2. i \in 1..Len(latencies') /\ x = latencies'[i]
        BY <1>0, <2>2, <4>1
      <4> QED
        BY <4>2 DEF Stored
    <3>3. l \in Stored'
      <4>1. Len(latencies) + 1 \in 1..Len(latencies')
        BY <1>0, <2>2
      <4> QED
        BY <2>2, <4>1 DEF Stored
    <3> QED
      BY <3>1, <3>2, <3>3
  <2>4. \E m \in Int : Greatest(m)'
    <3>1. CASE latencies = << >>
      <4>1. Stored = {}
        BY <3>1, EmptyWindow DEF Stored
      <4> QED
        BY <2>3, <4>1 DEF Greatest
    <3>2. CASE latencies # << >>
      <4>1. PICK m \in Int : Greatest(m)
        BY <3>2 DEF WindowFits
      <4>2. \A x \in Stored : x \in Int
        BY <1>0 DEF Stored
      <4>3. CASE l <= m
        BY <2>3, <4>1, <4>2, <4>3 DEF Greatest
      <4>4. CASE ~(l <= m)
        <5>1. \A x \in Stored : x <= l
          BY <4>1, <4>2, <4>4 DEF Greatest
        <5> QED
          BY <2>3, <5>1 DEF Greatest
      <4> QED
        BY <4>3, <4>4
    <3> QED
      BY <3>1, <3>2
  <2>5. over' > 0 <=> \E x \in Stored' : x > OverUs
    <3>1. over > 0 <=> \E x \in Stored : x > OverUs
      BY <1>0, <1>1 DEF WindowFits
    <3>2. CASE l > OverUs
      <4>1. over' > 0 /\ l \in Stored'
        BY <1>0, <2>3, <3>2
      <4> QED
        BY <3>2, <4>1
    <3>3. CASE ~(l > OverUs)
      <4>1. over' = over
        BY <1>0, <3>3
      <4>2. (\E x \in Stored' : x > OverUs) <=> (\E x \in Stored : x > OverUs)
        BY <2>3, <3>3
      <4> QED
        BY <3>1, <4>1, <4>2
    <3> QED
      BY <3>2, <3>3
  <2>6. /\ switch_count' \in Nat /\ over' \in Nat /\ switch_count' <= MaxStored
        /\ ~(switch_count' > MaxStored) /\ Len(latencies') = switch_count'
    BY <1>0, <1>1, <2>1, <2>2
  <2> QED
    BY <2>2, <2>4, <2>5, <2>6 DEF WindowFits
<1>2. CASE ~(switch_count < MaxStored)
  <2>1. Len(latencies) = MaxStored
    <3>1. switch_count = MaxStored \/ switch_count > MaxStored
      BY <1>0, <1>2
    <3> QED
      BY <1>0, <3>1 DEF WindowFits
  <2>2. latencies' = latencies
    BY <1>0, <2>1 DEF Keep
  <2>3. Stored' = Stored
    BY <2>2 DEF Stored
  <2>4. latencies # << >> /\ over' \in Nat
    BY <1>0, <2>1
  <2>5. \E m \in Int : Greatest(m)'
    BY <2>3, <2>4 DEF WindowFits, Greatest
  <2> QED
    BY <1>0, <1>2, <2>1, <2>2, <2>5 DEF WindowFits
<1> QED
  BY <1>1, <1>2

(* The row made of a window that saw an event. *)
LEMMA RowIsGood ==
  ASSUME WindowFits, latencies # << >>
  PROVE  StatsRow \in GoodLine
<1>1. PICK m \in Int : Greatest(m)
  BY DEF WindowFits
<1>2. Range(latencies) = Stored /\ \A x \in Stored : x \in Int
  BY DEF Range, Stored, WindowFits
<1>3. Max(Range(latencies)) \in Stored /\ \A x \in Stored : Max(Range(latencies)) >= x
  BY <1>1, <1>2 DEF Greatest, Max
<1> DEFINE top == Max(Range(latencies))
<1>4. top \in Int /\ top \in Stored /\ \A x \in Stored : top >= x
  BY <1>2, <1>3
<1> HIDE DEF top
<1>5. switch_count <= MaxStored => (over > 0 <=> top > OverUs)
  BY <1>2, <1>4, CollectorAssumption DEF WindowFits
<1>6. StatsRow = [kind |-> "stats", count |-> switch_count, over |-> over, max |-> top]
  BY DEF StatsRow, top
<1> QED
  BY <1>4, <1>5, <1>6 DEF WindowFits, GoodLine

LEMMA BufferIsGood ==
  StatsHeader \in GoodLine /\ << >> \in Seq(GoodLine) /\ <<StatsHeader>> \in Seq(GoodLine)
<1>1. StatsHeader \in GoodLine
  BY DEF StatsHeader, GoodLine
<1> QED
  BY <1>1

LEMMA WriteStatsKeeps ==
  ASSUME RowsInv, WriteStats
  PROVE  /\ datasetBuf' \in {<< >>, <<StatsHeader>>}
         /\ datasetCsv' \in Seq(GoodLine)
<1>1. CASE latencies # << >>
  <2>1. datasetBuf \in Seq(GoodLine) /\ StatsRow \in GoodLine /\ datasetCsv \in Seq(GoodLine)
    BY <1>1, BufferIsGood, RowIsGood DEF RowsInv
  <2>2. Append(datasetBuf, StatsRow) \in Seq(GoodLine)
    BY <2>1
  <2>3. datasetCsv \o Append(datasetBuf, StatsRow) \in Seq(GoodLine)
    BY <2>1, <2>2
  <2> QED
    BY <1>1, <2>3 DEF WriteStats
<1>2. CASE latencies = << >>
  BY <1>2 DEF WriteStats, RowsInv
<1> QED
  BY <1>1, <1>2

-----------------------------------------------------------------------------
LEMMA RowsInit == Init => RowsInv
<1> SUFFICES ASSUME Init PROVE RowsInv
  OBVIOUS
<1>1. Stored = {} /\ MaxStored \in Nat
  BY EmptyWindow, CollectorAssumption DEF Stored, Init
<1>2. << >> \in Seq(SampleEvents)
  OBVIOUS
<1> QED
  BY <1>1, <1>2, EmptyWindow, BufferIsGood DEF Init, RowsInv, WindowFits

LEMMA WindowUnchanged ==
  ASSUME WindowFits, UNCHANGED window
  PROVE  WindowFits'
  BY DEF WindowFits, window, Stored, Greatest

(* The steps that change neither the window nor dataset.csv. *)
Elsewhere ==
  \/ ParseArgs \/ Load \/ AttachNext \/ SetTarget \/ SetConfig \/ NewRing \/ OpenEvents
  \/ Loop \/ PollReturns \/ PollInterrupted \/ Tick

LEMMA ElsewhereKeeps ==
  ASSUME Elsewhere
  PROVE  UNCHANGED <<events, window, datasetBuf, datasetCsv>>
  BY DEF Elsewhere, ParseArgs, Load, AttachNext, SetTarget, SetConfig, NewRing, OpenEvents,
         Loop, PollReturns, PollInterrupted, Tick, shared, files

LEMMA RowsNext == RowsInv /\ [Next]_colVars => RowsInv'
<1> SUFFICES ASSUME RowsInv, [Next]_colVars PROVE RowsInv'
  OBVIOUS
<1>1. CASE Elsewhere
  BY <1>1, ElsewhereKeeps, WindowUnchanged DEF RowsInv
<1>2. CASE OpenDataset
  BY <1>2, WindowUnchanged, BufferIsGood DEF OpenDataset, OpenBuffer, RowsInv, shared
<1>3. CASE HandleEvent
  <2>1. events \in Seq(SampleEvents) /\ events # << >>
    BY <1>3 DEF HandleEvent, RowsInv
  <2>2. Head(events) \in SampleEvents /\ Tail(events) \in Seq(SampleEvents)
    BY <2>1
  <2>3. Head(events).latency_ns \div NsPerUs \in Int
    BY <2>2, CollectorAssumption
  <2>4. WindowFits'
    BY <1>3, <2>3, KeepFits DEF HandleEvent, RowsInv
  <2> QED
    BY <1>3, <2>2, <2>4 DEF HandleEvent, RowsInv
<1>4. CASE EndWindow
  <2>1. CASE secondPassed
    <3>1. WriteStats /\ ResetWindow /\ events' = events
      BY <1>4, <2>1 DEF EndWindow, shared
    <3> QED
      BY <3>1, WriteStatsKeeps, ResetFits DEF RowsInv, ResetWindow
  <2>2. CASE ~secondPassed
    BY <1>4, <2>2, WindowUnchanged DEF EndWindow, shared, files, RowsInv
  <2> QED
    BY <2>1, <2>2
<1>5. CASE Final
  BY <1>5, WriteStatsKeeps, WindowUnchanged DEF Final, shared, RowsInv
<1>6. CASE Close
  <2>1. datasetCsv \in Seq(GoodLine) /\ datasetBuf \in Seq(GoodLine)
    BY BufferIsGood DEF RowsInv
  <2>2. datasetCsv \o datasetBuf \in Seq(GoodLine)
    BY <2>1
  <2> QED
    BY <1>6, <2>2, WindowUnchanged DEF Close, shared, RowsInv
<1>7. CASE Kill
  BY <1>7, WindowUnchanged DEF Kill, shared, RowsInv
<1>8. CASE SigInt
  BY <1>7, <1>8, WindowUnchanged DEF SigInt, shared, files, RowsInv
<1>9. CASE Restart
  <2>1. << >> \in Seq(SampleEvents)
    OBVIOUS
  <2> QED
    BY <1>9, <2>1, ResetFits DEF Restart, files, RowsInv
<1>10. CASE Produce
  <2>1. PICK e \in SampleEvents : events' = Append(events, e)
    BY <1>10 DEF Produce
  <2>2. events' \in Seq(SampleEvents)
    BY <2>1 DEF RowsInv
  <2> QED
    BY <1>10, <2>2, WindowUnchanged DEF Produce, own, files, RowsInv
<1>11. CASE UNCHANGED colVars
  BY <1>11, WindowUnchanged DEF colVars, shared, own, files, RowsInv
<1> QED
  BY <1>1, <1>2, <1>3, <1>4, <1>5, <1>6, <1>7, <1>8, <1>9, <1>10, <1>11
  DEF Next, Step, Elsewhere

(* A row of dataset.csv is about one window: as long as the array was not   *)
(* full, its threshold counter is positive exactly when its greatest        *)
(* latency is over the threshold, over any number of windows, failures,     *)
(* interrupts, kills and runs.                                              *)
THEOREM RowsFit == Spec => []RowsConsistent
<1>1. RowsInv => RowsConsistent
  <2> SUFFICES ASSUME RowsInv, NEW i \in 1..Len(datasetCsv) PROVE datasetCsv[i] \in GoodLine
    BY DEF RowsConsistent, GoodLine
  <2> QED
    BY DEF RowsInv
<1> QED
  BY <1>1, RowsInit, RowsNext, PTL DEF Spec
-----------------------------------------------------------------------------
(* The two files, and what their buffers hold.                              *)
HeaderFirst(f) ==
  /\ f # << >> => f[1].kind = "header"
  /\ \A i \in 2..Len(f) : f[i].kind # "header"

EventsOpen == pc \in {"dataset", "loop", "poll", "window", "final"}

(* A header is the first line, of the file or of the buffer; a rest can     *)
(* only come first in the buffer, where the file ends in the middle of a    *)
(* row.                                                                     *)
EventsInv ==
  /\ eventsCsv \in Seq(CsvLine) /\ HeaderFirst(eventsCsv)
  /\ eventsBuf \in Seq(BufferLine) /\ \A i \in 2..Len(eventsBuf) : eventsBuf[i].kind = "row"
  /\ ~EventsOpen => eventsBuf = << >>
  /\ EventsOpen => (eventsCsv = << >> <=> HeadIs(eventsBuf, "header"))
  /\ HeadIs(eventsBuf, "rest") => LastIn(eventsCsv, Open)

(* A line is damaged for good only by a kill: without one, the last line is *)
(* a part that waits for its rest.                                          *)
Waiting == HeadIs(eventsBuf, "rest") /\ LastIn(eventsCsv, {"part"})

DamageInv == CountOf(Damaged, eventsCsv) <= kills + (IF Waiting THEN 1 ELSE 0)

RowsHandled ==
  kills = 0 => CountOf({"row"}, eventsCsv) + CountOf({"row", "rest"}, eventsBuf) = handled

(* dataset.csv, and the window that is open. *)
DatasetOpen == pc \in {"loop", "poll", "window", "final", "closing"}
OpenCount == IF pc \in Ended \cup {"closing"} THEN 0 ELSE switch_count

DatasetInv ==
  /\ HeaderFirst(datasetCsv)
  /\ ~DatasetOpen => datasetBuf = << >>
  /\ DatasetOpen => (datasetCsv = << >> <=> datasetBuf # << >>)
  /\ IsFiniteSet(Counted(datasetCsv))
  /\ pc \in {"args", "load", "attach", "target", "config", "ring", "events", "dataset", "failed"}
        => switch_count = 0
  /\ kills = 0 => Total(datasetCsv) + OpenCount = handled

-----------------------------------------------------------------------------
(* What writing the buffer of ebpf_events.csv out leaves.                   *)
LEMMA BufferKinds ==
  ASSUME EventsInv
  PROVE  /\ eventsCsv \in Seq(AnyLine) /\ eventsBuf \in Seq(AnyLine)
         /\ eventsBuf # << >> =>
              /\ eventsBuf[1].kind \in {"header", "row", "rest"}
              /\ Tail(eventsBuf) \in Seq(AnyLine)
              /\ \A i \in 1..Len(Tail(eventsBuf)) : Tail(eventsBuf)[i].kind = "row"
         /\ ~LastIn(eventsCsv, Open) =>
              \A i \in 1..Len(eventsBuf) : eventsBuf[i].kind \in {"header", "row"}
<1>1. eventsCsv \in Seq(AnyLine) /\ eventsBuf \in Seq(AnyLine)
  BY LinesAreLines DEF EventsInv
<1>2. eventsBuf \in Seq(BufferLine) /\ \A i \in 2..Len(eventsBuf) : eventsBuf[i].kind = "row"
  BY DEF EventsInv
<1>3. CASE eventsBuf = << >>
  <2>1. Len(eventsBuf) = 0
    BY <1>3
  <2> QED
    BY <1>1, <1>3, <2>1
<1>4. CASE eventsBuf # << >>
  <2>1. /\ eventsBuf[1] \in BufferLine /\ Len(eventsBuf) \in Nat \ {0}
        /\ Len(Tail(eventsBuf)) = Len(eventsBuf) - 1
        /\ Tail(eventsBuf) \in Seq(AnyLine)
        /\ \A i \in 1..Len(Tail(eventsBuf)) :
             i + 1 \in 2..Len(eventsBuf) /\ Tail(eventsBuf)[i] = eventsBuf[i + 1]
    <3>1. eventsBuf[1] \in BufferLine
      BY <1>2, <1>4
    <3> QED
      BY <1>1, <1>4, <3>1, FirstAndRest
  <2>2. eventsBuf[1].kind \in {"header", "row", "rest"}
    BY <2>1 DEF BufferLine
  <2>3. \A i \in 1..Len(Tail(eventsBuf)) : Tail(eventsBuf)[i].kind = "row"
    BY <1>2, <2>1
  <2>4. ASSUME ~LastIn(eventsCsv, Open), NEW i \in 1..Len(eventsBuf)
        PROVE  eventsBuf[i].kind \in {"header", "row"}
    <3>1. CASE i = 1
      BY <1>4, <2>2, <2>4, <3>1 DEF EventsInv, HeadIs
    <3>2. CASE i # 1
      <4>1. i \in 2..Len(eventsBuf)
        BY <2>1, <3>2
      <4> QED
        BY <1>2, <4>1
    <3> QED
      BY <3>1, <3>2
  <2> QED
    BY <1>1, <2>1, <2>2, <2>3, <2>4
<1> QED
  BY <1>3, <1>4

LEMMA OpenEndIsLater ==
  ASSUME EventsInv, LastIn(eventsCsv, Open)
  PROVE  Len(eventsCsv) \in Nat /\ Len(eventsCsv) >= 2
<1>1. /\ eventsCsv # << >> /\ Len(eventsCsv) \in Nat \ {0}
      /\ eventsCsv[1].kind = "header"
  BY DEF EventsInv, LastIn, HeaderFirst
<1>2. eventsCsv[Len(eventsCsv)].kind # "header"
  BY DEF LastIn, Open
<1> QED
  BY <1>1, <1>2

LEMMA WrittenIsFile ==
  ASSUME EventsInv, EventsOpen, NEW g, g = WriteOut(eventsCsv, eventsBuf)
  PROVE  g \in Seq(CsvLine) /\ g # << >> /\ HeaderFirst(g)
<1>0. /\ eventsCsv \in Seq(CsvLine) /\ HeaderFirst(eventsCsv)
      /\ eventsBuf \in Seq(BufferLine)
      /\ \A i \in 2..Len(eventsBuf) : eventsBuf[i].kind = "row"
      /\ eventsCsv = << >> <=> HeadIs(eventsBuf, "header")
  BY DEF EventsInv
<1>1. CASE eventsBuf = << >>
  <2>1. g = eventsCsv /\ eventsCsv # << >>
    BY <1>0, <1>1, WriteOutEmpty DEF HeadIs
  <2> QED
    BY <1>0, <2>1
<1>2. CASE eventsBuf # << >> /\ ~LastIn(eventsCsv, Open)
  <2>1. \A i \in 1..Len(eventsBuf) :
          eventsBuf[i] \in CsvLine /\ eventsBuf[i].kind \in {"header", "row"}
    <3>1. \A i \in 1..Len(eventsBuf) : eventsBuf[i] \in BufferLine
      BY <1>0
    <3> QED
      BY <1>2, <3>1, BufferKinds DEF BufferLine, CsvLine
  <2>2. eventsBuf \in Seq(CsvLine)
    BY <1>0, <2>1, StaysSeq
  <2>3. /\ g \in Seq(CsvLine) /\ Len(g) = Len(eventsCsv) + Len(eventsBuf)
        /\ \A i \in 1..Len(eventsCsv) : g[i] = eventsCsv[i]
        /\ \A i \in 1..Len(eventsBuf) : g[Len(eventsCsv) + i] = eventsBuf[i]
    <3>1. PICK f : f = eventsCsv
      OBVIOUS
    <3>2. PICK b : b = eventsBuf
      OBVIOUS
    <3>3. f \in Seq(CsvLine) /\ b \in Seq(CsvLine) /\ b # << >> /\ ~LastIn(f, Open)
      BY <1>0, <1>2, <2>2, <3>1, <3>2
    <3>4. /\ WriteOut(f, b) \in Seq(CsvLine) /\ Len(WriteOut(f, b)) = Len(f) + Len(b)
          /\ \A i \in 1..Len(f) : WriteOut(f, b)[i] = f[i]
          /\ \A i \in 1..Len(b) : WriteOut(f, b)[Len(f) + i] = b[i]
      BY <3>3, WriteOutClosed
    <3> QED
      BY <3>1, <3>2, <3>4
  <2>4. Len(eventsCsv) \in Nat /\ Len(eventsBuf) \in Nat \ {0}
    BY <1>0, <1>2
  <2>5. CASE eventsCsv = << >>
    <3>1. Len(eventsCsv) = 0 /\ eventsBuf[1].kind = "header"
      BY <1>0, <2>5 DEF HeadIs
    <3>2. Len(g) = Len(eventsBuf) /\ \A i \in 1..Len(eventsBuf) : g[i] = eventsBuf[i]
      BY <2>3, <2>4, <3>1
    <3> QED
      BY <1>0, <2>3, <2>4, <3>1, <3>2 DEF HeaderFirst
  <2>6. CASE eventsCsv # << >>
    <3>1. Len(eventsCsv) \in Nat \ {0} /\ eventsCsv[1].kind = "header"
      BY <1>0, <2>6 DEF HeaderFirst
    <3>2. eventsBuf[1].kind # "header"
      BY <1>0, <1>2, <2>6 DEF HeadIs
    <3>3. \A i \in 1..Len(eventsBuf) : eventsBuf[i].kind # "header"
      BY <1>0, <2>4, <3>2
    <3>4. ASSUME NEW i \in 2..Len(g) PROVE g[i].kind # "header"
      <4>1. CASE i <= Len(eventsCsv)
        <5>1. i \in 2..Len(eventsCsv) /\ i \in 1..Len(eventsCsv)
          BY <3>1, <4>1
        <5> QED
          BY <1>0, <2>3, <5>1 DEF HeaderFirst
      <4>2. CASE ~(i <= Len(eventsCsv))
        <5>1. i - Len(eventsCsv) \in 1..Len(eventsBuf)
              /\ i = Len(eventsCsv) + (i - Len(eventsCsv))
          BY <2>3, <2>4, <4>2
        <5>2. g[i] = eventsBuf[i - Len(eventsCsv)]
          BY <2>3, <5>1
        <5> QED
          BY <3>3, <5>1, <5>2
      <4> QED
        BY <4>1, <4>2
    <3>5. g[1] = eventsCsv[1] /\ g # << >>
      BY <2>3, <2>4, <3>1
    <3> QED
      BY <2>3, <3>1, <3>4, <3>5 DEF HeaderFirst
  <2> QED
    BY <2>5, <2>6
<1>3. CASE eventsBuf # << >> /\ LastIn(eventsCsv, Open)
  <2>1. PICK j : j = JoinedTo(eventsCsv, eventsBuf[1])
    OBVIOUS
  <2>2. PICK n : n = Len(eventsCsv)
    OBVIOUS
  <2>3. n \in Nat /\ n >= 2 /\ Len(eventsBuf) \in Nat \ {0}
    BY <1>0, <1>3, <2>2, OpenEndIsLater
  <2>4. /\ j \in AnyLine /\ g \in Seq(AnyLine) /\ Len(g) = n + Len(eventsBuf) - 1
        /\ \A i \in 1..(n - 1) : g[i] = eventsCsv[i]
        /\ g[n] = j
        /\ \A i \in 1..(Len(eventsBuf) - 1) : g[n + i] = eventsBuf[i + 1]
    <3>1. PICK f : f = eventsCsv
      OBVIOUS
    <3>2. PICK b : b = eventsBuf
      OBVIOUS
    <3>3. f \in Seq(AnyLine) /\ b \in Seq(AnyLine) /\ b # << >> /\ LastIn(f, Open)
      BY <1>3, <3>1, <3>2, BufferKinds
    <3>4. /\ JoinedTo(f, b[1]) \in AnyLine /\ WriteOut(f, b) \in Seq(AnyLine)
          /\ Len(WriteOut(f, b)) = Len(f) + Len(b) - 1
          /\ \A i \in 1..(Len(f) - 1) : WriteOut(f, b)[i] = f[i]
          /\ WriteOut(f, b)[Len(f)] = JoinedTo(f, b[1])
          /\ \A i \in 1..(Len(b) - 1) : WriteOut(f, b)[Len(f) + i] = b[i + 1]
      BY <3>3, WriteOutOpen
    <3> QED
      BY <2>1, <2>2, <3>1, <3>2, <3>4
  <2>5. j.kind \in {"bad part", "row", "bad"}
    BY <2>1, JoinedLine DEF JoinedTo, Line
  <2>6. ASSUME NEW i \in 1..Len(g)
        PROVE  g[i] \in CsvLine /\ (i >= 2 => g[i].kind # "header")
    <3>1. CASE i < n
      <4>1. i \in 1..(n - 1) /\ i \in 1..n /\ (i >= 2 => i \in 2..n)
        BY <2>3, <3>1
      <4> QED
        <5>1. g[i] = eventsCsv[i]
          BY <2>4, <4>1
        <5>2. i \in 1..Len(eventsCsv) /\ (i >= 2 => i \in 2..Len(eventsCsv))
          BY <2>2, <4>1
        <5>3. eventsCsv[i] \in CsvLine
          BY <1>0, <5>2
        <5>4. i >= 2 => eventsCsv[i].kind # "header"
          BY <1>0, <5>2 DEF HeaderFirst
        <5> QED
          BY <5>1, <5>3, <5>4
    <3>2. CASE i = n
      <4>1. j \in CsvLine /\ j.kind # "header"
        BY <2>4, <2>5 DEF AnyLine, CsvLine
      <4> QED
        BY <2>4, <3>2, <4>1
    <3>3. CASE i > n
      <4>1. /\ i - n \in 1..(Len(eventsBuf) - 1) /\ i = n + (i - n)
            /\ i - n + 1 \in 2..Len(eventsBuf) /\ i - n + 1 \in 1..Len(eventsBuf)
        BY <2>3, <2>4, <3>3
      <4>2. g[i] = eventsBuf[i - n + 1]
        BY <2>4, <4>1
      <4>3. eventsBuf[i - n + 1] \in BufferLine /\ eventsBuf[i - n + 1].kind = "row"
        BY <1>0, <4>1
      <4> QED
        BY <4>2, <4>3 DEF BufferLine, CsvLine
    <3> QED
      BY <2>3, <3>1, <3>2, <3>3
  <2>7. g \in Seq(CsvLine)
    BY <2>4, <2>6, StaysSeq
  <2>8. Len(g) >= 2 /\ g # << >>
    BY <2>3, <2>4
  <2>9. g[1].kind = "header"
    <3>1. eventsCsv[1].kind = "header"
      BY <1>0, <1>3 DEF HeaderFirst, LastIn
    <3> QED
      BY <2>3, <2>4, <3>1
  <2> QED
    BY <2>4, <2>6, <2>7, <2>8, <2>9 DEF HeaderFirst
<1> QED
  BY <1>1, <1>2, <1>3

(* A kill that is to blame for the damage is behind it already.             *)
LEMMA OpenEnd ==
  ASSUME EventsInv, DamageInv, kills \in Nat
  PROVE  /\ CountOf(Damaged, eventsCsv) \in Nat
         /\ LastIn(eventsCsv, Open) /\ kills = 0 => Waiting
         /\ ~Waiting => CountOf(Damaged, eventsCsv) <= kills
         /\ Waiting => CountOf(Damaged, eventsCsv) <= kills + 1
<1>1. CountOf(Damaged, eventsCsv) \in Nat
  BY BufferKinds, CountIs
<1>2. ~Waiting => CountOf(Damaged, eventsCsv) <= kills
  BY <1>1 DEF DamageInv
<1>3. ASSUME LastIn(eventsCsv, Open), kills = 0, ~Waiting PROVE FALSE
  <2>1. LastIn(eventsCsv, Damaged)
    BY <1>3 DEF LastIn, Open, Damaged
  <2>2. CountOf(Damaged, eventsCsv) > 0
    BY <2>1, BufferKinds, CountLast
  <2> QED
    BY <1>1, <1>2, <1>3, <2>2
<1> QED
  BY <1>1, <1>2, <1>3 DEF DamageInv

LEMMA WrittenDamage ==
  ASSUME EventsInv, DamageInv, kills \in Nat
  PROVE  CountOf(Damaged, WriteOut(eventsCsv, eventsBuf)) <= kills
<1>0. eventsCsv \in Seq(AnyLine) /\ eventsBuf \in Seq(AnyLine)
  BY BufferKinds
<1>1. CASE eventsBuf = << >>
  BY <1>1, WriteOutEmpty, OpenEnd DEF Waiting, HeadIs
<1>2. CASE eventsBuf # << >> /\ ~LastIn(eventsCsv, Open)
  <2>1. \A i \in 1..Len(eventsBuf) : eventsBuf[i].kind \notin Damaged
    BY <1>2, BufferKinds DEF Damaged
  <2>2. CountOf(Damaged, eventsBuf) = 0
    BY <1>0, <2>1, CountNone
  <2>3. ~Waiting
    BY <1>2 DEF Waiting, LastIn, Open
  <2>4. CountOf(Damaged, WriteOut(eventsCsv, eventsBuf))
          = CountOf(Damaged, eventsCsv) + CountOf(Damaged, eventsBuf)
    BY <1>0, <1>2, CountWrittenClosed
  <2> QED
    BY <2>2, <2>3, <2>4, OpenEnd
<1>3. CASE eventsBuf # << >> /\ LastIn(eventsCsv, Open)
  <2>1. CountOf(Damaged, Tail(eventsBuf)) = 0
    BY <1>3, BufferKinds, CountAllRows
  <2>2. PICK j : j = Joined(eventsCsv[Len(eventsCsv)].kind, eventsBuf[1].kind)
    OBVIOUS
  <2>3. eventsCsv[Len(eventsCsv)].kind \in Damaged
    BY <1>3 DEF LastIn, Open, Damaged
  <2>4. CountOf(Damaged, WriteOut(eventsCsv, eventsBuf)) + Bit(eventsCsv[Len(eventsCsv)].kind \in Damaged)
          = CountOf(Damaged, eventsCsv) + CountOf(Damaged, Tail(eventsBuf)) + Bit(j \in Damaged)
    BY <1>0, <1>3, <2>2, CountWrittenOpen
  <2>5. Waiting => Bit(j \in Damaged) = 0
    <3>1. Waiting => j = "row"
      BY <2>2, JoinedLine DEF Waiting, HeadIs, LastIn
    <3> QED
      BY <3>1 DEF Bit, Damaged
  <2>6. Bit(j \in Damaged) \in 0..1 /\ Bit(eventsCsv[Len(eventsCsv)].kind \in Damaged) = 1
    BY <2>3 DEF Bit
  <2>7. CountOf(Damaged, WriteOut(eventsCsv, eventsBuf)) \in Nat
    BY <1>0, <1>3, WriteOutOpen, CountIs
  <2> QED
    BY <2>1, <2>4, <2>5, <2>6, <2>7, OpenEnd
<1> QED
  BY <1>1, <1>2, <1>3

LEMMA WrittenRows ==
  ASSUME EventsInv, DamageInv, kills = 0
  PROVE  CountOf({"row"}, WriteOut(eventsCsv, eventsBuf))
           = CountOf({"row"}, eventsCsv) + CountOf({"row", "rest"}, eventsBuf)
<1>0. eventsCsv \in Seq(AnyLine) /\ eventsBuf \in Seq(AnyLine)
  BY BufferKinds
<1>1. CASE eventsBuf = << >>
  <2>1. CountOf({"row"}, eventsCsv) \in Nat
    BY <1>0, CountIs
  <2> QED
    BY <1>1, <2>1, WriteOutEmpty, CountEmpty
<1>2. CASE eventsBuf # << >> /\ ~LastIn(eventsCsv, Open)
  <2>1. \A i \in 1..Len(eventsBuf) : eventsBuf[i].kind \in {"header", "row"}
    BY <1>2, BufferKinds
  <2>2. {i \in 1..Len(eventsBuf) : eventsBuf[i].kind \in {"row"}}
          = {i \in 1..Len(eventsBuf) : eventsBuf[i].kind \in {"row", "rest"}}
    BY <2>1
  <2>3. CountOf({"row"}, eventsBuf) = CountOf({"row", "rest"}, eventsBuf)
    BY <2>2 DEF CountOf
  <2> QED
    BY <1>0, <1>2, <2>3, CountWrittenClosed
<1>3. CASE eventsBuf # << >> /\ LastIn(eventsCsv, Open)
  <2>1. Waiting
    BY <1>3, OpenEnd
  <2>2. eventsBuf[1].kind = "rest" /\ eventsCsv[Len(eventsCsv)].kind = "part"
    BY <2>1 DEF Waiting, HeadIs, LastIn
  <2>3. Joined(eventsCsv[Len(eventsCsv)].kind, eventsBuf[1].kind) = "row"
    BY <2>2, JoinedLine
  <2>4. CountOf({"row"}, WriteOut(eventsCsv, eventsBuf)) + Bit(eventsCsv[Len(eventsCsv)].kind \in {"row"})
          = CountOf({"row"}, eventsCsv) + CountOf({"row"}, Tail(eventsBuf))
            + Bit(Joined(eventsCsv[Len(eventsCsv)].kind, eventsBuf[1].kind) \in {"row"})
    BY <1>0, <1>3, CountWrittenOpen
  <2>5. CountOf({"row", "rest"}, eventsBuf)
          = Bit(eventsBuf[1].kind \in {"row", "rest"}) + CountOf({"row", "rest"}, Tail(eventsBuf))
    BY <1>0, <1>3, CountFirst
  <2>6. CountOf({"row"}, Tail(eventsBuf)) = CountOf({"row", "rest"}, Tail(eventsBuf))
    BY <1>3, BufferKinds, CountAllRows
  <2>7. /\ Bit(eventsBuf[1].kind \in {"row", "rest"}) = 1
        /\ Bit(eventsCsv[Len(eventsCsv)].kind \in {"row"}) = 0
        /\ Bit(Joined(eventsCsv[Len(eventsCsv)].kind, eventsBuf[1].kind) \in {"row"}) = 1
    BY <2>2, <2>3 DEF Bit
  <2>8. /\ CountOf({"row"}, WriteOut(eventsCsv, eventsBuf)) \in Nat
        /\ CountOf({"row"}, eventsCsv) \in Nat /\ CountOf({"row"}, Tail(eventsBuf)) \in Nat
    BY <1>0, <1>3, WriteOutOpen, BufferKinds, CountIs
  <2> QED
    BY <2>4, <2>5, <2>6, <2>7, <2>8
<1> QED
  BY <1>1, <1>2, <1>3

-----------------------------------------------------------------------------
(* ebpf_events.csv over the steps of the collector.                         *)
EventsPart == EventsInv /\ DamageInv /\ RowsHandled /\ BufferWithinWindow

LEMMA EventsSame ==
  ASSUME EventsPart, UNCHANGED <<eventsCsv, eventsBuf, kills, handled, switch_count>>,
         EventsOpen' <=> EventsOpen
  PROVE  EventsPart'
<1>1. EventsInv'
  BY DEF EventsPart, EventsInv
<1>2. DamageInv' /\ RowsHandled' /\ BufferWithinWindow'
  BY DEF EventsPart, DamageInv, Waiting, RowsHandled, BufferWithinWindow
<1> QED
  BY <1>1, <1>2 DEF EventsPart

(* The buffer becomes empty, and the file has all of it. *)
LEMMA EventsFlushed ==
  ASSUME EventsPart, EventsOpen, kills \in Nat, FlushEvents,
         UNCHANGED <<kills, handled>>, switch_count' \in Nat
  PROVE  EventsPart'
<1>1. EventsInv /\ DamageInv /\ RowsHandled
  BY DEF EventsPart
<1>2. PICK g : g = WriteOut(eventsCsv, eventsBuf)
  OBVIOUS
<1>3. eventsCsv' = g /\ eventsBuf' = << >>
  BY <1>2 DEF FlushEvents
<1>4. g \in Seq(CsvLine) /\ g # << >> /\ HeaderFirst(g)
  BY <1>1, <1>2, WrittenIsFile
<1>5. CountOf(Damaged, g) <= kills /\ CountOf(Damaged, g) \in Nat
  <2>1. g \in Seq(AnyLine)
    BY <1>4, LinesAreLines
  <2> QED
    BY <1>1, <1>2, <2>1, WrittenDamage, CountIs
<1>6. EventsInv'
  <2>1. << >> \in Seq(BufferLine) /\ Len(<< >>) = 0
    OBVIOUS
  <2> QED
    BY <1>3, <1>4, <2>1 DEF EventsInv, HeadIs
<1>7. DamageInv'
  BY <1>3, <1>5 DEF DamageInv, Waiting, HeadIs
<1>8. CountOf({"row", "rest"}, << >>) = 0
  BY CountEmpty
<1>9. RowsHandled'
  <2> SUFFICES ASSUME kills = 0 PROVE CountOf({"row"}, g) + CountOf({"row", "rest"}, << >>) = handled
    BY <1>3 DEF RowsHandled
  <2>1. CountOf({"row"}, g) = CountOf({"row"}, eventsCsv) + CountOf({"row", "rest"}, eventsBuf)
    BY <1>1, <1>2, WrittenRows
  <2>2. CountOf({"row"}, g) = handled
    BY <1>1, <2>1 DEF RowsHandled
  <2>3. CountOf({"row"}, g) \in Nat
    BY <1>4, LinesAreLines, CountIs
  <2> QED
    BY <1>8, <2>2, <2>3
<1>10. BufferWithinWindow'
  BY <1>3, <1>8 DEF BufferWithinWindow
<1> QED
  BY <1>6, <1>7, <1>9, <1>10 DEF EventsPart

(* The buffer becomes empty, and the file is as it was: a kill, or a start. *)
LEMMA EventsDropped ==
  ASSUME EventsPart, eventsCsv' = eventsCsv, eventsBuf' = << >>, ~EventsOpen',
         kills \in Nat, switch_count' \in Nat,
         \/ kills' = kills + 1
         \/ UNCHANGED <<kills, handled>> /\ eventsBuf = << >>
  PROVE  EventsPart'
<1>1. EventsInv /\ DamageInv /\ RowsHandled
  BY DEF EventsPart
<1>2. EventsInv'
  <2>1. << >> \in Seq(BufferLine) /\ Len(<< >>) = 0
    OBVIOUS
  <2> QED
    BY <1>1, <2>1 DEF EventsInv, HeadIs
<1>3. DamageInv'
  <2>1. ~Waiting'
    BY DEF Waiting, HeadIs
  <2>2. CountOf(Damaged, eventsCsv) <= kills'
    <3>1. CASE kills' = kills + 1
      BY <1>1, <3>1, OpenEnd
    <3>2. CASE UNCHANGED kills /\ eventsBuf = << >>
      BY <1>1, <3>2, OpenEnd DEF Waiting, HeadIs
    <3> QED
      BY <3>1, <3>2
  <2>3. CountOf(Damaged, eventsCsv) \in Nat /\ kills' \in Nat
    BY <1>1, OpenEnd
  <2> QED
    BY <2>1, <2>2, <2>3 DEF DamageInv
<1>4. CountOf({"row", "rest"}, << >>) = 0
  BY CountEmpty
<1>5. RowsHandled'
  <2>1. CASE kills' = kills + 1
    BY <2>1 DEF RowsHandled
  <2>2. CASE UNCHANGED <<kills, handled>> /\ eventsBuf = << >>
    BY <1>1, <2>2 DEF RowsHandled
  <2> QED
    BY <2>1, <2>2
<1>6. BufferWithinWindow'
  BY <1>4 DEF BufferWithinWindow
<1> QED
  BY <1>2, <1>3, <1>5, <1>6 DEF EventsPart

(* fopen and, in a new file, the header. *)
LEMMA EventsOpened ==
  ASSUME EventsPart, ~EventsOpen, EventsOpen', eventsBuf' = OpenBuffer(eventsCsv, Header),
         UNCHANGED <<eventsCsv, kills, handled, switch_count>>,
         kills \in Nat, switch_count \in Nat
  PROVE  EventsPart'
<1>1. EventsInv /\ DamageInv /\ RowsHandled /\ eventsBuf = << >>
  BY DEF EventsPart, EventsInv
<1>2. PICK b : b = eventsBuf'
  OBVIOUS
<1>3. \/ eventsCsv = << >> /\ b = <<Header>>
      \/ eventsCsv # << >> /\ b = << >>
  BY <1>2 DEF OpenBuffer
<1>4. /\ b \in Seq(BufferLine) /\ \A i \in 2..Len(b) : b[i].kind = "row"
      /\ HeadIs(b, "header") <=> eventsCsv = << >>
      /\ ~HeadIs(b, "rest")
  <2>1. CASE b = << >> /\ eventsCsv # << >>
    BY <2>1 DEF HeadIs
  <2>2. CASE b = <<Header>> /\ eventsCsv = << >>
    <3>1. /\ <<Header>> \in Seq(BufferLine) /\ <<Header>> # << >>
          /\ Len(<<Header>>) = 1 /\ <<Header>>[1] = Header
      BY LinesAreLines
    <3>2. Header.kind = "header"
      BY DEF Header
    <3> QED
      BY <2>2, <3>1, <3>2 DEF HeadIs
  <2> QED
    BY <1>3, <2>1, <2>2
<1>5. EventsInv'
  BY <1>1, <1>2, <1>4 DEF EventsInv
<1>6. DamageInv'
  <2>1. ~Waiting'
    BY <1>2, <1>4 DEF Waiting
  <2>2. CountOf(Damaged, eventsCsv) <= kills /\ CountOf(Damaged, eventsCsv) \in Nat
    BY <1>1, OpenEnd DEF Waiting, HeadIs
  <2> QED
    BY <2>1, <2>2 DEF DamageInv
<1>7. CountOf({"row", "rest"}, b) = 0
  <2>1. CountOf({"row", "rest"}, << >>) = 0
    BY CountEmpty
  <2>2. CountOf({"row", "rest"}, <<Header>>) = 0
    <3>1. CountOf({"row", "rest"}, <<Header>>) = Bit(Header.kind \in {"row", "rest"})
      BY CountOne, LinesAreLines
    <3> QED
      BY <3>1 DEF Header, Bit
  <2> QED
    BY <1>3, <2>1, <2>2
<1>8. CountOf({"row", "rest"}, eventsBuf) = 0
  BY <1>1, CountEmpty
<1>9. RowsHandled' /\ BufferWithinWindow'
  BY <1>1, <1>2, <1>7, <1>8 DEF RowsHandled, BufferWithinWindow
<1> QED
  BY <1>5, <1>6, <1>9 DEF EventsPart

(* handle_event's row stays in the buffer ... *)
LEMMA EventsBuffered ==
  ASSUME EventsPart, EventsOpen, EventsOpen', NEW row \in BufferLine, row.kind = "row",
         eventsBuf' = Append(eventsBuf, row), eventsCsv' = eventsCsv,
         kills' = kills, handled' = handled + 1, switch_count' = switch_count + 1,
         handled \in Nat, switch_count \in Nat
  PROVE  EventsPart'
<1>1. EventsInv /\ DamageInv /\ RowsHandled /\ BufferWithinWindow
  BY DEF EventsPart
<1>2. /\ eventsBuf \in Seq(BufferLine) /\ \A i \in 2..Len(eventsBuf) : eventsBuf[i].kind = "row"
      /\ eventsCsv = << >> <=> HeadIs(eventsBuf, "header")
  BY <1>1 DEF EventsInv
<1>3. PICK b : b = eventsBuf'
  OBVIOUS
<1>4. /\ b \in Seq(BufferLine) /\ Len(b) = Len(eventsBuf) + 1 /\ Len(eventsBuf) \in Nat
      /\ \A i \in 1..Len(eventsBuf) : b[i] = eventsBuf[i]
      /\ b[Len(eventsBuf) + 1] = row
  BY <1>2, <1>3
<1>5. \A i \in 2..Len(b) : b[i].kind = "row"
  <2> TAKE i \in 2..Len(b)
  <2>1. i \in 2..Len(eventsBuf) \/ i = Len(eventsBuf) + 1
    BY <1>4
  <2>2. 2..Len(eventsBuf) \subseteq 1..Len(eventsBuf)
    OBVIOUS
  <2> QED
    BY <1>2, <1>4, <2>1, <2>2
<1>6. \A k \in {"header", "rest"} : HeadIs(b, k) <=> HeadIs(eventsBuf, k)
  <2>1. CASE eventsBuf = << >>
    <3>1. b[1] = row
      BY <1>4, <2>1
    <3> QED
      BY <2>1, <3>1 DEF HeadIs
  <2>2. CASE eventsBuf # << >>
    <3>1. Len(eventsBuf) # 0
      BY <1>2, <2>2
    <3>2. 1 \in 1..Len(eventsBuf) /\ b # << >>
      BY <1>4, <3>1
    <3> QED
      BY <1>4, <2>2, <3>2 DEF HeadIs
  <2> QED
    BY <2>1, <2>2
<1>7. EventsInv'
  BY <1>1, <1>3, <1>4, <1>5, <1>6 DEF EventsInv
<1>8. DamageInv'
  <2>1. Waiting' <=> Waiting
    BY <1>3, <1>6 DEF Waiting
  <2> QED
    BY <1>1, <2>1 DEF DamageInv
<1>9. CountOf({"row", "rest"}, b) = CountOf({"row", "rest"}, eventsBuf) + 1
  <2>1. eventsBuf \in Seq(AnyLine) /\ row \in AnyLine
    BY <1>2, LinesAreLines
  <2>2. CountOf({"row", "rest"}, Append(eventsBuf, row))
          = CountOf({"row", "rest"}, eventsBuf) + Bit(row.kind \in {"row", "rest"})
    BY <2>1, CountAppend
  <2>3. Bit(row.kind \in {"row", "rest"}) = 1
    BY DEF Bit
  <2> QED
    BY <1>3, <2>2, <2>3
<1>10. CountOf({"row", "rest"}, eventsBuf) \in Nat /\ CountOf({"row"}, eventsCsv) \in Nat
  BY <1>1, BufferKinds, CountIs
<1>11. RowsHandled'
  <2> SUFFICES ASSUME kills = 0 PROVE CountOf({"row"}, eventsCsv) + CountOf({"row", "rest"}, b) = handled + 1
    BY <1>3 DEF RowsHandled
  <2>1. CountOf({"row"}, eventsCsv) + CountOf({"row", "rest"}, eventsBuf) = handled
    BY <1>1 DEF RowsHandled
  <2> QED
    BY <1>9, <1>10, <2>1
<1>12. BufferWithinWindow'
  BY <1>1, <1>3, <1>9, <1>10 DEF BufferWithinWindow
<1> QED
  BY <1>7, <1>8, <1>11, <1>12 DEF EventsPart

(* ... or begins a new buffer, after the old one is written out ... *)
LEMMA EventsWritten ==
  ASSUME EventsPart, EventsOpen, NEW row \in BufferLine, row.kind = "row",
         eventsBuf' = <<row>>, eventsCsv' = WriteOut(eventsCsv, eventsBuf),
         kills' = kills, handled' = handled + 1, switch_count' = switch_count + 1,
         EventsOpen', kills \in Nat, handled \in Nat, switch_count \in Nat
  PROVE  EventsPart'
<1>1. EventsInv /\ DamageInv /\ RowsHandled /\ BufferWithinWindow
  BY DEF EventsPart
<1>2. PICK g : g = WriteOut(eventsCsv, eventsBuf)
  OBVIOUS
<1>3. g \in Seq(CsvLine) /\ g # << >> /\ HeaderFirst(g)
  BY <1>1, <1>2, WrittenIsFile
<1>4. /\ <<row>> \in Seq(BufferLine) /\ Len(<<row>>) = 1 /\ <<row>>[1] = row
      /\ <<row>> # << >>
  OBVIOUS
<1>5. ~HeadIs(<<row>>, "header") /\ ~HeadIs(<<row>>, "rest")
  BY <1>4 DEF HeadIs
<1>6. EventsInv'
  <2>1. \A i \in 2..Len(<<row>>) : <<row>>[i].kind = "row"
    BY <1>4
  <2> QED
    BY <1>2, <1>3, <1>4, <1>5, <2>1 DEF EventsInv
<1>7. CountOf(Damaged, g) <= kills /\ CountOf(Damaged, g) \in Nat /\ CountOf({"row"}, g) \in Nat
  <2>1. g \in Seq(AnyLine)
    BY <1>3, LinesAreLines
  <2> QED
    BY <1>1, <1>2, <2>1, WrittenDamage, CountIs
<1>8. DamageInv'
  BY <1>2, <1>5, <1>7 DEF DamageInv, Waiting
<1>9. CountOf({"row", "rest"}, <<row>>) = 1
  <2>1. CountOf({"row", "rest"}, <<row>>) = Bit(row.kind \in {"row", "rest"})
    BY CountOne, LinesAreLines
  <2> QED
    BY <2>1 DEF Bit
<1>10. RowsHandled'
  <2> SUFFICES ASSUME kills = 0 PROVE CountOf({"row"}, g) + CountOf({"row", "rest"}, <<row>>) = handled + 1
    BY <1>2 DEF RowsHandled
  <2>1. CountOf({"row"}, g) = handled
    BY <1>1, <1>2, WrittenRows DEF RowsHandled
  <2> QED
    BY <1>7, <1>9, <2>1
<1>11. BufferWithinWindow'
  BY <1>9 DEF BufferWithinWindow
<1> QED
  BY <1>6, <1>8, <1>10, <1>11 DEF EventsPart

(* ... or is cut: the file ends in a part of it, the rest is in the buffer. *)
(* What the file is then: the old one and the part, or the part joined to   *)
(* the end that a kill left open.                                           *)
LEMMA CutFile ==
  ASSUME EventsInv, EventsOpen, DamageInv, kills \in Nat, NEW tgid \in Nat,
         NEW g, g = WriteOut(eventsCsv, Append(eventsBuf, Line("part", tgid)))
  PROVE  /\ g \in Seq(CsvLine) /\ g # << >> /\ HeaderFirst(g) /\ LastIn(g, Open)
         /\ CountOf(Damaged, g) <= kills + Bit(LastIn(g, {"part"}))
         /\ kills = 0 => CountOf({"row"}, g)
                           = CountOf({"row"}, eventsCsv) + CountOf({"row", "rest"}, eventsBuf)
<1>0. PICK p : p = Line("part", tgid)
  OBVIOUS
<1>1. p \in AnyLine /\ p \in CsvLine /\ p.kind = "part"
  BY <1>0 DEF Line, AnyLine, CsvLine
<1>2. eventsCsv \in Seq(AnyLine) /\ eventsBuf \in Seq(AnyLine)
  BY BufferKinds
<1>3. CASE eventsBuf # << >> \/ ~LastIn(eventsCsv, Open)
  <2>1. PICK w : w = WriteOut(eventsCsv, eventsBuf)
    OBVIOUS
  <2>2. g = Append(w, p)
    BY <1>0, <1>1, <1>2, <1>3, <2>1, AppendedLast
  <2>3. w \in Seq(CsvLine) /\ w # << >> /\ HeaderFirst(w)
    BY <2>1, WrittenIsFile
  <2>4. /\ g \in Seq(CsvLine) /\ g # << >> /\ Len(g) = Len(w) + 1 /\ Len(w) \in Nat \ {0}
        /\ \A i \in 1..Len(w) : g[i] = w[i]
        /\ g[Len(w) + 1] = p
    BY <1>1, <2>2, <2>3
  <2>5. HeaderFirst(g)
    <3>1. ASSUME NEW i \in 2..Len(g) PROVE g[i].kind # "header"
      <4>1. i \in 2..Len(w) \/ i = Len(w) + 1
        BY <2>4
      <4>2. 2..Len(w) \subseteq 1..Len(w)
        OBVIOUS
      <4> QED
        BY <1>1, <2>3, <2>4, <4>1, <4>2 DEF HeaderFirst
    <3>2. g[1] = w[1]
      BY <2>4
    <3> QED
      BY <2>3, <3>1, <3>2 DEF HeaderFirst
  <2>6. LastIn(g, Open) /\ LastIn(g, {"part"})
    BY <1>1, <2>4 DEF LastIn, Open
  <2>7. w \in Seq(AnyLine)
    BY <2>3, LinesAreLines
  <2>8. CountOf(Damaged, g) = CountOf(Damaged, w) + 1
    <3>1. CountOf(Damaged, Append(w, p)) = CountOf(Damaged, w) + Bit(p.kind \in Damaged)
      BY <1>1, <2>7, CountAppend
    <3>2. Bit(p.kind \in Damaged) = 1
      BY <1>1 DEF Bit, Damaged
    <3> QED
      BY <2>2, <3>1, <3>2
  <2>9. CountOf(Damaged, w) <= kills /\ CountOf(Damaged, w) \in Nat
    BY <2>1, <2>7, WrittenDamage, CountIs
  <2>10. CountOf({"row"}, g) = CountOf({"row"}, w)
    <3>1. \A kinds : CountOf(kinds, Append(w, p)) = CountOf(kinds, w) + Bit(p.kind \in kinds)
      BY <1>1, <2>7, CountAppend
    <3>2. PICK kinds : kinds = {"row"}
      OBVIOUS
    <3>3. Bit(p.kind \in kinds) = 0 /\ CountOf(kinds, w) \in Nat
      BY <1>1, <2>7, <3>2, CountIs DEF Bit
    <3>4. CountOf(kinds, Append(w, p)) = CountOf(kinds, w)
      BY <3>1, <3>3
    <3> QED
      BY <2>2, <3>2, <3>4
  <2>11. Bit(LastIn(g, {"part"})) = 1
    BY <2>6 DEF Bit
  <2>12. CountOf(Damaged, g) <= kills + Bit(LastIn(g, {"part"}))
    BY <2>8, <2>9, <2>11
  <2>13. kills = 0 => CountOf({"row"}, g)
                        = CountOf({"row"}, eventsCsv) + CountOf({"row", "rest"}, eventsBuf)
    BY <2>1, <2>10, WrittenRows
  <2> QED
    BY <2>4, <2>5, <2>6, <2>12, <2>13
<1>4. CASE eventsBuf = << >> /\ LastIn(eventsCsv, Open)
  <2>1. PICK b : b = <<p>>
    OBVIOUS
  <2>2. b \in Seq(AnyLine) /\ b # << >> /\ b[1] = p /\ Len(b) = 1 /\ Tail(b) = << >>
    BY <1>1, <2>1
  <2>3. g = WriteOut(eventsCsv, b)
    BY <1>0, <1>4, <2>1
  <2>4. PICK f : f = eventsCsv
    OBVIOUS
  <2>5. PICK n : n = Len(eventsCsv)
    OBVIOUS
  <2>6. n \in Nat /\ n >= 2
    BY <1>4, <2>5, OpenEndIsLater
  <2>7. /\ WriteOut(f, b) \in Seq(AnyLine) /\ Len(WriteOut(f, b)) = Len(f) + Len(b) - 1
        /\ \A i \in 1..(Len(f) - 1) : WriteOut(f, b)[i] = f[i]
        /\ WriteOut(f, b)[Len(f)] = JoinedTo(f, b[1])
        /\ JoinedTo(f, b[1]) \in AnyLine
    <3>1. f \in Seq(AnyLine) /\ LastIn(f, Open)
      BY <1>2, <1>4, <2>4
    <3> QED
      BY <2>2, <3>1, WriteOutOpen
  <2>8. PICK j : j = JoinedTo(f, p)
    OBVIOUS
  <2>9. /\ g \in Seq(AnyLine) /\ Len(g) = n /\ g[n] = j /\ j \in AnyLine
        /\ \A i \in 1..(n - 1) : g[i] = eventsCsv[i]
    BY <2>2, <2>3, <2>4, <2>5, <2>6, <2>7, <2>8
  <2>10. j.kind = "bad part"
    BY <1>1, <2>8, JoinedLine DEF JoinedTo, Line
  <2>11. eventsCsv \in Seq(CsvLine) /\ HeaderFirst(eventsCsv) /\ eventsCsv # << >>
    BY <1>4 DEF EventsInv, LastIn
  <2>12. ASSUME NEW i \in 1..Len(g)
         PROVE  g[i] \in CsvLine /\ (i >= 2 => g[i].kind # "header")
    <3>1. CASE i = n
      <4>1. j \in CsvLine
        BY <2>9, <2>10 DEF AnyLine, CsvLine
      <4> QED
        BY <2>9, <2>10, <3>1, <4>1
    <3>2. CASE i # n
      <4>1. i \in 1..(n - 1) /\ i \in 1..n /\ (i >= 2 => i \in 2..n)
        BY <2>6, <2>9, <3>2
      <4>2. g[i] = eventsCsv[i]
        BY <2>9, <4>1
      <4>3. eventsCsv[i] \in CsvLine
        BY <2>5, <2>11, <4>1
      <4>4. i >= 2 => eventsCsv[i].kind # "header"
        BY <2>5, <2>11, <4>1 DEF HeaderFirst
      <4> QED
        BY <4>2, <4>3, <4>4
    <3> QED
      BY <3>1, <3>2
  <2>13. g \in Seq(CsvLine)
    BY <2>9, <2>12, StaysSeq
  <2>14. g # << >> /\ g[1] = eventsCsv[1]
    BY <2>6, <2>9
  <2>15. HeaderFirst(g)
    BY <2>6, <2>9, <2>11, <2>12, <2>14 DEF HeaderFirst
  <2>16. LastIn(g, Open)
    BY <2>9, <2>10, <2>14 DEF LastIn, Open
  <2>17. ~Waiting
    BY <1>4 DEF Waiting, HeadIs
  <2>18. kills # 0 /\ CountOf(Damaged, eventsCsv) <= kills /\ CountOf(Damaged, eventsCsv) \in Nat
    BY <1>4, <2>17, OpenEnd
  <2>19. CountOf(Damaged, g) + Bit(eventsCsv[Len(eventsCsv)].kind \in Damaged)
           = CountOf(Damaged, eventsCsv) + CountOf(Damaged, Tail(b))
             + Bit(Joined(eventsCsv[Len(eventsCsv)].kind, b[1].kind) \in Damaged)
    BY <1>2, <1>4, <2>2, <2>3, CountWrittenOpen
  <2>20. CountOf(Damaged, Tail(b)) = 0
    BY <2>2, CountEmpty
  <2>21. Bit(eventsCsv[Len(eventsCsv)].kind \in Damaged) = 1
    BY <1>4 DEF LastIn, Open, Damaged, Bit
  <2>22. Bit(Joined(eventsCsv[Len(eventsCsv)].kind, b[1].kind) \in Damaged) = 1
    BY <1>1, <2>2, JoinedLine DEF Damaged, Bit
  <2>23. CountOf(Damaged, g) \in Nat /\ Bit(LastIn(g, {"part"})) \in Nat
    BY <2>9, CountIs DEF Bit
  <2>24. CountOf(Damaged, g) <= kills + Bit(LastIn(g, {"part"}))
    BY <2>18, <2>19, <2>20, <2>21, <2>22, <2>23
  <2> QED
    BY <2>13, <2>14, <2>15, <2>16, <2>18, <2>24
<1> QED
  BY <1>3, <1>4

LEMMA EventsCut ==
  ASSUME EventsPart, EventsOpen, EventsOpen', NEW tgid \in Nat,
         eventsBuf' = <<Line("rest", tgid)>>,
         eventsCsv' = WriteOut(eventsCsv, Append(eventsBuf, Line("part", tgid))),
         kills' = kills, handled' = handled + 1, switch_count' = switch_count + 1,
         kills \in Nat, handled \in Nat, switch_count \in Nat
  PROVE  EventsPart'
<1>1. EventsInv /\ DamageInv /\ RowsHandled /\ BufferWithinWindow
  BY DEF EventsPart
<1>2. PICK g : g = WriteOut(eventsCsv, Append(eventsBuf, Line("part", tgid)))
  OBVIOUS
<1>3. /\ g \in Seq(CsvLine) /\ g # << >> /\ HeaderFirst(g) /\ LastIn(g, Open)
      /\ CountOf(Damaged, g) <= kills + Bit(LastIn(g, {"part"}))
      /\ kills = 0 => CountOf({"row"}, g)
                        = CountOf({"row"}, eventsCsv) + CountOf({"row", "rest"}, eventsBuf)
  BY <1>1, <1>2, CutFile
<1>4. PICK r : r = Line("rest", tgid)
  OBVIOUS
<1>5. r \in BufferLine /\ r \in AnyLine /\ r.kind = "rest"
  BY <1>4 DEF Line, BufferLine, AnyLine
<1>6. /\ <<r>> \in Seq(BufferLine) /\ Len(<<r>>) = 1 /\ <<r>>[1] = r /\ <<r>> # << >>
  BY <1>5
<1>7. ~HeadIs(<<r>>, "header") /\ HeadIs(<<r>>, "rest")
  BY <1>5, <1>6 DEF HeadIs
<1>8. EventsInv'
  <2>1. \A i \in 2..Len(<<r>>) : <<r>>[i].kind = "row"
    BY <1>6
  <2> QED
    BY <1>2, <1>3, <1>4, <1>6, <1>7, <2>1 DEF EventsInv
<1>9. DamageInv'
  <2>1. Waiting' <=> LastIn(g, {"part"})
    BY <1>2, <1>4, <1>7 DEF Waiting
  <2> QED
    BY <1>2, <1>3, <2>1 DEF DamageInv, Bit
<1>10. CountOf({"row", "rest"}, <<r>>) = 1
  <2>1. CountOf({"row", "rest"}, <<r>>) = Bit(r.kind \in {"row", "rest"})
    BY <1>5, CountOne
  <2> QED
    BY <1>5, <2>1 DEF Bit
<1>11. RowsHandled'
  <2> SUFFICES ASSUME kills = 0 PROVE CountOf({"row"}, g) + CountOf({"row", "rest"}, <<r>>) = handled + 1
    BY <1>2, <1>4 DEF RowsHandled
  <2>1. CountOf({"row"}, g) = handled
    BY <1>1, <1>3 DEF RowsHandled
  <2> QED
    BY <1>10, <2>1
<1>12. BufferWithinWindow'
  BY <1>4, <1>10 DEF BufferWithinWindow
<1> QED
  BY <1>8, <1>9, <1>11, <1>12 DEF EventsPart

GhostsOK == handled \in Nat /\ kills \in Nat

LEMMA GhostsNext ==
  ASSUME GhostsOK, [Next]_colVars
  PROVE  GhostsOK'
<1>1. kills' \in {kills, kills + 1} /\ handled' \in {handled, handled + 1}
  BY DEF Next, Step, ParseArgs, Load, AttachNext, SetTarget, SetConfig, NewRing, OpenEvents,
         OpenDataset, Loop, HandleEvent, PollReturns, PollInterrupted, EndWindow, Final, Close,
         SigInt, Kill, Tick, Restart, Produce, colVars, own
<1> QED
  BY <1>1 DEF GhostsOK

(* The steps that leave ebpf_events.csv, its buffer and its counts alone. *)
EventsQuiet ==
  \/ ParseArgs \/ Load \/ AttachNext \/ SetTarget \/ SetConfig \/ NewRing \/ Loop
  \/ PollReturns \/ PollInterrupted \/ Close \/ Tick \/ Produce

LEMMA QuietKeeps ==
  ASSUME EventsQuiet \/ UNCHANGED colVars
  PROVE  /\ UNCHANGED <<eventsCsv, eventsBuf, kills, handled, switch_count>>
         /\ EventsOpen' <=> EventsOpen
<1>1. CASE ParseArgs \/ Load \/ AttachNext \/ SetTarget \/ SetConfig \/ NewRing
  BY <1>1 DEF ParseArgs, Load, AttachNext, SetTarget, SetConfig, NewRing, files, window, EventsOpen
<1>2. CASE Loop \/ PollReturns \/ PollInterrupted \/ Close \/ Tick
  BY <1>2 DEF Loop, PollReturns, PollInterrupted, Close, Tick, files, window, EventsOpen
<1>3. CASE Produce \/ UNCHANGED colVars
  BY <1>3 DEF Produce, own, colVars, files, window, EventsOpen
<1> QED
  BY <1>1, <1>2, <1>3 DEF EventsQuiet

LEMMA SwitchCountNat ==
  ASSUME RowsInv
  PROVE  switch_count \in Nat
  BY DEF RowsInv, WindowFits

LEMMA EventsKilled ==
  ASSUME RowsInv, EventsPart, GhostsOK, Kill
  PROVE  EventsPart'
<1>1. /\ eventsCsv' = eventsCsv /\ eventsBuf' = << >> /\ kills' = kills + 1
      /\ switch_count' = switch_count /\ pc' = "killed"
  BY DEF Kill, window
<1>2. ~EventsOpen'
  BY <1>1 DEF EventsOpen
<1> QED
  BY <1>1, <1>2, SwitchCountNat, EventsDropped DEF GhostsOK

LEMMA EventsHandled ==
  ASSUME RowsInv, EventsPart, GhostsOK, HandleEvent
  PROVE  EventsPart'
<1>0. kills \in Nat /\ handled \in Nat /\ switch_count \in Nat
  BY SwitchCountNat DEF GhostsOK
<1>1. /\ EventsOpen /\ EventsOpen' /\ kills' = kills /\ handled' = handled + 1
      /\ switch_count' = switch_count + 1
  BY DEF HandleEvent, Keep, EventsOpen
<1>2. PICK tgid : tgid = Head(events).tgid
  OBVIOUS
<1>3. tgid \in Nat
  <2>1. Head(events) \in SampleEvents
    BY DEF HandleEvent, RowsInv
  <2> QED
    BY <1>2, <2>1, CollectorAssumption
<1>4. PICK row : row = Line("row", tgid)
  OBVIOUS
<1>5. row \in BufferLine /\ row.kind = "row"
  BY <1>3, <1>4 DEF Line, BufferLine
<1>6. \/ eventsBuf' = Append(eventsBuf, row) /\ UNCHANGED eventsCsv
      \/ eventsBuf' = <<row>> /\ eventsCsv' = WriteOut(eventsCsv, eventsBuf)
      \/ /\ eventsBuf' = <<Line("rest", tgid)>>
         /\ eventsCsv' = WriteOut(eventsCsv, Append(eventsBuf, Line("part", tgid)))
  BY <1>2, <1>4 DEF HandleEvent
<1>7. CASE eventsBuf' = Append(eventsBuf, row) /\ UNCHANGED eventsCsv
  BY <1>0, <1>1, <1>5, <1>7, EventsBuffered
<1>8. CASE eventsBuf' = <<row>> /\ eventsCsv' = WriteOut(eventsCsv, eventsBuf)
  BY <1>0, <1>1, <1>5, <1>8, EventsWritten
<1>9. CASE /\ eventsBuf' = <<Line("rest", tgid)>>
           /\ eventsCsv' = WriteOut(eventsCsv, Append(eventsBuf, Line("part", tgid)))
  BY <1>0, <1>1, <1>3, <1>9, EventsCut
<1> QED
  BY <1>6, <1>7, <1>8, <1>9

LEMMA EventsNext ==
  ASSUME RowsInv, EventsPart, GhostsOK, [Next]_colVars
  PROVE  EventsPart'
<1>0. kills \in Nat /\ handled \in Nat /\ switch_count \in Nat
  BY SwitchCountNat DEF GhostsOK
<1>1. CASE EventsQuiet \/ UNCHANGED colVars
  BY <1>1, QuietKeeps, EventsSame
<1>2. CASE OpenEvents
  <2>1. /\ ~EventsOpen /\ UNCHANGED <<eventsCsv, kills, handled, switch_count>>
    BY <1>2 DEF OpenEvents, EventsOpen, window
  <2>2. CASE pc' = "dataset" /\ eventsBuf' = OpenBuffer(eventsCsv, Header)
    <3>1. EventsOpen'
      BY <2>2 DEF EventsOpen
    <3> QED
      BY <1>0, <2>1, <2>2, <3>1, EventsOpened
  <2>3. CASE pc' = "failed" /\ UNCHANGED eventsBuf
    <3>1. ~EventsOpen'
      BY <2>3 DEF EventsOpen
    <3> QED
      BY <2>1, <2>3, <3>1, EventsSame
  <2> QED
    BY <1>2, <2>2, <2>3 DEF OpenEvents
<1>3. CASE OpenDataset
  <2>1. EventsOpen /\ UNCHANGED <<kills, handled, switch_count>>
    BY <1>3 DEF OpenDataset, EventsOpen, window
  <2>2. CASE pc' = "loop" /\ UNCHANGED <<eventsBuf, eventsCsv>>
    <3>1. EventsOpen'
      BY <2>2 DEF EventsOpen
    <3> QED
      BY <2>1, <2>2, <3>1, EventsSame
  <2>3. CASE FlushEvents
    BY <1>0, <2>1, <2>3, EventsFlushed
  <2> QED
    BY <1>3, <2>2, <2>3 DEF OpenDataset, FlushEvents
<1>4. CASE HandleEvent
  BY <1>4, EventsHandled
<1>5. CASE EndWindow
  <2>1. EventsOpen /\ EventsOpen' /\ UNCHANGED <<kills, handled>>
    BY <1>5 DEF EndWindow, EventsOpen
  <2>2. CASE secondPassed
    <3>1. FlushEvents /\ switch_count' = 0
      BY <1>5, <2>2 DEF EndWindow, ResetWindow
    <3> QED
      BY <1>0, <2>1, <3>1, EventsFlushed
  <2>3. CASE ~secondPassed
    <3>1. UNCHANGED <<eventsBuf, eventsCsv, switch_count>>
      BY <1>5, <2>3 DEF EndWindow, window, files
    <3> QED
      BY <2>1, <3>1, EventsSame
  <2> QED
    BY <2>2, <2>3
<1>6. CASE Final
  <2>1. EventsOpen /\ FlushEvents /\ UNCHANGED <<kills, handled, switch_count>>
    BY <1>6 DEF Final, EventsOpen, window
  <2> QED
    BY <1>0, <2>1, EventsFlushed
<1>7. CASE Kill
  BY <1>7, EventsKilled
<1>8. CASE SigInt
  <2>1. CASE UNCHANGED <<shared, pc, args, prog, secondPassed, window, files, handled, runs, kills>>
    <3>1. /\ UNCHANGED <<eventsCsv, eventsBuf, kills, handled, switch_count>>
          /\ EventsOpen' <=> EventsOpen
      BY <2>1 DEF window, files, EventsOpen
    <3> QED
      BY <3>1, EventsSame
  <2> QED
    BY <1>7, <1>8, <2>1 DEF SigInt
<1>9. CASE Restart
  <2>1. /\ UNCHANGED <<eventsCsv, eventsBuf, kills, handled>> /\ switch_count' = 0
        /\ ~EventsOpen /\ ~EventsOpen'
    BY <1>9 DEF Restart, files, EventsOpen, Ended
  <2>2. eventsBuf = << >>
    BY <2>1 DEF EventsPart, EventsInv
  <2> QED
    BY <1>0, <2>1, <2>2, EventsDropped
<1> QED
  BY <1>1, <1>2, <1>3, <1>4, <1>5, <1>6, <1>7, <1>8, <1>9 DEF Next, Step, EventsQuiet

LEMMA EventsInit ==
  ASSUME Init
  PROVE  EventsPart /\ GhostsOK
<1>1. /\ eventsCsv = << >> /\ eventsBuf = << >> /\ handled = 0 /\ kills = 0 /\ pc = "args"
      /\ switch_count = 0
  BY DEF Init
<1>2. \A kinds : CountOf(kinds, << >>) = 0
  BY CountEmpty
<1>3. ~EventsOpen
  BY <1>1 DEF EventsOpen
<1>4. EventsInv
  <2>1. << >> \in Seq(BufferLine) /\ << >> \in Seq(CsvLine) /\ Len(<< >>) = 0
    OBVIOUS
  <2> QED
    BY <1>1, <1>3, <2>1 DEF EventsInv, HeadIs, HeaderFirst
<1>5. DamageInv
  BY <1>1, <1>2 DEF DamageInv, Waiting, HeadIs
<1>6. RowsHandled /\ BufferWithinWindow
  BY <1>1, <1>2 DEF RowsHandled, BufferWithinWindow
<1> QED
  BY <1>1, <1>4, <1>5, <1>6 DEF EventsPart, GhostsOK

-----------------------------------------------------------------------------
(* dataset.csv over the steps of the collector.                             *)
LEMMA CountedAppend ==
  ASSUME NEW rows \in Seq(GoodLine), IsFiniteSet(Counted(rows)), NEW r \in GoodLine
  PROVE  /\ Append(rows, r) \in Seq(GoodLine) /\ IsFiniteSet(Counted(Append(rows, r)))
         /\ Total(Append(rows, r)) = Total(rows) + r.count
         /\ Total(rows) \in Nat
<1>1. PICK n : n = Len(rows) + 1
  OBVIOUS
<1>2. PICK s : s = Append(rows, r)
  OBVIOUS
<1>3. /\ s \in Seq(GoodLine) /\ Len(s) = n /\ s[n] = r /\ Len(rows) \in Nat /\ n \in Nat
      /\ \A i \in 1..Len(rows) : s[i] = rows[i]
  BY <1>1, <1>2
<1>4. r.count \in Nat
  BY DEF GoodLine
<1>5. PICK c : c = r.count
  OBVIOUS
<1>6. Counted(s) = Counted(rows) \cup ({n} \X (1..c))
  <2>1. \A i \in 1..Len(s) : i \in 1..Len(rows) \/ i = n
    BY <1>1, <1>3
  <2>2. \A i \in 1..Len(rows) : i \in 1..Len(s)
    BY <1>1, <1>3
  <2>3. n \in 1..Len(s)
    BY <1>1, <1>3
  <2>4. ASSUME NEW x \in Counted(s) PROVE x \in Counted(rows) \cup ({n} \X (1..c))
    <3>1. PICK i \in 1..Len(s) : x \in {i} \X (1..s[i].count)
      BY DEF Counted
    <3>2. CASE i \in 1..Len(rows)
      <4>1. x \in {i} \X (1..rows[i].count)
        BY <1>3, <3>1, <3>2
      <4> QED
        BY <3>2, <4>1 DEF Counted
    <3>3. CASE i = n
      BY <1>3, <1>5, <3>1, <3>3
    <3> QED
      BY <2>1, <3>2, <3>3
  <2>5. ASSUME NEW x \in Counted(rows) PROVE x \in Counted(s)
    <3>1. PICK i \in 1..Len(rows) : x \in {i} \X (1..rows[i].count)
      BY DEF Counted
    <3>2. x \in {i} \X (1..s[i].count) /\ i \in 1..Len(s)
      BY <1>3, <2>2, <3>1
    <3> QED
      BY <3>2 DEF Counted
  <2>6. ASSUME NEW x \in {n} \X (1..c) PROVE x \in Counted(s)
    <3>1. x \in {n} \X (1..s[n].count)
      BY <1>3, <1>5
    <3> QED
      BY <2>3, <3>1 DEF Counted
  <2> QED
    BY <2>4, <2>5, <2>6
<1>7. Counted(rows) \cap ({n} \X (1..c)) = {}
  <2> SUFFICES ASSUME NEW x \in Counted(rows), x \in {n} \X (1..c) PROVE FALSE
    OBVIOUS
  <2>1. PICK i \in 1..Len(rows) : x \in {i} \X (1..rows[i].count)
    BY DEF Counted
  <2>2. x[1] = i /\ x[1] = n
    BY <2>1
  <2> QED
    BY <1>1, <1>3, <2>2
<1>8. IsFiniteSet({n} \X (1..c)) /\ Cardinality({n} \X (1..c)) = c
  <2>1. IsFiniteSet(1..c) /\ Cardinality(1..c) = c
    <3>1. 1 \in Int /\ c \in Int /\ c \in Nat
      BY <1>4, <1>5
    <3>2. IsFiniteSet(1..c) /\ Cardinality(1..c) = IF 1 > c THEN 0 ELSE c - 1 + 1
      BY <3>1, FS_Interval
    <3> QED
      BY <3>1, <3>2
  <2>2. IsFiniteSet({n}) /\ Cardinality({n}) = 1
    BY FS_Singleton
  <2>3. /\ IsFiniteSet({n} \X (1..c))
        /\ Cardinality({n} \X (1..c)) = Cardinality({n}) * Cardinality(1..c)
    BY <2>1, <2>2, FS_Product
  <2>4. c \in Nat
    BY <1>4, <1>5
  <2> QED
    BY <2>1, <2>2, <2>3, <2>4
<1>9. /\ IsFiniteSet(Counted(rows) \cup ({n} \X (1..c)))
      /\ Cardinality(Counted(rows)) \in Nat
      /\ Cardinality(Counted(rows) \cup ({n} \X (1..c)))
           = Cardinality(Counted(rows)) + Cardinality({n} \X (1..c))
  BY <1>7, <1>8, CardDisjoint
<1>10. Total(s) = Total(rows) + c
  BY <1>6, <1>8, <1>9 DEF Total
<1> QED
  BY <1>2, <1>3, <1>5, <1>6, <1>9, <1>10 DEF Total

LEMMA NothingCounted == IsFiniteSet(Counted(<< >>)) /\ Total(<< >>) = 0
<1>1. Counted(<< >>) = {}
  BY DEF Counted
<1> QED
  BY <1>1, FS_EmptySet DEF Total

LEMMA HeaderAlone ==
  ASSUME NEW r \in GoodLine, r.kind = "stats"
  PROVE  /\ HeaderFirst(<<StatsHeader>>) /\ HeaderFirst(<<StatsHeader, r>>)
         /\ <<StatsHeader>> = Append(<< >>, StatsHeader)
         /\ <<StatsHeader, r>> = Append(Append(<< >>, StatsHeader), r)
<1>1. StatsHeader.kind = "header"
  BY DEF StatsHeader
<1>2. /\ Len(<<StatsHeader>>) = 1 /\ <<StatsHeader>>[1] = StatsHeader
      /\ Len(<<StatsHeader, r>>) = 2
      /\ <<StatsHeader, r>>[1] = StatsHeader /\ <<StatsHeader, r>>[2] = r
  OBVIOUS
<1>3. \A i \in 2..2 : i = 2
  OBVIOUS
<1> QED
  BY <1>1, <1>2, <1>3 DEF HeaderFirst

LEMMA HeaderStaysFirst ==
  ASSUME NEW f \in Seq(GoodLine), f # << >>, HeaderFirst(f), NEW r \in GoodLine, r.kind = "stats"
  PROVE  HeaderFirst(Append(f, r)) /\ Append(f, r) # << >>
<1>1. PICK g : g = Append(f, r)
  OBVIOUS
<1>2. /\ Len(f) \in Nat \ {0} /\ Len(g) = Len(f) + 1 /\ g[Len(f) + 1] = r /\ g # << >>
      /\ \A i \in 1..Len(f) : g[i] = f[i]
  BY <1>1
<1>3. g[1].kind = "header"
  BY <1>2 DEF HeaderFirst
<1>4. ASSUME NEW i \in 2..Len(g) PROVE g[i].kind # "header"
  <2>1. i = Len(f) + 1 \/ (i \in 2..Len(f) /\ i \in 1..Len(f))
    BY <1>2
  <2> QED
    BY <1>2, <2>1 DEF HeaderFirst
<1> QED
  BY <1>1, <1>2, <1>3, <1>4 DEF HeaderFirst

(* The row of a window, with the header before it in a new file. *)
LEMMA StatsWritten ==
  ASSUME RowsInv, DatasetInv, DatasetOpen, WriteStats
  PROVE  /\ HeaderFirst(datasetCsv') /\ IsFiniteSet(Counted(datasetCsv'))
         /\ Total(datasetCsv') = Total(datasetCsv) + switch_count
         /\ datasetCsv' = << >> <=> datasetBuf' # << >>
<1>0. /\ datasetCsv \in Seq(GoodLine) /\ datasetBuf \in {<< >>, <<StatsHeader>>}
      /\ switch_count \in Nat
      /\ HeaderFirst(datasetCsv) /\ IsFiniteSet(Counted(datasetCsv))
      /\ datasetCsv = << >> <=> datasetBuf # << >>
  BY DEF RowsInv, WindowFits, DatasetInv
<1>1. CASE latencies = << >>
  <2>1. switch_count = 0
    <3>1. Len(latencies) = 0 /\ MaxStored \in Nat \ {0}
      BY <1>1, CollectorAssumption
    <3>2. switch_count <= MaxStored \/ switch_count > MaxStored
      BY <1>0, <3>1
    <3> QED
      BY <3>1, <3>2 DEF RowsInv, WindowFits
  <2>2. UNCHANGED <<datasetBuf, datasetCsv>>
    BY <1>1 DEF WriteStats
  <2>3. Total(datasetCsv) \in Nat
    BY <1>0, BufferIsGood, CountedAppend
  <2> QED
    BY <1>0, <2>1, <2>2, <2>3
<1>2. CASE latencies # << >>
  <2>1. PICK r : r = StatsRow
    OBVIOUS
  <2>2. r \in GoodLine /\ r.kind = "stats" /\ r.count = switch_count
    <3>1. r \in GoodLine
      BY <1>2, <2>1, RowIsGood DEF RowsInv
    <3> QED
      BY <2>1, <3>1 DEF StatsRow
  <2>3. datasetCsv' = datasetCsv \o Append(datasetBuf, r) /\ datasetBuf' = << >>
    BY <1>2, <2>1 DEF WriteStats
  <2>4. CASE datasetCsv = << >>
    <3>1. datasetBuf = <<StatsHeader>>
      BY <1>0, <2>4
    <3>2. StatsHeader \in GoodLine /\ << >> \in Seq(GoodLine)
      BY BufferIsGood
    <3>3. datasetCsv' = <<StatsHeader, r>>
      <4>1. Append(<<StatsHeader>>, r) = <<StatsHeader, r>>
        BY <2>2, HeaderAlone
      <4>2. \A s \in Seq(GoodLine) : << >> \o s = s
        OBVIOUS
      <4>3. <<StatsHeader, r>> \in Seq(GoodLine)
        BY <2>2, <3>2
      <4>4. << >> \o <<StatsHeader, r>> = <<StatsHeader, r>>
        BY <4>2, <4>3
      <4>5. datasetCsv' = << >> \o Append(<<StatsHeader>>, r)
        BY <2>3, <2>4, <3>1
      <4> QED
        BY <4>1, <4>4, <4>5
    <3>4. PICK h : h = Append(<< >>, StatsHeader)
      OBVIOUS
    <3>5. /\ h \in Seq(GoodLine) /\ IsFiniteSet(Counted(h))
          /\ Total(h) = Total(<< >>) + StatsHeader.count
      BY <3>2, <3>4, NothingCounted, CountedAppend
    <3>6. Total(h) = 0
      BY <3>5, NothingCounted DEF StatsHeader
    <3>7. IsFiniteSet(Counted(Append(h, r))) /\ Total(Append(h, r)) = Total(h) + r.count
      BY <2>2, <3>5, CountedAppend
    <3>8. datasetCsv' = Append(h, r) /\ HeaderFirst(datasetCsv') /\ datasetCsv' # << >>
      BY <2>2, <3>3, <3>4, HeaderAlone
    <3>9. Total(datasetCsv) = 0
      BY <2>4, NothingCounted
    <3>10. Total(datasetCsv') = switch_count
      BY <1>0, <2>2, <3>6, <3>7, <3>8
    <3> QED
      BY <1>0, <2>3, <3>7, <3>8, <3>9, <3>10
  <2>5. CASE datasetCsv # << >>
    <3>1. datasetBuf = << >>
      BY <1>0, <2>5
    <3>2. datasetCsv' = Append(datasetCsv, r)
      BY <1>0, <2>2, <2>3, <3>1
    <3>3. HeaderFirst(datasetCsv') /\ datasetCsv' # << >>
      BY <1>0, <2>2, <2>5, <3>2, HeaderStaysFirst
    <3>4. IsFiniteSet(Counted(datasetCsv')) /\ Total(datasetCsv') = Total(datasetCsv) + r.count
      BY <1>0, <2>2, <3>2, CountedAppend
    <3> QED
      BY <2>2, <2>3, <3>3, <3>4
  <2> QED
    BY <2>4, <2>5
<1> QED
  BY <1>1, <1>2

Early == {"args", "load", "attach", "target", "config", "ring", "events", "dataset", "failed"}

LEMMA DatasetInvIs ==
  DatasetInv <=>
    /\ HeaderFirst(datasetCsv) /\ IsFiniteSet(Counted(datasetCsv))
    /\ ~DatasetOpen => datasetBuf = << >>
    /\ DatasetOpen => (datasetCsv = << >> <=> datasetBuf # << >>)
    /\ pc \in Early => switch_count = 0
    /\ kills = 0 => Total(datasetCsv) + OpenCount = handled
  BY DEF DatasetInv, Early

(* The steps that leave dataset.csv and the counts alone. *)
DatasetQuiet ==
  \/ ParseArgs \/ Load \/ AttachNext \/ SetTarget \/ SetConfig \/ NewRing \/ OpenEvents \/ Loop
  \/ PollReturns \/ PollInterrupted \/ Tick \/ Produce

LEMMA DatasetQuietKeeps ==
  ASSUME DatasetInv, DatasetQuiet \/ UNCHANGED colVars
  PROVE  /\ UNCHANGED <<datasetCsv, datasetBuf, kills, handled, switch_count>>
         /\ DatasetOpen' <=> DatasetOpen
         /\ pc' \in Early => pc \in Early
         /\ OpenCount' = OpenCount
<1>1. CASE ParseArgs \/ Load \/ AttachNext \/ SetTarget \/ SetConfig \/ NewRing \/ OpenEvents
  <2>1. /\ UNCHANGED <<datasetCsv, datasetBuf, kills, handled, switch_count>>
        /\ pc \in Early /\ pc' \in Early
        /\ DatasetOpen' <=> DatasetOpen
    BY <1>1 DEF ParseArgs, Load, AttachNext, SetTarget, SetConfig, NewRing, OpenEvents, files, window,
                DatasetOpen, Early
  <2>2. switch_count = 0 /\ switch_count' = 0
    BY <2>1 DEF DatasetInv, Early
  <2> QED
    BY <2>1, <2>2 DEF OpenCount
<1>2. CASE Loop \/ PollReturns \/ PollInterrupted \/ Tick
  <2>1. /\ UNCHANGED <<datasetCsv, datasetBuf, kills, handled, switch_count>>
        /\ pc \in {"loop", "poll", "window"} /\ pc' \in {"loop", "poll", "window", "final"}
    BY <1>2 DEF Loop, PollReturns, PollInterrupted, Tick, files, window
  <2> QED
    BY <2>1 DEF OpenCount, DatasetOpen, Early, Ended
<1>3. CASE Produce \/ UNCHANGED colVars
  BY <1>3 DEF Produce, own, colVars, files, window, DatasetOpen, OpenCount
<1> QED
  BY <1>1, <1>2, <1>3 DEF DatasetQuiet

LEMMA DatasetSame ==
  ASSUME DatasetInv, UNCHANGED <<datasetCsv, datasetBuf, kills, handled, switch_count>>,
         DatasetOpen' <=> DatasetOpen, pc' \in Early => pc \in Early, OpenCount' = OpenCount
  PROVE  DatasetInv'
<1>1. pc' \in Early => switch_count' = 0
  BY DatasetInvIs
<1>2. kills' = 0 => Total(datasetCsv') + OpenCount' = handled'
  BY DatasetInvIs
<1>3. /\ ~DatasetOpen' => datasetBuf' = << >>
      /\ DatasetOpen' => (datasetCsv' = << >> <=> datasetBuf' # << >>)
      /\ HeaderFirst(datasetCsv') /\ IsFiniteSet(Counted(datasetCsv'))
  BY DatasetInvIs
<1> QED
  BY <1>1, <1>2, <1>3 DEF DatasetInv, Early

LEMMA DatasetKilled ==
  ASSUME RowsInv, DatasetInv, GhostsOK, Kill
  PROVE  DatasetInv'
<1>1. /\ datasetCsv' = datasetCsv /\ datasetBuf' = << >> /\ kills' # 0 /\ pc' = "killed"
  BY DEF Kill, GhostsOK
<1>2. ~DatasetOpen' /\ pc' \notin Early
  BY <1>1 DEF DatasetOpen, Early
<1> QED
  BY <1>1, <1>2 DEF DatasetInv, Early

LEMMA DatasetNext ==
  ASSUME RowsInv, DatasetInv, GhostsOK, [Next]_colVars
  PROVE  DatasetInv'
<1>0. kills \in Nat /\ handled \in Nat /\ switch_count \in Nat /\ Total(datasetCsv) \in Nat
  <2>1. Total(datasetCsv) \in Nat
    BY BufferIsGood, CountedAppend DEF RowsInv, DatasetInv
  <2> QED
    BY <2>1, SwitchCountNat DEF GhostsOK
<1>1. CASE DatasetQuiet \/ UNCHANGED colVars
  BY <1>1, DatasetQuietKeeps, DatasetSame
<1>2. CASE OpenDataset
  <2>1. /\ ~DatasetOpen /\ UNCHANGED <<datasetCsv, kills, handled, switch_count>>
        /\ pc = "dataset" /\ datasetBuf = << >> /\ switch_count = 0
    BY <1>2 DEF OpenDataset, DatasetOpen, window, DatasetInv
  <2>2. OpenCount = 0 /\ OpenCount' = 0
    BY <2>1 DEF OpenCount
  <2>3. CASE pc' = "loop" /\ datasetBuf' = OpenBuffer(datasetCsv, StatsHeader)
    <3>1. datasetCsv = << >> <=> datasetBuf' # << >>
      BY <2>3 DEF OpenBuffer
    <3>2. DatasetOpen'
      BY <2>3 DEF DatasetOpen
    <3> QED
      BY <2>1, <2>2, <2>3, <3>1, <3>2 DEF DatasetInv
  <2>4. CASE pc' = "failed" /\ UNCHANGED datasetBuf
    <3>1. ~DatasetOpen'
      BY <2>4 DEF DatasetOpen
    <3> QED
      BY <2>1, <2>2, <2>4, <3>1 DEF DatasetInv
  <2> QED
    BY <1>2, <2>3, <2>4 DEF OpenDataset
<1>3. CASE HandleEvent
  <2>1. /\ UNCHANGED <<datasetCsv, datasetBuf, kills>> /\ pc = "poll" /\ pc' = "poll"
        /\ handled' = handled + 1 /\ switch_count' = switch_count + 1
    BY <1>3 DEF HandleEvent, Keep
  <2>2. DatasetOpen /\ DatasetOpen' /\ OpenCount = switch_count /\ OpenCount' = switch_count + 1
    BY <2>1 DEF DatasetOpen, OpenCount, Ended
  <2>3. kills = 0 => Total(datasetCsv) + (switch_count + 1) = handled + 1
    <3>1. kills = 0 => Total(datasetCsv) + switch_count = handled
      BY <2>2 DEF DatasetInv
    <3> QED
      BY <1>0, <3>1
  <2>4. /\ HeaderFirst(datasetCsv) /\ IsFiniteSet(Counted(datasetCsv))
        /\ datasetCsv = << >> <=> datasetBuf # << >>
    BY <2>2 DEF DatasetInv
  <2> QED
    BY <2>1, <2>2, <2>3, <2>4 DEF DatasetInv
<1>4. CASE EndWindow
  <2>1. /\ pc = "window" /\ pc' = "loop" /\ UNCHANGED <<kills, handled>>
    BY <1>4 DEF EndWindow
  <2>2. /\ DatasetOpen /\ DatasetOpen' /\ OpenCount = switch_count /\ OpenCount' = switch_count'
    BY <2>1 DEF DatasetOpen, OpenCount, Ended
  <2>3. CASE secondPassed
    <3>1. WriteStats /\ switch_count' = 0
      BY <1>4, <2>3 DEF EndWindow, ResetWindow
    <3>2. /\ HeaderFirst(datasetCsv') /\ IsFiniteSet(Counted(datasetCsv'))
          /\ Total(datasetCsv') = Total(datasetCsv) + switch_count
          /\ datasetCsv' = << >> <=> datasetBuf' # << >>
      BY <2>2, <3>1, StatsWritten
    <3>3. kills = 0 => Total(datasetCsv') + 0 = handled
      <4>1. kills = 0 => Total(datasetCsv) + switch_count = handled
        BY <2>2 DEF DatasetInv
      <4> QED
        BY <1>0, <3>2, <4>1
    <3> QED
      BY <2>1, <2>2, <3>1, <3>2, <3>3 DEF DatasetInv
  <2>4. CASE ~secondPassed
    <3>1. UNCHANGED <<datasetCsv, datasetBuf, switch_count>>
      BY <1>4, <2>4 DEF EndWindow, window, files
    <3>2. pc' \notin Early
      BY <2>1 DEF Early
    <3> QED
      BY <2>1, <2>2, <3>1, <3>2, DatasetSame
  <2> QED
    BY <2>3, <2>4
<1>5. CASE Final
  <2>1. /\ pc = "final" /\ pc' = "closing" /\ UNCHANGED <<kills, handled, switch_count>> /\ WriteStats
    BY <1>5 DEF Final, window
  <2>2. /\ DatasetOpen /\ DatasetOpen' /\ OpenCount = switch_count /\ OpenCount' = 0
    BY <2>1 DEF DatasetOpen, OpenCount, Ended
  <2>3. /\ HeaderFirst(datasetCsv') /\ IsFiniteSet(Counted(datasetCsv'))
        /\ Total(datasetCsv') = Total(datasetCsv) + switch_count
        /\ datasetCsv' = << >> <=> datasetBuf' # << >>
    BY <2>1, <2>2, StatsWritten
  <2>4. kills = 0 => Total(datasetCsv') + 0 = handled
    <3>1. kills = 0 => Total(datasetCsv) + switch_count = handled
      BY <2>2 DEF DatasetInv
    <3> QED
      BY <1>0, <2>3, <3>1
  <2> QED
    BY <2>1, <2>2, <2>3, <2>4 DEF DatasetInv
<1>6. CASE Close
  <2>1. /\ pc = "closing" /\ pc' = "exited" /\ UNCHANGED <<kills, handled, switch_count>>
        /\ datasetCsv' = datasetCsv \o datasetBuf /\ datasetBuf' = << >>
    BY <1>6 DEF Close, window
  <2>2. DatasetOpen /\ ~DatasetOpen' /\ OpenCount = 0 /\ OpenCount' = 0
    BY <2>1 DEF DatasetOpen, OpenCount, Ended
  <2>3. /\ HeaderFirst(datasetCsv) /\ IsFiniteSet(Counted(datasetCsv))
        /\ datasetCsv = << >> <=> datasetBuf # << >>
        /\ kills = 0 => Total(datasetCsv) + 0 = handled
    BY <2>2 DEF DatasetInv
  <2>4. /\ HeaderFirst(datasetCsv') /\ IsFiniteSet(Counted(datasetCsv'))
        /\ Total(datasetCsv') = Total(datasetCsv)
    <3>1. CASE datasetCsv = << >>
      <4>1. datasetBuf = <<StatsHeader>>
        BY <2>3, <3>1 DEF RowsInv
      <4>2. StatsHeader \in GoodLine /\ << >> \in Seq(GoodLine)
        BY BufferIsGood
      <4>3. datasetCsv' = Append(<< >>, StatsHeader)
        BY <2>1, <3>1, <4>1, <4>2
      <4>4. HeaderFirst(datasetCsv')
        <5>1. PICK h : h = datasetCsv'
          OBVIOUS
        <5>2. Len(h) = 1 /\ h[1] = StatsHeader
          BY <4>3, <5>1
        <5>3. StatsHeader.kind = "header"
          BY DEF StatsHeader
        <5> QED
          BY <5>1, <5>2, <5>3 DEF HeaderFirst
      <4>5. /\ IsFiniteSet(Counted(Append(<< >>, StatsHeader)))
            /\ Total(Append(<< >>, StatsHeader)) = Total(<< >>) + StatsHeader.count
        BY <4>2, NothingCounted, CountedAppend
      <4>6. Total(<< >>) = 0 /\ StatsHeader.count = 0
        BY NothingCounted DEF StatsHeader
      <4>7. Total(Append(<< >>, StatsHeader)) = 0
        BY <4>5, <4>6
      <4> QED
        BY <3>1, <4>3, <4>4, <4>5, <4>6, <4>7
    <3>2. CASE datasetCsv # << >>
      <4>1. datasetBuf = << >>
        BY <2>3, <3>2
      <4>2. datasetCsv' = datasetCsv
        BY <2>1, <4>1 DEF RowsInv
      <4> QED
        BY <2>3, <4>2
    <3> QED
      BY <3>1, <3>2
  <2> QED
    BY <2>1, <2>2, <2>3, <2>4 DEF DatasetInv
<1>7. CASE Kill
  BY <1>7, DatasetKilled
<1>8. CASE SigInt
  <2>1. CASE UNCHANGED <<shared, pc, args, prog, secondPassed, window, files, handled, runs, kills>>
    <3>1. /\ UNCHANGED <<datasetCsv, datasetBuf, kills, handled, switch_count>>
          /\ DatasetOpen' <=> DatasetOpen
          /\ OpenCount' = OpenCount /\ pc' = pc
      BY <2>1 DEF window, files, DatasetOpen, OpenCount
    <3> QED
      BY <3>1, DatasetSame
  <2> QED
    BY <1>7, <1>8, <2>1 DEF SigInt
<1>9. CASE Restart
  <2>1. /\ UNCHANGED <<datasetCsv, datasetBuf, kills, handled>> /\ switch_count' = 0
        /\ pc \in Ended /\ pc' = "args"
    BY <1>9 DEF Restart, files
  <2>2. ~DatasetOpen /\ ~DatasetOpen' /\ OpenCount = 0 /\ OpenCount' = 0
    BY <2>1 DEF DatasetOpen, OpenCount, Ended
  <2>3. /\ HeaderFirst(datasetCsv) /\ IsFiniteSet(Counted(datasetCsv)) /\ datasetBuf = << >>
        /\ kills = 0 => Total(datasetCsv) + 0 = handled
    BY <2>2 DEF DatasetInv
  <2> QED
    BY <2>1, <2>2, <2>3 DEF DatasetInv
<1> QED
  BY <1>1, <1>2, <1>3, <1>4, <1>5, <1>6, <1>7, <1>8, <1>9 DEF Next, Step, DatasetQuiet

LEMMA DatasetInit ==
  ASSUME Init
  PROVE  DatasetInv
<1>1. /\ datasetCsv = << >> /\ datasetBuf = << >> /\ handled = 0 /\ pc = "args" /\ switch_count = 0
  BY DEF Init
<1>2. Len(<< >>) = 0
  OBVIOUS
<1>3. HeaderFirst(<< >>)
  BY <1>2 DEF HeaderFirst
<1>4. ~DatasetOpen /\ OpenCount = 0
  BY <1>1 DEF DatasetOpen, OpenCount
<1> QED
  BY <1>1, <1>3, <1>4, NothingCounted DEF DatasetInv

-----------------------------------------------------------------------------
CollectorInv == RowsInv /\ EventsPart /\ DatasetInv /\ GhostsOK

LEMMA CollectorInvariant == Spec => []CollectorInv
<1>1. Init => CollectorInv
  BY RowsInit, EventsInit, DatasetInit DEF CollectorInv
<1>2. CollectorInv /\ [Next]_colVars => CollectorInv'
  BY RowsNext, EventsNext, DatasetNext, GhostsNext DEF CollectorInv
<1> QED
  BY <1>1, <1>2, PTL DEF Spec

(* No event handed to handle_event is lost or written twice as long as no   *)
(* signal kills a collector: over any number of runs, failures, interrupts, *)
(* windows and writes of a full buffer, the rows of ebpf_events.csv and of  *)
(* its buffer, and the counts of dataset.csv and of the open window, add up *)
(* to the events handled.                                                   *)
THEOREM EventsCounted == Spec => []EventsAccounted
<1>1. CollectorInv => EventsAccounted
  <2> SUFFICES ASSUME CollectorInv, kills = 0
               PROVE  /\ CountOf({"row"}, eventsCsv) + CountOf({"row", "rest"}, eventsBuf) = handled
                      /\ Total(datasetCsv)
                           + (IF pc \in Ended \cup {"closing", "args", "load"} THEN 0 ELSE switch_count)
                           = handled
    BY DEF EventsAccounted
  <2>1. CountOf({"row"}, eventsCsv) + CountOf({"row", "rest"}, eventsBuf) = handled
    BY DEF CollectorInv, EventsPart, RowsHandled
  <2>2. Total(datasetCsv) + OpenCount = handled
    BY DEF CollectorInv, DatasetInv
  <2>3. (IF pc \in Ended \cup {"closing", "args", "load"} THEN 0 ELSE switch_count) = OpenCount
    <3>1. pc \in {"args", "load"} => switch_count = 0
      BY DEF CollectorInv, DatasetInv
    <3> QED
      BY <3>1 DEF OpenCount, Ended
  <2> QED
    BY <2>1, <2>2, <2>3
<1> QED
  BY <1>1, CollectorInvariant, PTL

(* What is only in the buffer of ebpf_events.csv, and lost with it, was     *)
(* handled since the open window began.                                     *)
THEOREM BufferOfWindow == Spec => []BufferWithinWindow
<1>1. CollectorInv => BufferWithinWindow
  BY DEF CollectorInv, EventsPart
<1> QED
  BY <1>1, CollectorInvariant, PTL

(* A kill damages at most one line of ebpf_events.csv, whatever was in the  *)
(* buffers of the collectors before and after it.                           *)
THEOREM DamageIsBounded == Spec => []DamageBounded
<1>1. CollectorInv => DamageBounded
  <2> SUFFICES ASSUME CollectorInv
               PROVE  CountOf(Damaged, eventsCsv) <= kills + CountOf({"rest"}, eventsBuf)
    BY DEF DamageBounded, Damaged
  <2>1. EventsInv /\ DamageInv /\ kills \in Nat
    BY DEF CollectorInv, EventsPart, GhostsOK
  <2>2. eventsBuf \in Seq(AnyLine) /\ CountOf({"rest"}, eventsBuf) \in Nat
    BY <2>1, BufferKinds, CountIs
  <2>3. CASE ~Waiting
    BY <2>1, <2>2, <2>3, OpenEnd
  <2>4. CASE Waiting
    <3>1. eventsBuf # << >> /\ eventsBuf[1].kind = "rest"
      BY <2>4 DEF Waiting, HeadIs
    <3>2. CountOf({"rest"}, eventsBuf)
            = Bit(eventsBuf[1].kind \in {"rest"}) + CountOf({"rest"}, Tail(eventsBuf))
      BY <2>2, <3>1, CountFirst
    <3>3. Bit(eventsBuf[1].kind \in {"rest"}) = 1
      BY <3>1 DEF Bit
    <3>4. CountOf({"rest"}, Tail(eventsBuf)) \in Nat
      BY <2>1, <3>1, BufferKinds, CountIs
    <3>5. CountOf({"rest"}, eventsBuf) >= 1
      BY <3>2, <3>3, <3>4
    <3> QED
      BY <2>1, <2>2, <2>4, <3>5, OpenEnd
  <2> QED
    BY <2>3, <2>4
<1> QED
  BY <1>1, CollectorInvariant, PTL

(* Either file has one header, at its beginning, whichever of the runs      *)
(* found it empty, failed before it wrote anything, or was killed.          *)
THEOREM HeaderOnce == Spec => []OneHeader
<1>1. CollectorInv => OneHeader
  BY DEF CollectorInv, EventsPart, EventsInv, DatasetInv, HeaderFirst, OneHeader
<1> QED
  BY <1>1, CollectorInvariant, PTL
=============================================================================
