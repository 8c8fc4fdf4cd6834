------------------------------- MODULE CsvFiles -------------------------------
(***************************************************************************)
(* What ends up in the CSV files, and in the dashboard's tables, while     *)
(* collectors are started, interrupted and killed: they all append to one  *)
(* dataset.csv, and the dashboard reads the events file of one of them.    *)
(*                                                                         *)
(* Rows go through stdio's buffers.  Of the events file, a full buffer is  *)
(* written out up to anywhere in a row; of dataset.csv, only a header is   *)
(* ever left in the buffer, as each row is flushed at once.                *)
(***************************************************************************)
EXTENDS Integers, SequencesExt

CONSTANTS
  Collectors,
  Shown,        \* the collector whose events file the dashboard shows
  MaxStarts,    \* bound on the collectors started, one after the other
  MaxWindows,   \* bound on the windows with events of each of them
  MaxEvents,    \* bound on the events of the one that is shown
  MaxRows       \* max_rows of load_ebpf_events

ASSUME CsvAssumption ==
  /\ Shown \in Collectors
  /\ MaxStarts \in Nat /\ MaxWindows \in Nat /\ MaxEvents \in Nat /\ MaxRows \in Nat \ {0}

VARIABLES
  running,   \* the collectors that run
  starts,    \* how many were started
  dataset,   \* dataset.csv: headers, and rows with the number of their window
  unsaved,   \* per collector: the lines of dataset.csv in its buffer
  windows,   \* ghost, per collector: the rows it has written
  early,     \* ghost: the collectors that were started on an empty dataset.csv
  lines,     \* the complete lines of the events file
  stub,      \* fields of a row at its end whose collector was killed, or 0
  buffer,    \* the events in the buffer of the collector that writes it
  cut,       \* fields of the first of them that are in the file already
  killed     \* ghost: collectors killed in the middle of a row

datasetVars == <<dataset, unsaved, windows, early>>
eventVars   == <<lines, stub, buffer, cut, killed>>
vars == <<running, starts, datasetVars, eventVars>>

Fields == 8       \* of a row of the events file
Latency == 7      \* the place of latency_us among them
Header == 0

Line(c, n) == [from |-> c, window |-> n]
EventLine(event, fields) == [event |-> event, fields |-> fields]

Init ==
  /\ running = {} /\ starts = 0
  /\ dataset = << >> /\ unsaved = [c \in Collectors |-> << >>]
  /\ windows = [c \in Collectors |-> 0] /\ early = {}
  /\ lines = << >> /\ stub = 0 /\ buffer = << >> /\ cut = 0 /\ killed = 0

-----------------------------------------------------------------------------
(* The row of fields that begins where a row was cut after stub of them:    *)
(* the field in which it was cut and its own first one become one.          *)
Joined(fields) == IF stub = 0 THEN fields ELSE stub + fields - 1

(* The first n events of the buffer are written out whole. *)
LinesWith(n) ==
  lines \o [i \in 1..n |-> EventLine(buffer[i], IF i = 1 THEN Joined(Fields) ELSE Fields)]
WriteAll ==
  /\ lines' = LinesWith(Len(buffer)) /\ buffer' = << >> /\ cut' = 0
  /\ stub' = IF buffer = << >> THEN stub ELSE 0

(* fopen with "a", and a header if the file is empty: of dataset.csv in the *)
(* buffer, where nobody else sees it; that of the events file gets there    *)
(* with the first rows, so that the event 0 stands for it.                  *)
HeaderAlways(c) == <<Line(c, Header)>>   \* mutant: the test of ftell is dropped
HeaderOf(c) == IF dataset = << >> THEN <<Line(c, Header)>> ELSE << >>
Open(c) ==
  /\ c \notin running /\ starts < MaxStarts
  /\ running' = running \cup {c} /\ starts' = starts + 1
  /\ unsaved' = [unsaved EXCEPT ![c] = HeaderOf(c)]
  /\ early' = IF dataset = << >> THEN early \cup {c} ELSE early
  /\ buffer' = IF c = Shown /\ lines = << >> /\ stub = 0 THEN <<Header>> ELSE buffer
  /\ UNCHANGED <<dataset, windows, lines, stub, cut, killed>>

(* handle_event: the row is buffered; a buffer that it makes full is        *)
(* written out, up to some field of this row.                               *)
Events == {0} \cup {lines[i].event : i \in DOMAIN lines} \cup Range(buffer)
HandleEvent ==
  LET event == Max(Events) + 1
      filled == Append(buffer, event)
  IN
  /\ Shown \in running /\ event <= MaxEvents
  /\ \/ buffer' = filled /\ UNCHANGED <<lines, stub, cut>>
     \/ /\ lines' = LinesWith(Len(buffer)) /\ buffer' = <<event>>
        /\ stub' = IF buffer = << >> THEN stub ELSE 0
        /\ cut' \in 1..Fields
  /\ UNCHANGED <<running, starts, datasetVars, killed>>

(* The end of a window: its row, if it had events, and everything before    *)
(* goes to the files.                                                       *)
SaveRowLater(c) ==   \* mutant: no fflush(fp)
  /\ windows' = [windows EXCEPT ![c] = @ + 1]
  /\ unsaved' = [unsaved EXCEPT ![c] = Append(@, Line(c, windows[c] + 1))]
  /\ UNCHANGED dataset
SaveRow(c) ==
  /\ windows' = [windows EXCEPT ![c] = @ + 1]
  /\ dataset' = dataset \o Append(unsaved[c], Line(c, windows[c] + 1))
  /\ unsaved' = [unsaved EXCEPT ![c] = << >>]
Flush(c) == IF c = Shown THEN WriteAll ELSE UNCHANGED <<lines, stub, buffer, cut>>

EndWindow(c) ==
  /\ c \in running /\ windows[c] < MaxWindows
  /\ SaveRow(c) \/ UNCHANGED <<dataset, unsaved, windows>>
  /\ Flush(c)
  /\ UNCHANGED <<running, starts, early, killed>>

(* The end of main(): the last row, if there is one, and both files are     *)
(* closed.                                                                  *)
Abandon(c) ==
  /\ running' = running \ {c} /\ unsaved' = [unsaved EXCEPT ![c] = << >>]
  /\ UNCHANGED <<starts, dataset, windows, early, lines>>
  /\ IF c = Shown
     THEN /\ buffer' = << >> /\ cut' = 0 /\ stub' = IF cut = 0 THEN stub ELSE Joined(cut)
     ELSE UNCHANGED <<buffer, cut, stub>>
ExitUnflushed(c) ==   \* mutant: the files are not closed
  c \in running /\ Abandon(c) /\ UNCHANGED killed
Exit(c) ==
  /\ c \in running /\ running' = running \ {c}
  /\ \/ windows[c] < MaxWindows /\ SaveRow(c)
     \/ /\ dataset' = dataset \o unsaved[c] /\ unsaved' = [unsaved EXCEPT ![c] = << >>]
        /\ UNCHANGED windows
  /\ Flush(c)
  /\ UNCHANGED <<starts, early, killed>>

(* SIGKILL, SIGTERM or a hangup: what is buffered is lost. *)
Kill(c) ==
  /\ c \in running /\ Abandon(c)
  /\ killed' = IF c = Shown /\ cut > 0 THEN killed + 1 ELSE killed

Next ==
  \/ HandleEvent
  \/ \E c \in Collectors : Open(c) \/ EndWindow(c) \/ Exit(c) \/ Kill(c)

Spec == Init /\ [][Next]_vars

-----------------------------------------------------------------------------
(* load_ebpf_events: the last max_rows lines after the first one, with one  *)
(* that is not complete.                                                    *)
Unfinished == IF stub = 0 /\ cut = 0 THEN << >>
              ELSE <<EventLine(IF cut = 0 THEN Header ELSE buffer[1],
                               IF cut = 0 THEN stub ELSE Joined(cut))>>
FirstRows(rows) == SubSeq(rows, 1, Min({MaxRows, Len(rows)}))   \* mutant: the first ones
LastRows(rows) == SubSeq(rows, Max({1, Len(rows) - MaxRows + 1}), Len(rows))
Rows == LastRows(SubSeq(lines, 2, Len(lines)) \o Unfinished)

(* pandas.read_csv raises an exception at a row of more fields than it      *)
(* expects, and nothing is shown at all. It expects those of the header, or *)
(* of the first row if it has more: then all columns are shifted.           *)
Shifted == Rows # << >> /\ Rows[1].fields > Fields
Raises  == ~Shifted /\ \E i \in DOMAIN Rows : Rows[i].fields > Fields

(* A row without a latency is dropped; that of one cut there may be short. *)
Table ==
  IF Shifted \/ Raises THEN {}
  ELSE {Rows[i].event : i \in {j \in DOMAIN Rows : Rows[j].fields >= Latency}}

-----------------------------------------------------------------------------
(* dataset.csv begins with a header, in whatever order the collectors that  *)
(* found it empty write their first rows or are killed.  There may be more   *)
(* of them, further down; but only collectors that were started on an empty *)
(* file write one, each of them once (collector.c:256-280, 323).            *)
DatasetHeaders ==
  /\ dataset # << >> => Head(dataset).window = Header
  /\ \A i, j \in DOMAIN dataset :
       /\ dataset[i].window = Header => dataset[i].from \in early
       /\ i # j => dataset[i] # dataset[j]

(* A row that was written stays, once and in order, whoever is killed and   *)
(* whoever else appends to the file.                                        *)
RowsKept ==
  \A c \in Collectors :
    LET rows == {i \in DOMAIN dataset : dataset[i].from = c /\ dataset[i].window # Header} IN
    /\ {dataset[i].window : i \in rows} = 1..windows[c]
    /\ \A i, j \in rows : i < j => dataset[i].window < dataset[j].window

(* The tables fail or are shifted only after a collector was killed in the  *)
(* middle of a row, and once for each: not because a file is read while it  *)
(* is written (tui.py:376-383).                                             *)
DamageOnlyByKills ==
  LET damaged == {i \in DOMAIN lines : lines[i].fields # Fields} IN
  /\ Shifted \/ Raises => killed > 0
  /\ Cardinality(damaged) <= killed

(* Unless it fails, the table has every complete row among the newest       *)
(* max_rows - 1 lines, though the file was cut anywhere (tui.py:376-391).   *)
NewestShown ==
  ~Shifted /\ ~Raises =>
    \A i \in Max({2, Len(lines) - MaxRows + 2})..Len(lines) : lines[i].event \in Table
=============================================================================
