------------------------------ MODULE Collector ------------------------------
(***************************************************************************)
(* The user-space collector, ebpf_logs/collector.c: its start-up with all  *)
(* its failure exits, the polling loop with its one-second windows, and    *)
(* its two append-only CSV files behind stdio buffers.  A collector may be *)
(* interrupted or killed at any time, and run again on the same files.     *)
(*                                                                         *)
(* attached, target, config and events are shared with the BPF programs    *)
(* (SlBpf.tla).  Alone, this module closes the loop with Produce; in       *)
(* Tracing.tla the programs themselves fill the ring.                      *)
(***************************************************************************)
EXTENDS CsvLines

CONSTANTS
  CommandLines,   \* the arguments it may be given: [argc, tgid, min_us, rate]
  Word,           \* 2^32: what an unsigned int wraps at
  NsPerUs,        \* 1000
  AllMinUs,       \* 50: min_latency_us of the all-process mode
  AllRate,        \* 10: sample_rate of the all-process mode
  MaxStored,      \* MAX_EVENTS: latencies one window can hold
  OverUs,         \* a threshold of the over20, over50 and over100 counters
  SlotsOfRing,    \* events the ring buffer holds
  SampleEvents,   \* the events Produce may put there: [tgid, latency_ns, ...]
  MaxHandled,     \* bound on the events handled in all runs
  MaxRuns         \* bound on the times a collector is started

ASSUME CollectorAssumption ==
  /\ Word \in Nat \ {0} /\ NsPerUs \in Nat \ {0}
  /\ AllMinUs \in 0..(Word - 1) /\ AllRate \in 1..(Word - 1)
  /\ MaxStored \in Nat \ {0} /\ OverUs \in Nat /\ SlotsOfRing \in Nat
  /\ MaxHandled \in Nat /\ MaxRuns \in Nat \ {0}
  /\ CommandLines \subseteq [argc : Nat, tgid : Nat, min_us : Int, rate : Int]
  /\ \A e \in SampleEvents : e.tgid \in Nat /\ e.latency_ns \in Nat

VARIABLES
  attached, target, config, events,   \* shared with the BPF programs
  pc,              \* where main() is
  args,            \* the command line of this run
  prog,            \* how many programs the attach loop has passed
  exiting,         \* set by the signal handler
  secondPassed,    \* time(NULL) - window_start >= 1
  latencies,       \* the first MAX_EVENTS latencies of this window
  switch_count, over,
  eventsBuf, eventsCsv,     \* the stdio buffer of ebpf_events.csv, and the file
  datasetBuf, datasetCsv,   \* the same of dataset.csv
  handled,         \* ghost: events handled in all runs
  runs, kills      \* collectors started; those that died of a signal

shared == <<attached, target, config, events>>
window == <<latencies, switch_count, over>>
files  == <<eventsBuf, eventsCsv, datasetBuf, datasetCsv>>
own    == <<pc, args, prog, exiting, secondPassed, window, files, handled, runs, kills>>
colVars == <<shared, own>>

ProgramsReversed == <<"sched_switch", "sched_wakeup_new", "sched_wakeup">>   \* mutant
Programs == <<"sched_wakeup", "sched_wakeup_new", "sched_switch">>
Unset == [min_latency_ns |-> 0, sample_rate |-> 0, include_kernel_threads |-> 0]

-----------------------------------------------------------------------------
(* The arguments and their defaults (collector.c:150-193). *)
Unsigned(x) == x % Word
Effective(a) ==
  LET filter == IF a.argc >= 3 THEN Unsigned(a.tgid) ELSE 0
      minUs == IF a.argc >= 4 THEN Unsigned(a.min_us)
               ELSE IF filter = 0 THEN AllMinUs ELSE 0
      asked == IF a.argc >= 5 THEN Unsigned(a.rate) ELSE 0
      usual == IF filter = 0 THEN AllRate ELSE 1
  IN [filter_tgid |-> filter,
      config |-> [min_latency_ns |-> minUs * NsPerUs,
                  sample_rate |-> IF asked = 0 THEN usual ELSE asked,
                  include_kernel_threads |-> IF filter # 0 THEN 1 ELSE 0]]

(* A line of dataset.csv: the statistics of one window. *)
StatsHeader == [kind |-> "header", count |-> 0, max |-> 0, over |-> 0]
StatsRow == [kind |-> "stats", count |-> switch_count, over |-> over,
             max |-> Max(Range(latencies))]

-----------------------------------------------------------------------------
Init ==
  /\ attached = {} /\ target = 0 /\ config = Unset /\ events = << >>
  /\ pc = "args" /\ args \in CommandLines /\ prog = 0
  /\ exiting = FALSE /\ secondPassed = FALSE
  /\ latencies = << >> /\ switch_count = 0 /\ over = 0
  /\ eventsBuf = << >> /\ eventsCsv = << >> /\ datasetBuf = << >> /\ datasetCsv = << >>
  /\ handled = 0 /\ runs = 1 /\ kills = 0

Goto(from, to) == pc = from /\ pc' = to

(* main() up to signal(): a bad argument count, or no object file, ends it. *)
ParseArgs ==
  /\ pc = "args"
  /\ pc' \in IF args.argc \in 2..5 THEN {"load", "failed"} ELSE {"failed"}
  /\ UNCHANGED <<shared, args, prog, exiting, secondPassed, window, files, handled, runs, kills>>

Load ==
  /\ pc = "load" /\ pc' \in {"attach", "failed"}
  /\ UNCHANGED <<shared, args, prog, exiting, secondPassed, window, files, handled, runs, kills>>

(* The attach loop does not look at what bpf_program__attach returns. *)
AttachNext ==
  /\ pc = "attach" /\ prog < Len(Programs)
  /\ prog' = prog + 1
  /\ attached' \in {attached, attached \cup {Programs[prog + 1]}}
  /\ pc' = IF prog' = Len(Programs) THEN "target" ELSE "attach"
  /\ UNCHANGED <<target, config, events, args, exiting, secondPassed, window, files,
                 handled, runs, kills>>

SetTarget ==
  /\ pc = "target"
  /\ \/ pc' = "config" /\ target' = Effective(args).filter_tgid
     \/ pc' = "failed" /\ UNCHANGED target
  /\ UNCHANGED <<attached, config, events, args, prog, exiting, secondPassed, window, files,
                 handled, runs, kills>>

SetConfig ==
  /\ pc = "config"
  /\ \/ pc' = "ring" /\ config' = Effective(args).config
     \/ pc' = "failed" /\ UNCHANGED config
  /\ UNCHANGED <<attached, target, events, args, prog, exiting, secondPassed, window, files,
                 handled, runs, kills>>

NewRing ==
  /\ pc = "ring" /\ pc' \in {"events", "failed"}
  /\ UNCHANGED <<shared, args, prog, exiting, secondPassed, window, files, handled, runs, kills>>

OpenEvents ==
  /\ pc = "events"
  /\ \/ pc' = "dataset" /\ eventsBuf' = OpenBuffer(eventsCsv, Header)
     \/ pc' = "failed" /\ UNCHANGED eventsBuf
  /\ UNCHANGED <<shared, args, prog, exiting, secondPassed, window, eventsCsv, datasetBuf,
                 datasetCsv, handled, runs, kills>>

(* Failing here closes events_fp, which writes its buffer out. *)
OpenDataset ==
  /\ pc = "dataset"
  /\ \/ /\ pc' = "loop" /\ datasetBuf' = OpenBuffer(datasetCsv, StatsHeader)
        /\ UNCHANGED <<eventsBuf, eventsCsv>>
     \/ /\ pc' = "failed"
        /\ eventsCsv' = WriteOut(eventsCsv, eventsBuf) /\ eventsBuf' = << >>
        /\ UNCHANGED datasetBuf
  /\ secondPassed' = FALSE
  /\ UNCHANGED <<shared, args, prog, exiting, window, datasetCsv, handled, runs, kills>>

LoopForever ==   \* mutant: the loop does not look at exiting
  /\ pc = "loop" /\ pc' = "poll"
  /\ UNCHANGED <<shared, args, prog, exiting, secondPassed, window, files, handled, runs, kills>>

Loop ==
  /\ pc = "loop"
  /\ pc' = IF exiting THEN "final" ELSE "poll"
  /\ UNCHANGED <<shared, args, prog, exiting, secondPassed, window, files, handled, runs, kills>>

-----------------------------------------------------------------------------
(* handle_event.  The row goes to the buffer; when it fills it, the buffer  *)
(* is written out before the row or up to the middle of it.                 *)
Keep(l) ==
  /\ latencies' = IF Len(latencies) < MaxStored THEN Append(latencies, l) ELSE latencies
  /\ switch_count' = switch_count + 1
  /\ over' = IF l > OverUs THEN over + 1 ELSE over

HandleEvent ==
  LET e == Head(events)
      row == Line("row", e.tgid)
  IN
  /\ pc = "poll" /\ events # << >>
  /\ events' = Tail(events)
  /\ \/ eventsBuf' = Append(eventsBuf, row) /\ UNCHANGED eventsCsv
     \/ eventsBuf' = <<row>> /\ eventsCsv' = WriteOut(eventsCsv, eventsBuf)
     \/ /\ eventsBuf' = <<Line("rest", e.tgid)>>
        /\ eventsCsv' = WriteOut(eventsCsv, Append(eventsBuf, Line("part", e.tgid)))
  /\ Keep(e.latency_ns \div NsPerUs)
  /\ handled' = handled + 1
  /\ UNCHANGED <<attached, target, config, pc, args, prog, exiting, secondPassed,
                 datasetBuf, datasetCsv, runs, kills>>

(* ring_buffer__poll goes on until the ring is empty; a signal that         *)
(* interrupts its wait makes it return early, with nothing consumed.        *)
PollReturns ==
  /\ pc = "poll" /\ events = << >>
  /\ pc' = "window"
  /\ UNCHANGED <<shared, args, prog, exiting, secondPassed, window, files, handled, runs, kills>>

PollInterrupted ==
  /\ pc = "poll" /\ exiting
  /\ pc' = "window"
  /\ UNCHANGED <<shared, args, prog, exiting, secondPassed, window, files, handled, runs, kills>>

ResetForgetsOver == latencies' = << >> /\ switch_count' = 0 /\ UNCHANGED over   \* mutant
ResetWindow == latencies' = << >> /\ switch_count' = 0 /\ over' = 0

(* A window that saw an event becomes a row, which is flushed at once. *)
WriteStats ==
  IF latencies # << >>
  THEN datasetCsv' = datasetCsv \o Append(datasetBuf, StatsRow) /\ datasetBuf' = << >>
  ELSE UNCHANGED <<datasetBuf, datasetCsv>>

NoFlush == UNCHANGED <<eventsBuf, eventsCsv>>                 \* mutant: fflush forgotten
PurgeEvents == UNCHANGED eventsCsv /\ eventsBuf' = << >>      \* mutant: the buffer dropped
FlushEvents == eventsCsv' = WriteOut(eventsCsv, eventsBuf) /\ eventsBuf' = << >>

EndWindow ==
  /\ pc = "window" /\ pc' = "loop"
  /\ IF secondPassed
     THEN /\ WriteStats /\ FlushEvents
          /\ ResetWindow
          /\ secondPassed' = FALSE
     ELSE UNCHANGED <<window, files, secondPassed>>
  /\ UNCHANGED <<shared, args, prog, exiting, handled, runs, kills>>

FinalWithoutStats ==   \* mutant: the last window is not written
  /\ pc = "final" /\ pc' = "closing"
  /\ FlushEvents /\ UNCHANGED <<datasetBuf, datasetCsv>>
  /\ UNCHANGED <<shared, args, prog, exiting, secondPassed, window, handled, runs, kills>>

Final ==
  /\ pc = "final" /\ pc' = "closing"
  /\ WriteStats /\ FlushEvents
  /\ UNCHANGED <<shared, args, prog, exiting, secondPassed, window, handled, runs, kills>>

(* The files are closed and the ring is freed, with the events still in it. *)
Close ==
  /\ pc = "closing" /\ pc' = "exited"
  /\ datasetCsv' = datasetCsv \o datasetBuf /\ datasetBuf' = << >>
  /\ UNCHANGED <<shared, args, prog, exiting, secondPassed, window, eventsBuf, eventsCsv,
                 handled, runs, kills>>

Ended == {"exited", "failed", "killed"}

(* A signal that kills: the buffers are gone with the process. *)
Kill ==
  /\ pc \notin Ended /\ pc' = "killed"
  /\ kills' = kills + 1
  /\ eventsBuf' = << >> /\ datasetBuf' = << >>
  /\ UNCHANGED <<shared, args, prog, exiting, secondPassed, window, eventsCsv, datasetCsv,
                 handled, runs>>

(* SIGINT kills until main() has called signal(). *)
SigInt ==
  \/ pc = "args" /\ Kill
  \/ /\ pc \notin Ended \cup {"args"} /\ ~exiting
     /\ exiting' = TRUE
     /\ UNCHANGED <<shared, pc, args, prog, secondPassed, window, files, handled, runs, kills>>

Tick ==
  /\ pc \in {"loop", "poll", "window"} /\ ~secondPassed
  /\ secondPassed' = TRUE
  /\ UNCHANGED <<shared, pc, args, prog, exiting, window, files, handled, runs, kills>>

(* A new collector on the same files: its maps are new, and empty. *)
Restart ==
  /\ pc \in Ended /\ runs < MaxRuns
  /\ runs' = runs + 1
  /\ attached' = {} /\ target' = 0 /\ config' = Unset /\ events' = << >>
  /\ pc' = "args" /\ args' \in CommandLines /\ prog' = 0
  /\ exiting' = FALSE /\ secondPassed' = FALSE
  /\ latencies' = << >> /\ switch_count' = 0 /\ over' = 0
  /\ UNCHANGED <<files, handled, kills>>

(* The BPF programs, as far as this module is concerned: an event is lost   *)
(* when the ring is full.                                                   *)
Produce ==
  /\ "sched_switch" \in attached /\ pc \notin Ended
  /\ handled + Len(events) < MaxHandled /\ Len(events) < SlotsOfRing
  /\ \E e \in SampleEvents : events' = Append(events, e)
  /\ UNCHANGED <<attached, target, config, own>>

Step ==
  \/ ParseArgs \/ Load \/ AttachNext \/ SetTarget \/ SetConfig
  \/ NewRing \/ OpenEvents \/ OpenDataset
  \/ Loop \/ HandleEvent \/ PollReturns \/ PollInterrupted \/ EndWindow \/ Final \/ Close

Next == Step \/ SigInt \/ Kill \/ Tick \/ Restart \/ Produce

Spec == Init /\ [][Next]_colVars

(* The kernel schedules the collector, and time passes. *)
FairSpec == Spec /\ WF_colVars(Step) /\ WF_colVars(Tick)

-----------------------------------------------------------------------------
(* The events that the rows of dataset.csv count, each with its row. *)
Counted(rows) == UNION {{i} \X (1..rows[i].count) : i \in 1..Len(rows)}
Total(rows) == Cardinality(Counted(rows))

(* As long as no signal killed a collector, no event handed to handle_event *)
(* is lost or written twice: over all runs, the rows of ebpf_events.csv and *)
(* of the buffer, and the counts of dataset.csv and of the open window, add *)
(* up to the events handled - whatever the order of the window's end, the   *)
(* interrupt and the final block.                                           *)
EventsAccounted ==
  kills = 0 =>
    /\ CountOf({"row"}, eventsCsv) + CountOf({"row", "rest"}, eventsBuf) = handled
    /\ Total(datasetCsv) + (IF pc \in Ended \cup {"closing", "args", "load"} THEN 0 ELSE switch_count)
         = handled

(* A kill loses at most the events of the window it falls in: what is only  *)
(* in the buffer was handled since the window began.                        *)
BufferWithinWindow == CountOf({"row", "rest"}, eventsBuf) <= switch_count

(* Each kill damages at most one line of ebpf_events.csv: a row cut at the  *)
(* end of the file, or one the next collector joined to such a row.         *)
DamageBounded ==
  CountOf({"part", "bad", "bad part"}, eventsCsv) <= kills + CountOf({"rest"}, eventsBuf)

(* Each file has one header, and it is its first line, over any sequence of *)
(* runs, failures and kills.                                                *)
OneHeader ==
  \A f \in {eventsCsv, datasetCsv} :
    /\ f # << >> => f[1].kind = "header"
    /\ \A i \in 2..Len(f) : f[i].kind # "header"

(* The counters and the latencies of a row of dataset.csv are those of one  *)
(* window: unless the array was full, some latency is over the threshold    *)
(* exactly when one was counted.  Each is reset on a line of its own.       *)
RowsConsistent ==
  \A i \in 1..Len(datasetCsv) :
    LET r == datasetCsv[i] IN
    r.kind = "stats" /\ r.count <= MaxStored => (r.over > 0 <=> r.max > OverUs)

(* Ctrl+C (collector.c:292): an interrupted collector ends, if the ring     *)
(* runs dry (Produce is bounded).                                           *)
StopCompletes == exiting ~> pc \in Ended

(* What waits in the buffer of ebpf_events.csv is written out within a      *)
(* window, even when no more events come, unless a signal kills first.      *)
BufferDrains == eventsBuf # << >> ~> eventsBuf = << >>
=============================================================================
