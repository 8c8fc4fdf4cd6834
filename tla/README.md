# Anomaly-SchedulerLatency in TLA+

The repository measures how long tasks wait for a CPU. Three BPF programs stamp
tasks as they become runnable and turn the stamp into an event when they get a
CPU; a collector writes the events to CSV files; a terminal dashboard starts
and stops collectors and shows what they write. Next to that there is a
single-workload tracer, an analysis of `perf` traces to compare with, and a set
of workloads.

## 1. Inventory

| Component | Source | State | Operations | Talks to |
|---|---|---|---|---|
| BPF programs | `ebpf_logs/sl.bpf.c` | maps `target_tgid_map`, `start`, `config_map`, `sample_counter`, ring `events` | `sched_wakeup`, `sched_wakeup_new`, `sched_switch` | run by the kernel on every CPU; maps and ring shared with the collector |
| Collector | `ebpf_logs/collector.c` | window (`latencies`, counters), two stdio files, `exiting` | start-up, poll, `handle_event`, end of window, final block, `sig_handler` | writes the maps, reads the ring, appends to files other processes read and write |
| Its statistics | `ebpf_logs/collector.c` | the arrays and counters of a window | `percentile`, `cmp`, the row of a window | a row of `dataset.csv` |
| Dashboard, life cycle | `ebpf_logs/tui.py` | three `CollectorSlot`s, selected pid | start, stop, compare, Apply Nice, refresh, reload, quit | spawns and signals collectors, truncates and removes their files |
| Dashboard, reading | `ebpf_logs/tui.py` | data frames | `load_ebpf_events`, `summarize_latency`, `_bucket_reduce` | reads files while collectors write them |
| slu | `perf_ebpf_comp/slu.c` | maps, one child | attach, fork, target, poll until the child is waited for | the same BPF object |
| perf analysis | `perf_ebpf_comp/p_lat.py`, `ebpf_avg.py` | `wait_queue`, `latencies` | one pass over a trace | files |
| Workloads | `workload/*.c` | threads, a mutex and a counter, pipes, temporary files | load generators | the kernel only |
| Build, set-up | `*.sh` | - | compile, install | - |

What is hard, and what makes each part correct:

- **BPF programs.** A `sched_switch` handler runs while other CPUs run theirs
  and the collector changes the maps; map updates may fail; stamps may be left
  from earlier waits. Correct: an event reports one wait, once, with its true
  length; the `u64` subtraction never wraps; what is lost is only what a full
  map, a full ring, a filter or the sampling says.
- **Collector.** Signals at any point, stdio buffers that are written out in
  the middle of a row, kills, restarts on the same files, a loop that polls,
  a window that ends by the clock, other collectors on the same `dataset.csv`.
  Correct: every event handled is in both files exactly once unless a kill took
  it, and a kill takes little; headers come first; a row is about one window;
  an interrupted collector ends.
- **Collector and programs together.** The programs run from the attach loop
  on, before the target and the configuration are written.
- **Statistics and charts.** Two rules for percentiles (the collector's and
  numpy's), counters kept apart from the array they must agree with, buckets
  cut at floating-point numbers. Correct: the numbers of a row fit together,
  the dashboard's are not above them when both are about the same events, and
  `_bucket_reduce`, which the latency charts sample with, loses no spike. That is
  not so of the time line: `ascii_timeline` (`tui.py:519`) takes every n-th value
  and does lose spikes.
- **Reading.** A file ends in half a row because a collector is writing it, or
  because it was killed. Correct: only a kill makes the table fail or shifts its
  columns. (A row that is still being written may be shown with its latency cut
  off after some digits, kill or not.)
- **slu and perf.** The workload runs before it is the target; `fork` may fail; the
  loop looks at the child only between polls. `p_lat.py` computes the same waits
  from a trace with coarser times and without the creation of tasks. Correct: slu
  sees all of its workload and ends with it, and both measurements agree.
- **Dashboard.** Stopping is asynchronous, launching looks at the child once,
  files are truncated under processes that still append to them, children are
  zombies until something reaps them, and the path of the main slot's file is
  what the user types. Correct: no collector gets out of reach, two write one
  file only if the user asks for it, files stay readable, dead ones are noticed.
- **Workloads.** A counter that is only volatile, an unfair mutex, a pipe whose
  reader counts its reads, files of several threads in one directory. Correct:
  nothing is lost or left behind, and no workload hangs.

`PROJECT.json` lists every hazard at its line, with the properties that cover it.

## 2. Modules

| Module | Models | Variables |
|---|---|---|
| `RunQueue` | the kernel's scheduler as the tracepoints show it (external) | `now`, `place`, `runnable`, `since`, `running` |
| `SlBpf` (extends it) | the three programs and the maps | `attached`, `target`, `config`, `start`, `counter`, `events`, `switching` |
| `WaitReports` | the abstract tracer: a wait ends, and is reported at most once | `ended`, `reports` |
| `CsvLines` | the lines of a file written through a stdio buffer, as operators | - |
| `Collector` (extends it) | `collector.c`, one at a time | the maps and ring it shares, `pc`, `args`, the window, buffers and files |
| `Tracing` | instances of `SlBpf` and `Collector` on the same maps and ring | those of both |
| `Statistics` | percentiles and chart samples, as operators | - |
| `WindowStats` (extends it) | the arrays and counters of a window, and its row | `latencies`, `priorities`, `switch_count`, `over`, `row` |
| `CsvFiles` | several collectors on one `dataset.csv`; the reading of an events file | `dataset`, `unsaved`, `lines`, `stub`, `buffer`, `cut` |
| `Dashboard` | the dashboard's slots and handlers, its collectors as processes | `slot`, `proc`, `file`, `ui`, `selected`, `quit` |
| `PerfLatency` | the loop of `p_lat.py`, one trace line at a time | `wait_queue`, `latest` |
| `SingleRun` (extends `SlBpf`, `PerfLatency`) | `slu.c` and its workload, and perf on the same scheduler | `pc`, `prog`, `child`, `execed`, `fresh` |
| `Workloads` | the load generators with more than one thread | `program`, `main`, `state`, `round`, `op`, what threads share |
| `*Proofs`, `MC*` | theorems; constants for TLC | - |

**SlBpf.** A wakeup handler is one action, joined to the scheduler step that
fires its tracepoint. `sched_switch` is two: `EnterSwitch` (time, target,
stamp of the task that leaves) and `LeaveSwitch` (early returns, stamp of the
task that comes, sampling, event), so that wakeups, other switches and the
collector come in between. The scheduler's lock is modelled by `Held`: the two
tasks of a switch are in no other one, and are not woken during it. `start` has
`StartEntries` entries and drops what does not fit, the ring has `RingSlots`.
`observed`, and the fields `wait` and `whole` of an event, are ghosts: they say
how long the task really waited, and whether the program that fires as the wait
begins (`sched_wakeup_new`, `sched_wakeup`, or `sched_switch` for a preemption) was
attached then. Nothing is said of the others: the collector does not look at what
`bpf_program__attach` returns, and any of the programs may be missing.
A minimum latency is compared as in `u64`.

**Collector.** Each call of `main()` that can fail is an action with its failure
exit. `HandleEvent` is the callback; the row it prints goes to a stdio buffer,
which may be written out before it or in the middle of it. A file is a sequence
of lines: headers, rows, and the `part` and `rest` of a row cut at the end of a
block, which `WriteLine` joins; of the lines of a buffer only the first can join
the end of the file (`WriteOut`). `Kill` loses the buffers, `SigInt` sets
`exiting` (or kills, before `signal()`), `Restart` runs a new collector on the
files. Of the statistics of a window the model keeps its count, its maximum and
one of the three threshold counters; `WindowStats` has the others.

**Tracing.** Its steps are those of `SlBpf`'s kernel side and of `Collector`;
that what the collector does is what `SlBpf` allows its user is `UsesBpf`, that
is, `Tracing` implements `SlBpf`.

**Statistics, WindowStats.** `InOrder` is the array after `qsort` with `cmp`, each
of its values given by how many are before it: that it is ascending and a
rearrangement is the theorem `InOrderSorts`. `Percentile` takes the index of the
code from it; `Hundredfold` is numpy's interpolation times 100,
to stay with integers. Averages are kept as sums and the variance as its
n * n-fold. `_bucket_reduce` cuts at `int(i * step)` with a floating-point
`step`: `Cuts` allows each cut that should fall on an integer to come out one
lower, which is what rounding can do. The percentiles of the code leave 5 and 1 of 100
above, and `StatsAssumption` asks that 100 be a multiple of what is left: with a
60th percentile, say, `SummaryNotAbove` would be false. `seen` and `of` are ghosts, all latencies
of the window.

**CsvFiles.** A row of the events file has `Fields` fields. A full stdio buffer
is written out up to some field of a row (`cut`); if its collector is killed
then, the fields stay in the file (`stub`) and the next row continues them
(`Joined`). `dataset.csv` is appended to by all collectors; each row is flushed
as it is written, so only the header ever waits in a buffer (`unsaved`).
`Table` is what `load_ebpf_events` shows at any moment: header and last
`MaxRows` lines, and what pandas does with rows that are too long (`Raises`,
`Shifted`; external).

**SingleRun.** Every kernel step is a step of `SlBpf` and, if a tracepoint fires
that perf traces, a line for `PerfLatency`: the two measure one schedule.
`p_lat.py` reads the trace afterwards, but in the order of its lines, so that
what it does with a line can be done as the line is written. Its list of
latencies is kept as the last one per CPU (`latest`). `Resolution` is the
microsecond in which perf prints times. slu's failure exits are those of the
code; a failed `fork` gives the child -1, the target 2^32 - 1 (`Word` - 1), and
a `waitpid` that "succeeds". The workload has no kernel thread in its thread group.
`fresh` is a ghost: the tasks in their first wait
or their first time on a CPU.

**Dashboard.** Handlers run one at a time on Textual's event loop; those that
block or do several system calls are sequences of steps (`ui` says where), with
the collectors running in between. `_on_apply_nice` is `ApplyNice`,
`StopForNice`, `TruncateFile`, `WriteHeader`, `Respawn`, `Launched`,
`ReloadData`, each with its failure exit. A process is starting, collecting, a
zombie, or gone; zombies go when the dashboard's next child is created, which
is what Python's `subprocess` does for `Popen` objects nobody holds. Whether
listing processes creates a child depends on `psutil`, which `tui.py:3` asks
for and `requirements.txt` does not list: the constant `Psutil`. Removing a
file gives the path a new inode. `Inputs` are the paths that may be typed into
"Events CSV path" (`tui.py:842`): `StartMain` takes any of them, looks it up with
`Resolve` (once for Reset CSV and once more for the launch, which may find another
file) and launches the main collector on what it finds. Two things follow that
no property denies, as the code does them: with a compare slot's file typed
in, two collectors write one file, and Reset CSV removes the file of a collector
that runs; and if the path that is reset falls back to another file, the rows
of that one are shown and appended to.

**Workloads.** A program is a record: how many threads, the operations of a
round of each, how many rounds. The twelve in `Programs` are the files of
`workload/` with more than one thread, their numbers capped by `MaxThreads` and
`MaxRounds`. `Create` may fail, and no result is looked at; joining a thread that
was never created may do anything. `Load` and `Store` are the two halves of the
addition to the volatile counter. `pipeio.c` is a program of two processes, of
which `main()` is one (`self`).

## 3. Runs

| Run | Instance | Shows |
|---|---|---|
| `BpfTwoCpus` | 2 CPUs, a user task and a kernel thread, map with room for all pids, `sched_wakeup` perhaps missing, `sched_wakeup_new` only with `sched_switch` (`CreationTraced`), 2 ring slots, clock 0..1 | `NoUnderflow`, `LatencyIsWait`, `WaitRecorded`, `EventsInOrder`, `NoWaitMissed`, `ReportsWaits` (`SlBpf` implements `WaitReports`) |
| `BpfFullMap` | 1 CPU, 2 map entries for 3 pids, two configurations (everything; minimum 1, one in 2, no kernel threads), any of the programs missing, 1 ring slot, clock 0..2 | `TypeOK`, and that lost or left-over stamps make no event wrong: `ReportsWaits` |
| `Collector` | 2 runs, 3 command lines (too many arguments, a negative rate, all processes), 3 events, an array of 2 latencies, 1 ring slot | `EventsAccounted`, `BufferWithinWindow`, `DamageBounded`, `OneHeader`, `RowsConsistent`, `StopCompletes`, `BufferDrains` |
| `Tracing` | a task of the target's group and one of another, 1 CPU, 1 ring slot, 3 events handled, clock stopped | `UsesBpf`, and that at most ring + CPUs foreign events get through |
| `WindowStats` | latencies 1..3, an array of 4, up to 5 events, the percentiles 50 and 75, charts of 2 to 4 columns | `RowOrdered`, `RowOfWindow`, `OverAgrees`, `SummaryNotAbove`, `ChartKeepsSpikes` |
| `CsvFiles` | 2 collectors, 3 starts, 2 windows each, 3 events, 2 rows shown | `DatasetHeaders`, `RowsKept`, `DamageOnlyByKills`, `NewestShown` |
| `SingleRun` | a workload of two threads, 1 CPU, 1 ring slot, clock 0..3, perf's times in steps of 2 | `WorkloadWhole`, `PerfWaits`, `SameWaits`, `EndsWithWorkload` |
| `Dashboard` | main slot and one compare slot, the files of both as paths typed in, 2 collectors, 1 row each, no `psutil` | `NoOrphans`, `SharedOnlyIfTyped`, `HeaderFirst`, `DeadNoticed` |
| `Workloads` | all twelve programs, at most 3 threads of 2 rounds, a pipe of 2 messages | `TypeOK`, `NoLostUpdate`, `CompletedClean`, `ReadsBack`, `Completes`, `GoesOn` |

Why the bounds are enough. Two CPUs are what it takes for a stamp to be written
between the halves of a switch; two tasks let one wait while the other runs,
with a switch to idle as a third. Two clock values tell a stamp of before from
one of now; `BpfFullMap` has three, to tell a right length from a wrong one that
is not zero. Three pids for two entries fill the map. In `Collector` three
events overflow an array of two and fill a buffer in the middle of a row; two
runs are needed for a file with a cut row to be joined, and for a header to be
decided twice. In
`SingleRun` the clock runs to 3 so that the steps of 2 in which perf prints it
cut off time at either end of a wait. Two collectors are what `SharedOnlyIfTyped` and the race of Apply
Nice need; the compare slot's file as a path typed in makes them share it. In `CsvFiles` the third start is a collector that
continues the file of a killed one while another still runs, and more lines than
`MaxRows` make the newest ones matter. `WindowStats` overflows its array by one
event; with so few events the 95th and 99th percentiles are both the maximum, so
50 and 75 stand in for them, and `StatisticsProofs` is about all, the real ones included.
Three threads are two that compete and one that interferes; two
rounds let a thread meet what its own last round left.

All quantities that grow have a named bound (`MaxTime`, `MaxHandled`,
`MaxRuns`, `MaxProcs`, `MaxRows`, `MaxStarts`, `MaxWindows`, `MaxEvents`,
`MaxSeen`, `MaxThreads`, `MaxRounds`). The passing runs that end by a bound, in a
collector that has exited or in a completed workload do not check deadlock; the
runs of `SlBpf` and `WindowStats` do.

Fairness. `SingleRun!FairRunSpec` is weak fairness of slu's own steps: after its
workload nothing passes the target, so the ring becomes empty by itself.
`Collector!FairSpec` is weak fairness of the collector's own steps
(the kernel schedules it) and of the passing of a second. `StopCompletes` also
rests on the bound on events: `ring_buffer__poll` returns only when the ring is
empty, so that a flood of events may keep it from seeing `exiting`.
`Dashboard!FairSpec` is weak fairness of a handler in progress and of a
collector's start and end, and strong fairness of the refresh, because the
timer fires again and again between handlers; `DeadNoticed` thus assumes that
auto-refresh is on, or the user refreshes. `Workloads!FairSpec` is weak fairness of
main() and of each thread: the kernel runs whoever can run. It is not fairness of
the mutex - a thread may lose it to the others again and again - and `Completes`
holds all the same, because the others run out of rounds.

Disagreements with what the repository says of itself, each with a run that
violates one property:

- `BpfPreempted` - a task preempted after setting its `__state` is not stamped
  (`sl.bpf.c:127`). Such preemptions exist on kernels with full preemption.
- `TracingForeign` - rows of other thread groups are written at the start of a
  run for one target (`collector.c:286`).
- `DashSplit` - after Apply Nice has cleared the file, the collector it
  interrupted flushes rows of before into it (`tui.py:1466`). The run has
  `psutil`; without it the same happens.

Two more things the model shows have no run, because the text they would
contradict can be read either way: quitting leaves collectors running (`Quit`;
`tui.py:801`, `README.md:36`), and with `psutil` the slot of a collector that has
exited shows "Running" until the user stops it (`IsAlive` finds a zombie;
`tui.py:671`, `tui.py:1834`).

## 4. Proofs

Every theorem is for all values of the constants: any sets of tasks and CPUs, any
sizes, any number of processes, starts, windows, threads and rounds. A bound such
as `MaxTime` is only some natural number.

**`SlBpfProofs`.**
- `TypeCorrect`: `Spec => []TypeOK`.
- `NeverUnderflows`: `Spec => []NoUnderflow`. The inductive invariant is
  `ClockInv`: no task runs on two CPUs, the task a switch brings in is the one
  its CPU runs, no stamp or time is in the future, and the stamp of that task is
  not later than the switch. The last part needs the first two: only they say
  that no other handler stamps the task between the halves.
- `LatencyCorrect`: `~Preemptible => (Spec => []LatencyIsWait)`. `WaitInv` adds
  that a queued task is runnable, that the stamp of a task whose wait was
  observed is the time the wait began or is absent, and that the same holds for the
  task in the middle of a switch. Without `~Preemptible` it is false
  (`BpfPreempted` shows why).
- `AlwaysInOrder`: `Spec => []EventsInOrder`, on any kernel. An event is not
  later than the switch its CPU is in, and not later than the stamp its task has
  now, because it used up the stamp of before (`OrderInv`).
- `AlwaysRecorded`, `NoneMissed` (with `~Preemptible`): `WaitRecorded` as an
  invariant and `NoWaitMissed` as an action property. With room for every pid
  no update of `start` fails, so that "or is absent" can be dropped from
  `WaitInv`.
- `Implements` (with `~Preemptible`): `Spec => ReportsWaits`, the refinement of
  `WaitReports`: entering a switch ends a wait, leaving it reports it or not, and
  every other step is a stutter or consumes a report.
- `WholeWorkloadSeen`, `PerfMeasuresWaits`, `ToolsAgree` (with `~Preemptible`): the
  three invariants of `SingleRun`. slu has attached every program before its child
  exists, so that each wait of the workload was observed from its start. A time in
  `wait_queue` is that of the wait it belongs to, cut off to the resolution, unless
  the task was created with it (`RunInv`, on top of `WaitInv`); with the stamp of
  the same wait in `start` the two tools measure one length.

**`TracingProofs`.**
- `UsesPrograms`: `Spec => UsesBpf`. Where `main()` has come to tells what the maps
  hold (`MapsInv`), so that each of its steps is one that `SlBpf` allows its user, or
  leaves the programs alone. What is proved of `SlBpf` thus holds of the programs
  under this collector.
- `ForeignFew`: `Spec => []ForeignBounded`. Before the target is set, foreign events
  are only in the ring, which bounds them. Afterwards only a `sched_switch` that
  has read another target can add one; each of those ends once, and no new one
  begins. So the number of foreign events and rows, and of such handlers, together
  never grows (`BoundInv`). Moving rows from ring to buffer to file keeps the number;
  that a row cut in two counts once needs that its rest is in the buffer (`LinesInv`).

**`CsvLinesProofs`.** Lemmas for the two modules around it: how many lines of some
kinds there are after an append, a cut, and a buffer written out behind a file that
ends with a whole line, with a part whose rest is in the buffer, or with a part
whose rest was lost.

**`CollectorProofs`.** One inductive invariant, `CollectorInv`, of four parts.
- `RowsFit`: `Spec => []RowsConsistent`. The array, its greatest element and the
  threshold counter of an open window agree (`WindowFits`), and a row is made of an
  open window (`RowsInv`).
- `EventsCounted`: `Spec => []EventsAccounted`; `BufferOfWindow`:
  `Spec => []BufferWithinWindow`; `DamageIsBounded`: `Spec => []DamageBounded`. A file
  that ends in a part of a row has the rest at the head of the buffer, unless a kill
  took it, and each kill leaves one such end or makes none (`EventsPart`).
- `HeaderOnce`: `Spec => []OneHeader`. A header is in the buffer only while the file is
  empty (`EventsPart`, `DatasetInv`).

**`CsvFilesProofs`.**
- `HeadersFitTheFile`: `Spec => []DatasetHeaders`. A collector without a header in its
  buffer was started when the file had one, or has written its own; what it appends
  is not in the file yet.
- `RowsStay`: `Spec => []RowsKept`. A collector's rows are its windows, all of them and
  in order (`KeptInv`).
- `OnlyKillsDamage`: `Spec => []DamageOnlyByKills`. A line of the file has too many fields
  only where a stub was continued, never too few; each damaged line, and the stub that
  waits to be continued, is what a kill of its own left (`FileInv`).
- `NewestRowsShown`: `Spec => []NewestShown`. The reader keeps the last lines of the file as
  it is; only the unfinished one has less than all fields.

**`DashboardProofs`**, with and without `psutil`.
- `NeverOrphaned`: `Spec => []NoOrphans`, `SharedIfTyped`:
  `Spec => []SharedOnlyIfTyped`. `OwnInv`: a collector that runs and was not
  interrupted is that of a slot or is being launched for one whose collector does
  not run; the files of different compare slots are different ones, while the
  main slot may use any (`FilesOf`). Most steps only make processes older (`Older`),
  which keeps it.
- `HeadersFirst`: `Spec => []HeaderFirst`. `HeadersInv`: but for the file that
  Apply Nice is about to give a header, a file that is not empty begins with
  one, and whoever has an empty file open has the header first in its buffer.

**`WorkloadsProofs`.** `WorkloadTypes`, `NoUpdateIsLost`, `AlwaysReadsBack`: a
thread between lock and unlock is the holder, so what it loaded is still the
counter when it stores; file names are the threads' own. `AlwaysClean`:
`Spec => []CompletedClean`. main() goes past a join only when its thread has ended,
which it does only after its last round; each round gives back what it took
(`PlaceInv`, `CleanInv`).

**`StatisticsProofs`**, for windows of any length, `MAX_EVENTS` and latencies of any
size. What the recursive sums, the sorting and the maxima compute is proved by
induction over the window. The induction theorems of the library take an operator
as their parameter and cannot be used here; `Induction` and `LeastNumber` state the
principle for sets of numbers, and follow from the theorem that strict inclusion of
finite sets is well founded.
- `InOrderSorts`: the array that percentiles are taken from is ascending and has of
  each size as many values as the window.
- `IndexInRange` (the index is in the array, the test that keeps it there is never
  needed), `IndicesOrdered` (p95 is not after p99), `SummaryIndexNotAbove` (the
  dashboard interpolates up to a place not above the collector's).
- `RowsAreOrdered`: `Spec => []RowOrdered`, `RowsAreOfWindow`: `Spec => []RowOfWindow`,
  `CountersAgree`: `Spec => []OverAgrees`, `SummariesNotAbove`:
  `Spec => []SummaryNotAbove`. `WindowInv` says what the arrays and counters hold in
  terms of all events since the window began; a row is made of them. For the
  variance, a further value adds to its n * n-fold the squares of its distances from
  the values before (`Widened`, `DistanceCounts`), so that it is not negative, and
  zero only if all values are equal. A value of the sorted array is above a threshold
  exactly when enough values of the unsorted one are (`PlaceAbove`).
- `ChartsKeepSpikes`: `Spec => []ChartKeepsSpikes`. The cuts ascend from 0 to the last
  value or the one before it, however they are rounded (`CutsOrdered`), so that each
  value but the newest is in a bucket.

Assumptions: those on the constants that each module names, which TLC evaluates in
the runs. About the machine: finitely many CPUs (`RunQueue`, `Tracing`), thread groups
that are natural numbers, a target and a configuration that a command line can ask
for (`CommandsAssumption`), and what `RunQueue` says of the kernel, above all that the
tracepoints run under the run queue's lock. About slu: a workload without kernel
threads, and a target that is its thread group or what a failed `fork` makes of it
(`WorkloadAssumption`). About percentiles: `StatsAssumption`, section 2.

Every invariant and action property of the passing runs, and both refinements
(`ReportsWaits`, `UsesBpf`), are proved. Model-checked only is liveness
(`StopCompletes`, `BufferDrains`, `DeadNoticed`, `EndsWithWorkload`, `Completes`,
`GoesOn`): it rests on fairness, whose ENABLED the prover does not reach. Each step of
`SingleRun` is a step of `SlBpf` or leaves it alone (`RunIsNext`), so that the theorems
of `SlBpf` hold there too.

## 5. Not modelled

- *Of modelled parts:* the wrap of the 64-bit clock; a configuration read
  half-written; detaching; an event's priority and name (a name with a comma would
  give its row a field too many); pids that move between thread groups; reuse of
  the pids of collectors; write errors of the CSV files; a wall clock that is set
  back; events left in the ring when slu ends; `p_lat.py` on waits that begin with
  the creation of a task, of which it sees nothing (it may then use a time left by
  a former owner of the pid).
- *Of the dashboard:* how rows are grouped by process and the tables made of the
  groups; the time line, whose stride loses spikes; the heights of a sparkline,
  histogram and bars; labels, widgets, style sheet and key bindings. They are
  layout, or one call of pandas. `SummaryNotAbove` is therefore about two rules for
  the same events: the dashboard's groups are by process and over the last
  `max_rows` rows, the collector's row is over one window.
- *Idealised:* `SameWaits` has both tools read the time at the same instant; the
  tracepoints of a switch really call them one after the other. Averages, latencies
  and `std` are integers, the two digits they are printed with are left out.
- *Workloads of one thread* (`baseline_latency.c`, `yield.c`, `mixed.c`, `disk.c`):
  an endless loop that shares nothing; and the arithmetic that keeps a CPU busy.
- `ebpf_avg.py` (one regular expression and a mean), the build and set-up scripts.
- `vmlinux.h`: 200133 lines of kernel types that bpftool generated. They make up
  over 99 % of the repository's lines, so that a share of all lines says little:
  of `sl.bpf.c`, `collector.c`, `slu.c` and `p_lat.py`, of the threaded workloads
  and of the parts of `tui.py` listed above nearly every line that is not layout is
  mapped.

## 6. Plan

Done: `RunQueue`, `SlBpf`, `WaitReports`, `Collector`, `Tracing`, `Dashboard`,
`PerfLatency`, `SingleRun`, `Statistics`, `WindowStats`, `CsvFiles`, `Workloads`,
and the proofs of section 4.

Left: a clock that is set back, as an action of `Collector`, with `BufferDrains`
restated for it.
