------------------------------- MODULE Tracing -------------------------------
(***************************************************************************)
(* One collector and its BPF programs on a running kernel: SlBpf and       *)
(* Collector on the same maps, programs and ring buffer, from the start of *)
(* main() to the end of its first window.  The kernel's steps leave the    *)
(* collector's own state alone and the other way round.  Interrupts, kills *)
(* and later windows touch nothing the two share: Collector.tla has them.  *)
(***************************************************************************)
EXTENDS Integers, Sequences, FiniteSets

CONSTANTS
  Tasks, CPUs, Idle, Tgid, Kthreads, Preemptible, MaxTime,
  StartEntries, RingSlots, Targets, Configs,
  CommandLines, Word, NsPerUs, AllMinUs, AllRate, MaxStored, OverUs, MaxHandled

VARIABLES
  now, place, runnable, since, running,
  attached, target, config, start, counter, events, switching, observed,
  pc, args, prog, exiting, secondPassed, latencies, switch_count, over,
  eventsBuf, eventsCsv, datasetBuf, datasetCsv, handled, runs, kills

Bpf == INSTANCE SlBpf
Col == INSTANCE Collector WITH SlotsOfRing <- RingSlots, SampleEvents <- {}, MaxRuns <- 1

(* As SlBpf has them. *)
ASSUME MachineAssumption ==
  /\ IsFiniteSet(CPUs) /\ RingSlots \in Nat /\ Targets \subseteq Nat
  /\ \A t \in Tasks : Tgid[t] \in Nat

(* What a command line asks for is among what SlBpf's user may write. *)
ASSUME CommandsAssumption ==
  \A a \in CommandLines :
    Col!Effective(a).filter_tgid \in Targets /\ Col!Effective(a).config \in Configs

bpfOwn == <<now, place, runnable, since, running, start, counter, switching, observed>>
colOwn == <<pc, args, prog, exiting, secondPassed, latencies, switch_count, over,
            eventsBuf, eventsCsv, datasetBuf, datasetCsv, handled, runs, kills>>
tracingVars == <<bpfOwn, colOwn, attached, target, config, events>>

Init == Bpf!Init /\ Col!Init

KernelRuns ==
  /\ pc \notin Col!Ended
  /\ Bpf!KernelStep
  /\ handled + Len(events') <= MaxHandled
  /\ UNCHANGED colOwn

CollectorRuns ==
  /\ Col!Step
  /\ UNCHANGED bpfOwn

Next == KernelRuns \/ CollectorRuns

Spec == Init /\ [][Next]_tracingVars

-----------------------------------------------------------------------------
Wanted == Col!Effective(args)
Foreign(tgid) == Wanted.filter_tgid \notin {0, tgid}
ForeignEvents == {i \in 1..Len(events) : Foreign(events[i].tgid)}
ForeignRows(lines) ==   \* a part has its rest in the buffer
  {i \in 1..Len(lines) : lines[i].kind \notin {"header", "part"} /\ Foreign(lines[i].tgid)}

(* What the collector does is what SlBpf expects of its user: attach in     *)
(* order, then target, then configuration, each once, then consume.         *)
UsesBpf == Bpf!Spec

(* The programs are attached before the target is set (collector.c:223-234), *)
(* so that events of other thread groups get into the ring; but no more     *)
(* than the ring could hold then, and one for each sched_switch that was    *)
(* between its first line and its last.                                     *)
ForeignBounded ==
  Cardinality(ForeignEvents) + Cardinality(ForeignRows(eventsCsv))
    + Cardinality(ForeignRows(eventsBuf)) <= RingSlots + Cardinality(CPUs)

(* collector.c:286 prints "Mode: monitor target TGID %u only" at the end of *)
(* the start-up: from then on every row would be of that thread group.      *)
OnlyTargetRows ==
  ForeignRows(eventsCsv) = {} /\ ForeignRows(eventsBuf) = {}
=============================================================================
