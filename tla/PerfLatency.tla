----------------------------- MODULE PerfLatency -----------------------------
(***************************************************************************)
(* perf_ebpf_comp/p_lat.py: the waits of the workload, computed from the   *)
(* lines of a `perf script` trace.  Each operator is what the loop does    *)
(* with one line; perf writes the lines in the order of the tracepoints.   *)
(* Its list of latencies is kept as the last one each CPU's switches gave. *)
(***************************************************************************)
EXTENDS Integers

CONSTANT Resolution   \* ticks of a microsecond, the unit of the printed times

ASSUME ResolutionAssumption == Resolution \in Nat \ {0}

VARIABLES
  wait_queue,   \* per pid: when it entered the run queue, or NotWaiting
  latest        \* per CPU: the latency its last switch line gave, or NoLatency

perfVars == <<wait_queue, latest>>

NotWaiting == -1
NoLatency  == [pid |-> NotWaiting]

PerfInit(pids, cpus) ==
  /\ wait_queue = [p \in pids |-> NotWaiting]
  /\ latest = [c \in cpus |-> NoLatency]

(* A time is printed with six decimals of a second, the rest is cut off. *)
Printed(t) == t - (t % Resolution)

(* Mutants: the first wakeup is kept; only a task that has been woken is    *)
(* noted when it is paused.                                                 *)
WokenFirst(pid, t) ==
  IF wait_queue[pid] = NotWaiting THEN [wait_queue EXCEPT ![pid] = Printed(t)] ELSE wait_queue
PausedIfWaiting(pid, t) ==
  IF wait_queue[pid] # NotWaiting THEN [wait_queue EXCEPT ![pid] = Printed(t)] ELSE wait_queue

Woken(pid, t)  == [wait_queue EXCEPT ![pid] = Printed(t)]
Paused(pid, t) == [wait_queue EXCEPT ![pid] = Printed(t)]

(* A sched_wakeup line.  Lines of sched_wakeup_new match neither regular    *)
(* expression; named are the tasks with "workload" in their comm.           *)
WakeupLine(pid, named, t) ==
  /\ wait_queue' = IF pid \in named THEN Woken(pid, t) ELSE wait_queue
  /\ UNCHANGED latest

(* A sched_switch line; stillRunnable: its prev_state is R or R+. *)
SwitchLine(c, prev, stillRunnable, next, named, t) ==
  LET queue == IF prev \in named /\ stillRunnable THEN Paused(prev, t) ELSE wait_queue
      ends == next \in named /\ queue[next] # NotWaiting
  IN
  /\ wait_queue' = IF ends THEN [queue EXCEPT ![next] = NotWaiting] ELSE queue
  /\ latest' = [latest EXCEPT ![c] =
       IF ends THEN [pid |-> next, latency |-> Printed(t) - queue[next]] ELSE NoLatency]
=============================================================================
