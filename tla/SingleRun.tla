------------------------------ MODULE SingleRun ------------------------------
(***************************************************************************)
(* perf_ebpf_comp: slu.c runs one workload under the BPF programs of       *)
(* SlBpf, while perf traces the same scheduler for p_lat.py (PerfLatency). *)
(* The two measurements are meant to be compared.                          *)
(*                                                                         *)
(* slu never writes config_map, so that the configuration stays zero.      *)
(***************************************************************************)
EXTENDS SlBpf, PerfLatency

CONSTANTS
  Workload,   \* the pid fork returns
  Word        \* 2 to the 32: target_tgid_map holds a u32

NotYet   == 0
ForkFails == -1

(* The workload is a process: a kernel thread is in no thread group of one. *)
ASSUME WorkloadAssumption ==
  /\ Workload \in Tasks
  /\ Workload \notin {NotYet, ForkFails}
  /\ \A k \in Kthreads : Tgid[k] # Tgid[Workload]
  /\ Word \in Nat
  /\ \A t \in Tasks : Tgid[t] < Word - 1
  /\ Targets = {Tgid[Workload], ForkFails % Word}

VARIABLES
  pc,      \* where main() of slu.c is
  prog,    \* the programs it has tried to attach
  child,   \* pid_t pid
  execed,  \* the child runs the workload's program
  fresh    \* ghost: tasks that were created and have not left a CPU since

sluVars == <<pc, prog, child, execed>>
runVars == <<vars, perfVars, sluVars, fresh>>

Ended == {"done", "failed"}

Group == {t \in Tasks : Tgid[t] = Tgid[Workload]}

(* The comm of the workload's threads is "workload" once it is executed. *)
Named == IF execed THEN Group ELSE {}

RunInit ==
  /\ Init /\ PerfInit(Pids, CPUs)
  /\ \A t \in Group : place[t] = "none"
  /\ pc = "open" /\ prog = 0 /\ child = NotYet
  /\ execed = FALSE /\ fresh = {}

-----------------------------------------------------------------------------
(* The scheduler, its tracepoints traced by both. *)
Ticks == Tick /\ UNCHANGED <<bpfVars, perfVars, sluVars, fresh>>

(* On CPU c: the child executes the workload, outside a switch. *)
Exec(c) ==
  /\ running[c] = Workload /\ ~switching[c].active
  /\ ~execed /\ execed' = TRUE
  /\ UNCHANGED <<vars, perfVars, pc, child, prog, fresh>>

(* The workload's main thread makes its other threads. *)
MayCreate(t) ==
  t \in Group =>
    t # Workload /\ execed /\ \E c \in CPUs : running[c] = Workload /\ ~switching[c].active

NewTask(t) ==
  /\ SchedWakeupNew(t)
  /\ fresh' = fresh \cup {t}
  /\ UNCHANGED <<perfVars, sluVars>>

WakesUp(t) ==
  /\ SchedWakeup(t)
  /\ WakeupLine(t, Named, now)
  /\ UNCHANGED <<sluVars, fresh>>

Switches(c, next, fate) ==
  /\ EnterSwitch(c, next, fate)
  /\ SwitchLine(c, running[c], fate = "queued", next, Named, now)
  /\ fresh' = fresh \ {running[c]}
  /\ UNCHANGED sluVars

KernelRuns ==
  /\ pc \notin Ended
  /\ \/ Ticks
     \/ \E t \in Tasks : (MayCreate(t) /\ NewTask(t)) \/ WakesUp(t)
     \/ \E c \in CPUs :
          \/ Exec(c)
          \/ (ChangeState(c) \/ LeaveSwitch(c)) /\ UNCHANGED <<perfVars, sluVars, fresh>>
          \/ \E next \in Pids, fate \in Fates(running[c]) : Switches(c, next, fate)

-----------------------------------------------------------------------------
(* slu.c. *)
Elsewhere == UNCHANGED <<perfVars, execed, fresh>>

OpenAndLoad ==
  /\ pc = "open" /\ pc' \in {"attach", "failed"}
  /\ Elsewhere /\ UNCHANGED <<vars, child, prog>>

CarryOn == prog' = prog + 1 /\ UNCHANGED pc   \* mutant: as collector.c does
GiveUp  == pc' = "failed" /\ UNCHANGED prog

(* Unlike the collector, slu gives up when a program cannot be attached. *)
AttachNext ==
  /\ pc = "attach" /\ prog < Cardinality(Hooks)
  /\ \/ /\ \E h \in Hooks : Position[h] = prog + 1 /\ Attach(h)
        /\ prog' = prog + 1 /\ UNCHANGED pc
     \/ GiveUp /\ UNCHANGED vars
  /\ Elsewhere /\ UNCHANGED child

(* fork: a child that is about to run, or -1. *)
Fork ==
  /\ pc = "attach" /\ prog = Cardinality(Hooks) /\ pc' = "target"
  /\ \/ child' = Workload /\ SchedWakeupNew(Workload) /\ fresh' = fresh \cup {Workload}
     \/ child' = ForkFails /\ UNCHANGED <<vars, fresh>>
  /\ UNCHANGED <<perfVars, execed, prog>>

(* The target is the pid as an unsigned number; the map may not be found. *)
FollowChild ==
  /\ pc = "target"
  /\ \/ pc' = "ring"
        /\ SetTarget(IF child = ForkFails THEN ForkFails % Word ELSE Tgid[child])
     \/ pc' = "failed" /\ UNCHANGED vars
  /\ Elsewhere /\ UNCHANGED <<child, prog>>

NewRing ==
  /\ pc = "ring" /\ pc' \in {"poll", "failed"}
  /\ Elsewhere /\ UNCHANGED <<vars, child, prog>>

(* ring_buffer__poll calls handle_event until the ring is empty. *)
HandleEvent ==
  /\ pc = "poll" /\ Consume
  /\ Elsewhere /\ UNCHANGED <<pc, child, prog>>

PollReturns ==
  /\ pc = "poll" /\ events = << >> /\ pc' = "wait"
  /\ Elsewhere /\ UNCHANGED <<vars, child, prog>>

(* The child can be waited for when no thread of the workload is left. *)
Gone == child = Workload /\ \A t \in Group : place[t] = "none"

WaitedForPositive == Gone   \* mutant: waitpid() > 0
(* waitpid() = pid: with no child at all waitpid returns -1, too. *)
WaitedFor == child = ForkFails \/ Gone

WaitChild ==
  /\ pc = "wait" /\ pc' = IF WaitedFor THEN "done" ELSE "poll"
  /\ Elsewhere /\ UNCHANGED <<vars, child, prog>>

SluStep ==
  \/ OpenAndLoad \/ AttachNext \/ Fork \/ FollowChild \/ NewRing
  \/ HandleEvent \/ PollReturns \/ WaitChild

RunNext == KernelRuns \/ SluStep

RunSpec == RunInit /\ [][RunNext]_runVars

(* The kernel schedules slu itself, sooner or later. *)
FairRunSpec == RunSpec /\ WF_runVars(SluStep)

-----------------------------------------------------------------------------
(* slu attaches every program before it forks (slu.c:53-62), so that it     *)
(* sees all of its workload: every event about it has the true length, the  *)
(* first wait after fork included, although the target is not set yet.      *)
WorkloadWhole ==
  \A i \in 1..Len(events) :
    events[i].pid \in Group => events[i].whole /\ events[i].latency_ns = events[i].wait

Near(a, b) == a - b \in (1 - Resolution)..(Resolution - 1)

(* What p_lat.py takes for a wait is one, to the resolution of the trace,   *)
(* over wakeups of tasks that still run, preemptions and sleeps - except    *)
(* that it knows nothing of the creation of a task, whose pid may be one    *)
(* that was left in wait_queue.                                             *)
PerfWaits ==
  \A c \in CPUs :
    switching[c].active /\ latest[c] # NoLatency /\ latest[c].pid \notin fresh
      => Near(latest[c].latency, switching[c].wait)

(* The comparison is one of the same waits: of a switch to a thread of the  *)
(* executed workload, after a wait that did not begin with its creation,    *)
(* both tools know the latency, and they agree.                             *)
SameWaits ==
  StartEntries >= Cardinality(Pids) =>
    \A c \in CPUs :
      LET s == switching[c] IN
      s.active /\ s.next \in Named \ fresh =>
        /\ s.traced /\ ~Ignored(s)
        /\ latest[c] # NoLatency
        /\ Near(latest[c].latency, Latency(s))

(* slu.c:98-103: slu ends when its workload has, or could not be started,   *)
(* whatever is still in the ring or in a handler on some CPU.               *)
EndsWithWorkload == (child = ForkFails \/ Gone) ~> pc \in Ended
=============================================================================
