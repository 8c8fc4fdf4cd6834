------------------------------- MODULE RunQueue -------------------------------
(***************************************************************************)
(* The kernel scheduler as sl.bpf.c sees it: the environment of the three  *)
(* tracepoints.  None of this code is under src/; it is modelled from what *)
(* the BPF programs read (a task's pid, tgid, PF_KTHREAD flag and __state) *)
(* and from when the tracepoints fire: sched_wakeup and sched_wakeup_new   *)
(* as a task is made runnable, sched_switch under the run queue's lock     *)
(* between choosing the next task and letting it run.                      *)
(*                                                                         *)
(* The operators below are the kernel's side of each step; SlBpf.tla       *)
(* conjoins the handler that runs in it.                                   *)
(***************************************************************************)
EXTENDS Integers, FiniteSets

CONSTANTS
  Tasks,        \* the pids in use, pid 0 apart
  CPUs,
  Idle,         \* pid 0: the idle task, one per CPU under one pid
  Tgid,         \* Tgid[t]: the thread group of pid t
  Kthreads,     \* the pids whose task carries PF_KTHREAD
  Preemptible,  \* may a task that has already set its __state be preempted?
  MaxTime       \* bound on the clock

ASSUME TasksAssumption ==
  /\ IsFiniteSet(Tasks) /\ IsFiniteSet(CPUs)
  /\ Idle \notin Tasks
  /\ Tgid \in [Tasks -> Nat \ {0}]
  /\ Kthreads \subseteq Tasks
  /\ Preemptible \in BOOLEAN
  /\ MaxTime \in Nat

VARIABLES
  now,        \* bpf_ktime_get_ns, in ticks
  place,      \* where each task is
  runnable,   \* runnable[t]: __state is 0 (TASK_RUNNING)
  since,      \* when the wait of a queued task began: the truth sl.bpf.c measures
  running     \* the task each CPU runs

kernelVars == <<now, place, runnable, since, running>>

Pids   == Tasks \cup {Idle}
Places == {"none", "asleep", "queued", "oncpu"}

KernelTypeOK ==
  /\ now \in Nat
  /\ place \in [Tasks -> Places]
  /\ runnable \in [Tasks -> BOOLEAN]
  /\ since \in [Tasks -> Nat]
  /\ running \in [CPUs -> Pids]

(* The traced system may be in any of these states when tracing begins: a   *)
(* task does not exist, sleeps or already waits in a queue.                 *)
KernelInit ==
  /\ now = 0
  /\ place \in [Tasks -> {"none", "asleep", "queued"}]
  /\ runnable = [t \in Tasks |-> place[t] = "queued"]
  /\ since = [t \in Tasks |-> 0]
  /\ running = [c \in CPUs |-> Idle]

-----------------------------------------------------------------------------
Tick == now < MaxTime /\ now' = now + 1 /\ UNCHANGED <<place, runnable, since, running>>

(* wake_up_new_task: a forked task enters a queue for the first time; a pid *)
(* whose task has exited may be given out again.                            *)
Create(t) ==
  /\ place[t] = "none"
  /\ place' = [place EXCEPT ![t] = "queued"]
  /\ runnable' = [runnable EXCEPT ![t] = TRUE]
  /\ since' = [since EXCEPT ![t] = now]
  /\ UNCHANGED <<now, running>>

(* try_to_wake_up of a task that sleeps: it joins a queue. *)
Awaken(t) ==
  /\ place[t] = "asleep"
  /\ place' = [place EXCEPT ![t] = "queued"]
  /\ runnable' = [runnable EXCEPT ![t] = TRUE]
  /\ since' = [since EXCEPT ![t] = now]
  /\ UNCHANGED <<now, running>>

(* try_to_wake_up of a task that has set its __state but is still on a CPU, *)
(* or was preempted before it could sleep: the tracepoint fires too, and    *)
(* the task moves nowhere.                                                  *)
AwakenEarly(t) ==
  /\ place[t] \in {"queued", "oncpu"}
  /\ ~runnable[t]
  /\ runnable' = [runnable EXCEPT ![t] = TRUE]
  /\ UNCHANGED <<now, place, since, running>>

(* set_current_state: the task on CPU c announces that it will sleep or     *)
(* exit, or takes the announcement back.  No tracepoint fires.              *)
SetState(c) ==
  /\ running[c] \in Tasks
  /\ runnable' = [runnable EXCEPT ![running[c]] = ~runnable[running[c]]]
  /\ UNCHANGED <<now, place, since, running>>

(* What becomes of the task that leaves a CPU: it stays queued (it was      *)
(* preempted or yielded), sleeps, or is gone.                               *)
Fates(prev) ==
  IF prev = Idle THEN {"idle"}
  ELSE (IF runnable[prev] \/ Preemptible THEN {"queued"} ELSE {})
       \cup (IF runnable[prev] THEN {} ELSE {"asleep", "none"})

(* __schedule on CPU c: next replaces the task that was running there. *)
Switch(c, next, fate) ==
  LET prev == running[c] IN
  /\ next # prev
  /\ next \in {Idle} \cup {t \in Tasks : place[t] = "queued"}
  /\ fate \in Fates(prev)
  /\ running' = [running EXCEPT ![c] = next]
  /\ place' = [t \in Tasks |-> IF t = next THEN "oncpu"
                               ELSE IF t = prev THEN fate ELSE place[t]]
  /\ since' = [t \in Tasks |-> IF t = prev /\ fate = "queued" THEN now
                               ELSE IF t \in {prev, next} THEN 0 ELSE since[t]]
  /\ UNCHANGED <<now, runnable>>
=============================================================================
