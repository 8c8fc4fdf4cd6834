-------------------------------- MODULE SlBpf --------------------------------
(***************************************************************************)
(* The BPF programs of ebpf_logs/sl.bpf.c, on the scheduler of RunQueue:   *)
(* two wakeup handlers that stamp a task that becomes runnable, and the    *)
(* sched_switch handler that stamps the task it takes off the CPU and      *)
(* turns the stamp of the task it puts there into an event.                *)
(*                                                                         *)
(* A wakeup handler is one step.  The sched_switch handler is two, because *)
(* the other CPUs and the collector go on while it runs: EnterSwitch takes *)
(* the time, latches the target and stamps prev; LeaveSwitch reads the     *)
(* configuration and the stamp of next and writes the event.               *)
(***************************************************************************)
EXTENDS RunQueue, Sequences

CONSTANTS
  StartEntries,   \* max_entries of the map start
  RingSlots,      \* events the ring buffer holds
  Targets,        \* the TGIDs the collector may be asked to follow, 0 for all
  Configs         \* the configurations it may write

ConfigType == [min_latency_ns : Nat, sample_rate : Nat, include_kernel_threads : {0, 1}]

NoConfig == [min_latency_ns |-> 0, sample_rate |-> 0, include_kernel_threads |-> 0]

ASSUME MapsAssumption ==
  /\ StartEntries \in Nat
  /\ RingSlots \in Nat
  /\ Targets \subseteq Nat
  /\ Configs \subseteq ConfigType \ {NoConfig}

VARIABLES
  attached,    \* the programs attached so far
  target,      \* target_tgid_map: 0 when it has no entry or the entry is 0
  config,      \* config_map: an array map, so zero until it is written
  start,       \* start[p]: the entry of pid p, or Absent
  counter,     \* sample_counter of each CPU, modulo the sample rate
  events,      \* the ring buffer
  switching,   \* per CPU, the sched_switch handler in progress, if any
  observed     \* ghost: the program that runs as the present wait began was attached

bpfVars == <<attached, target, config, start, counter, events, switching, observed>>
vars == <<kernelVars, bpfVars>>

Position == [sched_wakeup |-> 1, sched_wakeup_new |-> 2, sched_switch |-> 3]
Hooks    == {"sched_wakeup", "sched_wakeup_new", "sched_switch"}
Absent   == -1
NoSwitch == [active |-> FALSE]

(* wait and whole are ghosts: how long the task really waited, and whether  *)
(* the program that runs as a wait of its kind begins was attached then.    *)
EventType == [pid : Tasks, tgid : Nat, latency_ns : Int, ts_ns : Nat, cpu_id : CPUs,
              wait : Int, whole : BOOLEAN]
SwitchType == [active : {TRUE}, traced : BOOLEAN, ts : Nat, filter : Nat, prev : Pids,
               next : Pids, wait : Int, whole : BOOLEAN]

TypeOK ==
  /\ KernelTypeOK
  /\ attached \in SUBSET Hooks
  /\ target \in Nat
  /\ config \in ConfigType
  /\ start \in [Pids -> Nat \cup {Absent}]
  /\ counter \in [CPUs -> Nat]
  /\ events \in Seq(EventType) /\ Len(events) <= RingSlots
  /\ switching \in [CPUs -> SwitchType \cup {NoSwitch}]
  /\ observed \in [Tasks -> BOOLEAN]

Init ==
  /\ KernelInit
  /\ attached = {}
  /\ target = 0
  /\ config = NoConfig
  /\ start = [p \in Pids |-> Absent]
  /\ counter = [c \in CPUs |-> 0]
  /\ events = << >>
  /\ switching = [c \in CPUs |-> NoSwitch]
  /\ observed = [t \in Tasks |-> FALSE]

-----------------------------------------------------------------------------
(* The optional TGID filter, in every handler. *)
PassesInverted(filter, tgid) == filter = 0 \/ filter # tgid   \* mutant
Passes(filter, tgid) == filter = 0 \/ filter = tgid
TgidOf(p) == IF p = Idle THEN 0 ELSE Tgid[p]

(* bpf_map_update_elem on start: it fails when the map is full and has no   *)
(* entry for the pid yet, and no handler looks at the result.               *)
Entries == {p \in Pids : start[p] # Absent}
HasRoomIfNotFull(p) == Cardinality(Entries) < StartEntries   \* mutant: no update in place
HasRoom(p) == start[p] # Absent \/ Cardinality(Entries) < StartEntries
Stamp(p, filter) ==
  IF Passes(filter, TgidOf(p)) /\ HasRoom(p) THEN [start EXCEPT ![p] = now] ELSE start

(* Mutant: the fork path is not hooked. *)
WakeupHandlerNoFork(hook, t) ==
  /\ start' = IF hook = "sched_wakeup" /\ hook \in attached THEN Stamp(t, target) ELSE start
  /\ UNCHANGED <<attached, target, config, counter, events, switching>>

(* A task that takes part in a switch is under the run queue's lock. *)
Held == {t \in Tasks : \E c \in CPUs : /\ switching[c].active
                                       /\ t \in {switching[c].prev, switching[c].next}}

(* Handlers 1 and 2 have the same body. *)
WakeupHandler(hook, t) ==
  /\ start' = IF hook \in attached THEN Stamp(t, target) ELSE start
  /\ UNCHANGED <<attached, target, config, counter, events, switching>>

SchedWakeupNew(t) ==
  /\ t \notin Held
  /\ Create(t)
  /\ WakeupHandler("sched_wakeup_new", t)
  /\ observed' = [observed EXCEPT ![t] = "sched_wakeup_new" \in attached]

SchedWakeup(t) ==
  /\ t \notin Held
  /\ \/ Awaken(t) /\ observed' = [observed EXCEPT ![t] = "sched_wakeup" \in attached]
     \/ AwakenEarly(t) /\ UNCHANGED observed
  /\ WakeupHandler("sched_wakeup", t)

(* A task changes its __state only while it runs, outside a switch. *)
ChangeState(c) == ~switching[c].active /\ SetState(c) /\ UNCHANGED bpfVars

(* Mutant: the program before "THE FIX": a preempted task is not stamped. *)
StampPrevBeforeFix(prev) == start

(* sched_switch, first half: the time, the filter and the preempted task. *)
StampPrev(prev) ==
  IF "sched_switch" \in attached /\ (prev = Idle \/ runnable[prev])
  THEN Stamp(prev, target) ELSE start

EnterSwitch(c, next, fate) ==
  LET prev == running[c] IN
  /\ ~switching[c].active
  /\ next \notin Held
  /\ Switch(c, next, fate)
  /\ start' = StampPrev(prev)
  /\ switching' = [switching EXCEPT ![c] =
        [active |-> TRUE, traced |-> "sched_switch" \in attached, ts |-> now,
         filter |-> target, prev |-> prev, next |-> next,
         wait |-> IF next = Idle THEN 0 ELSE now - since[next],
         whole |-> next # Idle /\ observed[next]]]
  /\ observed' = [t \in Tasks |->
        IF t = prev /\ fate = "queued" THEN "sched_switch" \in attached
        ELSE t \notin {prev, next} /\ observed[t]]
  /\ UNCHANGED <<attached, target, config, counter, events>>

(* Second half: the early returns of sched_switch that leave the stamp of   *)
(* next alone, and those after it has been consumed.                        *)
Ignored(s) ==
  \/ s.next = Idle
  \/ config.include_kernel_threads = 0 /\ s.next \in Kthreads
  \/ ~Passes(s.filter, Tgid[s.next])
  \/ start[s.next] = Absent

LatencySwapped(s) == start[s.next] - s.ts   \* mutant: the operands swapped
TooShortStrict(s) == s.ts - start[s.next] <= config.min_latency_ns   \* mutant: <= for <
KeptStamp(s) == start                       \* mutant: the stamp is not deleted
SlotAssumed == TRUE                         \* mutant: the result of reserve is not checked

Latency(s)  == s.ts - start[s.next]
TooShort(s) == Latency(s) \in 0..(config.min_latency_ns - 1)   \* in u64: a negative one is not
Sampling    == config.sample_rate > 1
NextCount(c) == (counter[c] + 1) % config.sample_rate
SkippedBySampling(c) == Sampling /\ NextCount(c) # 0

(* bpf_map_delete_elem: the stamp is used up, reported or not. *)
Consumed(s) == [start EXCEPT ![s.next] = Absent]

(* bpf_ringbuf_reserve fails when the ring is full, and the event is lost. *)
HasSlot == Len(events) < RingSlots

EventOf(c, s) ==
  [pid |-> s.next, tgid |-> Tgid[s.next], latency_ns |-> Latency(s), ts_ns |-> s.ts,
   cpu_id |-> c, wait |-> s.wait, whole |-> s.whole]

LeaveSwitch(c) ==
  LET s == switching[c]
      live == s.traced /\ ~Ignored(s)
      matched == live /\ ~TooShort(s)
      emitted == matched /\ ~SkippedBySampling(c) /\ HasSlot
  IN
  /\ s.active
  /\ switching' = [switching EXCEPT ![c] = NoSwitch]
  /\ start' = IF live THEN Consumed(s) ELSE start
  /\ counter' = IF matched /\ Sampling THEN [counter EXCEPT ![c] = NextCount(c)] ELSE counter
  /\ events' = IF emitted THEN Append(events, EventOf(c, s)) ELSE events
  /\ UNCHANGED <<kernelVars, attached, target, config, observed>>

-----------------------------------------------------------------------------
(* The collector's side (collector.c): it attaches the programs in the      *)
(* order of the object file, whether or not the one before could be         *)
(* attached; then it sets the target, then the configuration, and from then *)
(* on it consumes events.                                                   *)
Attach(h) ==
  /\ target = 0 /\ config = NoConfig
  /\ \A a \in attached : Position[a] < Position[h]
  /\ attached' = attached \cup {h}
  /\ UNCHANGED <<kernelVars, target, config, start, counter, events, switching, observed>>

SetTarget(g) ==
  /\ target = 0
  /\ config = NoConfig
  /\ target' = g
  /\ UNCHANGED <<kernelVars, attached, config, start, counter, events, switching, observed>>

Configure(cfg) ==
  /\ config = NoConfig
  /\ config' = cfg
  /\ UNCHANGED <<kernelVars, attached, target, start, counter, events, switching, observed>>

Consume ==
  /\ events # << >>
  /\ events' = Tail(events)
  /\ UNCHANGED <<kernelVars, attached, target, config, start, counter, switching, observed>>

KernelStep ==
  \/ Tick /\ UNCHANGED bpfVars
  \/ \E t \in Tasks : SchedWakeupNew(t) \/ SchedWakeup(t)
  \/ \E c \in CPUs :
       \/ ChangeState(c)
       \/ LeaveSwitch(c)
       \/ \E next \in Pids, fate \in Fates(running[c]) : EnterSwitch(c, next, fate)

CollectorStep ==
  \/ \E h \in Hooks : Attach(h)
  \/ \E g \in Targets : SetTarget(g)
  \/ \E cfg \in Configs : Configure(cfg)
  \/ Consume

Next == KernelStep \/ CollectorStep

Spec == Init /\ [][Next]_vars

-----------------------------------------------------------------------------
(* sl.bpf.c:168 subtracts two u64: were a stamp ever later than the switch  *)
(* that consumes it, the latency would wrap to 2^64.  A stamp taken by      *)
(* another CPU while a switch is in progress is what could do it.           *)
NoUnderflow ==
  /\ \A c \in CPUs : switching[c].active /\ switching[c].next # Idle
        => start[switching[c].next] <= switching[c].ts
  /\ \A i \in 1..Len(events) : events[i].latency_ns >= 0

(* The latency of an event is the time its task really waited for a CPU,    *)
(* whatever stamps were lost, left over or overwritten before, and whichever*)
(* programs are missing (collector.c:225 goes on without them), provided    *)
(* the one that runs as such a wait begins was attached by then.            *)
(* sl.bpf.c:126-140 says how: a task that leaves the CPU in state 0 was     *)
(* preempted, and its stamp is renewed.                                     *)
LatencyIsWait ==
  \A i \in 1..Len(events) : events[i].whole => events[i].latency_ns = events[i].wait

(* A wait that began with the program for it attached is not lost while it  *)
(* lasts: as long as the map start has room for every pid, the stamp of a   *)
(* waiting task that the target lets through is there, and is the right     *)
(* one - however many programs and map updates raced with it, and whether   *)
(* or not the other programs were attached.                                 *)
WaitRecorded ==
  StartEntries >= Cardinality(Pids) =>
    \A t \in Tasks :
      place[t] = "queued" /\ observed[t] /\ Passes(target, Tgid[t]) => start[t] = since[t]

(* The events of one task report disjoint waits in order, and those of one  *)
(* CPU come in the order of the switches: no wait is reported twice.        *)
EventsInOrder ==
  \A i, j \in 1..Len(events) : i < j =>
    /\ events[i].cpu_id = events[j].cpu_id => events[i].ts_ns <= events[j].ts_ns
    /\ events[i].pid = events[j].pid
         => events[i].ts_ns <= events[j].ts_ns - events[j].latency_ns

(* The abstract specification this one implements: the wait of next ends as *)
(* the switch begins, and is reported, or not, as it ends.                  *)
WaitReport == INSTANCE WaitReports WITH
  reports <- events,
  ended <- [c \in CPUs |->
    LET s == switching[c] IN
    IF s.active /\ s.next # Idle THEN [pid |-> s.next, began |-> s.ts - s.wait, at |-> s.ts]
    ELSE [pid |-> Idle]]

(* Every event sl.bpf.c submits is the report of one wait that ended on     *)
(* that CPU, of its true length if the programs saw it begin; and each      *)
(* wait is reported at most once.                                           *)
ReportsWaits == WaitReport!Spec

(* A switch to a task whose wait was observed from its beginning adds an    *)
(* event when the configuration asks for all of them, and the ring has a    *)
(* slot, with whatever other programs attached.                             *)
NoWaitMissed ==
  [][\A c \in CPUs :
       LET s == switching[c] IN
       /\ s.active /\ ~switching'[c].active
       /\ s.whole /\ s.traced /\ Passes(s.filter, Tgid[s.next]) /\ Passes(target, Tgid[s.next])
       /\ config.include_kernel_threads = 1
       /\ config.min_latency_ns = 0 /\ config.sample_rate = 1
       /\ StartEntries >= Cardinality(Pids) /\ Len(events) < RingSlots
       => Len(events') = Len(events) + 1]_vars

(* sl.bpf.c:127, "RECORD THE TASK BEING PREEMPTED (if target)": a task that *)
(* leaves a CPU for a queue gets a stamp there and then, if the map start   *)
(* has room for it.                                                         *)
PreemptedRecorded ==
  [][\A c \in CPUs :
       LET prev == running[c] IN
       /\ "sched_switch" \in attached
       /\ prev \in Tasks /\ running'[c] # prev /\ place'[prev] = "queued"
       /\ Passes(target, TgidOf(prev)) /\ HasRoom(prev)
       => start'[prev] = now]_vars
=============================================================================
