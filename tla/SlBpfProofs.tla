----------------------------- MODULE SlBpfProofs -----------------------------
(***************************************************************************)
(* Proofs about SlBpf, for any number of tasks and CPUs and any sizes of   *)
(* the map and of the ring buffer; and, on top of them, about SingleRun.   *)
(*                                                                         *)
(* The argument: a task that takes part in a switch is held by the run     *)
(* queue's lock, and no task runs on two CPUs, so that nothing touches the *)
(* stamp of next between the two halves of sched_switch; and on a kernel   *)
(* that does not preempt a task which has set its __state, every wait      *)
(* begins in a handler that stamps it.  From these invariants follow the   *)
(* order of the events, that no wait is missed without a reason, and that  *)
(* SlBpf implements WaitReports.                                           *)
(***************************************************************************)
EXTENDS SingleRun, FiniteSetTheorems, SequenceTheorems, TLAPS

(* No task runs on two CPUs, and a running task is nowhere else. *)
RunningOnce ==
  /\ \A c \in CPUs : running[c] \in Tasks => place[running[c]] = "oncpu"
  /\ \A c, d \in CPUs : c # d /\ running[c] = running[d] => running[c] = Idle

SwitchOfRunning ==
  \A c \in CPUs : switching[c].active =>
    /\ running[c] = switching[c].next
    /\ switching[c].prev # switching[c].next
    /\ switching[c].whole => switching[c].next \in Tasks

NothingFromTheFuture ==
  /\ \A p \in Pids : start[p] <= now
  /\ \A t \in Tasks : since[t] <= now
  /\ \A c \in CPUs : switching[c].active => switching[c].ts <= now
  /\ \A i \in 1..Len(events) : events[i].ts_ns <= now

StampBeforeSwitch ==
  \A c \in CPUs : switching[c].active /\ switching[c].next # Idle
    => start[switching[c].next] <= switching[c].ts

EventsNotNegative == \A i \in 1..Len(events) : events[i].latency_ns >= 0

QueuedIsRunnable == \A t \in Tasks : place[t] = "queued" => runnable[t]

StampIsSince ==
  \A t \in Tasks :
    place[t] = "queued" /\ observed[t] /\ Passes(target, Tgid[t]) /\ start[t] # Absent
      => start[t] = since[t]

StampGivesWait ==
  \A c \in CPUs :
    LET s == switching[c] IN
    s.active /\ s.whole /\ Passes(s.filter, Tgid[s.next]) /\ start[s.next] # Absent
      => s.ts - start[s.next] = s.wait

(* The inductive invariants: of the clock, and of the waits. *)
ClockInv ==
  /\ TypeOK
  /\ RunningOnce
  /\ SwitchOfRunning
  /\ NothingFromTheFuture
  /\ StampBeforeSwitch
  /\ EventsNotNegative

WaitInv ==
  /\ QueuedIsRunnable
  /\ StampIsSince
  /\ StampGivesWait
  /\ LatencyIsWait

-----------------------------------------------------------------------------
(* Appending to and taking the head off a sequence, index by index. *)
LEMMA AppendFacts ==
  ASSUME NEW S, NEW s \in Seq(S), NEW e \in S
  PROVE  /\ Append(s, e) \in Seq(S)
         /\ Len(Append(s, e)) = Len(s) + 1
         /\ \A i \in 1..Len(s) : Append(s, e)[i] = s[i]
         /\ Append(s, e)[Len(s) + 1] = e
  OBVIOUS

LEMMA TailFacts ==
  ASSUME NEW S, NEW s \in Seq(S), s # << >>
  PROVE  /\ Tail(s) \in Seq(S)
         /\ Len(s) \in Nat \ {0}
         /\ Len(Tail(s)) = Len(s) - 1
         /\ \A i \in 1..Len(Tail(s)) : i + 1 \in 1..Len(s) /\ Tail(s)[i] = s[i + 1]
  OBVIOUS

(* A switch in progress is a full record. *)
LEMMA ActiveSwitch ==
  ASSUME TypeOK, NEW c \in CPUs, switching[c].active
  PROVE  switching[c] \in SwitchType
<1>1. NoSwitch.active = FALSE
  BY DEF NoSwitch
<1> QED
  BY <1>1 DEF TypeOK

(* The fields of an event in the ring. *)
LEMMA EventFacts ==
  ASSUME TypeOK, NEW i \in 1..Len(events)
  PROVE  /\ events[i].ts_ns \in Nat /\ events[i].latency_ns \in Int /\ events[i].wait \in Int
         /\ events[i].pid \in Tasks /\ events[i].cpu_id \in CPUs
<1>1. events[i] \in EventType
  BY DEF TypeOK
<1> QED
  BY <1>1 DEF EventType

(* What a stamp does to the map, whoever takes it. *)
LEMMA StampFacts ==
  ASSUME TypeOK, NEW p \in Pids, NEW f
  PROVE  /\ Stamp(p, f) \in [Pids -> Nat \cup {Absent}]
         /\ \A q \in Pids : q # p => Stamp(p, f)[q] = start[q]
         /\ Stamp(p, f)[p] \in {start[p], now}
         /\ Passes(f, TgidOf(p)) /\ Stamp(p, f)[p] # Absent => Stamp(p, f)[p] = now
  BY DEF TypeOK, KernelTypeOK, Stamp, HasRoom, Absent

(* What the scheduler's step in EnterSwitch leaves well typed. *)
LEMMA SwitchKeepsTypes ==
  ASSUME TypeOK, NEW c \in CPUs, NEW next \in Pids, NEW fate \in Fates(running[c]),
         Switch(c, next, fate)
  PROVE  KernelTypeOK'
<1>1. next \notin Tasks => running[c] \in Tasks
  BY DEF Switch, Pids, TypeOK, KernelTypeOK
<1>2. ASSUME NEW t \in Tasks PROVE place'[t] \in Places /\ since'[t] \in Nat
  BY <1>1, TasksAssumption DEF Switch, TypeOK, KernelTypeOK, Places, Fates
<1> QED
  BY <1>2 DEF Switch, TypeOK, KernelTypeOK

LEMMA TypeStep == TypeOK /\ [Next]_vars => TypeOK'
<1> SUFFICES ASSUME TypeOK, [Next]_vars PROVE TypeOK'
  OBVIOUS
<1> USE TasksAssumption, MapsAssumption
<1>1. CASE Tick /\ UNCHANGED bpfVars
  BY <1>1 DEF Tick, bpfVars, TypeOK, KernelTypeOK
<1>2. ASSUME NEW t \in Tasks, SchedWakeupNew(t) PROVE TypeOK'
  <2>1. KernelTypeOK'
    BY <1>2 DEF SchedWakeupNew, Create, TypeOK, KernelTypeOK, Places
  <2>2. start' \in [Pids -> Nat \cup {Absent}]
    BY <1>2, StampFacts DEF SchedWakeupNew, WakeupHandler, TypeOK, Pids
  <2> QED
    BY <1>2, <2>1, <2>2 DEF SchedWakeupNew, WakeupHandler, TypeOK
<1>3. ASSUME NEW t \in Tasks, SchedWakeup(t) PROVE TypeOK'
  <2>1. KernelTypeOK'
    <3>1. CASE Awaken(t)
      BY <3>1 DEF Awaken, TypeOK, KernelTypeOK, Places
    <3>2. CASE AwakenEarly(t)
      BY <3>2 DEF AwakenEarly, TypeOK, KernelTypeOK
    <3> QED BY <1>3, <3>1, <3>2 DEF SchedWakeup
  <2>2. start' \in [Pids -> Nat \cup {Absent}]
    BY <1>3, StampFacts DEF SchedWakeup, WakeupHandler, TypeOK, Pids
  <2>3. observed' \in [Tasks -> BOOLEAN]
    <3>1. ("sched_wakeup" \in attached) \in BOOLEAN
      OBVIOUS
    <3> QED BY <1>3, <3>1 DEF SchedWakeup, TypeOK
  <2> QED
    BY <1>3, <2>1, <2>2, <2>3 DEF SchedWakeup, WakeupHandler, TypeOK
<1>4. ASSUME NEW c \in CPUs, ChangeState(c) PROVE TypeOK'
  BY <1>4 DEF ChangeState, SetState, bpfVars, TypeOK, KernelTypeOK
<1>5. ASSUME NEW c \in CPUs, LeaveSwitch(c) PROVE TypeOK'
  <2> DEFINE s == switching[c]
  <2>1. s \in SwitchType /\ KernelTypeOK'
    BY <1>5, ActiveSwitch DEF LeaveSwitch, TypeOK, KernelTypeOK, kernelVars
  <2>2. start' \in [Pids -> Nat \cup {Absent}]
    BY <1>5, <2>1 DEF LeaveSwitch, Consumed, TypeOK, SwitchType
  <2>3. counter' \in [CPUs -> Nat]
    <3>1. Sampling => NextCount(c) \in Nat
      BY DEF Sampling, NextCount, TypeOK, ConfigType
    <3> QED BY <1>5, <3>1 DEF LeaveSwitch, TypeOK
  <2>4. ~Ignored(s) => EventOf(c, s) \in EventType
    BY <2>1 DEF Ignored, EventOf, EventType, SwitchType, Latency, TypeOK, Pids, Absent
  <2>5. events' \in Seq(EventType) /\ Len(events') <= RingSlots
    BY <1>5, <2>4, AppendFacts DEF LeaveSwitch, HasSlot, TypeOK
  <2>6. switching' \in [CPUs -> SwitchType \cup {NoSwitch}]
    BY <1>5 DEF LeaveSwitch, TypeOK
  <2> QED
    BY <1>5, <2>1, <2>2, <2>3, <2>5, <2>6 DEF LeaveSwitch, TypeOK
<1>6. ASSUME NEW c \in CPUs, NEW next \in Pids, NEW fate \in Fates(running[c]),
             EnterSwitch(c, next, fate)
      PROVE TypeOK'
  <2>1. KernelTypeOK'
    BY <1>6, SwitchKeepsTypes DEF EnterSwitch
  <2>2. start' \in [Pids -> Nat \cup {Absent}]
    BY <1>6, StampFacts DEF EnterSwitch, StampPrev, TypeOK, KernelTypeOK
  <2>3. /\ next # Idle => next \in Tasks /\ now - since[next] \in Int
        /\ next # Idle => observed[next] \in BOOLEAN
        /\ running[c] \in Pids /\ now \in Nat /\ target \in Nat
    BY DEF TypeOK, KernelTypeOK, Pids
  <2>4. switching' \in [CPUs -> SwitchType \cup {NoSwitch}]
    <3> DEFINE entered ==
          [active |-> TRUE, traced |-> "sched_switch" \in attached, ts |-> now,
           filter |-> target, prev |-> running[c], next |-> next,
           wait |-> IF next = Idle THEN 0 ELSE now - since[next],
           whole |-> next # Idle /\ observed[next]]
    <3>1. (next # Idle /\ observed[next]) \in BOOLEAN
      BY <2>3
    <3>2. entered \in SwitchType
      BY <2>3, <3>1 DEF SwitchType
    <3>3. switching' = [switching EXCEPT ![c] = entered]
      BY <1>6 DEF EnterSwitch
    <3> HIDE DEF entered
    <3> QED BY <3>2, <3>3 DEF TypeOK
  <2>5. observed' \in [Tasks -> BOOLEAN]
    <3> DEFINE sees(t) == IF t = running[c] /\ fate = "queued"
                          THEN "sched_switch" \in attached
                          ELSE t \notin {running[c], next} /\ observed[t]
    <3>1. observed' = [t \in Tasks |-> sees(t)]
      BY <1>6 DEF EnterSwitch
    <3>2. ASSUME NEW t \in Tasks PROVE sees(t) \in BOOLEAN
      <4>1. observed[t] \in BOOLEAN
        BY DEF TypeOK
      <4>2. ("sched_switch" \in attached) \in BOOLEAN
        OBVIOUS
      <4>3. (t \notin {running[c], next} /\ observed[t]) \in BOOLEAN
        BY <4>1
      <4> QED
        BY <4>2, <4>3
    <3> HIDE DEF sees
    <3> QED BY <3>1, <3>2
  <2> QED
    BY <1>6, <2>1, <2>2, <2>4, <2>5 DEF EnterSwitch, TypeOK
<1>7. ASSUME NEW h \in Hooks, Attach(h) PROVE TypeOK'
  BY <1>7 DEF Attach, kernelVars, TypeOK, KernelTypeOK
<1>8. ASSUME NEW g \in Targets, SetTarget(g) PROVE TypeOK'
  BY <1>8 DEF SetTarget, kernelVars, TypeOK, KernelTypeOK
<1>9. ASSUME NEW cfg \in Configs, Configure(cfg) PROVE TypeOK'
  BY <1>9 DEF Configure, kernelVars, TypeOK, KernelTypeOK
<1>10. CASE Consume
  BY <1>10, TailFacts DEF Consume, kernelVars, TypeOK, KernelTypeOK
<1>11. CASE UNCHANGED vars
  BY <1>11 DEF vars, kernelVars, bpfVars, TypeOK, KernelTypeOK
<1> QED
  BY <1>1, <1>2, <1>3, <1>4, <1>5, <1>6, <1>7, <1>8, <1>9, <1>10, <1>11 DEF Next, KernelStep, CollectorStep

LEMMA TypeInit == Init => TypeOK
  BY TasksAssumption, MapsAssumption
  DEF Init, KernelInit, TypeOK, KernelTypeOK, Places, Pids, NoConfig, ConfigType, NoSwitch

(* Every variable of the BPF programs and of the scheduler keeps its type,  *)
(* and the ring buffer never holds more events than it has room for.        *)
THEOREM TypeCorrect == Spec => []TypeOK
  BY TypeInit, TypeStep, PTL DEF Spec

-----------------------------------------------------------------------------
(* The collector's steps that change neither the scheduler nor a stamp. *)
Quiet ==
  /\ UNCHANGED <<kernelVars, start, events, switching, observed>>
  /\ target' = target \/ target = 0

LEMMA StepCases ==
  ASSUME TypeOK, [Next]_vars
  PROVE  \/ Tick /\ UNCHANGED bpfVars
         \/ \E t \in Tasks : SchedWakeupNew(t) \/ SchedWakeup(t)
         \/ \E c \in CPUs : ChangeState(c)
         \/ \E c \in CPUs : LeaveSwitch(c)
         \/ \E c \in CPUs, next \in Pids : \E fate \in Fates(running[c]) : EnterSwitch(c, next, fate)
         \/ Quiet
         \/ Consume
  BY DEF Next, KernelStep, CollectorStep, Attach, SetTarget, Configure, Quiet, vars, bpfVars

(* A wakeup, of either kind, in terms of the state it changes. *)
LEMMA WakeupFacts ==
  ASSUME TypeOK, NEW t \in Tasks, SchedWakeupNew(t) \/ SchedWakeup(t)
  PROVE  /\ t \notin Held
         /\ \A u \in Tasks : u # t => /\ place'[u] = place[u] /\ since'[u] = since[u]
                                      /\ runnable'[u] = runnable[u] /\ observed'[u] = observed[u]
         /\ runnable'[t]
         /\ \/ /\ place[t] \notin {"oncpu", "queued"} /\ place'[t] = "queued" /\ since'[t] = now
            \/ ~runnable[t] /\ UNCHANGED <<place, since, observed>>
         /\ \A p \in Pids : p # t => start'[p] = start[p]
         /\ start'[t] \in {start[t], now}
         /\ place[t] # "queued" /\ place'[t] = "queued" /\ observed'[t] =>
              /\ start' = Stamp(t, target)
              /\ Passes(target, Tgid[t]) /\ start'[t] # Absent => start'[t] = now
         /\ UNCHANGED <<now, running, target, events, switching>>
<1>1. /\ start' \in {start, Stamp(t, target)}
      /\ SchedWakeupNew(t) /\ "sched_wakeup_new" \in attached => start' = Stamp(t, target)
      /\ SchedWakeup(t) /\ "sched_wakeup" \in attached => start' = Stamp(t, target)
  BY DEF SchedWakeupNew, SchedWakeup, WakeupHandler
<1>2. /\ \A p \in Pids : p # t => start'[p] = start[p]
      /\ start'[t] \in {start[t], now}
      /\ /\ start' = Stamp(t, target)
         /\ Passes(target, Tgid[t]) /\ start'[t] # Absent
         => start'[t] = now
  BY <1>1, StampFacts, TasksAssumption DEF Pids, TgidOf
<1>3. CASE SchedWakeupNew(t)
  BY <1>1, <1>2, <1>3 DEF SchedWakeupNew, Create, WakeupHandler, TypeOK, KernelTypeOK
<1>4. CASE SchedWakeup(t) /\ Awaken(t)
  BY <1>1, <1>2, <1>4 DEF SchedWakeup, Awaken, AwakenEarly, WakeupHandler, TypeOK, KernelTypeOK
<1>5. CASE SchedWakeup(t) /\ AwakenEarly(t)
  BY <1>2, <1>5 DEF SchedWakeup, Awaken, AwakenEarly, WakeupHandler, TypeOK, KernelTypeOK
<1> QED
  BY <1>3, <1>4, <1>5 DEF SchedWakeup

(* The first half of sched_switch, likewise. *)
LEMMA EnterFacts ==
  ASSUME TypeOK, NEW c \in CPUs, NEW next \in Pids, NEW fate \in Fates(running[c]),
         EnterSwitch(c, next, fate)
  PROVE  /\ ~switching[c].active /\ next # running[c] /\ next \notin Held
         /\ next \in Tasks => place[next] = "queued" /\ place'[next] = "oncpu"
         /\ next = Idle \/ next \in Tasks
         /\ running[c] \in Tasks =>
              /\ place'[running[c]] = fate
              /\ fate = "queued" =>
                   /\ since'[running[c]] = now
                   /\ runnable[running[c]] \/ Preemptible
         /\ \A t \in Tasks \ {next, running[c]} :
              place'[t] = place[t] /\ since'[t] = since[t] /\ observed'[t] = observed[t]
         /\ \A t \in Tasks : since'[t] \in {since[t], now, 0}
         /\ running'[c] = next
         /\ \A d \in CPUs : d # c => running'[d] = running[d] /\ switching'[d] = switching[d]
         /\ switching'[c].active /\ switching'[c].next = next /\ switching'[c].prev = running[c]
         /\ switching'[c].ts = now /\ switching'[c].filter = target
         /\ switching'[c].whole <=> next # Idle /\ observed[next]
         /\ next # Idle => switching'[c].wait = now - since[next]
         /\ \A p \in Pids : p # running[c] => start'[p] = start[p]
         /\ start'[running[c]] \in {start[running[c]], now}
         /\ running[c] \in Tasks /\ runnable[running[c]] /\ fate = "queued"
              /\ observed'[running[c]] =>
              /\ start' = Stamp(running[c], target)
              /\ Passes(target, Tgid[running[c]]) /\ start'[running[c]] # Absent
                   => start'[running[c]] = now
         /\ UNCHANGED <<now, runnable, attached, target, events>>
<1> DEFINE prev == running[c]
<1>1. prev \in Pids /\ Idle \notin Tasks
  BY TasksAssumption DEF TypeOK, KernelTypeOK
<1>2. /\ start' \in {start, Stamp(prev, target)}
      /\ prev \in Tasks /\ runnable[prev] /\ "sched_switch" \in attached
           => start' = Stamp(prev, target)
  BY DEF EnterSwitch, StampPrev
<1>3. /\ \A p \in Pids : p # prev => start'[p] = start[p]
      /\ start'[prev] \in {start[prev], now}
  BY <1>1, <1>2, StampFacts
<1>4. prev \in Tasks /\ start' = Stamp(prev, target) /\ Passes(target, Tgid[prev])
         /\ start'[prev] # Absent => start'[prev] = now
  BY <1>1, StampFacts DEF TgidOf
<1>5. Switch(c, next, fate)
  BY DEF EnterSwitch
<1>6. fate = "queued" /\ prev \in Tasks => runnable[prev] \/ Preemptible
  BY <1>1 DEF Fates
<1>7. /\ next # prev
      /\ next \in Tasks => place[next] = "queued" /\ place'[next] = "oncpu"
      /\ next = Idle \/ next \in Tasks
      /\ prev \in Tasks => place'[prev] = fate /\ (fate = "queued" => since'[prev] = now)
      /\ \A t \in Tasks \ {next, prev} : place'[t] = place[t] /\ since'[t] = since[t]
      /\ \A t \in Tasks : since'[t] \in {since[t], now, 0}
      /\ running' = [running EXCEPT ![c] = next]
      /\ UNCHANGED <<now, runnable>>
  BY <1>1, <1>5 DEF Switch, Pids
<1>8. /\ running'[c] = next
      /\ \A d \in CPUs : d # c => running'[d] = running[d]
  BY <1>7 DEF TypeOK, KernelTypeOK
<1>9. /\ ~switching[c].active /\ next \notin Held
      /\ switching' = [switching EXCEPT ![c] =
           [active |-> TRUE, traced |-> "sched_switch" \in attached, ts |-> now,
            filter |-> target, prev |-> prev, next |-> next,
            wait |-> IF next = Idle THEN 0 ELSE now - since[next],
            whole |-> next # Idle /\ observed[next]]]
      /\ observed' = [t \in Tasks |-> IF t = prev /\ fate = "queued"
                                      THEN "sched_switch" \in attached
                                      ELSE t \notin {prev, next} /\ observed[t]]
      /\ UNCHANGED <<attached, target, events>>
  BY DEF EnterSwitch
<1>10. /\ \A d \in CPUs : d # c => switching'[d] = switching[d]
       /\ switching'[c].active /\ switching'[c].next = next /\ switching'[c].prev = prev
       /\ switching'[c].ts = now /\ switching'[c].filter = target
       /\ switching'[c].whole <=> next # Idle /\ observed[next]
       /\ next # Idle => switching'[c].wait = now - since[next]
  BY <1>9 DEF TypeOK
<1>11. /\ prev \in Tasks /\ fate = "queued" => (observed'[prev] <=> "sched_switch" \in attached)
       /\ \A t \in Tasks \ {next, prev} : observed'[t] = observed[t]
  BY <1>9 DEF TypeOK
<1>12. prev \in Tasks /\ runnable[prev] /\ fate = "queued" /\ observed'[prev] =>
         /\ start' = Stamp(prev, target)
         /\ Passes(target, Tgid[prev]) /\ start'[prev] # Absent => start'[prev] = now
  <2> SUFFICES ASSUME prev \in Tasks, runnable[prev], fate = "queued", observed'[prev]
               PROVE  start' = Stamp(prev, target)
    BY <1>4
  <2>1. "sched_switch" \in attached
    BY <1>11
  <2> QED
    BY <1>2, <2>1
<1>13. \A t \in Tasks \ {next, prev} :
         place'[t] = place[t] /\ since'[t] = since[t] /\ observed'[t] = observed[t]
  BY <1>7, <1>11
<1> HIDE DEF prev
<1> QED
  BY <1>3, <1>6, <1>7, <1>8, <1>9, <1>10, <1>12, <1>13 DEF prev

(* The second half: it touches only the stamp of next, and adds at most one *)
(* event.                                                                   *)
LEMMA LeaveFacts ==
  ASSUME TypeOK, NEW c \in CPUs, LeaveSwitch(c)
  PROVE  LET s == switching[c] IN
         /\ s \in SwitchType
         /\ ~switching'[c].active
         /\ \A d \in CPUs : d # c => switching'[d] = switching[d]
         /\ \A p \in Pids : start'[p] \in {start[p], Absent}
         /\ \A p \in Pids : p # s.next => start'[p] = start[p]
         /\ \/ UNCHANGED events
            \/ /\ s.next \in Tasks /\ Passes(s.filter, Tgid[s.next])
               /\ start[s.next] # Absent /\ start'[s.next] = Absent
               /\ EventOf(c, s) \in EventType
               /\ events' = Append(events, EventOf(c, s))
         /\ UNCHANGED <<kernelVars, attached, target, config, observed>>
<1> DEFINE s == switching[c]
<1>1. s \in SwitchType
  BY ActiveSwitch DEF LeaveSwitch
<1>2. ~Ignored(s) => s.next \in Tasks /\ Passes(s.filter, Tgid[s.next]) /\ start[s.next] # Absent
  BY <1>1 DEF Ignored, SwitchType, Pids
<1>3. ~Ignored(s) => EventOf(c, s) \in EventType
  BY <1>1, <1>2, TasksAssumption DEF EventOf, EventType, SwitchType, Latency, TypeOK, Pids, Absent
<1>4. start' \in {start, Consumed(s)} /\ (~Ignored(s) /\ s.traced => start' = Consumed(s))
  BY DEF LeaveSwitch
<1>5. /\ \A p \in Pids : start'[p] \in {start[p], Absent}
      /\ \A p \in Pids : p # s.next => start'[p] = start[p]
      /\ ~Ignored(s) /\ s.traced => start'[s.next] = Absent
  BY <1>1, <1>4 DEF Consumed, TypeOK, SwitchType
<1>6. /\ ~switching'[c].active
      /\ \A d \in CPUs : d # c => switching'[d] = switching[d]
  BY DEF LeaveSwitch, TypeOK, NoSwitch
<1>7. events' = events \/ (~Ignored(s) /\ s.traced /\ events' = Append(events, EventOf(c, s)))
  BY DEF LeaveSwitch
<1> QED
  BY <1>1, <1>2, <1>3, <1>5, <1>6, <1>7 DEF LeaveSwitch

-----------------------------------------------------------------------------
LEMMA RunningOnceStep == TypeOK /\ RunningOnce /\ [Next]_vars => RunningOnce'
<1> SUFFICES ASSUME TypeOK, RunningOnce, [Next]_vars PROVE RunningOnce'
  OBVIOUS
<1>1. ASSUME NEW t \in Tasks, SchedWakeupNew(t) \/ SchedWakeup(t) PROVE RunningOnce'
  BY <1>1, WakeupFacts DEF RunningOnce
<1>2. ASSUME NEW c \in CPUs, NEW next \in Pids, NEW fate \in Fates(running[c]),
             EnterSwitch(c, next, fate)
      PROVE RunningOnce'
  <2>1. ASSUME NEW d \in CPUs, running'[d] \in Tasks PROVE place'[running'[d]] = "oncpu"
    <3>1. CASE d = c
      BY <1>2, <2>1, <3>1, EnterFacts
    <3>2. CASE d # c
      <4>1. running'[d] = running[d] /\ place[running[d]] = "oncpu" /\ running[c] # running[d]
        BY <1>2, <2>1, <3>2, EnterFacts, TasksAssumption DEF RunningOnce
      <4>2. running[d] # next
        BY <1>2, <2>1, <4>1, EnterFacts
      <4> QED
        BY <1>2, <2>1, <4>1, <4>2, EnterFacts
    <3> QED BY <3>1, <3>2
  <2>2. \A d \in CPUs : d # c /\ running[d] = next => next = Idle
    BY <1>2, EnterFacts DEF RunningOnce
  <2>3. ASSUME NEW d \in CPUs, NEW e \in CPUs, d # e, running'[d] = running'[e]
        PROVE running'[d] = Idle
    <3>1. CASE d # c /\ e # c
      BY <1>2, <2>3, <3>1, EnterFacts DEF RunningOnce
    <3>2. CASE d = c \/ e = c
      BY <1>2, <2>2, <2>3, <3>2, EnterFacts
    <3> QED BY <3>1, <3>2
  <2> QED
    BY <2>1, <2>3 DEF RunningOnce
<1>3. CASE Tick /\ UNCHANGED bpfVars
  BY <1>3 DEF Tick, RunningOnce
<1>4. ASSUME NEW c \in CPUs, ChangeState(c) PROVE RunningOnce'
  BY <1>4 DEF ChangeState, SetState, RunningOnce
<1>5. ASSUME NEW c \in CPUs, LeaveSwitch(c) PROVE RunningOnce'
  BY <1>5 DEF LeaveSwitch, kernelVars, RunningOnce
<1>6. CASE Quiet \/ Consume
  BY <1>6 DEF Quiet, Consume, kernelVars, RunningOnce
<1> QED
  BY <1>1, <1>2, <1>3, <1>4, <1>5, <1>6, StepCases

LEMMA SwitchOfRunningStep ==
  TypeOK /\ SwitchOfRunning /\ [Next]_vars => SwitchOfRunning'
<1> SUFFICES ASSUME TypeOK, SwitchOfRunning, [Next]_vars PROVE SwitchOfRunning'
  OBVIOUS
<1>1. ASSUME NEW t \in Tasks, SchedWakeupNew(t) \/ SchedWakeup(t) PROVE SwitchOfRunning'
  BY <1>1, WakeupFacts DEF SwitchOfRunning
<1>2. ASSUME NEW c \in CPUs, NEW next \in Pids, NEW fate \in Fates(running[c]),
             EnterSwitch(c, next, fate)
      PROVE SwitchOfRunning'
  <2> SUFFICES ASSUME NEW d \in CPUs, switching'[d].active
               PROVE /\ running'[d] = switching'[d].next
                     /\ switching'[d].prev # switching'[d].next
                     /\ switching'[d].whole => switching'[d].next \in Tasks
    BY DEF SwitchOfRunning
  <2>1. CASE d = c
    BY <1>2, <2>1, EnterFacts
  <2>2. CASE d # c
    BY <1>2, <2>2, EnterFacts DEF SwitchOfRunning
  <2> QED BY <2>1, <2>2
<1>3. CASE Tick /\ UNCHANGED bpfVars
  BY <1>3 DEF Tick, bpfVars, SwitchOfRunning
<1>4. ASSUME NEW c \in CPUs, ChangeState(c) PROVE SwitchOfRunning'
  BY <1>4 DEF ChangeState, SetState, bpfVars, SwitchOfRunning
<1>5. ASSUME NEW c \in CPUs, LeaveSwitch(c) PROVE SwitchOfRunning'
  BY <1>5, LeaveFacts DEF kernelVars, SwitchOfRunning
<1>6. CASE Quiet \/ Consume
  BY <1>6 DEF Quiet, Consume, kernelVars, SwitchOfRunning
<1> QED
  BY <1>1, <1>2, <1>3, <1>4, <1>5, <1>6, StepCases

(* The stamp of next is out of reach while a switch to it is in progress:   *)
(* it can only be deleted.                                                  *)
LEMMA NextStampKept ==
  ASSUME TypeOK, RunningOnce, SwitchOfRunning, [Next]_vars,
         NEW c \in CPUs, switching[c].active, switching'[c].active, switching[c].next # Idle
  PROVE  /\ switching'[c] = switching[c]
         /\ start'[switching[c].next] \in {start[switching[c].next], Absent}
<1> DEFINE n == switching[c].next
<1>0. n \in Pids /\ n \in Tasks /\ n \in Held /\ running[c] = n
  BY ActiveSwitch DEF SwitchType, Pids, Held, SwitchOfRunning
<1>1. ASSUME NEW t \in Tasks, SchedWakeupNew(t) \/ SchedWakeup(t)
      PROVE switching' = switching /\ start'[n] = start[n]
  BY <1>0, <1>1, WakeupFacts
<1>2. ASSUME NEW d \in CPUs, NEW next \in Pids, NEW fate \in Fates(running[d]),
             EnterSwitch(d, next, fate)
      PROVE switching'[c] = switching[c] /\ start'[n] = start[n]
  <2>1. d # c
    BY <1>2, EnterFacts
  <2>2. running[d] # n
    BY <1>0, <2>1 DEF RunningOnce
  <2> QED
    BY <1>0, <1>2, <2>1, <2>2, EnterFacts
<1>3. ASSUME NEW d \in CPUs, LeaveSwitch(d)
      PROVE switching'[c] = switching[c] /\ start'[n] \in {start[n], Absent}
  BY <1>0, <1>3, LeaveFacts
<1>4. CASE (Tick /\ UNCHANGED bpfVars) \/ (\E d \in CPUs : ChangeState(d)) \/ Quiet \/ Consume
  BY <1>4 DEF ChangeState, bpfVars, Quiet, Consume
<1> QED
  BY <1>1, <1>2, <1>3, <1>4, StepCases

-----------------------------------------------------------------------------
LEMMA NothingFromTheFutureStep ==
  TypeOK /\ NothingFromTheFuture /\ [Next]_vars => NothingFromTheFuture'
<1> SUFFICES ASSUME TypeOK, NothingFromTheFuture, [Next]_vars PROVE NothingFromTheFuture'
  OBVIOUS
<1>0. now \in Nat /\ (\A t \in Tasks : since[t] \in Nat) /\ (\A p \in Pids : start[p] \in Nat \cup {Absent})
      /\ events \in Seq(EventType) /\ (\A i \in 1..Len(events) : events[i].ts_ns \in Nat)
  BY EventFacts DEF TypeOK, KernelTypeOK
<1>1. ASSUME NEW t \in Tasks, SchedWakeupNew(t) \/ SchedWakeup(t) PROVE NothingFromTheFuture'
  <2>1. \A p \in Pids : start'[p] <= now'
    BY <1>0, <1>1, WakeupFacts DEF NothingFromTheFuture
  <2>2. \A u \in Tasks : since'[u] <= now'
    BY <1>0, <1>1, WakeupFacts DEF NothingFromTheFuture
  <2> QED
    BY <1>1, <2>1, <2>2, WakeupFacts DEF NothingFromTheFuture
<1>2. ASSUME NEW c \in CPUs, NEW next \in Pids, NEW fate \in Fates(running[c]),
             EnterSwitch(c, next, fate)
      PROVE NothingFromTheFuture'
  <2>1. \A p \in Pids : start'[p] <= now'
    BY <1>0, <1>2, EnterFacts DEF NothingFromTheFuture
  <2>2. \A u \in Tasks : since'[u] <= now'
    BY <1>0, <1>2, EnterFacts DEF NothingFromTheFuture
  <2>3. \A d \in CPUs : switching'[d].active => switching'[d].ts <= now'
    BY <1>0, <1>2, EnterFacts DEF NothingFromTheFuture
  <2>4. UNCHANGED <<now, events>>
    BY <1>2, EnterFacts
  <2> QED
    BY <2>1, <2>2, <2>3, <2>4 DEF NothingFromTheFuture
<1>3. CASE Tick /\ UNCHANGED bpfVars
  <2>1. now' = now + 1 /\ UNCHANGED <<start, since, switching, events>>
    BY <1>3 DEF Tick, bpfVars
  <2>2. \A c \in CPUs : switching[c].active => switching[c].ts \in Nat
    BY ActiveSwitch DEF SwitchType
  <2> QED
    BY <1>0, <2>1, <2>2 DEF NothingFromTheFuture, Absent
<1>4. ASSUME NEW c \in CPUs, ChangeState(c) PROVE NothingFromTheFuture'
  BY <1>4 DEF ChangeState, SetState, bpfVars, NothingFromTheFuture
<1>5. ASSUME NEW c \in CPUs, LeaveSwitch(c) PROVE NothingFromTheFuture'
  <2>1. UNCHANGED kernelVars /\ \A p \in Pids : start'[p] <= now
    BY <1>0, <1>5, LeaveFacts DEF NothingFromTheFuture, Absent
  <2>2. \A d \in CPUs : switching'[d].active => switching'[d].ts <= now
    BY <1>5, LeaveFacts DEF NothingFromTheFuture
  <2>3. \A i \in 1..Len(events') : events'[i].ts_ns <= now
    <3>1. CASE UNCHANGED events
      BY <3>1 DEF NothingFromTheFuture
    <3>2. CASE /\ EventOf(c, switching[c]) \in EventType
               /\ events' = Append(events, EventOf(c, switching[c]))
      <4>1. EventOf(c, switching[c]).ts_ns <= now
        BY <1>5 DEF EventOf, LeaveSwitch, NothingFromTheFuture
      <4>2. ASSUME NEW i \in 1..Len(events') PROVE events'[i].ts_ns <= now
        <5>1. CASE i \in 1..Len(events)
          BY <1>0, <3>2, <5>1, AppendFacts DEF NothingFromTheFuture
        <5>2. CASE i \notin 1..Len(events)
          <6>1. i = Len(events) + 1
            BY <1>0, <3>2, <5>2, AppendFacts
          <6> QED BY <1>0, <3>2, <4>1, <6>1, AppendFacts
        <5> QED BY <5>1, <5>2
      <4> QED BY <4>2
    <3> QED BY <1>5, <3>1, <3>2, LeaveFacts
  <2> QED
    BY <2>1, <2>2, <2>3 DEF NothingFromTheFuture, kernelVars
<1>6. CASE Quiet
  BY <1>6 DEF Quiet, kernelVars, NothingFromTheFuture
<1>7. CASE Consume
  BY <1>0, <1>7, TailFacts DEF Consume, kernelVars, NothingFromTheFuture
<1> QED
  BY <1>1, <1>2, <1>3, <1>4, <1>5, <1>6, <1>7, StepCases

(* A handler in progress stays as it is, ends, or has just begun. *)
LEMMA SwitchingCases ==
  ASSUME TypeOK, [Next]_vars, NEW c \in CPUs, switching'[c].active
  PROVE  \/ switching'[c] = switching[c]
         \/ \E next \in Pids : \E fate \in Fates(running[c]) : EnterSwitch(c, next, fate)
<1>1. ASSUME NEW t \in Tasks, SchedWakeupNew(t) \/ SchedWakeup(t) PROVE switching'[c] = switching[c]
  BY <1>1, WakeupFacts
<1>2. ASSUME NEW d \in CPUs, d # c, NEW next \in Pids, NEW fate \in Fates(running[d]),
             EnterSwitch(d, next, fate)
      PROVE switching'[c] = switching[c]
  BY <1>2, EnterFacts
<1>3. ASSUME NEW d \in CPUs, LeaveSwitch(d) PROVE switching'[c] = switching[c]
  BY <1>3, LeaveFacts
<1>4. CASE (Tick /\ UNCHANGED bpfVars) \/ (\E d \in CPUs : ChangeState(d)) \/ Quiet \/ Consume
  BY <1>4 DEF ChangeState, bpfVars, Quiet, Consume
<1> QED
  BY <1>1, <1>2, <1>3, <1>4, StepCases

LEMMA StampBeforeSwitchStep ==
  TypeOK /\ RunningOnce /\ SwitchOfRunning /\ NothingFromTheFuture /\ StampBeforeSwitch /\ [Next]_vars
    => StampBeforeSwitch'
<1> SUFFICES ASSUME TypeOK, RunningOnce, SwitchOfRunning, NothingFromTheFuture, StampBeforeSwitch,
                    [Next]_vars,
                    NEW c \in CPUs, switching'[c].active, switching'[c].next # Idle
             PROVE  start'[switching'[c].next] <= switching'[c].ts
  BY DEF StampBeforeSwitch
<1>1. CASE switching'[c] = switching[c]
  <2>1. start'[switching[c].next] \in {start[switching[c].next], Absent}
    BY <1>1, NextStampKept
  <2>2. switching[c].ts \in Nat
    BY <1>1, ActiveSwitch DEF SwitchType
  <2>3. start[switching[c].next] <= switching[c].ts
    BY <1>1 DEF StampBeforeSwitch
  <2> QED
    BY <1>1, <2>1, <2>2, <2>3 DEF Absent
<1>2. ASSUME NEW next \in Pids, NEW fate \in Fates(running[c]), EnterSwitch(c, next, fate)
      PROVE start'[switching'[c].next] <= switching'[c].ts
  BY <1>2, EnterFacts DEF NothingFromTheFuture
<1> QED
  BY <1>1, <1>2, SwitchingCases

(* What the ring buffer holds after a step: what it held before, or one     *)
(* event more, or one less.                                                 *)
LEMMA RingCases ==
  ASSUME TypeOK, [Next]_vars
  PROVE  \/ events' = events
         \/ events # << >> /\ events' = Tail(events)
         \/ \E c \in CPUs :
              /\ LeaveSwitch(c)
              /\ switching[c].next \in Tasks /\ Passes(switching[c].filter, Tgid[switching[c].next])
              /\ start[switching[c].next] # Absent
              /\ EventOf(c, switching[c]) \in EventType
              /\ events' = Append(events, EventOf(c, switching[c]))
<1>1. ASSUME NEW t \in Tasks, SchedWakeupNew(t) \/ SchedWakeup(t) PROVE events' = events
  BY <1>1, WakeupFacts
<1>2. ASSUME NEW d \in CPUs, NEW next \in Pids, NEW fate \in Fates(running[d]), EnterSwitch(d, next, fate)
      PROVE events' = events
  BY <1>2, EnterFacts
<1>3. CASE (Tick /\ UNCHANGED bpfVars) \/ (\E d \in CPUs : ChangeState(d)) \/ Quiet \/ Consume
  BY <1>3 DEF ChangeState, bpfVars, Quiet, Consume
<1> QED
  BY <1>1, <1>2, <1>3, LeaveFacts, StepCases

LEMMA EventsNotNegativeStep ==
  TypeOK /\ StampBeforeSwitch /\ EventsNotNegative /\ [Next]_vars => EventsNotNegative'
<1> SUFFICES ASSUME TypeOK, StampBeforeSwitch, EventsNotNegative, [Next]_vars,
                    NEW i \in 1..Len(events')
             PROVE  events'[i].latency_ns >= 0
  BY DEF EventsNotNegative
<1>0. events \in Seq(EventType)
  BY DEF TypeOK
<1>1. CASE events' = events
  BY <1>1 DEF EventsNotNegative
<1>2. CASE events # << >> /\ events' = Tail(events)
  BY <1>0, <1>2, TailFacts DEF EventsNotNegative
<1>3. ASSUME NEW c \in CPUs, LeaveSwitch(c), switching[c].next \in Tasks,
             EventOf(c, switching[c]) \in EventType,
             events' = Append(events, EventOf(c, switching[c]))
      PROVE  events'[i].latency_ns >= 0
  <2>1. EventOf(c, switching[c]).latency_ns >= 0
    <3>1. switching[c].active /\ switching[c].next # Idle
      BY <1>3, TasksAssumption DEF LeaveSwitch
    <3>2. switching[c].ts \in Nat
      BY <3>1, ActiveSwitch DEF SwitchType
    <3>4. start[switching[c].next] \in Int
      BY <1>3 DEF TypeOK, Pids, Absent
    <3>3. start[switching[c].next] <= switching[c].ts
      BY <3>1 DEF StampBeforeSwitch
    <3> QED
      BY <3>2, <3>3, <3>4 DEF EventOf, Latency
  <2>2. CASE i \in 1..Len(events)
    BY <1>0, <1>3, <2>2, AppendFacts DEF EventsNotNegative
  <2>3. CASE i = Len(events) + 1
    BY <1>0, <1>3, <2>1, <2>3, AppendFacts
  <2>4. i \in 1..Len(events) \/ i = Len(events) + 1
    BY <1>0, <1>3, AppendFacts
  <2> QED BY <2>2, <2>3, <2>4
<1> QED
  BY <1>1, <1>2, <1>3, RingCases

LEMMA ClockInvInit == Init => ClockInv
<1> SUFFICES ASSUME Init PROVE ClockInv
  OBVIOUS
<1>1. TypeOK
  BY TypeInit
<1> QED
  BY <1>1, TasksAssumption
  DEF Init, KernelInit, ClockInv, RunningOnce, SwitchOfRunning, NothingFromTheFuture,
      StampBeforeSwitch, EventsNotNegative, NoSwitch, Absent, Pids

LEMMA ClockInvStep == ClockInv /\ [Next]_vars => ClockInv'
  BY TypeStep, RunningOnceStep, SwitchOfRunningStep, NothingFromTheFutureStep,
     StampBeforeSwitchStep, EventsNotNegativeStep DEF ClockInv

(* No stamp is later than the switch that consumes it, so the unsigned      *)
(* subtraction of sl.bpf.c:168 never wraps, on any number of CPUs.          *)
THEOREM NeverUnderflows == Spec => []NoUnderflow
<1>1. ClockInv => NoUnderflow
  BY DEF ClockInv, StampBeforeSwitch, EventsNotNegative, NoUnderflow
<1> QED
  BY <1>1, ClockInvInit, ClockInvStep, PTL DEF Spec

-----------------------------------------------------------------------------
(* The waits.  From here on the kernel does not preempt a task that has     *)
(* already set its __state.                                                 *)
LEMMA QueuedIsRunnableStep ==
  ~Preemptible /\ TypeOK /\ RunningOnce /\ QueuedIsRunnable /\ [Next]_vars => QueuedIsRunnable'
<1> SUFFICES ASSUME ~Preemptible, TypeOK, RunningOnce, QueuedIsRunnable, [Next]_vars,
                    NEW u \in Tasks, place'[u] = "queued"
             PROVE  runnable'[u]
  BY DEF QueuedIsRunnable
<1>1. ASSUME NEW t \in Tasks, SchedWakeupNew(t) \/ SchedWakeup(t) PROVE runnable'[u]
  BY <1>1, WakeupFacts DEF QueuedIsRunnable
<1>2. ASSUME NEW c \in CPUs, NEW next \in Pids, NEW fate \in Fates(running[c]),
             EnterSwitch(c, next, fate)
      PROVE runnable'[u]
  BY <1>2, EnterFacts DEF QueuedIsRunnable
<1>3. ASSUME NEW c \in CPUs, ChangeState(c) PROVE runnable'[u]
  BY <1>3 DEF ChangeState, SetState, QueuedIsRunnable, RunningOnce, TypeOK, KernelTypeOK
<1>4. CASE (Tick /\ UNCHANGED bpfVars) \/ (\E c \in CPUs : LeaveSwitch(c)) \/ Quiet \/ Consume
  BY <1>4 DEF Tick, LeaveSwitch, Quiet, Consume, kernelVars, QueuedIsRunnable
<1> QED
  BY <1>1, <1>2, <1>3, <1>4, StepCases

LEMMA StampIsSinceStep ==
  ~Preemptible /\ TypeOK /\ RunningOnce /\ QueuedIsRunnable /\ StampIsSince /\ [Next]_vars
    => StampIsSince'
<1> SUFFICES ASSUME ~Preemptible, TypeOK, RunningOnce, QueuedIsRunnable, StampIsSince, [Next]_vars,
                    NEW u \in Tasks, place'[u] = "queued", observed'[u], Passes(target', Tgid[u]),
                    start'[u] # Absent
             PROVE  start'[u] = since'[u]
  BY DEF StampIsSince
<1>0. u \in Pids
  BY DEF Pids
<1>1. ASSUME NEW t \in Tasks, SchedWakeupNew(t) \/ SchedWakeup(t) PROVE start'[u] = since'[u]
  <2>1. CASE u # t
    BY <1>0, <1>1, <2>1, WakeupFacts DEF StampIsSince
  <2>2. CASE u = t
    <3>1. place[t] # "queued" \/ runnable[t]
      BY DEF QueuedIsRunnable
    <3> QED BY <1>1, <2>2, <3>1, WakeupFacts
  <2> QED BY <2>1, <2>2
<1>2. ASSUME NEW c \in CPUs, NEW next \in Pids, NEW fate \in Fates(running[c]),
             EnterSwitch(c, next, fate)
      PROVE start'[u] = since'[u]
  <2>1. u # next
    BY <1>2, EnterFacts
  <2>2. CASE u = running[c]
    <3>1. fate = "queued"
      BY <1>2, <2>2, EnterFacts
    <3>2. since'[u] = now /\ runnable[u]
      BY <1>2, <2>2, <3>1, EnterFacts
    <3>3. target' = target
      BY <1>2, EnterFacts
    <3> QED BY <1>2, <2>2, <3>1, <3>2, <3>3, EnterFacts
  <2>3. CASE u # running[c]
    BY <1>0, <1>2, <2>1, <2>3, EnterFacts DEF StampIsSince
  <2> QED BY <2>2, <2>3
<1>3. ASSUME NEW c \in CPUs, LeaveSwitch(c) PROVE start'[u] = since'[u]
  BY <1>0, <1>3, LeaveFacts DEF kernelVars, StampIsSince
<1>4. CASE (Tick /\ UNCHANGED bpfVars) \/ Consume
  BY <1>4 DEF Tick, bpfVars, Consume, kernelVars, StampIsSince
<1>5. ASSUME NEW c \in CPUs, ChangeState(c) PROVE start'[u] = since'[u]
  BY <1>5 DEF ChangeState, SetState, bpfVars, StampIsSince
<1>6. CASE Quiet
  <2>1. Passes(target, Tgid[u])
    BY <1>6 DEF Quiet, Passes
  <2> QED BY <1>6, <2>1 DEF Quiet, kernelVars, StampIsSince
<1> QED
  BY <1>1, <1>2, <1>3, <1>4, <1>5, <1>6, StepCases

LEMMA StampGivesWaitStep ==
  TypeOK /\ RunningOnce /\ SwitchOfRunning /\ StampIsSince /\ StampGivesWait /\ [Next]_vars
    => StampGivesWait'
<1> SUFFICES ASSUME TypeOK, RunningOnce, SwitchOfRunning, StampIsSince, StampGivesWait, [Next]_vars,
                    NEW c \in CPUs, switching'[c].active, switching'[c].whole,
                    Passes(switching'[c].filter, Tgid[switching'[c].next]),
                    start'[switching'[c].next] # Absent
             PROVE  switching'[c].ts - start'[switching'[c].next] = switching'[c].wait
  BY DEF StampGivesWait
<1>1. CASE switching'[c] = switching[c]
  <2>1. switching[c].next # Idle
    BY <1>1, TasksAssumption DEF SwitchOfRunning
  <2>2. start'[switching[c].next] = start[switching[c].next]
    BY <1>1, <2>1, NextStampKept
  <2> QED
    BY <1>1, <2>2 DEF StampGivesWait
<1>2. ASSUME NEW next \in Pids, NEW fate \in Fates(running[c]), EnterSwitch(c, next, fate)
      PROVE  switching'[c].ts - start'[switching'[c].next] = switching'[c].wait
  <2>1. /\ next \in Tasks /\ observed[next] /\ place[next] = "queued" /\ Passes(target, Tgid[next])
        /\ start'[next] = start[next] /\ start[next] # Absent
        /\ switching'[c].ts = now /\ switching'[c].wait = now - since[next]
        /\ switching'[c].next = next
    BY <1>2, EnterFacts
  <2>2. start[next] = since[next] /\ since[next] \in Nat /\ now \in Nat
    BY <2>1 DEF StampIsSince, TypeOK, KernelTypeOK
  <2> QED
    BY <2>1, <2>2
<1> QED
  BY <1>1, <1>2, SwitchingCases

LEMMA LatencyIsWaitStep ==
  TypeOK /\ StampGivesWait /\ LatencyIsWait /\ [Next]_vars => LatencyIsWait'
<1> SUFFICES ASSUME TypeOK, StampGivesWait, LatencyIsWait, [Next]_vars,
                    NEW i \in 1..Len(events'), events'[i].whole
             PROVE  events'[i].latency_ns = events'[i].wait
  BY DEF LatencyIsWait
<1>0. events \in Seq(EventType)
  BY DEF TypeOK
<1>1. CASE events' = events
  BY <1>1 DEF LatencyIsWait
<1>2. CASE events # << >> /\ events' = Tail(events)
  BY <1>0, <1>2, TailFacts DEF LatencyIsWait
<1>3. ASSUME NEW c \in CPUs, LeaveSwitch(c),
             Passes(switching[c].filter, Tgid[switching[c].next]),
             start[switching[c].next] # Absent,
             EventOf(c, switching[c]) \in EventType,
             events' = Append(events, EventOf(c, switching[c]))
      PROVE  events'[i].latency_ns = events'[i].wait
  <2>1. EventOf(c, switching[c]).whole
          => EventOf(c, switching[c]).latency_ns = EventOf(c, switching[c]).wait
    BY <1>3 DEF LeaveSwitch, EventOf, Latency, StampGivesWait
  <2>2. CASE i \in 1..Len(events)
    BY <1>0, <1>3, <2>2, AppendFacts DEF LatencyIsWait
  <2>3. CASE i = Len(events) + 1
    BY <1>0, <1>3, <2>1, <2>3, AppendFacts
  <2>4. i \in 1..Len(events) \/ i = Len(events) + 1
    BY <1>0, <1>3, AppendFacts
  <2> QED BY <2>2, <2>3, <2>4
<1> QED
  BY <1>1, <1>2, <1>3, RingCases

LEMMA WaitInvInit == Init => WaitInv
<1> SUFFICES ASSUME Init PROVE WaitInv
  OBVIOUS
<1>1. QueuedIsRunnable /\ StampIsSince
  BY DEF Init, KernelInit, QueuedIsRunnable, StampIsSince
<1>2. StampGivesWait
  BY DEF Init, StampGivesWait, NoSwitch
<1>3. LatencyIsWait
  BY DEF Init, LatencyIsWait
<1> QED
  BY <1>1, <1>2, <1>3 DEF WaitInv

LEMMA WaitInvStep == ~Preemptible /\ ClockInv /\ WaitInv /\ [Next]_vars => WaitInv'
  BY QueuedIsRunnableStep, StampIsSinceStep, StampGivesWaitStep, LatencyIsWaitStep
  DEF ClockInv, WaitInv

(* Every latency reported for a wait that began with the program for it     *)
(* attached, whichever others were missing, is the time the task waited,    *)
(* whatever the size of the map and the ring and whatever the filters, on a *)
(* kernel that does not preempt a task that has set its __state             *)
(* (sl.bpf.c:126-140, 163-169).                                             *)
THEOREM LatencyCorrect ==
  ASSUME ~Preemptible
  PROVE  Spec => []LatencyIsWait
<1>1. WaitInv => LatencyIsWait
  BY DEF WaitInv
<1> QED
  BY <1>1, ClockInvInit, ClockInvStep, WaitInvInit, WaitInvStep, PTL DEF Spec
-----------------------------------------------------------------------------
(* A handler in progress is later than the events of its CPU, and the stamp *)
(* of a task later than its events: an event uses up the stamp it is from.  *)
EventsBeforeSwitch ==
  \A c \in CPUs, i \in 1..Len(events) :
    switching[c].active /\ events[i].cpu_id = c => events[i].ts_ns <= switching[c].ts

EventsBeforeStamp ==
  \A i \in 1..Len(events) :
    start[events[i].pid] # Absent => events[i].ts_ns <= start[events[i].pid]

OrderInv == EventsBeforeSwitch /\ EventsBeforeStamp /\ EventsInOrder

-----------------------------------------------------------------------------
(* A stamp that is there after a step was there before, or is of now. *)
LEMMA StampCases ==
  ASSUME TypeOK, [Next]_vars, NEW p \in Pids
  PROVE  start'[p] \in {start[p], Absent, now}
<1>1. ASSUME NEW t \in Tasks, SchedWakeupNew(t) \/ SchedWakeup(t)
      PROVE  start'[p] \in {start[p], now}
  BY <1>1, WakeupFacts
<1>2. ASSUME NEW d \in CPUs, NEW next \in Pids, NEW fate \in Fates(running[d]),
             EnterSwitch(d, next, fate)
      PROVE  start'[p] \in {start[p], now}
  BY <1>2, EnterFacts
<1>3. ASSUME NEW d \in CPUs, LeaveSwitch(d) PROVE start'[p] \in {start[p], Absent}
  BY <1>3, LeaveFacts
<1>4. CASE (Tick /\ UNCHANGED bpfVars) \/ (\E d \in CPUs : ChangeState(d)) \/ Quiet \/ Consume
  BY <1>4 DEF ChangeState, bpfVars, Quiet, Consume
<1> QED
  BY <1>1, <1>2, <1>3, <1>4, StepCases

LEMMA EventsBeforeSwitchStep ==
  TypeOK /\ NothingFromTheFuture /\ EventsBeforeSwitch /\ [Next]_vars => EventsBeforeSwitch'
<1> SUFFICES ASSUME TypeOK, NothingFromTheFuture, EventsBeforeSwitch, [Next]_vars,
                    NEW c \in CPUs, NEW i \in 1..Len(events'),
                    switching'[c].active, events'[i].cpu_id = c
             PROVE  events'[i].ts_ns <= switching'[c].ts
  BY DEF EventsBeforeSwitch
<1>0. events \in Seq(EventType)
  BY DEF TypeOK
<1>1. CASE switching'[c] = switching[c]
  <2>1. CASE events' = events
    BY <1>1, <2>1 DEF EventsBeforeSwitch
  <2>2. CASE events # << >> /\ events' = Tail(events)
    BY <1>0, <1>1, <2>2, TailFacts DEF EventsBeforeSwitch
  <2>3. ASSUME NEW d \in CPUs, LeaveSwitch(d), EventOf(d, switching[d]) \in EventType,
               events' = Append(events, EventOf(d, switching[d]))
        PROVE  events'[i].ts_ns <= switching'[c].ts
    <3>1. d # c
      BY <2>3, LeaveFacts
    <3>2. EventOf(d, switching[d]).cpu_id = d
      BY DEF EventOf
    <3>3. i \in 1..Len(events) /\ events'[i] = events[i]
      BY <1>0, <2>3, <3>1, <3>2, AppendFacts
    <3> QED
      BY <1>1, <3>3 DEF EventsBeforeSwitch
  <2> QED
    BY <2>1, <2>2, <2>3, RingCases
<1>2. ASSUME NEW next \in Pids, NEW fate \in Fates(running[c]), EnterSwitch(c, next, fate)
      PROVE  events'[i].ts_ns <= switching'[c].ts
  BY <1>2, EnterFacts DEF NothingFromTheFuture
<1> QED
  BY <1>1, <1>2, SwitchingCases

LEMMA EventsBeforeStampStep ==
  TypeOK /\ NothingFromTheFuture /\ EventsBeforeStamp /\ [Next]_vars => EventsBeforeStamp'
<1> SUFFICES ASSUME TypeOK, NothingFromTheFuture, EventsBeforeStamp, [Next]_vars,
                    NEW i \in 1..Len(events'), start'[events'[i].pid] # Absent
             PROVE  events'[i].ts_ns <= start'[events'[i].pid]
  BY DEF EventsBeforeStamp
<1>0. events \in Seq(EventType)
  BY DEF TypeOK
<1>1. ASSUME NEW j \in 1..Len(events), events'[i] = events[j]
      PROVE  events'[i].ts_ns <= start'[events'[i].pid]
  <2>1. events[j].pid \in Pids
    BY EventFacts DEF Pids
  <2>2. events[j].ts_ns <= now /\ (start[events[j].pid] # Absent => events[j].ts_ns <= start[events[j].pid])
    BY DEF NothingFromTheFuture, EventsBeforeStamp
  <2> QED
    BY <1>1, <2>1, <2>2, StampCases
<1>2. CASE events' = events
  BY <1>1, <1>2
<1>3. CASE events # << >> /\ events' = Tail(events)
  BY <1>0, <1>1, <1>3, TailFacts
<1>4. ASSUME NEW c \in CPUs, LeaveSwitch(c), EventOf(c, switching[c]) \in EventType,
             events' = Append(events, EventOf(c, switching[c]))
      PROVE  events'[i].ts_ns <= start'[events'[i].pid]
  <2>1. CASE i \in 1..Len(events)
    BY <1>0, <1>1, <1>4, <2>1, AppendFacts
  <2>2. CASE i = Len(events) + 1
    <3>1. events'[i].pid = switching[c].next
      BY <1>0, <1>4, <2>2, AppendFacts DEF EventOf
    <3>2. events' # events
      BY <1>0, <1>4, AppendFacts
    <3>3. start'[switching[c].next] = Absent
      BY <1>4, <3>2, LeaveFacts
    <3> QED
      BY <3>1, <3>3
  <2> QED
    BY <1>0, <1>4, <2>1, <2>2, AppendFacts
<1> QED
  BY <1>2, <1>3, <1>4, RingCases

LEMMA EventsInOrderStep ==
  TypeOK /\ OrderInv /\ [Next]_vars => EventsInOrder'
<1> DEFINE Before(e, f) ==
             /\ e.cpu_id = f.cpu_id => e.ts_ns <= f.ts_ns
             /\ e.pid = f.pid => e.ts_ns <= f.ts_ns - f.latency_ns
<1> SUFFICES ASSUME TypeOK, OrderInv, [Next]_vars,
                    NEW i \in 1..Len(events'), NEW j \in 1..Len(events'), i < j
             PROVE  Before(events'[i], events'[j])
  BY DEF EventsInOrder
<1>0. events \in Seq(EventType)
  BY DEF TypeOK
<1>1. \A k, l \in 1..Len(events) : k < l => Before(events[k], events[l])
  BY DEF OrderInv, EventsInOrder
<1>2. CASE events' = events
  BY <1>1, <1>2
<1>3. CASE events # << >> /\ events' = Tail(events)
  <2>1. /\ i + 1 \in 1..Len(events) /\ events'[i] = events[i + 1]
        /\ j + 1 \in 1..Len(events) /\ events'[j] = events[j + 1]
    BY <1>0, <1>3, TailFacts
  <2> HIDE DEF Before
  <2> QED
    BY <1>1, <2>1
<1>4. ASSUME NEW c \in CPUs, LeaveSwitch(c), switching[c].next \in Tasks,
             start[switching[c].next] # Absent,
             EventOf(c, switching[c]) \in EventType,
             events' = Append(events, EventOf(c, switching[c]))
      PROVE  Before(events'[i], events'[j])
  <2>0. Len(events) \in Nat /\ Len(events') = Len(events) + 1
    BY <1>0, <1>4, AppendFacts
  <2>1. i \in 1..Len(events) /\ events'[i] = events[i]
    BY <1>0, <1>4, <2>0, AppendFacts
  <2>2. CASE j \in 1..Len(events)
    <3>1. events'[j] = events[j]
      BY <1>0, <1>4, <2>2, AppendFacts
    <3> HIDE DEF Before
    <3> QED
      BY <1>1, <2>1, <2>2, <3>1
  <2>3. CASE j = Len(events) + 1
    <3>1. events'[j] = EventOf(c, switching[c])
      BY <1>0, <1>4, <2>3, AppendFacts
    <3>2. events[i].cpu_id = c => events[i].ts_ns <= switching[c].ts
      BY <1>4, <2>1 DEF OrderInv, EventsBeforeSwitch, LeaveSwitch
    <3>3. events[i].pid = switching[c].next => events[i].ts_ns <= start[switching[c].next]
      BY <1>4, <2>1 DEF OrderInv, EventsBeforeStamp
    <3>4. switching[c].ts \in Nat /\ start[switching[c].next] \in Nat
      BY <1>4, ActiveSwitch DEF LeaveSwitch, SwitchType, TypeOK, Pids
    <3> QED
      BY <2>1, <3>1, <3>2, <3>3, <3>4 DEF EventOf, Latency
  <2> QED
    BY <2>0, <2>2, <2>3
<1> HIDE DEF Before
<1> QED
  BY <1>2, <1>3, <1>4, RingCases

LEMMA OrderInvInit == Init => OrderInv
  BY DEF Init, OrderInv, EventsBeforeSwitch, EventsBeforeStamp, EventsInOrder

LEMMA OrderInvStep == ClockInv /\ OrderInv /\ [Next]_vars => OrderInv'
  BY EventsBeforeSwitchStep, EventsBeforeStampStep, EventsInOrderStep DEF ClockInv, OrderInv

(* The events in the ring report disjoint waits of a task, in order, and    *)
(* those of a CPU in the order of its switches, on any kernel and with any  *)
(* filters, sizes and lost stamps (sl.bpf.c:163-189).                       *)
THEOREM AlwaysInOrder == Spec => []EventsInOrder
<1>1. OrderInv => EventsInOrder
  BY DEF OrderInv
<1> QED
  BY <1>1, ClockInvInit, ClockInvStep, OrderInvInit, OrderInvStep, PTL DEF Spec

-----------------------------------------------------------------------------
(* With an entry for every pid, no update of the map start fails. *)
LEMMA AlwaysRoom ==
  ASSUME TypeOK, StartEntries >= Cardinality(Pids), NEW p \in Pids
  PROVE  HasRoom(p)
<1>1. IsFiniteSet(Pids) /\ Cardinality(Pids) \in Nat
  BY TasksAssumption, FS_AddElement, FS_CardinalityType DEF Pids
<1>2. CASE start[p] = Absent
  <2>1. Entries \subseteq Pids \ {p}
    BY <1>2 DEF Entries
  <2>2. /\ IsFiniteSet(Pids \ {p})
        /\ Cardinality(Pids \ {p}) = Cardinality(Pids) - 1
    BY <1>1, FS_RemoveElement
  <2>3. Cardinality(Entries) <= Cardinality(Pids \ {p}) /\ IsFiniteSet(Entries)
    BY <2>1, <2>2, FS_Subset
  <2>4. Cardinality(Entries) \in Nat
    BY <2>3, FS_CardinalityType
  <2> QED
    BY <1>1, <2>2, <2>3, <2>4, MapsAssumption DEF HasRoom
<1> QED
  BY <1>2 DEF HasRoom

LEMMA StampTaken ==
  ASSUME TypeOK, StartEntries >= Cardinality(Pids), NEW t \in Tasks, NEW f,
         Passes(f, Tgid[t])
  PROVE  Stamp(t, f)[t] = now
<1>1. t \in Pids /\ TgidOf(t) = Tgid[t] /\ HasRoom(t)
  BY AlwaysRoom, TasksAssumption DEF Pids, TgidOf
<1> QED
  BY <1>1 DEF Stamp, TypeOK

LEMMA WaitRecordedStep ==
  ~Preemptible /\ ClockInv /\ QueuedIsRunnable /\ WaitRecorded /\ [Next]_vars => WaitRecorded'
<1> SUFFICES ASSUME ~Preemptible, ClockInv, QueuedIsRunnable, WaitRecorded, [Next]_vars,
                    StartEntries >= Cardinality(Pids),
                    NEW u \in Tasks, place'[u] = "queued", observed'[u], Passes(target', Tgid[u])
             PROVE  start'[u] = since'[u]
  BY DEF WaitRecorded
<1>0. TypeOK /\ u \in Pids
  BY DEF ClockInv, Pids
<1>1. place[u] = "queued" /\ observed[u] /\ Passes(target, Tgid[u]) => start[u] = since[u]
  BY DEF WaitRecorded
<1>2. ASSUME NEW t \in Tasks, SchedWakeupNew(t) \/ SchedWakeup(t) PROVE start'[u] = since'[u]
  <2>1. CASE u # t
    BY <1>0, <1>1, <1>2, <2>1, WakeupFacts
  <2>2. CASE u = t
    <3>1. place[t] # "queued" \/ runnable[t]
      BY DEF QueuedIsRunnable
    <3>2. since'[t] = now /\ place[t] # "queued" /\ Passes(target, Tgid[t])
      BY <1>0, <1>2, <2>2, <3>1, WakeupFacts
    <3>3. start' = Stamp(t, target)
      BY <1>0, <1>2, <2>2, <3>2, WakeupFacts
    <3> QED
      BY <1>0, <2>2, <3>2, <3>3, StampTaken
  <2> QED
    BY <2>1, <2>2
<1>3. ASSUME NEW c \in CPUs, NEW next \in Pids, NEW fate \in Fates(running[c]),
             EnterSwitch(c, next, fate)
      PROVE start'[u] = since'[u]
  <2>1. u # next
    BY <1>0, <1>3, EnterFacts
  <2>2. CASE u = running[c]
    <3>1. fate = "queued"
      BY <1>0, <1>3, <2>2, EnterFacts
    <3>2. since'[u] = now /\ runnable[u] /\ Passes(target, Tgid[u])
      BY <1>0, <1>3, <2>2, <3>1, EnterFacts
    <3>3. start' = Stamp(u, target)
      BY <1>0, <1>3, <2>2, <3>1, <3>2, EnterFacts
    <3> QED
      BY <1>0, <3>2, <3>3, StampTaken
  <2>3. CASE u # running[c]
    BY <1>0, <1>1, <1>3, <2>1, <2>3, EnterFacts
  <2> QED
    BY <2>2, <2>3
<1>4. ASSUME NEW c \in CPUs, LeaveSwitch(c) PROVE start'[u] = since'[u]
  <2>1. u # switching[c].next
    <3>1. running[c] = switching[c].next
      BY <1>4 DEF LeaveSwitch, ClockInv, SwitchOfRunning
    <3>2. place[u] = "queued"
      BY <1>4 DEF LeaveSwitch, kernelVars
    <3> QED
      BY <3>1, <3>2 DEF ClockInv, RunningOnce
  <2> QED
    BY <1>0, <1>1, <1>4, <2>1, LeaveFacts DEF kernelVars
<1>5. CASE (Tick /\ UNCHANGED bpfVars) \/ Consume
  BY <1>1, <1>5 DEF Tick, bpfVars, Consume, kernelVars
<1>6. ASSUME NEW c \in CPUs, ChangeState(c) PROVE start'[u] = since'[u]
  BY <1>1, <1>6 DEF ChangeState, SetState, bpfVars
<1>7. CASE Quiet
  <2>1. Passes(target, Tgid[u])
    BY <1>7 DEF Quiet, Passes
  <2> QED
    BY <1>1, <1>7, <2>1 DEF Quiet, kernelVars
<1> QED
  BY <1>0, <1>2, <1>3, <1>4, <1>5, <1>6, <1>7, StepCases

LEMMA RecordedInit == Init => WaitRecorded
  BY DEF Init, KernelInit, WaitRecorded

(* A wait that began after the last program was attached has its stamp, the *)
(* right one, as long as it lasts, if the map has an entry for every pid    *)
(* and the kernel does not preempt tasks that have set their __state        *)
(* (sl.bpf.c:87-90, 109-112, 131-140).                                      *)
THEOREM AlwaysRecorded ==
  ASSUME ~Preemptible
  PROVE  Spec => []WaitRecorded
  BY ClockInvInit, ClockInvStep, WaitInvInit, WaitInvStep, RecordedInit, WaitRecordedStep,
     PTL DEF Spec, WaitInv

-----------------------------------------------------------------------------
(* The stamp of a recorded wait is still there in the second half of the    *)
(* switch that ends the wait.                                               *)
StampWaits ==
  StartEntries >= Cardinality(Pids) =>
    \A c \in CPUs :
      switching[c].active /\ switching[c].whole
        /\ Passes(switching[c].filter, Tgid[switching[c].next])
      => start[switching[c].next] # Absent

LEMMA StampWaitsStep ==
  ClockInv /\ WaitRecorded /\ StampWaits /\ [Next]_vars => StampWaits'
<1> SUFFICES ASSUME ClockInv, WaitRecorded, StampWaits, [Next]_vars,
                    StartEntries >= Cardinality(Pids), NEW c \in CPUs,
                    switching'[c].active, switching'[c].whole,
                    Passes(switching'[c].filter, Tgid[switching'[c].next])
             PROVE  start'[switching'[c].next] # Absent
  BY DEF StampWaits
<1>0. TypeOK /\ RunningOnce /\ SwitchOfRunning
  BY DEF ClockInv
<1>1. CASE switching'[c] = switching[c]
  <2> DEFINE n == switching[c].next
  <2>1. n \in Tasks /\ n \in Pids /\ n # Idle /\ running[c] = n
    BY <1>0, <1>1, TasksAssumption DEF SwitchOfRunning, Pids
  <2>2. start[n] # Absent
    BY <1>1 DEF StampWaits
  <2>3. ASSUME NEW d \in CPUs, LeaveSwitch(d) PROVE start'[n] = start[n]
    <3>1. d # c
      BY <1>0, <1>1, <2>3, LeaveFacts
    <3>2. switching[d].next # n
      BY <1>0, <2>1, <2>3, <3>1 DEF LeaveSwitch, SwitchOfRunning, RunningOnce
    <3> QED
      BY <1>0, <2>1, <2>3, <3>2, LeaveFacts
  <2>4. now \in Nat
    BY <1>0 DEF TypeOK, KernelTypeOK
  <2>5. CASE \E d \in CPUs : LeaveSwitch(d)
    BY <1>1, <2>2, <2>3, <2>5
  <2>6. CASE \E t \in Tasks : SchedWakeupNew(t) \/ SchedWakeup(t)
    <3>1. start'[n] \in {start[n], now}
      BY <1>0, <2>1, <2>6, WakeupFacts
    <3> QED
      BY <1>1, <2>2, <2>4, <3>1 DEF Absent
  <2>7. CASE \E d \in CPUs, next \in Pids : \E fate \in Fates(running[d]) : EnterSwitch(d, next, fate)
    <3>1. start'[n] \in {start[n], now}
      BY <1>0, <2>1, <2>7, EnterFacts
    <3> QED
      BY <1>1, <2>2, <2>4, <3>1 DEF Absent
  <2>8. CASE (Tick /\ UNCHANGED bpfVars) \/ (\E d \in CPUs : ChangeState(d)) \/ Quiet \/ Consume
    BY <1>1, <2>2, <2>8 DEF ChangeState, bpfVars, Quiet, Consume
  <2> QED
    BY <1>0, <2>5, <2>6, <2>7, <2>8, StepCases
<1>2. ASSUME NEW next \in Pids, NEW fate \in Fates(running[c]), EnterSwitch(c, next, fate)
      PROVE  start'[switching'[c].next] # Absent
  <2>1. /\ next \in Tasks /\ observed[next] /\ place[next] = "queued" /\ Passes(target, Tgid[next])
        /\ start'[next] = start[next] /\ switching'[c].next = next
    BY <1>0, <1>2, EnterFacts DEF Pids
  <2>2. start[next] = since[next] /\ since[next] \in Nat
    BY <1>0, <2>1 DEF WaitRecorded, TypeOK, KernelTypeOK
  <2> QED
    BY <2>1, <2>2 DEF Absent
<1> QED
  BY <1>0, <1>1, <1>2, SwitchingCases

LEMMA StampWaitsInit == Init => StampWaits
  BY DEF Init, StampWaits, NoSwitch

(* What the switch that ends a recorded wait does, if all events are asked  *)
(* for and the ring has a slot.                                             *)
LEMMA Emits ==
  ASSUME ClockInv, StampWaits, NEW c \in CPUs, LeaveSwitch(c),
         switching[c].whole, switching[c].traced,
         Passes(switching[c].filter, Tgid[switching[c].next]),
         config.include_kernel_threads = 1, config.min_latency_ns = 0, config.sample_rate = 1,
         StartEntries >= Cardinality(Pids), Len(events) < RingSlots
  PROVE  Len(events') = Len(events) + 1
<1> DEFINE s == switching[c]
<1>1. s.active /\ s.next \in Tasks /\ s.next # Idle
  BY TasksAssumption DEF LeaveSwitch, ClockInv, SwitchOfRunning
<1>2. start[s.next] # Absent
  BY <1>1 DEF StampWaits
<1>3. ~Ignored(s)
  BY <1>1, <1>2 DEF Ignored
<1>4. ~TooShort(s) /\ ~SkippedBySampling(c) /\ HasSlot
  BY DEF TooShort, SkippedBySampling, Sampling, HasSlot
<1>5. events' = Append(events, EventOf(c, s))
  BY <1>3, <1>4 DEF LeaveSwitch
<1>6. EventOf(c, s) \in EventType
  <2>1. s \in SwitchType /\ TypeOK
    BY <1>1, ActiveSwitch DEF ClockInv
  <2> QED
    BY <1>1, <1>2, <2>1, TasksAssumption
    DEF EventOf, EventType, SwitchType, Latency, TypeOK, Pids, Absent
<1> QED
  BY <1>5, <1>6, AppendFacts DEF ClockInv, TypeOK

LEMMA NotMissedStep ==
  ASSUME ClockInv, StampWaits, [Next]_vars, NEW c \in CPUs,
         switching[c].active, ~switching'[c].active
  PROVE  LeaveSwitch(c)
<1>0. TypeOK
  BY DEF ClockInv
<1>1. ASSUME NEW t \in Tasks, SchedWakeupNew(t) \/ SchedWakeup(t) PROVE FALSE
  BY <1>0, <1>1, WakeupFacts
<1>2. ASSUME NEW d \in CPUs, NEW next \in Pids, NEW fate \in Fates(running[d]),
             EnterSwitch(d, next, fate)
      PROVE  FALSE
  BY <1>0, <1>2, EnterFacts
<1>3. ASSUME NEW d \in CPUs, LeaveSwitch(d) PROVE LeaveSwitch(c)
  BY <1>0, <1>3, LeaveFacts
<1>4. CASE (Tick /\ UNCHANGED bpfVars) \/ (\E d \in CPUs : ChangeState(d)) \/ Quiet \/ Consume
  BY <1>4 DEF ChangeState, bpfVars, Quiet, Consume
<1> QED
  BY <1>0, <1>1, <1>2, <1>3, <1>4, StepCases

(* No wait is missed but for a reason that the code gives: a filter, the    *)
(* sampling, the minimum, a full map or a full ring (sl.bpf.c:144-189).     *)
THEOREM NoneMissed ==
  ASSUME ~Preemptible
  PROVE  Spec => NoWaitMissed
<1> DEFINE Reports(c) ==
      LET s == switching[c] IN
      /\ s.active /\ ~switching'[c].active
      /\ s.whole /\ s.traced /\ Passes(s.filter, Tgid[s.next]) /\ Passes(target, Tgid[s.next])
      /\ config.include_kernel_threads = 1
      /\ config.min_latency_ns = 0 /\ config.sample_rate = 1
      /\ StartEntries >= Cardinality(Pids) /\ Len(events) < RingSlots
      => Len(events') = Len(events) + 1
<1>1. ClockInv /\ StampWaits /\ [Next]_vars => [\A c \in CPUs : Reports(c)]_vars
  BY NotMissedStep, Emits
<1>2. Spec => [][\A c \in CPUs : Reports(c)]_vars
  <2> HIDE DEF Reports
  <2> QED
    BY <1>1, ClockInvInit, ClockInvStep, WaitInvInit, WaitInvStep, RecordedInit,
       WaitRecordedStep, StampWaitsInit, StampWaitsStep, PTL DEF Spec, WaitInv
<1> QED
  BY <1>2 DEF NoWaitMissed

-----------------------------------------------------------------------------
(* The refinement of WaitReports: its ended, as a function of switching. *)
WaitsEnded(sw) ==
  [c \in CPUs |->
    LET s == sw[c] IN
    IF s.active /\ s.next # Idle THEN [pid |-> s.next, began |-> s.ts - s.wait, at |-> s.ts]
    ELSE [pid |-> Idle]]

LEMMA EndedFacts ==
  ASSUME NEW sw, NEW c \in CPUs
  PROVE  /\ sw[c].active /\ sw[c].next # Idle =>
              /\ WaitsEnded(sw)[c] = [pid |-> sw[c].next, began |-> sw[c].ts - sw[c].wait, at |-> sw[c].ts]
              /\ WaitsEnded(sw)[c] # [pid |-> Idle]
         /\ ~(sw[c].active /\ sw[c].next # Idle) => WaitsEnded(sw)[c] = [pid |-> Idle]
<1> DEFINE r == [pid |-> sw[c].next, began |-> sw[c].ts - sw[c].wait, at |-> sw[c].ts]
<1>1. r.pid = sw[c].next /\ [pid |-> Idle].pid = Idle
  OBVIOUS
<1>2. WaitsEnded(sw)[c] = IF sw[c].active /\ sw[c].next # Idle THEN r ELSE [pid |-> Idle]
  BY DEF WaitsEnded
<1> HIDE DEF r
<1>3. sw[c].next # Idle => r # [pid |-> Idle]
  BY <1>1
<1> QED
  BY <1>2, <1>3 DEF r

LEMMA ImplementsInit == Init => WaitReport!Init
<1> SUFFICES ASSUME Init PROVE WaitReport!Init
  OBVIOUS
<1>1. WaitReport!KernelInit /\ events = << >>
  BY DEF Init, KernelInit, WaitReport!KernelInit
<1>2. WaitsEnded(switching) = [c \in CPUs |-> [pid |-> Idle]]
  BY DEF Init, WaitsEnded, NoSwitch
<1> QED
  BY <1>1, <1>2 DEF WaitReport!Init, WaitReport!NoWait, WaitsEnded

(* What is only the kernel's is a step of the kernel there, too. *)
LEMMA ImplementsKernel ==
  ASSUME TypeOK, [Next]_vars,
         \/ Tick /\ UNCHANGED bpfVars
         \/ \E t \in Tasks : SchedWakeupNew(t) \/ SchedWakeup(t)
         \/ \E c \in CPUs : ChangeState(c)
  PROVE  WaitReport!KernelOnly
<1>1. UNCHANGED <<switching, events>>
  BY DEF bpfVars, SchedWakeupNew, SchedWakeup, WakeupHandler, ChangeState
<1>2. UNCHANGED WaitReport!reportVars
  BY <1>1 DEF WaitReport!reportVars
<1>3. CASE Tick /\ UNCHANGED bpfVars
  BY <1>2, <1>3 DEF WaitReport!KernelOnly, Tick, WaitReport!Tick
<1>4. CASE \E t \in Tasks : SchedWakeupNew(t) \/ SchedWakeup(t)
  <2>1. \E t \in Tasks : Create(t) \/ Awaken(t) \/ AwakenEarly(t)
    BY <1>4 DEF SchedWakeupNew, SchedWakeup
  <2>2. \E t \in Tasks : WaitReport!Create(t) \/ WaitReport!Awaken(t) \/ WaitReport!AwakenEarly(t)
    BY <2>1 DEF Create, Awaken, AwakenEarly, WaitReport!Create, WaitReport!Awaken,
                WaitReport!AwakenEarly
  <2> QED
    BY <1>2, <2>2 DEF WaitReport!KernelOnly
<1>5. CASE \E c \in CPUs : ChangeState(c)
  <2>1. \E c \in CPUs : WaitReport!SetState(c)
    BY <1>5 DEF ChangeState, SetState, WaitReport!SetState
  <2> QED
    BY <1>2, <2>1 DEF WaitReport!KernelOnly
<1> QED
  BY <1>3, <1>4, <1>5

(* The first half of sched_switch ends a wait. *)
LEMMA ImplementsEnter ==
  ASSUME TypeOK, NEW c \in CPUs, NEW next \in Pids, NEW fate \in Fates(running[c]),
         EnterSwitch(c, next, fate)
  PROVE  WaitReport!EndWait(c)
<1>1. ~switching[c].active /\ UNCHANGED events
  BY EnterFacts
<1>2. WaitsEnded(switching)[c] = [pid |-> Idle]
  BY <1>1, EndedFacts
<1>3. WaitReport!Switch(c, next, fate) /\ fate \in WaitReport!Fates(running[c])
      /\ next \in WaitReport!Pids
  BY DEF EnterSwitch, Switch, WaitReport!Switch, Fates, WaitReport!Fates, Pids, WaitReport!Pids
<1> DEFINE w == IF next = Idle THEN [pid |-> Idle]
                ELSE [pid |-> next, began |-> since[next], at |-> now]
<1>4. WaitsEnded(switching') = [WaitsEnded(switching) EXCEPT ![c] = w]
  <2>1. \A d \in CPUs : d # c => WaitsEnded(switching')[d] = WaitsEnded(switching)[d]
    BY EnterFacts DEF WaitsEnded
  <2>2. WaitsEnded(switching')[c] = w
    <3>1. switching'[c].active /\ switching'[c].next = next /\ switching'[c].ts = now
      BY EnterFacts
    <3>2. CASE next = Idle
      BY <3>1, <3>2, EndedFacts
    <3>3. CASE next # Idle
      <4>1. switching'[c].wait = now - since[next] /\ now \in Nat /\ since[next] \in Nat
        BY <3>3, EnterFacts DEF TypeOK, KernelTypeOK, Pids
      <4>2. now - (now - since[next]) = since[next]
        BY <4>1
      <4>3. WaitsEnded(switching')[c] = [pid |-> switching'[c].next,
               began |-> switching'[c].ts - switching'[c].wait, at |-> switching'[c].ts]
        <5>1. switching'[c].active /\ switching'[c].next # Idle
          BY <3>1, <3>3
        <5> QED
          BY <5>1, EndedFacts
      <4>4. switching'[c].ts - switching'[c].wait = since[next]
        BY <3>1, <4>1, <4>2
      <4> QED
        BY <3>1, <3>3, <4>3, <4>4
    <3> QED
      BY <3>2, <3>3
  <2> HIDE DEF w
  <2> QED
    BY <2>1, <2>2 DEF WaitsEnded
<1> QED
  BY <1>1, <1>2, <1>3, <1>4
  DEF WaitReport!EndWait, WaitReport!NoWait, WaitsEnded

LEMMA AppendIsExtension ==
  ASSUME NEW S, NEW s \in Seq(S), NEW e \in S
  PROVE  s = SubSeq(Append(s, e), 1, Len(s))
  OBVIOUS

(* The second half reports the wait, or drops it; a switch to idle ended    *)
(* none.                                                                    *)
LEMMA ImplementsLeave ==
  ASSUME ClockInv, StampGivesWait, NEW c \in CPUs, LeaveSwitch(c)
  PROVE  WaitReport!Report(c) \/ UNCHANGED WaitReport!vars
<1> DEFINE s == switching[c]
           e == EventOf(c, s)
<1>0. TypeOK /\ s \in SwitchType /\ s.active /\ ~switching'[c].active
  BY LeaveFacts DEF ClockInv, LeaveSwitch
<1>1. UNCHANGED <<now, place, runnable, since, running>>
  BY DEF LeaveSwitch, kernelVars
<1>2. \A d \in CPUs : d # c => switching'[d] = switching[d]
  BY <1>0, LeaveFacts
<1>3. WaitsEnded(switching') = [WaitsEnded(switching) EXCEPT ![c] = [pid |-> Idle]]
  <2>1. WaitsEnded(switching')[c] = [pid |-> Idle]
    BY <1>0, EndedFacts
  <2>2. \A d \in CPUs : d # c => WaitsEnded(switching')[d] = WaitsEnded(switching)[d]
    BY <1>2 DEF WaitsEnded
  <2> QED
    BY <2>1, <2>2 DEF WaitsEnded
<1>4. CASE s.next = Idle
  <2>1. WaitsEnded(switching)[c] = [pid |-> Idle]
    BY <1>4, EndedFacts
  <2>2. WaitsEnded(switching') = WaitsEnded(switching)
    BY <1>3, <2>1 DEF WaitsEnded
  <2>3. events' = events
    BY <1>0, <1>4, LeaveFacts, TasksAssumption
  <2> QED
    BY <1>1, <2>2, <2>3
    DEF WaitsEnded, WaitReport!vars, WaitReport!kernelVars, WaitReport!reportVars
<1>5. CASE s.next # Idle
  <2>1. /\ WaitsEnded(switching)[c] = [pid |-> s.next, began |-> s.ts - s.wait, at |-> s.ts]
        /\ WaitsEnded(switching)[c] # [pid |-> Idle]
    BY <1>0, <1>5, EndedFacts
  <2>2. CASE events' # events
    <3>1. /\ s.next \in Tasks /\ Passes(s.filter, Tgid[s.next]) /\ start[s.next] # Absent
          /\ e \in EventType /\ events' = Append(events, e)
      BY <1>0, <2>2, LeaveFacts
    <3>2. events \in Seq(EventType)
      BY <1>0 DEF TypeOK
    <3>3. Len(events') = Len(events) + 1 /\ events'[Len(events')] = e
      BY <3>1, <3>2, AppendFacts
    <3>4. events = SubSeq(events', 1, Len(events))
      BY <3>1, <3>2, AppendIsExtension
    <3>5. s.ts \in Nat /\ s.wait \in Int /\ start[s.next] \in Nat /\ start[s.next] <= s.ts
      BY <1>0, <1>5, <3>1 DEF SwitchType, TypeOK, Pids, ClockInv, StampBeforeSwitch
    <3>6. e.latency_ns \in 0..e.ts_ns
      BY <3>5 DEF EventOf, Latency
    <3>7. e.whole => e.latency_ns = s.ts - (s.ts - s.wait)
      BY <1>0, <3>1, <3>5 DEF EventOf, Latency, StampGivesWait
    <3>8. e.pid = s.next /\ e.cpu_id = c /\ e.ts_ns = s.ts
      BY DEF EventOf
    <3> DEFINE w == WaitsEnded(switching)[c]
    <3>9. w.pid = s.next /\ w.at = s.ts /\ w.began = s.ts - s.wait
      BY <2>1
    <3> HIDE DEF e, s, w
    <3>10. /\ e.pid = w.pid /\ e.cpu_id = c /\ e.ts_ns = w.at
           /\ IF e.whole THEN e.latency_ns = w.at - w.began ELSE e.latency_ns \in 0..e.ts_ns
      BY <3>6, <3>7, <3>8, <3>9
    <3>11. WaitReport!Reported(c, events'[Len(events')])
      BY <3>3, <3>10 DEF WaitReport!Reported, w, WaitsEnded
    <3> QED
      BY <1>1, <1>3, <2>1, <3>3, <3>4, <3>11
      DEF WaitReport!Report, WaitReport!NoWait, WaitReport!kernelVars, WaitsEnded
  <2>3. CASE events' = events
    BY <1>1, <1>3, <2>1, <2>3
    DEF WaitReport!Report, WaitReport!NoWait, WaitReport!kernelVars, WaitsEnded
  <2> QED
    BY <2>2, <2>3
<1> QED
  BY <1>4, <1>5

LEMMA ImplementsStep ==
  ClockInv /\ StampGivesWait /\ [Next]_vars => [WaitReport!Next]_(WaitReport!vars)
<1> SUFFICES ASSUME ClockInv, StampGivesWait, [Next]_vars
             PROVE  WaitReport!Next \/ UNCHANGED WaitReport!vars
  OBVIOUS
<1>0. TypeOK
  BY DEF ClockInv
<1>1. CASE \/ Tick /\ UNCHANGED bpfVars
           \/ \E t \in Tasks : SchedWakeupNew(t) \/ SchedWakeup(t)
           \/ \E c \in CPUs : ChangeState(c)
  BY <1>0, <1>1, ImplementsKernel DEF WaitReport!Next
<1>2. CASE \E c \in CPUs : LeaveSwitch(c)
  BY <1>2, ImplementsLeave DEF WaitReport!Next
<1>3. CASE \E c \in CPUs, next \in Pids : \E fate \in Fates(running[c]) : EnterSwitch(c, next, fate)
  BY <1>0, <1>3, ImplementsEnter DEF WaitReport!Next
<1>4. CASE Quiet
  BY <1>4 DEF Quiet, kernelVars, WaitReport!vars, WaitReport!kernelVars, WaitReport!reportVars
<1>5. CASE Consume
  <2>1. WaitReport!Read
    BY <1>5 DEF Consume, kernelVars, WaitReport!Read, WaitReport!kernelVars
  <2> QED
    BY <2>1 DEF WaitReport!Next
<1> QED
  BY <1>0, <1>1, <1>2, <1>3, <1>4, <1>5, StepCases

(* The programs implement the abstract tracer: every event reports a wait   *)
(* that ended on its CPU, once, with its true length if the programs saw    *)
(* all of it (sl.bpf.c:114-192), for any sizes, filters and interleavings.  *)
THEOREM Implements ==
  ASSUME ~Preemptible
  PROVE  Spec => ReportsWaits
<1>1. Spec => WaitReport!Spec
  BY ClockInvInit, ClockInvStep, WaitInvInit, WaitInvStep, ImplementsInit, ImplementsStep,
     PTL DEF Spec, WaitInv, WaitReport!Spec
<1> QED
  BY <1>1 DEF ReportsWaits

-----------------------------------------------------------------------------
(* SingleRun: slu sees all of its workload, and what it measures and what   *)
(* perf measures are the same waits.                                        *)
(*                                                                          *)
(* Every step of slu is one that SlBpf allows, so that the invariants above *)
(* hold here, too.  The rest of the argument: the workload's threads come   *)
(* after the programs, and its name after its main thread; and the entry a  *)
(* queued thread has in wait_queue is of the time its wait began, unless it *)
(* has just been created.                                                   *)

(* The programs are attached one by one, and the workload comes after the   *)
(* last of them and before the configuration of its target.                 *)
InSequence ==
  /\ prog \in 0..3
  /\ attached = {h \in Hooks : Position[h] <= prog}
  /\ pc \in {"open", "attach"} => child = NotYet
  /\ pc = "target" => child \in {Workload, ForkFails}

WorkloadAfterPrograms ==
  \A t \in Group : place[t] # "none" => child = Workload /\ prog = 3

TargetIsWorkload == child # ForkFails => target \in {0, Tgid[Workload]}

(* Before the workload is executed, it has one thread. *)
ThreadsAfterExec == ~execed => \A t \in Group \ {Workload} : place[t] = "none"

(* The programs see every wait of the workload. *)
GroupObserved == \A t \in Group : place[t] = "queued" => observed[t]

GroupWhole ==
  \A c \in CPUs :
    LET s == switching[c] IN
    s.active /\ s.next \in Group => s.whole /\ s.traced /\ Passes(s.filter, Tgid[s.next])

EventsWhole == \A i \in 1..Len(events) : events[i].pid \in Group => events[i].whole

ProgramsInv ==
  /\ InSequence
  /\ WorkloadAfterPrograms
  /\ TargetIsWorkload
  /\ ThreadsAfterExec
  /\ GroupObserved
  /\ GroupWhole
  /\ EventsWhole

(* perf: which tasks have an entry, and when it is of. *)
PerfTypeOK ==
  /\ wait_queue \in [Pids -> Int]
  /\ latest \in [CPUs -> [pid : Group, latency : Int] \cup {NoLatency}]
  /\ execed \in BOOLEAN
  /\ fresh \subseteq Tasks

OnlyNamedWait == \A p \in Pids : wait_queue[p] # NotWaiting => p \in Named

NamedWait ==
  \A t \in Named \ fresh :
    place[t] = "queued" => wait_queue[t] # NotWaiting /\ wait_queue[t] = Printed(since[t])

LatestOfSwitch ==
  \A c \in CPUs :
    switching[c].active /\ latest[c] # NoLatency
      => latest[c].pid = switching[c].next /\ switching[c].next \in Named

NamedSwitch ==
  \A c \in CPUs :
    switching[c].active /\ switching[c].next \in Named \ fresh
      => latest[c] # NoLatency /\ Near(latest[c].latency, switching[c].wait)

PerfInv ==
  /\ PerfTypeOK
  /\ OnlyNamedWait
  /\ NamedWait
  /\ LatestOfSwitch
  /\ NamedSwitch
-----------------------------------------------------------------------------
LEMMA HooksCounted == Cardinality(Hooks) = 3
<1>1. Cardinality({}) = 0 /\ IsFiniteSet({})
  BY FS_EmptySet
<1> DEFINE A == {} \cup {"sched_wakeup"}
           B == A \cup {"sched_wakeup_new"}
<1>2. IsFiniteSet(A) /\ Cardinality(A) = 1
  BY <1>1, FS_AddElement
<1>3. IsFiniteSet(B) /\ Cardinality(B) = 2
  BY <1>2, FS_AddElement
<1>4. IsFiniteSet(B \cup {"sched_switch"}) /\ Cardinality(B \cup {"sched_switch"}) = 3
  BY <1>3, FS_AddElement
<1>5. Hooks = B \cup {"sched_switch"}
  BY DEF Hooks
<1> QED
  BY <1>4, <1>5

(* The steps in which no task moves, and no program is attached. *)
Aside ==
  /\ UNCHANGED <<place, since, running, attached, target, start, switching, observed, perfVars,
                 child, prog, execed, fresh>>
  /\ events' = events \/ (events # << >> /\ events' = Tail(events))
  /\ pc' \in {"open", "attach"} => pc \in {"open", "attach"}
  /\ pc' = "target" => pc = "target"

LEMMA RunCases ==
  ASSUME [RunNext]_runVars
  PROVE  \/ \E t \in Tasks : MayCreate(t) /\ NewTask(t)
         \/ \E t \in Tasks : WakesUp(t)
         \/ \E c \in CPUs : Exec(c)
         \/ \E c \in CPUs : LeaveSwitch(c) /\ UNCHANGED <<perfVars, sluVars, fresh>>
         \/ \E c \in CPUs, next \in Pids : \E fate \in Fates(running[c]) : Switches(c, next, fate)
         \/ AttachNext
         \/ Fork
         \/ FollowChild
         \/ Aside
<1>1. ASSUME Ticks PROVE Aside
  BY <1>1 DEF Ticks, Tick, bpfVars, sluVars, Aside
<1>2. ASSUME NEW c \in CPUs, ChangeState(c), UNCHANGED <<perfVars, sluVars, fresh>> PROVE Aside
  BY <1>2 DEF ChangeState, SetState, bpfVars, sluVars, Aside
<1>3. ASSUME OpenAndLoad \/ NewRing \/ PollReturns \/ WaitChild PROVE Aside
  BY <1>3 DEF OpenAndLoad, NewRing, PollReturns, WaitChild, Elsewhere, vars, kernelVars, bpfVars, Aside
<1>4. ASSUME HandleEvent PROVE Aside
  BY <1>4 DEF HandleEvent, Consume, Elsewhere, kernelVars, Aside
<1>5. ASSUME UNCHANGED runVars PROVE Aside
  BY <1>5 DEF runVars, sluVars, vars, kernelVars, bpfVars, Aside
<1> QED
  BY <1>1, <1>2, <1>3, <1>4, <1>5 DEF RunNext, KernelRuns, SluStep

(* The scheduler and the programs only do what SlBpf lets them do. *)
LEMMA RunIsNext ==
  ASSUME InSequence, [RunNext]_runVars
  PROVE  [Next]_vars
<1>1. ASSUME NEW t \in Tasks, NewTask(t) \/ WakesUp(t) PROVE Next
  BY <1>1 DEF NewTask, WakesUp, Next, KernelStep
<1>2. CASE \E c \in CPUs : Exec(c)
  BY <1>2 DEF Exec
<1>3. ASSUME NEW c \in CPUs, LeaveSwitch(c) \/ ChangeState(c) PROVE Next
  BY <1>3 DEF Next, KernelStep
<1>4. ASSUME NEW c \in CPUs, NEW next \in Pids, NEW fate \in Fates(running[c]), Switches(c, next, fate)
      PROVE  Next
  BY <1>4 DEF Switches, Next, KernelStep
<1>5. CASE AttachNext
  BY <1>5 DEF AttachNext, Next, CollectorStep
<1>6. CASE Fork
  BY <1>6, WorkloadAssumption DEF Fork, Next, KernelStep
<1>7. CASE FollowChild
  <2>1. (IF child = ForkFails THEN ForkFails % Word ELSE Tgid[child]) \in Targets
    BY <1>7, WorkloadAssumption DEF FollowChild, InSequence
  <2> QED
    BY <1>7, <2>1 DEF FollowChild, Next, CollectorStep
<1>8. CASE Ticks
  BY <1>8 DEF Ticks, Next, KernelStep
<1>9. CASE OpenAndLoad \/ NewRing \/ PollReturns \/ WaitChild \/ UNCHANGED runVars
  BY <1>9 DEF OpenAndLoad, NewRing, PollReturns, WaitChild, runVars
<1>10. CASE HandleEvent
  BY <1>10 DEF HandleEvent, Next, CollectorStep
<1> QED
  BY <1>1, <1>2, <1>3, <1>4, <1>5, <1>6, <1>7, <1>8, <1>9, <1>10 DEF RunNext, KernelRuns, SluStep
-----------------------------------------------------------------------------
(* What the moves of a task say beyond WakeupFacts and EnterFacts. *)
LEMMA MoveFacts ==
  ASSUME TypeOK, NEW t \in Tasks, SchedWakeupNew(t) \/ SchedWakeup(t)
  PROVE  /\ SchedWakeupNew(t) => place[t] = "none"
         /\ SchedWakeup(t) => place[t] # "none"
         /\ place'[t] = "queued" /\ place[t] # "queued" =>
              /\ since'[t] = now
              /\ attached = Hooks => observed'[t]
         /\ place[t] = "queued" => UNCHANGED <<place, since, observed>> /\ ~runnable[t]
         /\ UNCHANGED <<attached, config, target, switching, events, running, now>>
<1>1. CASE SchedWakeupNew(t)
  BY <1>1 DEF SchedWakeupNew, SchedWakeup, Create, Awaken, AwakenEarly, WakeupHandler, Hooks,
           TypeOK, KernelTypeOK
<1>2. CASE SchedWakeup(t)
  BY <1>2 DEF SchedWakeupNew, SchedWakeup, Create, Awaken, AwakenEarly, WakeupHandler, Hooks,
           TypeOK, KernelTypeOK
<1> QED
  BY <1>1, <1>2

LEMMA EntryFacts ==
  ASSUME TypeOK, NEW c \in CPUs, NEW next \in Pids, NEW fate \in Fates(running[c]),
         EnterSwitch(c, next, fate)
  PROVE  /\ switching'[c].traced <=> "sched_switch" \in attached
         /\ running[c] \in Tasks /\ fate = "queued" => (attached = Hooks => observed'[running[c]])
         /\ UNCHANGED <<attached, config, target, events, now>>
<1>1. switching'[c].traced <=> "sched_switch" \in attached
  <2>1. switching' = [switching EXCEPT ![c] =
           [active |-> TRUE, traced |-> "sched_switch" \in attached, ts |-> now,
            filter |-> target, prev |-> running[c], next |-> next,
            wait |-> IF next = Idle THEN 0 ELSE now - since[next],
            whole |-> next # Idle /\ observed[next]]]
    BY DEF EnterSwitch
  <2> QED
    BY <2>1 DEF TypeOK
<1>2. running[c] \in Tasks /\ fate = "queued" => (attached = Hooks => observed'[running[c]])
  BY DEF EnterSwitch, TypeOK, Hooks
<1>3. UNCHANGED <<attached, config, target, events>>
  BY DEF EnterSwitch
<1>4. UNCHANGED now
  BY EnterFacts
<1> QED
  BY <1>1, <1>2, <1>3, <1>4

LEMMA InSequenceStep ==
  ASSUME TypeOK, InSequence, [RunNext]_runVars
  PROVE  InSequence'
<1>1. ASSUME NEW t \in Tasks, NewTask(t) \/ WakesUp(t) PROVE InSequence'
  <2>1. attached' = attached
    BY <1>1, MoveFacts DEF NewTask, WakesUp
  <2> QED
    BY <1>1, <2>1 DEF NewTask, WakesUp, sluVars, InSequence
<1>2. CASE \E c \in CPUs : Exec(c)
  BY <1>2 DEF Exec, vars, bpfVars, InSequence
<1>3. ASSUME NEW c \in CPUs, LeaveSwitch(c), UNCHANGED sluVars PROVE InSequence'
  BY <1>3 DEF LeaveSwitch, sluVars, InSequence
<1>4. ASSUME NEW c \in CPUs, NEW next \in Pids, NEW fate \in Fates(running[c]), Switches(c, next, fate)
      PROVE  InSequence'
  BY <1>4 DEF Switches, EnterSwitch, sluVars, InSequence
<1>5. CASE AttachNext
  <2>1. CASE UNCHANGED <<vars, prog>>
    BY <1>5, <2>1 DEF AttachNext, Elsewhere, GiveUp, vars, bpfVars, InSequence
  <2>2. ASSUME NEW h \in Hooks, Position[h] = prog + 1, Attach(h), prog' = prog + 1 PROVE InSequence'
    <3>1. prog \in 0..2
      BY <1>5, HooksCounted DEF AttachNext, InSequence
    <3>2. \A g \in Hooks : Position[g] \in Nat /\ (Position[g] = prog + 1 => g = h)
      BY <2>2 DEF Hooks, Position
    <3>3. attached' = {g \in Hooks : Position[g] <= prog + 1}
      BY <2>2, <3>1, <3>2 DEF Attach, InSequence
    <3> QED
      BY <1>5, <2>2, <3>1, <3>3 DEF AttachNext, GiveUp, InSequence
  <2> QED
    BY <1>5, <2>1, <2>2 DEF AttachNext, GiveUp
<1>6. CASE Fork
  <2>1. attached' = attached
    BY <1>6, WorkloadAssumption, MoveFacts DEF Fork, vars, bpfVars
  <2> QED
    BY <1>6, <2>1 DEF Fork, InSequence
<1>7. CASE FollowChild
  BY <1>7 DEF FollowChild, SetTarget, vars, bpfVars, InSequence
<1>8. CASE Aside
  BY <1>8 DEF Aside, InSequence
<1> QED
  BY <1>1, <1>2, <1>3, <1>4, <1>5, <1>6, <1>7, <1>8, RunCases

(* Every program is attached when the first task of the workload appears. *)
LEMMA AllAttached ==
  ASSUME InSequence, prog = 3
  PROVE  attached = Hooks
  BY DEF InSequence, Hooks, Position

(* A new thread of the workload comes from its main thread, or from fork. *)
LEMMA WorkloadAfterProgramsStep ==
  ASSUME TypeOK, RunningOnce, InSequence, WorkloadAfterPrograms, [RunNext]_runVars
  PROVE  WorkloadAfterPrograms'
<1> SUFFICES ASSUME NEW u \in Group, place'[u] # "none"
             PROVE  child' = Workload /\ prog' = 3
  BY DEF WorkloadAfterPrograms, Group
<1>0. u \in Tasks /\ (place[u] # "none" => child = Workload /\ prog = 3) /\ prog \in 0..3
  BY DEF WorkloadAfterPrograms, Group, InSequence
<1>1. ASSUME NEW t \in Tasks, MayCreate(t), NewTask(t) PROVE child' = Workload /\ prog' = 3
  <2>1. CASE u = t
    <3>1. PICK c \in CPUs : running[c] = Workload
      BY <1>1, <2>1 DEF MayCreate
    <3>2. Workload \in Group /\ place[Workload] # "none"
      BY <3>1, WorkloadAssumption DEF RunningOnce, Group
    <3> QED
      BY <1>1, <3>2 DEF NewTask, sluVars, WorkloadAfterPrograms
  <2>2. CASE u # t
    BY <1>0, <1>1, <2>2, WakeupFacts DEF NewTask, sluVars
  <2> QED
    BY <2>1, <2>2
<1>2. ASSUME NEW t \in Tasks, WakesUp(t) PROVE child' = Workload /\ prog' = 3
  <2>1. place[u] # "none"
    BY <1>0, <1>2, WakeupFacts, MoveFacts DEF WakesUp
  <2> QED
    BY <1>0, <1>2, <2>1 DEF WakesUp, sluVars
<1>3. CASE \E c \in CPUs : Exec(c)
  BY <1>0, <1>3 DEF Exec, vars, kernelVars
<1>4. ASSUME NEW c \in CPUs, LeaveSwitch(c), UNCHANGED sluVars PROVE child' = Workload /\ prog' = 3
  BY <1>0, <1>4 DEF LeaveSwitch, kernelVars, sluVars
<1>5. ASSUME NEW c \in CPUs, NEW next \in Pids, NEW fate \in Fates(running[c]), Switches(c, next, fate)
      PROVE  child' = Workload /\ prog' = 3
  <2>1. place[u] # "none"
    BY <1>0, <1>5, EnterFacts DEF Switches, RunningOnce
  <2> QED
    BY <1>0, <1>5, <2>1 DEF Switches, sluVars
<1>6. CASE AttachNext
  <2>1. place[u] # "none" /\ child' = child /\ prog # 3
    BY <1>6, HooksCounted DEF AttachNext, Attach, Elsewhere, kernelVars, vars, GiveUp
  <2> QED
    BY <1>0, <2>1
<1>7. CASE Fork
  <2>1. prog = 3 /\ prog' = 3 /\ child = NotYet
    BY <1>7, HooksCounted DEF Fork, InSequence
  <2>2. CASE child' = Workload
    BY <2>1, <2>2
  <2>3. CASE UNCHANGED vars
    BY <1>0, <2>1, <2>3, WorkloadAssumption DEF vars, kernelVars
  <2> QED
    BY <1>7, <2>2, <2>3 DEF Fork
<1>8. CASE FollowChild
  BY <1>0, <1>8 DEF FollowChild, SetTarget, vars, kernelVars
<1>9. CASE Aside
  BY <1>0, <1>9 DEF Aside
<1> QED
  BY <1>1, <1>2, <1>3, <1>4, <1>5, <1>6, <1>7, <1>8, <1>9, RunCases

(* The target is set once, after fork. *)
LEMMA TargetIsWorkloadStep ==
  ASSUME TypeOK, InSequence, TargetIsWorkload, [RunNext]_runVars
  PROVE  TargetIsWorkload'
<1>1. ASSUME NEW t \in Tasks, NewTask(t) \/ WakesUp(t) PROVE TargetIsWorkload'
  BY <1>1, MoveFacts DEF NewTask, WakesUp, sluVars, TargetIsWorkload
<1>2. CASE \E c \in CPUs : Exec(c)
  BY <1>2 DEF Exec, vars, bpfVars, TargetIsWorkload
<1>3. ASSUME NEW c \in CPUs, LeaveSwitch(c), UNCHANGED sluVars PROVE TargetIsWorkload'
  BY <1>3 DEF LeaveSwitch, sluVars, TargetIsWorkload
<1>4. ASSUME NEW c \in CPUs, NEW next \in Pids, NEW fate \in Fates(running[c]), Switches(c, next, fate)
      PROVE  TargetIsWorkload'
  BY <1>4 DEF Switches, EnterSwitch, sluVars, TargetIsWorkload
<1>5. CASE AttachNext
  BY <1>5 DEF AttachNext, Attach, vars, bpfVars, TargetIsWorkload
<1>6. CASE Fork
  <2>1. child = NotYet /\ target' = target
    BY <1>6, WorkloadAssumption, MoveFacts DEF Fork, vars, bpfVars, InSequence
  <2> QED
    BY <2>1 DEF TargetIsWorkload, NotYet, ForkFails
<1>7. CASE FollowChild
  BY <1>7 DEF FollowChild, SetTarget, vars, bpfVars, InSequence, TargetIsWorkload
<1>8. CASE Aside
  BY <1>8 DEF Aside, TargetIsWorkload
<1> QED
  BY <1>1, <1>2, <1>3, <1>4, <1>5, <1>6, <1>7, <1>8, RunCases

(* How a task comes to be. *)
LEMMA Newcomer ==
  ASSUME TypeOK, RunningOnce, [RunNext]_runVars,
         NEW u \in Tasks, place[u] = "none", place'[u] # "none"
  PROVE  \/ MayCreate(u) /\ NewTask(u)
         \/ u = Workload /\ Fork
<1>1. ASSUME NEW t \in Tasks, MayCreate(t), NewTask(t) PROVE t = u
  BY <1>1, WakeupFacts DEF NewTask
<1>2. ASSUME NEW t \in Tasks, WakesUp(t) PROVE FALSE
  BY <1>2, WakeupFacts, MoveFacts DEF WakesUp
<1>3. ASSUME NEW c \in CPUs, NEW next \in Pids, NEW fate \in Fates(running[c]), Switches(c, next, fate)
      PROVE  FALSE
  BY <1>3, EnterFacts DEF Switches, RunningOnce
<1>4. CASE Fork
  <2>1. SchedWakeupNew(Workload)
    BY <1>4 DEF Fork, vars, kernelVars
  <2> QED
    BY <1>4, <2>1, WakeupFacts, WorkloadAssumption
<1>5. ASSUME \/ \E c \in CPUs : Exec(c) \/ LeaveSwitch(c)
             \/ AttachNext \/ FollowChild \/ Aside
      PROVE  place' = place
  BY <1>5 DEF Exec, LeaveSwitch, AttachNext, Attach, GiveUp, FollowChild, SetTarget, Aside,
              vars, kernelVars
<1> QED
  BY <1>1, <1>2, <1>3, <1>4, <1>5, RunCases

LEMMA ThreadsAfterExecStep ==
  ASSUME TypeOK, RunningOnce, ThreadsAfterExec, [RunNext]_runVars
  PROVE  ThreadsAfterExec'
<1> SUFFICES ASSUME ~execed', NEW u \in Group, u # Workload, place'[u] # "none"
             PROVE  FALSE
  BY DEF ThreadsAfterExec, Group
<1>1. ~execed
  BY RunCases DEF NewTask, WakesUp, Exec, Switches, AttachNext, Fork, FollowChild, Elsewhere,
                  Aside, sluVars
<1>2. place[u] = "none" /\ u \in Tasks
  BY <1>1 DEF ThreadsAfterExec, Group
<1>3. ~MayCreate(u)
  BY <1>1 DEF MayCreate
<1> QED
  BY <1>2, <1>3, Newcomer

LEMMA GroupObservedStep ==
  ASSUME TypeOK, RunningOnce, InSequence, InSequence', WorkloadAfterPrograms, WorkloadAfterPrograms',
         GroupObserved, [RunNext]_runVars
  PROVE  GroupObserved'
<1> SUFFICES ASSUME NEW u \in Group, place'[u] = "queued" PROVE observed'[u]
  BY DEF GroupObserved, Group
<1>0. u \in Tasks /\ (place[u] = "queued" => observed[u]) /\ attached' = Hooks
  BY DEF Group, GroupObserved, WorkloadAfterPrograms, InSequence, Hooks, Position
<1>1. ASSUME NEW t \in Tasks, SchedWakeupNew(t) \/ SchedWakeup(t) PROVE observed'[u]
  BY <1>0, <1>1, WakeupFacts, MoveFacts
<1>2. ASSUME NEW c \in CPUs, NEW next \in Pids, NEW fate \in Fates(running[c]),
             EnterSwitch(c, next, fate)
      PROVE  observed'[u]
  BY <1>0, <1>2, EnterFacts, EntryFacts
<1>3. CASE Fork
  BY <1>0, <1>1, <1>3, WorkloadAssumption DEF Fork, vars, kernelVars, bpfVars
<1>4. ASSUME \/ \E c \in CPUs : Exec(c) \/ LeaveSwitch(c)
             \/ AttachNext \/ FollowChild \/ Aside
      PROVE  place' = place /\ observed' = observed
  BY <1>4 DEF Exec, LeaveSwitch, AttachNext, Attach, GiveUp, FollowChild, SetTarget, Aside,
              vars, kernelVars, bpfVars
<1> QED
  BY <1>0, <1>1, <1>2, <1>3, <1>4, RunCases DEF NewTask, WakesUp, Switches

LEMMA GroupWholeStep ==
  ASSUME TypeOK, InSequence, WorkloadAfterPrograms, TargetIsWorkload, GroupObserved, GroupWhole,
         [Next]_vars
  PROVE  GroupWhole'
<1> SUFFICES ASSUME NEW c \in CPUs, switching'[c].active, switching'[c].next \in Group
             PROVE  /\ switching'[c].whole /\ switching'[c].traced
                    /\ Passes(switching'[c].filter, Tgid[switching'[c].next])
  BY DEF GroupWhole, Group
<1>1. CASE switching'[c] = switching[c]
  BY <1>1 DEF GroupWhole
<1>2. ASSUME NEW next \in Pids, NEW fate \in Fates(running[c]), EnterSwitch(c, next, fate)
      PROVE  /\ switching'[c].whole /\ switching'[c].traced
             /\ Passes(switching'[c].filter, Tgid[switching'[c].next])
  <2>1. next \in Group /\ next \in Tasks /\ next # Idle /\ place[next] = "queued"
    BY <1>2, EnterFacts, TasksAssumption DEF Group
  <2>2. child = Workload /\ attached = Hooks /\ observed[next]
    BY <2>1, AllAttached DEF WorkloadAfterPrograms, GroupObserved
  <2>3. Passes(target, Tgid[next])
    BY <2>1, <2>2, WorkloadAssumption DEF TargetIsWorkload, Passes, Group
  <2> QED
    BY <1>2, <2>1, <2>2, <2>3, EnterFacts, EntryFacts DEF Hooks
<1> QED
  BY <1>1, <1>2, SwitchingCases

LEMMA EventsWholeStep ==
  ASSUME TypeOK, GroupWhole, EventsWhole, [Next]_vars
  PROVE  EventsWhole'
<1> SUFFICES ASSUME NEW i \in 1..Len(events'), events'[i].pid \in Group PROVE events'[i].whole
  BY DEF EventsWhole, Group
<1>0. events \in Seq(EventType)
  BY DEF TypeOK
<1>1. CASE events' = events
  BY <1>1 DEF EventsWhole
<1>2. CASE events # << >> /\ events' = Tail(events)
  BY <1>0, <1>2, TailFacts DEF EventsWhole
<1>3. ASSUME NEW c \in CPUs, LeaveSwitch(c), EventOf(c, switching[c]) \in EventType,
             events' = Append(events, EventOf(c, switching[c]))
      PROVE  events'[i].whole
  <2>1. EventOf(c, switching[c]).pid \in Group => EventOf(c, switching[c]).whole
    BY <1>3 DEF EventOf, LeaveSwitch, GroupWhole
  <2>2. i \in 1..Len(events) \/ i = Len(events) + 1
    BY <1>0, <1>3, AppendFacts
  <2> QED
    BY <1>0, <1>3, <2>1, <2>2, AppendFacts DEF EventsWhole
<1> QED
  BY <1>1, <1>2, <1>3, RingCases

LEMMA ProgramsInvInit == RunInit => ProgramsInv
<1> SUFFICES ASSUME RunInit PROVE ProgramsInv
  OBVIOUS
<1>1. InSequence
  BY DEF RunInit, Init, InSequence, Hooks, Position
<1>2. WorkloadAfterPrograms /\ ThreadsAfterExec /\ GroupObserved
  BY DEF RunInit, WorkloadAfterPrograms, ThreadsAfterExec, GroupObserved
<1>3. TargetIsWorkload /\ GroupWhole /\ EventsWhole
  BY DEF RunInit, Init, NoSwitch, TargetIsWorkload, GroupWhole, EventsWhole
<1> QED
  BY <1>1, <1>2, <1>3 DEF ProgramsInv

LEMMA ProgramsInvStep == ClockInv /\ ProgramsInv /\ [RunNext]_runVars => ProgramsInv'
<1> SUFFICES ASSUME ClockInv, ProgramsInv, [RunNext]_runVars PROVE ProgramsInv'
  OBVIOUS
<1>1. TypeOK /\ RunningOnce /\ [Next]_vars
  BY RunIsNext DEF ClockInv, ProgramsInv
<1>2. InSequence' /\ WorkloadAfterPrograms'
  BY <1>1, InSequenceStep, WorkloadAfterProgramsStep DEF ProgramsInv
<1>3. TargetIsWorkload' /\ ThreadsAfterExec'
  BY <1>1, TargetIsWorkloadStep, ThreadsAfterExecStep DEF ProgramsInv
<1>4. GroupObserved' /\ GroupWhole' /\ EventsWhole'
  BY <1>1, <1>2, GroupObservedStep, GroupWholeStep, EventsWholeStep DEF ProgramsInv
<1> QED
  BY <1>2, <1>3, <1>4 DEF ProgramsInv

(* slu attaches every program before it forks, and so sees each wait of its *)
(* workload from its beginning: every event about the workload tells the    *)
(* true length, if the kernel preempts no task that has set its __state     *)
(* (slu.c:53-62, 75-82).                                                    *)
THEOREM WholeWorkloadSeen ==
  ASSUME ~Preemptible
  PROVE  RunSpec => []WorkloadWhole
<1>1. RunInit => ClockInv /\ WaitInv /\ ProgramsInv
  BY ClockInvInit, WaitInvInit, ProgramsInvInit DEF RunInit
<1>2. ClockInv /\ WaitInv /\ ProgramsInv /\ [RunNext]_runVars => (ClockInv /\ WaitInv /\ ProgramsInv)'
  BY RunIsNext, ClockInvStep, WaitInvStep, ProgramsInvStep DEF ProgramsInv
<1>3. WaitInv /\ ProgramsInv => WorkloadWhole
  BY DEF WaitInv, ProgramsInv, EventsWhole, LatencyIsWait, WorkloadWhole
<1> QED
  BY <1>1, <1>2, <1>3, PTL DEF RunSpec
-----------------------------------------------------------------------------
(* perf.  A printed time is the time, less a part of the resolution. *)
LEMMA PrintedFacts ==
  ASSUME NEW t \in Nat
  PROVE  /\ Printed(t) \in Nat
         /\ t - Printed(t) \in 0..(Resolution - 1)
<1>1. t % Resolution \in 0..(Resolution - 1) /\ t % Resolution <= t
  BY ResolutionAssumption
<1> QED
  BY <1>1 DEF Printed

(* So two printed times are as far apart as the times, to the resolution. *)
LEMMA PrintedNear ==
  ASSUME NEW s \in Nat, NEW t \in Nat
  PROVE  Near(Printed(t) - Printed(s), t - s)
<1>1. /\ Printed(s) \in Nat /\ s - Printed(s) \in 0..(Resolution - 1)
      /\ Printed(t) \in Nat /\ t - Printed(t) \in 0..(Resolution - 1)
  BY PrintedFacts
<1>2. (Printed(t) - Printed(s)) - (t - s) = (s - Printed(s)) - (t - Printed(t))
  BY <1>1
<1> QED
  BY <1>1, <1>2, ResolutionAssumption DEF Near

LEMMA WakeupLineFacts ==
  ASSUME PerfTypeOK, TypeOK, NEW t \in Tasks, WakesUp(t)
  PROVE  /\ \A p \in Pids : p # t => wait_queue'[p] = wait_queue[p]
         /\ wait_queue'[t] = IF t \in Named THEN Printed(now) ELSE wait_queue[t]
         /\ wait_queue' \in [Pids -> Int]
         /\ UNCHANGED <<latest, execed, fresh, child>>
<1>1. t \in Pids /\ Printed(now) \in Int
  BY PrintedFacts DEF Pids, TypeOK, KernelTypeOK
<1> QED
  BY <1>1 DEF WakesUp, WakeupLine, Woken, sluVars, PerfTypeOK

LEMMA SwitchLineFacts ==
  ASSUME PerfTypeOK, TypeOK, NEW c \in CPUs, NEW next \in Pids, NEW fate \in Fates(running[c]),
         Switches(c, next, fate)
  PROVE  /\ EnterSwitch(c, next, fate)
         /\ \A p \in Pids : p # running[c] /\ p # next => wait_queue'[p] = wait_queue[p]
         /\ running[c] \in Named /\ fate = "queued" => wait_queue'[running[c]] = Printed(now)
         /\ ~(running[c] \in Named /\ fate = "queued") => wait_queue'[running[c]] = wait_queue[running[c]]
         /\ next \in Named /\ wait_queue[next] # NotWaiting =>
              /\ wait_queue'[next] = NotWaiting
              /\ latest'[c] # NoLatency /\ latest'[c] \in [pid : Group, latency : Int]
              /\ latest'[c].pid = next
              /\ latest'[c].latency = Printed(now) - wait_queue[next]
         /\ ~(next \in Named /\ wait_queue[next] # NotWaiting) =>
              /\ wait_queue'[next] = wait_queue[next]
              /\ latest'[c] = NoLatency
         /\ \A d \in CPUs : d # c => latest'[d] = latest[d]
         /\ wait_queue' \in [Pids -> Int]
         /\ fresh' = fresh \ {running[c]}
         /\ execed' = execed
<1> DEFINE prev == running[c]
           queue == IF prev \in Named /\ fate = "queued" THEN Paused(prev, now) ELSE wait_queue
           ends == next \in Named /\ queue[next] # NotWaiting
<1>1. /\ EnterSwitch(c, next, fate) /\ fresh' = fresh \ {prev} /\ execed' = execed
      /\ wait_queue' = IF ends THEN [queue EXCEPT ![next] = NotWaiting] ELSE queue
      /\ latest' = [latest EXCEPT ![c] =
           IF ends THEN [pid |-> next, latency |-> Printed(now) - queue[next]] ELSE NoLatency]
  BY DEF Switches, SwitchLine, sluVars
<1>2. prev \in Pids /\ prev # next /\ Printed(now) \in Int
  BY <1>1, EnterFacts, PrintedFacts DEF TypeOK, KernelTypeOK
<1>3. /\ queue \in [Pids -> Int]
      /\ queue[next] = wait_queue[next]
      /\ \A p \in Pids \ {prev} : queue[p] = wait_queue[p]
      /\ queue[prev] = IF prev \in Named /\ fate = "queued" THEN Printed(now) ELSE wait_queue[prev]
  BY <1>2 DEF Paused, PerfTypeOK
<1> HIDE DEF queue
<1>4. /\ wait_queue' \in [Pids -> Int]
      /\ \A p \in Pids \ {next} : wait_queue'[p] = queue[p]
      /\ wait_queue'[next] = IF ends THEN NotWaiting ELSE queue[next]
  BY <1>1, <1>3 DEF NotWaiting
<1>5. /\ latest'[c] = IF ends THEN [pid |-> next, latency |-> Printed(now) - queue[next]] ELSE NoLatency
      /\ \A d \in CPUs : d # c => latest'[d] = latest[d]
  BY <1>1 DEF PerfTypeOK
<1> DEFINE l == [pid |-> next, latency |-> Printed(now) - wait_queue[next]]
<1>6. next \in Named => l \in [pid : Group, latency : Int] /\ l # NoLatency
  <2>1. next \in Named => l \in [pid : Group, latency : Int]
    BY <1>2 DEF Named, PerfTypeOK
  <2>2. DOMAIN l # DOMAIN NoLatency
    BY DEF NoLatency
  <2> HIDE DEF l
  <2> QED
    BY <2>1, <2>2
<1>7. l.pid = next /\ l.latency = Printed(now) - wait_queue[next]
  OBVIOUS
<1> HIDE DEF l
<1>8. ends => latest'[c] = l
  BY <1>3, <1>5 DEF l
<1> QED
  BY <1>1, <1>2, <1>3, <1>4, <1>5, <1>6, <1>7, <1>8

(* The steps perf does not see. *)
LEMMA Unseen ==
  ASSUME [RunNext]_runVars
  PROVE  \/ \E t \in Tasks : NewTask(t)
         \/ \E t \in Tasks : WakesUp(t)
         \/ \E c \in CPUs : Exec(c)
         \/ \E c \in CPUs, next \in Pids : \E fate \in Fates(running[c]) : Switches(c, next, fate)
         \/ Fork
         \/ UNCHANGED <<perfVars, execed, fresh, place, since, running, switching>>
         \/ \E c \in CPUs : LeaveSwitch(c) /\ UNCHANGED <<perfVars, execed, fresh>>
<1>1. CASE AttachNext \/ FollowChild
  BY <1>1 DEF AttachNext, Attach, GiveUp, FollowChild, SetTarget, Elsewhere, vars, kernelVars, bpfVars
<1>2. CASE Aside
  BY <1>2 DEF Aside
<1> QED
  BY <1>1, <1>2, RunCases DEF sluVars

(* A task is created by its parent or by fork. *)
LEMMA Created ==
  ASSUME TypeOK, (\E t \in Tasks : NewTask(t)) \/ Fork
  PROVE  /\ UNCHANGED <<perfVars, execed, switching, running>>
         /\ fresh \subseteq fresh'
         /\ fresh' \subseteq fresh \cup Tasks
         /\ \A u \in Tasks \ fresh' : place'[u] = place[u] /\ since'[u] = since[u]
<1>1. ASSUME NEW t \in Tasks, SchedWakeupNew(t), fresh' = fresh \cup {t}, UNCHANGED <<perfVars, execed>>
      PROVE  /\ UNCHANGED <<perfVars, execed, switching, running>>
             /\ fresh \subseteq fresh'
             /\ fresh' \subseteq fresh \cup Tasks
             /\ \A u \in Tasks \ fresh' : place'[u] = place[u] /\ since'[u] = since[u]
  BY <1>1, WakeupFacts
<1>2. CASE \E t \in Tasks : NewTask(t)
  BY <1>1, <1>2 DEF NewTask, sluVars
<1>3. CASE Fork
  <2>1. CASE SchedWakeupNew(Workload) /\ fresh' = fresh \cup {Workload}
    BY <1>1, <1>3, <2>1, WorkloadAssumption DEF Fork
  <2>2. CASE UNCHANGED <<vars, fresh>>
    BY <1>3, <2>2 DEF Fork, vars, kernelVars, bpfVars
  <2> QED
    BY <1>3, <2>1, <2>2 DEF Fork
<1> QED
  BY <1>2, <1>3

LEMMA PerfTypeStep ==
  ASSUME TypeOK, PerfTypeOK, [RunNext]_runVars
  PROVE  PerfTypeOK'
<1>1. CASE (\E t \in Tasks : NewTask(t)) \/ Fork
  BY <1>1, Created DEF PerfTypeOK, perfVars
<1>2. CASE \E t \in Tasks : WakesUp(t)
  BY <1>2, WakeupLineFacts DEF PerfTypeOK
<1>3. CASE \E c \in CPUs : Exec(c)
  BY <1>3 DEF Exec, perfVars, PerfTypeOK
<1>4. ASSUME NEW c \in CPUs, NEW next \in Pids, NEW fate \in Fates(running[c]), Switches(c, next, fate)
      PROVE  PerfTypeOK'
  <2>1. latest' \in [CPUs -> [pid : Group, latency : Int] \cup {NoLatency}]
    <3>1. Printed(now) - wait_queue[next] \in Int
      BY PrintedFacts DEF TypeOK, KernelTypeOK, PerfTypeOK
    <3>2. latest'[c] \in [pid : Group, latency : Int] \cup {NoLatency}
      BY <1>4, <3>1, SwitchLineFacts DEF Named
    <3>3. latest' = [latest EXCEPT ![c] = latest'[c]]
      BY <1>4 DEF Switches, SwitchLine, PerfTypeOK
    <3> QED
      BY <3>2, <3>3 DEF PerfTypeOK
  <2> QED
    BY <1>4, <2>1, SwitchLineFacts DEF PerfTypeOK
<1>5. CASE UNCHANGED <<perfVars, execed, fresh>>
  BY <1>5 DEF PerfTypeOK, perfVars
<1> QED
  BY <1>1, <1>2, <1>3, <1>4, <1>5, Unseen

LEMMA OnlyNamedWaitStep ==
  ASSUME TypeOK, PerfTypeOK, OnlyNamedWait, [RunNext]_runVars
  PROVE  OnlyNamedWait'
<1>1. CASE UNCHANGED <<perfVars, execed>>
  BY <1>1 DEF OnlyNamedWait, perfVars, Named
<1>2. CASE (\E t \in Tasks : NewTask(t)) \/ Fork
  BY <1>1, <1>2, Created
<1>3. ASSUME NEW t \in Tasks, WakesUp(t) PROVE OnlyNamedWait'
  BY <1>3, WakeupLineFacts DEF OnlyNamedWait, Named
<1>4. CASE \E c \in CPUs : Exec(c)
  BY <1>4 DEF Exec, perfVars, OnlyNamedWait, Named
<1>5. ASSUME NEW c \in CPUs, NEW next \in Pids, NEW fate \in Fates(running[c]), Switches(c, next, fate)
      PROVE  OnlyNamedWait'
  BY <1>5, SwitchLineFacts DEF OnlyNamedWait, Named
<1> QED
  BY <1>1, <1>2, <1>3, <1>4, <1>5, Unseen

(* The execution of the workload finds no thread of it in a queue. *)
LEMMA AloneAtExec ==
  ASSUME RunningOnce, ThreadsAfterExec, NEW c \in CPUs, Exec(c), NEW t \in Group
  PROVE  t = Workload \/ place[t] = "none"
  BY DEF Exec, ThreadsAfterExec

LEMMA NamedWaitStep ==
  ASSUME ~Preemptible, TypeOK, RunningOnce, QueuedIsRunnable, ThreadsAfterExec,
         PerfTypeOK, NamedWait, [RunNext]_runVars
  PROVE  NamedWait'
<1> SUFFICES ASSUME NEW u \in Named', u \notin fresh', place'[u] = "queued"
             PROVE  wait_queue'[u] # NotWaiting /\ wait_queue'[u] = Printed(since'[u])
  BY DEF NamedWait
<1>0. /\ u \in Group /\ u \in Tasks /\ u \in Pids /\ now \in Nat
      /\ Printed(now) # NotWaiting
  <2>1. u \in Group
    BY DEF Named, Group
  <2>2. u \in Tasks /\ u \in Pids
    BY <2>1 DEF Group, Pids
  <2>3. now \in Nat /\ Printed(now) # NotWaiting
    BY PrintedFacts DEF TypeOK, KernelTypeOK, NotWaiting
  <2> QED
    BY <2>1, <2>2, <2>3
<1>1. CASE UNCHANGED <<perfVars, execed, fresh, place, since>>
  BY <1>1 DEF NamedWait, perfVars, Named
<1>2. CASE (\E t \in Tasks : NewTask(t)) \/ Fork
  BY <1>0, <1>2, Created DEF NamedWait, perfVars, Named
<1>3. ASSUME NEW t \in Tasks, WakesUp(t)
      PROVE  wait_queue'[u] # NotWaiting /\ wait_queue'[u] = Printed(since'[u])
  <2>1. SchedWakeup(t) /\ u \in Named /\ u \notin fresh
    BY <1>3, WakeupLineFacts DEF WakesUp, Named
  <2>2. CASE u = t
    <3>1. since'[u] = now
      BY <1>3, <2>1, <2>2, WakeupFacts, MoveFacts DEF QueuedIsRunnable
    <3> QED
      BY <1>0, <1>3, <2>1, <2>2, <3>1, WakeupLineFacts
  <2>3. CASE u # t
    BY <1>0, <1>3, <2>1, <2>3, WakeupFacts, WakeupLineFacts DEF NamedWait
  <2> QED
    BY <2>2, <2>3
<1>4. ASSUME NEW c \in CPUs, Exec(c) PROVE FALSE
  <2>1. place[u] = "queued" /\ place[Workload] = "oncpu"
    BY <1>4, WorkloadAssumption DEF Exec, vars, kernelVars, RunningOnce
  <2> QED
    BY <1>0, <1>4, <2>1, AloneAtExec
<1>5. ASSUME NEW c \in CPUs, NEW next \in Pids, NEW fate \in Fates(running[c]), Switches(c, next, fate)
      PROVE  wait_queue'[u] # NotWaiting /\ wait_queue'[u] = Printed(since'[u])
  <2>1. EnterSwitch(c, next, fate) /\ u \in Named
    BY <1>5, SwitchLineFacts DEF Named
  <2>2. u # next
    BY <1>0, <2>1, EnterFacts
  <2>3. CASE u = running[c]
    <3>1. fate = "queued" /\ since'[u] = now
      BY <1>0, <2>1, <2>3, EnterFacts
    <3> QED
      BY <1>0, <1>5, <2>1, <2>3, <3>1, SwitchLineFacts
  <2>4. CASE u # running[c]
    <3>1. u \notin fresh /\ place[u] = "queued" /\ since'[u] = since[u]
      BY <1>0, <1>5, <2>1, <2>2, <2>4, EnterFacts, SwitchLineFacts
    <3> QED
      BY <1>0, <1>5, <2>1, <2>2, <2>4, <3>1, SwitchLineFacts DEF NamedWait
  <2> QED
    BY <2>3, <2>4
<1>6. CASE \E c \in CPUs : LeaveSwitch(c) /\ UNCHANGED <<perfVars, execed, fresh>>
  BY <1>1, <1>6 DEF LeaveSwitch, kernelVars
<1> QED
  BY <1>1, <1>2, <1>3, <1>4, <1>5, <1>6, Unseen

(* A switch in progress has just begun, or is as it was: neither its CPU's  *)
(* latest line nor what is known of its next task has changed.              *)
LEMMA SwitchUnchanged ==
  ASSUME TypeOK, RunningOnce, SwitchOfRunning, PerfTypeOK, ThreadsAfterExec, [RunNext]_runVars,
         NEW c \in CPUs, switching'[c].active
  PROVE  \/ \E next \in Pids : \E fate \in Fates(running[c]) : Switches(c, next, fate)
         \/ /\ switching'[c] = switching[c] /\ latest'[c] = latest[c]
            /\ switching[c].next \in Tasks =>
                 /\ switching[c].next \in fresh => switching[c].next \in fresh'
                 /\ switching[c].next \in Named' <=> switching[c].next \in Named
<1> DEFINE n == switching[c].next
<1> DEFINE Same == /\ switching'[c] = switching[c] /\ latest'[c] = latest[c]
                   /\ n \in Tasks => /\ n \in fresh => n \in fresh'
                                     /\ n \in Named' <=> n \in Named
<1>1. CASE UNCHANGED <<perfVars, execed, fresh, switching>>
  BY <1>1 DEF perfVars, Named
<1>2. CASE (\E t \in Tasks : NewTask(t)) \/ Fork
  BY <1>2, Created DEF perfVars, Named
<1>3. ASSUME NEW t \in Tasks, WakesUp(t) PROVE Same
  <2>1. switching' = switching
    BY <1>3, WakeupFacts DEF WakesUp
  <2> QED
    BY <1>3, <2>1, WakeupLineFacts DEF Named
<1>4. ASSUME NEW d \in CPUs, Exec(d) PROVE Same
  <2>1. UNCHANGED <<switching, latest, fresh>> /\ ~switching[d].active /\ running[d] = Workload
    BY <1>4 DEF Exec, vars, bpfVars, perfVars
  <2>2. n = running[c] /\ d # c
    BY <2>1 DEF SwitchOfRunning
  <2>3. n \notin Group
    <3>1. SUFFICES ASSUME n \in Group PROVE FALSE
      OBVIOUS
    <3>2. n \in Tasks /\ place[n] = "oncpu" /\ n # Workload
      BY <2>1, <2>2, <3>1, TasksAssumption, WorkloadAssumption DEF RunningOnce, Group
    <3> QED
      BY <1>4, <3>1, <3>2, AloneAtExec
  <2> QED
    BY <2>1, <2>3 DEF Named
<1>5. ASSUME NEW d \in CPUs, d # c, NEW next \in Pids, NEW fate \in Fates(running[d]),
             Switches(d, next, fate)
      PROVE  Same
  <2>1. /\ EnterSwitch(d, next, fate) /\ latest'[c] = latest[c] /\ fresh' = fresh \ {running[d]}
        /\ execed' = execed
    BY <1>5, SwitchLineFacts
  <2>2. switching'[c] = switching[c]
    BY <1>5, <2>1, EnterFacts
  <2>3. n \in Tasks => n # running[d]
    BY <1>5, <2>2, TasksAssumption DEF SwitchOfRunning, RunningOnce
  <2> QED
    BY <2>1, <2>2, <2>3 DEF Named
<1>6. ASSUME NEW d \in CPUs, LeaveSwitch(d), UNCHANGED <<perfVars, execed, fresh>> PROVE Same
  <2>1. d # c /\ switching'[c] = switching[c]
    BY <1>6, LeaveFacts
  <2> QED
    BY <1>6, <2>1 DEF perfVars, Named
<1> QED
  BY <1>1, <1>2, <1>3, <1>4, <1>5, <1>6, Unseen

LEMMA LatestOfSwitchStep ==
  ASSUME TypeOK, RunningOnce, SwitchOfRunning, PerfTypeOK, ThreadsAfterExec, LatestOfSwitch,
         [RunNext]_runVars
  PROVE  LatestOfSwitch'
<1> SUFFICES ASSUME NEW c \in CPUs, switching'[c].active, latest'[c] # NoLatency
             PROVE  latest'[c].pid = switching'[c].next /\ switching'[c].next \in Named'
  BY DEF LatestOfSwitch
<1>1. ASSUME NEW next \in Pids, NEW fate \in Fates(running[c]), Switches(c, next, fate)
      PROVE  latest'[c].pid = switching'[c].next /\ switching'[c].next \in Named'
  <2>1. switching'[c].next = next
    BY <1>1, SwitchLineFacts, EnterFacts
  <2> QED
    BY <1>1, <2>1, SwitchLineFacts DEF Named
<1>2. CASE /\ switching'[c] = switching[c] /\ latest'[c] = latest[c]
           /\ switching[c].next \in Tasks =>
                switching[c].next \in Named' <=> switching[c].next \in Named
  <2>1. latest[c].pid = switching[c].next /\ switching[c].next \in Named
    BY <1>2 DEF LatestOfSwitch
  <2>2. switching[c].next \in Tasks
    BY <2>1 DEF Named, Group
  <2> QED
    BY <1>2, <2>1, <2>2
<1> QED
  BY <1>1, <1>2, SwitchUnchanged

LEMMA NamedSwitchStep ==
  ASSUME TypeOK, RunningOnce, SwitchOfRunning, PerfTypeOK, ThreadsAfterExec, NamedWait, NamedSwitch,
         [RunNext]_runVars
  PROVE  NamedSwitch'
<1> SUFFICES ASSUME NEW c \in CPUs, switching'[c].active,
                    switching'[c].next \in Named', switching'[c].next \notin fresh'
             PROVE  latest'[c] # NoLatency /\ Near(latest'[c].latency, switching'[c].wait)
  BY DEF NamedSwitch
<1>0. switching'[c].next \in Tasks
  BY DEF Named, Group
<1>1. ASSUME NEW next \in Pids, NEW fate \in Fates(running[c]), Switches(c, next, fate)
      PROVE  latest'[c] # NoLatency /\ Near(latest'[c].latency, switching'[c].wait)
  <2>1. EnterSwitch(c, next, fate) /\ execed' = execed /\ fresh' = fresh \ {running[c]}
    BY <1>1, SwitchLineFacts
  <2>2. /\ switching'[c].next = next /\ next # running[c] /\ next \in Tasks /\ next # Idle
        /\ place[next] = "queued" /\ switching'[c].wait = now - since[next]
    BY <1>0, <2>1, EnterFacts, TasksAssumption
  <2>3. next \in Named /\ next \notin fresh
    BY <2>1, <2>2 DEF Named
  <2>4. wait_queue[next] # NotWaiting /\ wait_queue[next] = Printed(since[next])
    BY <2>2, <2>3 DEF NamedWait
  <2>5. latest'[c] # NoLatency /\ latest'[c].latency = Printed(now) - Printed(since[next])
    BY <1>1, <2>3, <2>4, SwitchLineFacts
  <2>6. Near(Printed(now) - Printed(since[next]), now - since[next])
    BY <2>2, PrintedNear DEF TypeOK, KernelTypeOK
  <2> QED
    BY <2>2, <2>5, <2>6
<1>2. CASE /\ switching'[c] = switching[c] /\ latest'[c] = latest[c]
           /\ switching[c].next \in Tasks =>
                /\ switching[c].next \in fresh => switching[c].next \in fresh'
                /\ switching[c].next \in Named' <=> switching[c].next \in Named
  <2>1. switching[c].next \in Named /\ switching[c].next \notin fresh
    BY <1>0, <1>2
  <2> QED
    BY <1>2, <2>1 DEF NamedSwitch
<1> QED
  BY <1>1, <1>2, SwitchUnchanged

LEMMA PerfInvInit == RunInit => PerfInv
<1> SUFFICES ASSUME RunInit PROVE PerfInv
  OBVIOUS
<1>1. PerfTypeOK
  <2>1. wait_queue \in [Pids -> Int]
    BY DEF RunInit, PerfInit, NotWaiting
  <2>2. latest = [c \in CPUs |-> NoLatency]
    BY DEF RunInit, PerfInit
  <2> QED
    BY <2>1, <2>2 DEF RunInit, PerfTypeOK
<1>2. OnlyNamedWait /\ NamedWait
  BY DEF RunInit, PerfInit, OnlyNamedWait, NamedWait, Named
<1>3. LatestOfSwitch /\ NamedSwitch
  BY DEF RunInit, Init, NoSwitch, LatestOfSwitch, NamedSwitch
<1> QED
  BY <1>1, <1>2, <1>3 DEF PerfInv

LEMMA PerfInvStep ==
  ~Preemptible /\ ClockInv /\ WaitInv /\ ProgramsInv /\ PerfInv /\ [RunNext]_runVars => PerfInv'
<1> SUFFICES ASSUME ~Preemptible, ClockInv, WaitInv, ProgramsInv, PerfInv, [RunNext]_runVars
             PROVE  PerfInv'
  OBVIOUS
<1>1. TypeOK /\ RunningOnce /\ SwitchOfRunning /\ QueuedIsRunnable /\ ThreadsAfterExec
  BY DEF ClockInv, WaitInv, ProgramsInv
<1> QED
  BY <1>1, PerfTypeStep, OnlyNamedWaitStep, NamedWaitStep, LatestOfSwitchStep, NamedSwitchStep
  DEF PerfInv

RunInv == ClockInv /\ WaitInv /\ WaitRecorded /\ StampWaits /\ ProgramsInv /\ PerfInv

LEMMA RunInvInit == RunInit => RunInv
  BY ClockInvInit, WaitInvInit, RecordedInit, StampWaitsInit, ProgramsInvInit, PerfInvInit
  DEF RunInit, RunInv

LEMMA RunInvStep == ~Preemptible /\ RunInv /\ [RunNext]_runVars => RunInv'
<1> SUFFICES ASSUME ~Preemptible, RunInv, [RunNext]_runVars PROVE RunInv'
  OBVIOUS
<1>1. [Next]_vars
  BY RunIsNext DEF RunInv, ProgramsInv
<1> QED
  BY <1>1, ClockInvStep, WaitInvStep, WaitRecordedStep, StampWaitsStep, ProgramsInvStep, PerfInvStep
  DEF RunInv, WaitInv

(* What p_lat.py takes for a wait of a task is one, to the resolution of    *)
(* the trace, unless the wait began with the creation of the task           *)
(* (p_lat.py:12-13, 36-64).                                                 *)
THEOREM PerfMeasuresWaits ==
  ASSUME ~Preemptible
  PROVE  RunSpec => []PerfWaits
<1>1. PerfInv => PerfWaits
  <2> SUFFICES ASSUME PerfInv, NEW c \in CPUs,
                      switching[c].active, latest[c] # NoLatency, latest[c].pid \notin fresh
               PROVE  Near(latest[c].latency, switching[c].wait)
    BY DEF PerfWaits
  <2>1. latest[c].pid = switching[c].next /\ switching[c].next \in Named
    BY DEF PerfInv, LatestOfSwitch
  <2> QED
    BY <2>1 DEF PerfInv, NamedSwitch
<1> QED
  BY <1>1, RunInvInit, RunInvStep, PTL DEF RunSpec, RunInv

(* Where the map start has room for every task, both tools know the latency *)
(* of each switch to a thread of the workload, and they agree - whatever    *)
(* the number of CPUs and threads, and however they interleave              *)
(* (sl.bpf.c:114-192, p_lat.py:36-64).                                      *)
THEOREM ToolsAgree ==
  ASSUME ~Preemptible
  PROVE  RunSpec => []SameWaits
<1>1. RunInv => SameWaits
  <2> SUFFICES ASSUME RunInv, StartEntries >= Cardinality(Pids), NEW c \in CPUs,
                      switching[c].active, switching[c].next \in Named \ fresh
               PROVE  /\ switching[c].traced /\ ~Ignored(switching[c])
                      /\ latest[c] # NoLatency
                      /\ Near(latest[c].latency, Latency(switching[c]))
    BY DEF SameWaits
  <2> DEFINE s == switching[c]
  <2>1. s.next \in Group /\ s.next \in Tasks /\ s.next # Idle /\ s.next \notin Kthreads
    BY TasksAssumption, WorkloadAssumption DEF Named, Group
  <2>2. s.whole /\ s.traced /\ Passes(s.filter, Tgid[s.next])
    BY <2>1 DEF RunInv, ProgramsInv, GroupWhole
  <2>3. start[s.next] # Absent
    BY <2>2 DEF RunInv, StampWaits
  <2>4. ~Ignored(s)
    BY <2>1, <2>2, <2>3 DEF Ignored
  <2>5. Latency(s) = s.wait
    BY <2>2, <2>3 DEF RunInv, WaitInv, StampGivesWait, Latency
  <2>6. latest[c] # NoLatency /\ Near(latest[c].latency, s.wait)
    BY DEF RunInv, PerfInv, NamedSwitch
  <2> QED
    BY <2>2, <2>4, <2>5, <2>6
<1> QED
  BY <1>1, RunInvInit, RunInvStep, PTL DEF RunSpec
=============================================================================
