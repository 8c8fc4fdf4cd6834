----------------------------- MODULE WaitReports -----------------------------
(***************************************************************************)
(* What the latency tracer promises, without stamps, maps or filters: when *)
(* a task gets a CPU its wait has ended, and that wait is reported at most *)
(* once, with its true length if its beginning was observed.  SlBpf is     *)
(* shown to implement this.                                                *)
(***************************************************************************)
EXTENDS RunQueue, Sequences

VARIABLES
  ended,     \* per CPU: the wait that ended there, until it is reported or not
  reports    \* the reports not read yet

reportVars == <<ended, reports>>
vars == <<kernelVars, reportVars>>

NoWait == [pid |-> Idle]

Init ==
  /\ KernelInit
  /\ ended = [c \in CPUs |-> NoWait]
  /\ reports = << >>

KernelOnly ==
  /\ UNCHANGED reportVars
  /\ \/ Tick
     \/ \E t \in Tasks : Create(t) \/ Awaken(t) \/ AwakenEarly(t)
     \/ \E c \in CPUs : SetState(c)

(* A report is of the wait that ended on the CPU; a wait whose beginning    *)
(* was not observed may be reported too long or too short.                  *)
Reported(c, r) ==
  /\ r.pid = ended[c].pid /\ r.cpu_id = c /\ r.ts_ns = ended[c].at
  /\ IF r.whole THEN r.latency_ns = ended[c].at - ended[c].began
     ELSE r.latency_ns \in 0..r.ts_ns

(* A wait ends on CPU c, which has none to report. *)
EndWait(c) ==
  /\ ended[c] = NoWait
  /\ UNCHANGED reports
  /\ \E next \in Pids : \E fate \in Fates(running[c]) :
       /\ Switch(c, next, fate)
       /\ ended' = [ended EXCEPT ![c] =
            IF next = Idle THEN NoWait ELSE [pid |-> next, began |-> since[next], at |-> now]]

Report(c) ==
  /\ ended[c] # NoWait
  /\ UNCHANGED kernelVars
  /\ ended' = [ended EXCEPT ![c] = NoWait]
  /\ \/ UNCHANGED reports
     \/ /\ Len(reports') = Len(reports) + 1
        /\ reports = SubSeq(reports', 1, Len(reports))
        /\ Reported(c, reports'[Len(reports')])

Read ==
  /\ reports # << >> /\ reports' = Tail(reports)
  /\ UNCHANGED <<kernelVars, ended>>

Next == KernelOnly \/ Read \/ \E c \in CPUs : EndWait(c) \/ Report(c)

Spec == Init /\ [][Next]_vars
=============================================================================
