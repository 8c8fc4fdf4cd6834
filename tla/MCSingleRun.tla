----------------------------- MODULE MCSingleRun -----------------------------
(* A workload of two threads, main and the one it creates. *)
EXTENDS SingleRun

CONSTANT thread

MCTasks == {Workload, thread}
MCTgid == [t \in MCTasks |-> 1]
=============================================================================
