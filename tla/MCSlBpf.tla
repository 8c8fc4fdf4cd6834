------------------------------- MODULE MCSlBpf -------------------------------
(* Two tasks on two CPUs: a user task and a kernel thread of another thread *)
(* group.                                                                   *)
EXTENDS SlBpf, TLC

CONSTANTS user, kthread

MCTasks == {user, kthread}
MCTgid == [t \in MCTasks |-> IF t = user THEN 1 ELSE 2]
MCKthreads == {kthread}
Symmetry == Permutations(CPUs)
MCTargets == {0, 1}
ReportAll == [min_latency_ns |-> 0, sample_rate |-> 1, include_kernel_threads |-> 1]
ReportFew == [min_latency_ns |-> 1, sample_rate |-> 2, include_kernel_threads |-> 0]
OneConfig  == {ReportAll}
TwoConfigs == {ReportAll, ReportFew}

(* A bound for two CPUs: sched_wakeup may fail to attach, sched_wakeup_new  *)
(* only together with sched_switch.  For one CPU there is none.             *)
CreationTraced == "sched_switch" \in attached => "sched_wakeup_new" \in attached
=============================================================================
