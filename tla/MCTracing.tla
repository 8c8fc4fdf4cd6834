------------------------------ MODULE MCTracing ------------------------------
(* A task of the target's thread group and one of another, on one CPU. *)
EXTENDS Tracing

CONSTANTS mine, other

MCTasks == {mine, other}
MCTgid == [t \in MCTasks |-> IF t = mine THEN 1 ELSE 2]
MCTargets == {0, 1}
Monitor1 == [argc |-> 3, tgid |-> 1, min_us |-> 0, rate |-> 0]
MonitorAll == [argc |-> 4, tgid |-> 0, min_us |-> 1, rate |-> 0]
MCCommandLines == {Monitor1, MonitorAll}
OneCommandLine == {Monitor1}
MCConfigs == {Col!Effective(a).config : a \in MCCommandLines}
=============================================================================
