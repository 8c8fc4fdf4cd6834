SPECIFICATION FairRunSpec
CONSTANTS
  Workload = main
  thread = thread
  CPUs = {c1}
  Idle = idle
  Tasks <- MCTasks
  Tgid <- MCTgid
  Kthreads = {}
  Preemptible = FALSE
  MaxTime = 3
  StartEntries = 3
  RingSlots = 1
  Targets = {1, 65535}
  Configs = {}
  Resolution = 2
  Word = 65536
INVARIANTS
  WorkloadWhole
  PerfWaits
  SameWaits
PROPERTY EndsWithWorkload
CHECK_DEADLOCK FALSE
