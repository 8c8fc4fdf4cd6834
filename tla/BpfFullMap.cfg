SPECIFICATION Spec
CONSTANTS
  user = user
  kthread = kthread
  CPUs = {c1}
  Idle = idle
  Tasks <- MCTasks
  Tgid <- MCTgid
  Kthreads <- MCKthreads
  Targets <- MCTargets
  Configs <- TwoConfigs
  Preemptible = FALSE
  MaxTime = 2
  StartEntries = 2
  RingSlots = 1
SYMMETRY Symmetry
INVARIANTS
  TypeOK
PROPERTIES
  ReportsWaits
