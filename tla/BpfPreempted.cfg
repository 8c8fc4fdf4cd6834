SPECIFICATION Spec
CONSTANTS
  user = user
  kthread = kthread
  CPUs = {c1}
  Idle = idle
  Tasks <- MCTasks
  Tgid <- MCTgid
  Kthreads <- MCKthreads
  Targets <- MCTargets
  Configs <- OneConfig
  Preemptible = TRUE
  MaxTime = 2
  StartEntries = 3
  RingSlots = 1
SYMMETRY Symmetry
PROPERTY PreemptedRecorded
