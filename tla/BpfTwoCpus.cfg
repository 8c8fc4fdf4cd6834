SPECIFICATION Spec
CONSTANTS
  user = user
  kthread = kthread
  CPUs = {c1, c2}
  Idle = idle
  Tasks <- MCTasks
  Tgid <- MCTgid
  Kthreads <- MCKthreads
  Targets <- MCTargets
  Configs <- OneConfig
  Preemptible = FALSE
  MaxTime = 1
  StartEntries = 3
  RingSlots = 2
SYMMETRY Symmetry
CONSTRAINT CreationTraced
INVARIANTS
  NoUnderflow
  LatencyIsWait
  WaitRecorded
  EventsInOrder
PROPERTIES
  NoWaitMissed
  ReportsWaits
