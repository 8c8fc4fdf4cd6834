SPECIFICATION Spec
CONSTANTS
  mine = mine
  other = other
  CPUs = {c1}
  Idle = idle
  Tasks <- MCTasks
  Tgid <- MCTgid
  Kthreads = {}
  Preemptible = FALSE
  MaxTime = 1
  StartEntries = 3
  RingSlots = 1
  Targets <- MCTargets
  Configs <- MCConfigs
  CommandLines <- OneCommandLine
  Word = 65536
  NsPerUs = 1
  AllMinUs = 1
  AllRate = 2
  MaxStored = 2
  OverUs = 0
  MaxHandled = 2
INVARIANT OnlyTargetRows
CHECK_DEADLOCK FALSE
