SPECIFICATION FairSpec
CONSTANTS
  MaxThreads = 3
  MaxRounds = 2
  Capacity = 2
INVARIANTS
  TypeOK
  NoLostUpdate
  CompletedClean
  ReadsBack
PROPERTIES
  Completes
  GoesOn
CHECK_DEADLOCK FALSE
