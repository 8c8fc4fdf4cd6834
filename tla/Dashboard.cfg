SPECIFICATION FairSpec
CONSTANTS
  CmpSlots = {"a"}
  Targets = {1}
  MaxProcs = 2
  MaxRows = 1
  Inputs = {"main", "a"}
  Before = {{"other"}}
  Psutil = FALSE
INVARIANTS
  NoOrphans
  SharedOnlyIfTyped
  HeaderFirst
PROPERTIES
  DeadNoticed
CHECK_DEADLOCK FALSE
