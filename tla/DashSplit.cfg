SPECIFICATION Spec
CONSTANTS
  CmpSlots = {}
  Targets = {1}
  MaxProcs = 2
  MaxRows = 1
  Inputs = {"main"}
  Before = {{}}
  Psutil = TRUE
INVARIANTS
  SplitClean
CHECK_DEADLOCK FALSE
