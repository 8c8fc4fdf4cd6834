SPECIFICATION Spec
CONSTANTS
  Collectors = {"a", "b"}
  Shown = "a"
  MaxStarts = 3
  MaxWindows = 2
  MaxEvents = 3
  MaxRows = 2
INVARIANTS
  DatasetHeaders
  RowsKept
  DamageOnlyByKills
  NewestShown
CHECK_DEADLOCK FALSE
