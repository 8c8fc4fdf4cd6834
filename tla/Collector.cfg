SPECIFICATION FairSpec
CONSTANTS
  CommandLines <- MCCommandLines
  Word = 65536
  NsPerUs = 1000
  AllMinUs = 50
  AllRate = 10
  MaxStored = 2
  OverUs = 1
  SlotsOfRing = 1
  SampleEvents <- MCEvents
  MaxHandled = 3
  MaxRuns = 2
INVARIANTS
  EventsAccounted
  BufferWithinWindow
  DamageBounded
  OneHeader
  RowsConsistent
PROPERTIES
  StopCompletes
  BufferDrains
CHECK_DEADLOCK FALSE
