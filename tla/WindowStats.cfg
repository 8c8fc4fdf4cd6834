SPECIFICATION Spec
CONSTANTS
  Latencies = {1, 2, 3}
  Priorities = {100, 139}
  Thresholds = {1, 2}
  MaxEvents = 4
  MaxSeen = 5
  P95 = 50
  P99 = 75
  Widths = {2, 3, 4}
INVARIANTS
  RowOrdered
  RowOfWindow
  OverAgrees
  SummaryNotAbove
  ChartKeepsSpikes
