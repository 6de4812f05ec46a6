SPECIFICATION LiveSpec
CONSTANTS
  MaxRuns = 2
  Callers = {c1}
  Workers = {w1}
  ManualStale = 1
  PendingStale = 1
  RunningStale = 2
  TaskLimit = 1
  Visibility = 2
  MaxLost = 0
  None = None
PROPERTIES
  RunsSettle
