SPECIFICATION Spec
CONSTANTS
  MaxRuns = 2
  Callers = {c1}
  Workers = {w1, w2}
  ManualStale = 1
  PendingStale = 2
  RunningStale = 2
  TaskLimit = 1
  Visibility = 2
  MaxLost = 1
  None = None
SYMMETRY Symmetry
INVARIANTS
  OneWorkerPerRun
