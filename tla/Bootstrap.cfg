SPECIFICATION Spec
CONSTANTS
  MaxRuns = 2
  MaxCreds = 2
  Callers = {c1, c2}
  Workers = {w1, w2}
  MaxFaults = 1
  None = None
SYMMETRY Symmetry
INVARIANTS
  OneImporter
  ReconnectUsesItsCredentials
CHECK_DEADLOCK FALSE
