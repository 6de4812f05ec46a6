SPECIFICATION Spec
CONSTANTS
  h1 = h1
  h2 = h2
  None = None
  Checks = {c1, c2}
  Hashes = {h1, h2}
  Ready <- EmptyOrTwo
  MaxReady = 2
  Individual = {c2}
  Previews = {p1, p2}
  Tokens = {t1}
  TTL = 1
  Jobs = {j1}
  Workers = {w1, w2}
  Batch = 1
  Irreversible = {c2}
  MaxRun = 1
  WorkerTimeout = 0
  StaleAfter = 1
SYMMETRY Symmetry
INVARIANTS
  RolledBackIsUndone
  NoUnapprovedExecute
