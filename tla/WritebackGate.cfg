SPECIFICATION Spec
CONSTANTS
  h1 = h1
  h2 = h2
  None = None
  Checks = {c1}
  Hashes = {h1}
  Ready <- OneIntent
  MaxReady = 1
  Individual = {}
  Previews = {p1}
  Tokens = {t1, t2}
  TTL = 1
  Jobs = {j1, j2}
  Workers = {w1, w2}
  Batch = 1
  Irreversible = {}
  MaxRun = 1
  WorkerTimeout = 0
  StaleAfter = 1
SYMMETRY Symmetry
INVARIANTS
  OncePerRun
PROPERTIES
  ImplementsGate
