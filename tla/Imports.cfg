SPECIFICATION ImportsSpec
CONSTANTS
  Importers = {i1, i2}
  Views <- MCViews
  Answers <- MCAnswers
  Attempts = 2
  MaxImports = 2
  MaxMoves = 2
  MaxFaults = 2
  BatchSize = 2
  ChunkDays = 2
  StatsCap = 2
  SampleCap = 2
  LocationCap = 2
  None = None
CHECK_DEADLOCK FALSE
SYMMETRY Symmetry
INVARIANTS
  OrdersReachTheirBuyer
  UniverseIsItsOwn
  JudgedAreLive
  TokenStaysAlive
  ImportTellsItsGaps
